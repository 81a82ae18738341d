------------------------------ MODULE LogView ------------------------------
(***************************************************************************)
(* What a chat window is promised: a view starts at an entry it asks for   *)
(* and goes on entry by entry, in the order of the log, without a gap or a *)
(* repeat, over reloads and lost connections.  An abstract specification   *)
(* of commands/chat.rs, of no code of its own.                             *)
(***************************************************************************)
EXTENDS Naturals

CONSTANTS
    Views,      \* the channels
    Longest     \* bound: the entries of the log

VARIABLES
    log,        \* entries the chat has
    seeing,     \* views that are open
    shown       \* entries each view has got, those before its start included

logVars == <<log, seeing, shown>>

LogInit == log = 0 /\ seeing = {} /\ shown = [v \in Views |-> 0]

Append == log < Longest /\ log' = log + 1 /\ UNCHANGED <<seeing, shown>>

Open(v, from) ==
    /\ v \notin seeing /\ from <= log
    /\ seeing' = seeing \cup {v} /\ shown' = [shown EXCEPT ![v] = from]
    /\ UNCHANGED log

(* Views get the entry that is the next of each of them; others, found     *)
(* gone, leave.  Leave: a view whose window left or whose chat is gone.    *)
Show(vs, n) ==
    /\ n < log /\ \A v \in vs : shown[v] = n
    /\ shown' = [v \in Views |-> IF v \in vs THEN n + 1 ELSE shown[v]]
    /\ seeing' \in SUBSET seeing /\ vs \subseteq seeing'
    /\ UNCHANGED log

Leave == seeing' \in SUBSET seeing /\ UNCHANGED <<log, shown>>

LogNext ==
    \/ Append \/ Leave
    \/ \E v \in Views, from \in 0 .. Longest : Open(v, from)
    \/ \E vs \in SUBSET Views, n \in 0 .. Longest : Show(vs, n)

LogSpec == LogInit /\ [][LogNext]_logVars
=============================================================================
