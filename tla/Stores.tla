------------------------------- MODULE Stores --------------------------------
(***************************************************************************)
(* The JSON files several callers load, change and write back: settings    *)
(* (settings::update), secrets (secrets.rs), the closed sessions           *)
(* (history.rs) and the dictations (voice.rs).  Blocking commands run on   *)
(* threads of their own and nothing locks a file; settings, secrets and    *)
(* sessions are written aside under one fixed name and renamed, dictations *)
(* in place.  A store's contents are the set of its keys.                  *)
(***************************************************************************)
EXTENDS Naturals, FiniteSets

CONSTANTS
    Names,      \* the stores, among "settings", "secrets", "sessions", "dictations"
    Callers,    \* the commands that may run at once
    Keys,       \* patched settings, accounts, closed sessions, dictations
    MaxOps,     \* bound: updates begun
    Serial      \* whether a store's updates come one after the other

Torn == {"torn"}    \* a file cut off in the middle of its writing
NoFile == {"none"}

VARIABLES
    disk, aside,    \* what the file, and the one written aside, hold
    doing,          \* each caller: its store, where it is, what it will write and into which file
    acked,          \* ghost: the keys as the updates that succeeded left them
    ops

storeVars == <<disk, aside, doing, acked, ops>>

Idle == [at |-> "idle", store |-> "settings", key |-> {}, put |-> FALSE, data |-> {}, into |-> "aside"]
InPlace == {"dictations"}

StoresInit ==
    /\ disk = [s \in Names |-> {}] /\ aside = [s \in Names |-> NoFile]
    /\ doing = [c \in Callers |-> Idle] /\ acked = [s \in Names |-> {}] /\ ops = 0

(* A file that is missing or does not parse reads as the default           *)
load(s) == IF disk[s] = Torn THEN {} ELSE disk[s]

Busy(s) == \E c \in Callers : doing[c].at # "idle" /\ doing[c].store = s

LoadUnmerged(c, s, k, put) ==
    /\ doing[c].at = "idle" /\ ops < MaxOps /\ ops' = ops + 1
    /\ ~(Serial /\ Busy(s)) /\ (s = "sessions" => ~put) /\ (s = "settings" => put)
    /\ doing' = [doing EXCEPT ![c] = [at |-> "loaded", store |-> s, key |-> {k}, put |-> put,
                   into |-> "aside", data |-> IF put THEN {k} ELSE load(s) \ {k}]]
    /\ UNCHANGED <<disk, aside, acked>>

(* The read and the change: update's merge, set_account, delete_account,   *)
(* forget_session, record_dictation, forget_dictation                      *)
Load(c, s, k, put) ==
    /\ doing[c].at = "idle" /\ ops < MaxOps /\ ops' = ops + 1
    /\ ~(Serial /\ Busy(s))
    /\ s = "sessions" => ~put
    /\ s = "settings" => put
    /\ s = "secrets" /\ ~put => k \in load(s)
    /\ doing' = [doing EXCEPT ![c] = [at |-> "loaded", store |-> s, key |-> {k}, put |-> put, into |-> "aside",
                   data |-> IF put THEN load(s) \cup {k} ELSE load(s) \ {k}]]
    /\ UNCHANGED <<disk, aside, acked>>

OpenInPlace(c) ==
    /\ doing[c].at = "loaded"
    /\ disk' = [disk EXCEPT ![doing[c].store] = Torn]
    /\ doing' = [doing EXCEPT ![c].at = "open", ![c].into = "file"]
    /\ UNCHANGED <<aside, acked, ops>>

Acked(d) ==
    acked' = [acked EXCEPT ![d.store] = IF d.put THEN @ \cup d.key ELSE @ \ d.key]

(* The file to write is made or truncated; secrets.json.tmp is removed     *)
(* first, so another caller writes on into a file that has no name         *)
Open(c) ==
    LET s == doing[c].store IN
    /\ doing[c].at = "loaded"
    /\ IF s \in InPlace
       THEN disk' = [disk EXCEPT ![s] = Torn] /\ UNCHANGED aside
       ELSE aside' = [aside EXCEPT ![s] = Torn] /\ UNCHANGED disk
    /\ doing' = [d \in Callers |->
         IF d = c THEN [doing[c] EXCEPT !.at = "open", !.into = IF s \in InPlace THEN "file" ELSE "aside"]
         ELSE IF s = "secrets" /\ doing[d].store = s /\ doing[d].at = "open" /\ doing[d].into = "aside"
         THEN [doing[d] EXCEPT !.into = "nowhere"] ELSE doing[d]]
    /\ UNCHANGED <<acked, ops>>

Write(c) ==
    LET s == doing[c].store IN
    /\ doing[c].at = "open"
    /\ disk' = IF doing[c].into = "file" THEN [disk EXCEPT ![s] = doing[c].data] ELSE disk
    /\ aside' = IF doing[c].into = "aside" THEN [aside EXCEPT ![s] = doing[c].data] ELSE aside
    /\ IF s \in InPlace
       THEN doing' = [doing EXCEPT ![c] = Idle] /\ Acked(doing[c])
       ELSE doing' = [doing EXCEPT ![c].at = "written"] /\ UNCHANGED acked
    /\ UNCHANGED ops

(* A caller that had the renamed file open goes on writing into it         *)
Rename(c) ==
    LET s == doing[c].store IN
    /\ doing[c].at = "written"
    /\ IF aside[s] = NoFile
       THEN doing' = [doing EXCEPT ![c] = Idle] /\ UNCHANGED <<disk, aside, acked>>
       ELSE /\ disk' = [disk EXCEPT ![s] = aside[s]] /\ aside' = [aside EXCEPT ![s] = NoFile]
            /\ Acked(doing[c])
            /\ doing' = [d \in Callers |->
                 IF d = c THEN Idle
                 ELSE IF doing[d].store = s /\ doing[d].at = "open" /\ doing[d].into = "aside"
                 THEN [doing[d] EXCEPT !.into = "file"] ELSE doing[d]]
    /\ UNCHANGED ops

(* record_session: one line, appended by the app or by ptyd                *)
Append(k) ==
    /\ "sessions" \in Names /\ ops < MaxOps /\ ops' = ops + 1
    /\ ~(Serial /\ Busy("sessions"))
    /\ disk' = [disk EXCEPT !["sessions"] = load("sessions") \cup {k}]
    /\ acked' = [acked EXCEPT !["sessions"] = @ \cup {k}]
    /\ UNCHANGED <<aside, doing>>

(* The app is killed: what is written so far stays                         *)
Killed ==
    /\ doing # [c \in Callers |-> Idle] /\ doing' = [c \in Callers |-> Idle]
    /\ UNCHANGED <<disk, aside, acked, ops>>

StoresNext ==
    \/ (\E c \in Callers : Open(c) \/ Write(c) \/ Rename(c)
          \/ \E s \in Names, k \in Keys, put \in BOOLEAN : Load(c, s, k, put))
    \/ (\E k \in Keys : Append(k)) \/ Killed

-----------------------------------------------------------------------------
(* settings::update saves atomically, secrets.json is renamed over the old *)
(* file, and a crash never leaves half the history (history.rs): a file    *)
(* that is renamed into place is whole at every moment.                    *)
StoreWhole == \A s \in Names \ InPlace : disk[s] # Torn

(* What a command reported as saved stays saved, also when the app is      *)
(* killed in the middle of the next update: the file holds exactly what    *)
(* the successful updates left (settings::update, set_account,             *)
(* forget_session, record_session).                                        *)
SavedStays == \A s \in Names \ InPlace : disk[s] = acked[s]
=============================================================================
