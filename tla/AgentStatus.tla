----------------------------- MODULE AgentStatus -----------------------------
(***************************************************************************)
(* What ptyd says an agent is doing (crates/ptyd/src/hooks.rs, the status  *)
(* part of session.rs): a launched Claude's hooks write a file, other      *)
(* agents are read off the screen.  The watcher polls hook file, output    *)
(* count and screen one after the other; another task polls the terminal's *)
(* foreground program; clients learn of a status by a broadcast sent after *)
(* the info lock was let go.                                               *)
(***************************************************************************)
EXTENDS Naturals, FiniteSets

CONSTANTS
    MaxMoves,       \* bound: what the agent and its terminal do
    StartPrompts,   \* whether an agent may ask something before its first turn
    Racing          \* whether a broadcast may come after a later change's, and the
                    \* two tasks' polls of the session overlap

VARIABLES
    launched,   \* the session's kind at its start
    front,      \* the program in front: an agent, or the shell
    kind, status, live,     \* of the session's info
    agent,      \* "fresh", "turn", "asks", "background" or "after"
    everWorked, \* ghost: an agent of this session had a turn
    hook,       \* the hook file
    screen, seq,    \* what the terminal shows, and the output count
    poll,       \* the watcher's step and what it has read
    seen,       \* the watcher's Seen of the session
    fore,       \* poll_foreground's step
    told, sending,  \* the status clients know; broadcasts not sent yet
    usage,      \* the statusline file: its writes so far, its conversation ("" while it is being written)
    usage_seen, conversation,   \* usage_modified and agent_session
    moves

pollVars == <<poll, seen, usage_seen, conversation>>
agentVars == <<front, agent, everWorked, hook, usage, moves>>
infoVars == <<kind, status, live, told, sending>>
agentStatusVars == <<launched, agentVars, screen, seq, pollVars, fore, infoVars>>

Hooked == launched = "claude"
Unseen == [hook |-> "none", seq |-> 0, worked |-> FALSE]
Sleeping == [pc |-> "sleep"]

AgentStatusInit ==
    /\ launched \in {"claude", "codex", "shell"} /\ front = launched /\ kind = launched
    /\ status = "Running" /\ live = TRUE /\ agent = "fresh" /\ everWorked = FALSE /\ hook = "none"
    /\ screen = "blank" /\ seq = 0 /\ poll = Sleeping /\ seen = Unseen
    /\ fore = "sleep" /\ told = "Running" /\ sending = {}
    /\ usage = [n |-> 0, id |-> ""] /\ usage_seen = 0 /\ conversation = "" /\ moves = 0

-----------------------------------------------------------------------------
(* The agent and its terminal                                              *)

HookOf(a) == CASE a = "turn" -> "working" [] a = "asks" -> "input"
               [] a \in {"after", "background"} -> "done" [] OTHER -> hook

Turns(a) ==   \* what may follow in the agent's life
    CASE a = "fresh" -> IF StartPrompts /\ ~Hooked THEN {"turn", "asks"} ELSE {"turn"}
      [] a = "turn" -> {"asks", "after"} \cup (IF Hooked THEN {"background"} ELSE {})
      [] a = "asks" -> IF everWorked THEN {"turn"} ELSE {"turn", "fresh"}
      [] a = "background" -> {"after", "turn"}
      [] a = "after" -> {"turn"}

AgentMoves(a) ==   \* a launched Claude runs the hook first, the screen is drawn after
    /\ live /\ front # "shell" /\ moves < MaxMoves /\ moves' = moves + 1
    /\ a \in Turns(agent) /\ agent' = a /\ everWorked' = (everWorked \/ a = "turn")
    /\ hook' = IF Hooked THEN HookOf(a) ELSE hook
    /\ UNCHANGED <<launched, front, usage, screen, seq, pollVars, fore, infoVars>>

Draws ==
    /\ live /\ screen # agent /\ screen' = agent /\ seq' = seq + 1
    /\ UNCHANGED <<launched, agentVars, pollVars, fore, infoVars>>

StatusLine ==   \* the bridge truncates the file, then writes it
    /\ Hooked /\ live
    /\ \/ /\ usage.id # "" \/ usage.n = 0
          /\ moves < MaxMoves /\ moves' = moves + 1 /\ usage' = [n |-> usage.n + 1, id |-> ""]
       \/ /\ usage.n > 0 /\ usage.id = "" /\ UNCHANGED moves
          /\ \E c \in {"c1", "c2"} : usage' = [n |-> usage.n + 1, id |-> c]
    /\ UNCHANGED <<launched, front, agent, everWorked, hook, screen, seq, pollVars, fore, infoVars>>

ShellRuns ==   \* the user starts an agent in a shell, or it hands the terminal back
    /\ live /\ launched = "shell" /\ moves < MaxMoves /\ moves' = moves + 1
    /\ front' = IF front = "shell" THEN "codex" ELSE "shell"
    /\ agent' = "fresh"
    /\ UNCHANGED <<launched, everWorked, hook, usage, screen, seq, pollVars, fore, infoVars>>

-----------------------------------------------------------------------------
LiveStatuses == {"Running", "Needs", "Done", "Idle", "Watching"}

Tell(s) ==
    IF Racing THEN sending' = sending \cup {s} /\ UNCHANGED told
    ELSE told' = s /\ UNCHANGED sending

set_anyway(s, k) ==   \* is_live not asked again
    IF status = s \/ kind # k THEN UNCHANGED <<status, told, sending>> ELSE status' = s /\ Tell(s)

set_untold(s, k) ==   \* a shell's own status not broadcast
    IF status = s \/ kind # k \/ ~live \/ status \notin LiveStatuses
    THEN UNCHANGED <<status, told, sending>>
    ELSE status' = s /\ IF k = "shell" THEN UNCHANGED <<told, sending>> ELSE Tell(s)

set_live_status(s, k) ==
    IF status = s \/ kind # k \/ ~live \/ status \notin LiveStatuses
    THEN UNCHANGED <<status, told, sending>>
    ELSE status' = s /\ Tell(s)

Broadcast(s) ==
    /\ s \in sending /\ sending' = sending \ {s} /\ told' = s
    /\ UNCHANGED <<launched, agentVars, screen, seq, pollVars, fore, kind, status, live>>

Exits ==
    /\ live /\ live' = FALSE /\ status' = "Exited" /\ Tell("Exited")
    /\ UNCHANGED <<launched, agentVars, screen, seq, pollVars, fore, kind>>

(* poll_foreground: set_kind, then a shell's own status                    *)
ForegroundKind ==
    /\ fore = "sleep" /\ live /\ launched = "shell" /\ (Racing \/ poll.pc = "sleep")
    /\ kind' = front /\ fore' = IF front = "shell" THEN "status" ELSE "sleep"
    /\ UNCHANGED <<launched, agentVars, screen, seq, pollVars, status, live, told, sending>>

ForegroundStatus ==
    /\ fore = "status" /\ fore' = "sleep" /\ set_live_status("Idle", "shell")
    /\ UNCHANGED <<launched, agentVars, screen, seq, pollVars, kind, live>>

-----------------------------------------------------------------------------
(* hooks.rs: the watcher's poll of the session                             *)

WatchTick ==
    /\ poll.pc = "sleep"
    /\ IF live /\ kind # "shell"
       THEN poll' = [pc |-> IF Hooked THEN "modified" ELSE "hook", kind |-> kind] /\ UNCHANGED seen
       ELSE seen' = Unseen /\ seen # Unseen /\ UNCHANGED poll
    /\ UNCHANGED <<launched, agentVars, screen, seq, fore, infoVars, usage_seen, conversation>>

PollModifiedCoarse ==   \* times compared in ticks that two writes share
    /\ poll.pc = "modified" /\ usage_seen' = usage.n
    /\ poll' = [poll EXCEPT !.pc = IF (usage.n + 1) \div 2 # (usage_seen + 1) \div 2 THEN "usage" ELSE "hook"]
    /\ UNCHANGED <<launched, agentVars, screen, seq, fore, infoVars, seen, conversation>>

PollModified ==
    /\ poll.pc = "modified" /\ usage_seen' = usage.n
    /\ poll' = [poll EXCEPT !.pc = IF usage.n # usage_seen THEN "usage" ELSE "hook"]
    /\ UNCHANGED <<launched, agentVars, screen, seq, fore, infoVars, seen, conversation>>

PollUsage ==   \* an unreadable statusline leaves the conversation
    /\ poll.pc = "usage" /\ poll' = [poll EXCEPT !.pc = "hook"]
    /\ conversation' = IF usage.id = "" THEN conversation ELSE usage.id
    /\ UNCHANGED <<launched, agentVars, screen, seq, fore, infoVars, seen, usage_seen>>

PollHook ==
    /\ poll.pc = "hook"
    /\ poll' = [pc |-> "seq", kind |-> poll.kind, hook |-> IF Hooked THEN hook ELSE "none"]
    /\ UNCHANGED <<launched, agentVars, screen, seq, fore, infoVars, seen, usage_seen, conversation>>

ScreenMatters == poll.hook \notin {"input", "working"}
Unchanged == poll.hook = seen.hook /\ (seq = seen.seq \/ ~ScreenMatters)

PollSeqHooked ==   \* only the hook file compared
    /\ poll.pc = "seq"
    /\ IF poll.hook = seen.hook /\ Hooked THEN poll' = Sleeping /\ UNCHANGED seen
       ELSE /\ seen' = [seen EXCEPT !.hook = poll.hook, !.seq = seq]
            /\ poll' = [poll EXCEPT !.pc = "screen"]
    /\ UNCHANGED <<launched, agentVars, screen, seq, fore, infoVars, usage_seen, conversation>>

PollSeq ==
    /\ poll.pc = "seq"
    /\ IF Unchanged THEN poll' = Sleeping /\ UNCHANGED seen
       ELSE /\ seen' = [seen EXCEPT !.hook = poll.hook, !.seq = seq]
            /\ poll' = [poll EXCEPT !.pc = "screen"]
    /\ UNCHANGED <<launched, agentVars, screen, seq, fore, infoVars, usage_seen, conversation>>

agent_state ==
    CASE poll.hook = "input" -> "Input" [] poll.hook = "working" -> "Running"
      [] Hooked /\ ScreenMatters -> IF screen = "background" THEN "Watching" ELSE "Idle"
      [] OTHER -> CASE screen = "asks" -> "Input" [] screen = "turn" -> "Running" [] OTHER -> "Idle"

finishedQuietly(state) == state = "Idle"
finished(state) == IF Hooked THEN poll.hook = "done" ELSE seen.worked /\ state = "Idle"

agent_status(state) ==
    CASE state = "Input" -> "Needs" [] state = "Running" -> "Running" [] state = "Watching" -> "Watching"
      [] OTHER -> IF finished(state) \/ status = "Done" THEN "Done" ELSE "Idle"

PollScreen ==
    /\ poll.pc = "screen"
    /\ poll' = [pc |-> "set", kind |-> poll.kind, status |-> agent_status(agent_state)]
    /\ seen' = IF Hooked THEN seen ELSE [seen EXCEPT !.worked = agent_state \in {"Running", "Input"}]
    /\ UNCHANGED <<launched, agentVars, screen, seq, fore, infoVars, usage_seen, conversation>>

PollSets ==   \* the info was let go since its status was read
    /\ poll.pc = "set" /\ poll' = Sleeping /\ set_live_status(poll.status, poll.kind)
    /\ UNCHANGED <<launched, agentVars, screen, seq, fore, kind, live, seen, usage_seen, conversation>>

-----------------------------------------------------------------------------
Watch == WatchTick \/ PollModified \/ PollUsage \/ PollHook \/ PollSeq \/ PollScreen \/ PollSets
Foreground == ForegroundKind \/ ForegroundStatus

AgentStatusNext ==
    \/ (\E a \in {"fresh", "turn", "asks", "background", "after"} : AgentMoves(a))
    \/ Draws \/ StatusLine \/ ShellRuns \/ Exits \/ Watch \/ Foreground
    \/ \E s \in sending : Broadcast(s)

(* Both tasks poll on a timer, terminals draw what programs show, and a    *)
(* statusline that was begun is written.                                   *)
AgentStatusFairness ==
    /\ WF_agentStatusVars(Watch) /\ SF_agentStatusVars(Foreground) /\ WF_agentStatusVars(Draws)
    /\ WF_agentStatusVars(usage.n > 0 /\ usage.id = "" /\ StatusLine)
    /\ WF_agentStatusVars(\E s \in sending : Broadcast(s))
AgentStatusSpec == AgentStatusInit /\ [][AgentStatusNext]_agentStatusVars /\ AgentStatusFairness

(* A status is what the agent does: of an agent without hooks a turn that  *)
(* fell between two polls leaves no trace.                                 *)
Expected ==
    CASE ~live -> {"Exited"}
      [] front = "shell" -> {"Idle"}
      [] agent = "asks" -> {"Needs"} [] agent = "turn" -> {"Running"} [] agent = "background" -> {"Watching"}
      [] agent = "after" -> IF Hooked THEN {"Done"} ELSE {"Done", "Idle"}
      [] OTHER -> IF Hooked THEN {"Idle"} ELSE {"Done", "Idle"}

(* Once agent and terminal rest, the session's status and its conversation *)
(* come to what the agent last reported or drew, whatever the watcher read *)
(* in between, and clients know the status.                                *)
StatusSettles == <>[](status \in Expected)
ConversationSettles == <>[](~live \/ usage.n = 0 \/ conversation = usage.id)
ClientsAgree == <>[](told = status)

(* "a session that never worked is Idle": Done only after a turn.          *)
DoneWasWork == status = "Done" => everWorked

(* An exit is not overwritten by a late status, and a status belongs to    *)
(* the kind the session is.                                                *)
AgentStatusTypeOK ==
    /\ status \in LiveStatuses \cup {"Exited"} /\ (~live => status = "Exited")
    /\ kind \in {"claude", "codex", "shell"} /\ (launched # "shell" => kind = launched)
    /\ moves \in 0..MaxMoves /\ seen.seq <= seq
=============================================================================
