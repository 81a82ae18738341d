-------------------------------- MODULE Chat --------------------------------
(***************************************************************************)
(* One chat of ptyd (crates/ptyd/src/chat): the agent's adapter it runs,   *)
(* the log it keeps, the permission cards, its status and its files, over  *)
(* crashes and restarts of the daemon.                                     *)
(*                                                                         *)
(* A task is a tokio task of one request: ChatCreate's own start, a        *)
(* ChatPrompt or a ChatSetOption.  Steps are what runs between two awaits. *)
(* Racing lets other threads in between the lock sections of one handler   *)
(* as well, and lets a request of the agent cross a cancel on the pipe.    *)
(***************************************************************************)
EXTENDS Naturals, FiniteSets, Sequences

CONSTANTS
    Prompts,     \* the ChatPrompt tasks
    Setters,     \* the ChatSetOption tasks
    MaxAsks,     \* bound: permission requests in one life
    MaxLives,    \* bound: daemons
    MaxSeq,      \* bound: the seqs from here on are not told apart
    LogLimit,    \* LOG_LIMIT
    Racing       \* whether handlers overlap at their unlocked points

VARIABLES
    chatUp,     \* the daemon runs; number of the life
    chat,       \* struct Chat and its State; of a daemon that is down, what its log file holds
    gen,        \* Generations of the chat: the latest token
    tasks,      \* the tasks: where each is and the token of its agent
    agents,     \* the drivers by token
    saves,      \* infos past changed()'s look at closed and not yet written
    saved,      \* <id>.json
    seen        \* the highest seq a client was ever sent, plus one

chatVars == <<chatUp, chat, gen, tasks, agents, saves, saved, seen>>

Tasks == Prompts \cup Setters \cup {"create"}
MaxStarts == Cardinality(Tasks) + 2   \* a task starts one agent at most; Close and Stop take a token
Tokens == 1 .. MaxStarts
Statuses == {"starting", "idle", "running", "needs", "disconnected"}
Titles == {"none", "agent", "model"}

(* What of the info a load uses; its status becomes Disconnected there     *)
Info(c) == [session |-> c.session, title |-> c.title, seq |-> c.seq]
NoInfo == [session |-> FALSE, title |-> "none", seq |-> MaxSeq + 1]

NewChat(resume) ==
    [listed |-> TRUE, closed |-> FALSE, live |-> 0, status |-> "starting",
     session |-> resume, title |-> "none", titling |-> FALSE, titler |-> FALSE,
     asks |-> {}, nextAsk |-> 1, cards |-> {}, seq |-> 0, users |-> {},
     replaying |-> FALSE, hist |-> IF resume THEN "no" ELSE "all",
     stopping |-> FALSE]

NoChat == [NewChat(FALSE) EXCEPT !.listed = FALSE]

NoAgent == [st |-> "none", ready |-> FALSE, cancelled |-> FALSE]
NoTask == [at |-> "idle", tok |-> 0]

(* Emitting an event moves the status along, gives the event the next seq  *)
(* and appends it to the log, of which the newest LogLimit are kept.       *)
StatusAfter(c, ev) ==
    CASE ev = "permission" -> "needs"
      [] ev = "settled" /\ c.asks # {} -> "needs"
      [] ev = "settled" /\ c.asks = {} /\ c.status = "needs" -> "running"
      [] ev = "start" -> "running"
      [] ev = "end" /\ c.status # "disconnected" -> "idle"
      [] ev = "disconnected" -> "disconnected"
      [] OTHER -> c.status

Later(c, n) == IF c.seq + n < MaxSeq THEN c.seq + n ELSE MaxSeq

EmitUntrimmed(c, ev) ==
    [c EXCEPT !.status = StatusAfter(c, ev), !.seq = Later(c, 1),
              !.users = IF ev = "user" THEN @ \cup {c.seq} ELSE @,
              !.cards = IF ev = "disconnected" THEN {} ELSE @]

emit(c, ev) ==
    [c EXCEPT !.status = StatusAfter(c, ev), !.seq = Later(c, 1),
              !.users = {n \in IF ev = "user" THEN @ \cup {c.seq} ELSE @ :
                            n + LogLimit > c.seq},
              !.cards = IF ev = "disconnected" THEN {} ELSE @]

settle(c, a) ==
    emit([c EXCEPT !.asks = @ \ {a}, !.cards = @ \ {a}], "settled")

(* settle_all: the requests one after the other, which only moves the seq  *)
settle_all(c) ==
    IF c.asks = {} THEN c
    ELSE LET last == CHOOSE a \in c.asks : TRUE
             rest == c.asks \ {last}
             most == [c EXCEPT !.asks = {last}, !.cards = @ \ rest,
                               !.seq = Later(c, Cardinality(rest)),
                               !.status = IF rest = {} THEN @ ELSE "needs"]
         IN  settle(most, last)

has_user_message(c) == c.users # {}

ChangedAlways(c) == saved' = Info(c) /\ UNCHANGED saves

(* changed(): unless the chat is closed, the info is saved and broadcast;  *)
(* the look at closed and the write are two steps when handlers overlap.   *)
Changed(c) ==
    IF c.closed \/ ~Racing
    THEN /\ saved' = IF c.closed THEN saved ELSE Info(c)
         /\ UNCHANGED saves
    ELSE /\ saves = {}   \* bound: one write is under way
         /\ saves' = {Info(c)} /\ UNCHANGED saved

(* The chat becomes c: viewers got its new entries under the lock, and a   *)
(* change of more than the seq is saved.                                   *)
Becomes(c) ==
    /\ chat' = c
    /\ seen' = IF c.closed \/ c.seq < seen THEN seen ELSE c.seq
    /\ IF <<c.status, c.session, c.title>> # <<chat.status, chat.session, chat.title>>
       THEN Changed(c)
       ELSE UNCHANGED <<saves, saved>>

is_current(tok) == tok = gen

At(k, step) == tasks[k].at = step
Connecting == {k \in Tasks : tasks[k].at \in {"checked", "connecting", "adopting"}}
Goto(k, step, tok) == tasks' = [tasks EXCEPT ![k] = [at |-> step, tok |-> tok]]
Turns(tok) == {k \in Prompts : At(k, "turn") /\ tasks[k].tok = tok}
Serving == chatUp > 0 /\ chat.listed

-----------------------------------------------------------------------------
ChatInit ==
    /\ chatUp = 1 /\ chat = NoChat /\ gen = 0
    /\ tasks = [k \in Tasks |-> NoTask]
    /\ agents = [t \in Tokens |-> NoAgent]
    /\ saves = {} /\ saved = NoInfo /\ seen = 0

(* ChatCreate: the chat is registered and saved, its agent started at once *)
Create(resume) ==
    /\ chatUp > 0 /\ chat = NoChat /\ At("create", "idle")
    /\ chat' = NewChat(resume)
    /\ saved' = Info(NewChat(resume))
    /\ Goto("create", "queued", 0)
    /\ UNCHANGED <<chatUp, gen, agents, saves, seen>>

(* ChatPrompt and ChatSetOption: a task that first needs the connection    *)
Request(k) ==
    /\ Serving /\ k # "create" /\ At(k, "idle")
    /\ Goto(k, "queued", 0)
    /\ UNCHANGED <<chatUp, chat, gen, agents, saves, saved, seen>>

(* A task with its connection: a setter asks the agent, a prompt starts    *)
(* its turn and, with the chat's first words, a name for it.               *)
Connected(k, tok, c) ==
    LET named == /\ c.title = "none" /\ ~has_user_message(c) /\ ~c.titling
        begun == [c EXCEPT !.titling = @ \/ named, !.titler = @ \/ named]
    IN  IF k \in Prompts
        THEN /\ Goto(k, "turn", tok)
             /\ Becomes(emit(emit(begun, "start"), "user"))
        ELSE /\ IF k = "create" THEN Goto(k, "done", 0) ELSE Goto(k, "setting", tok)
             /\ Becomes(c)

ConnectionUnlocked(k) ==
    /\ chatUp > 0 /\ At(k, "queued")
    /\ IF chat.closed THEN Goto(k, "done", 0)
       ELSE Goto(k, "checked", 0)
    /\ UNCHANGED <<chatUp, gen, agents, chat, saves, saved, seen>>

(* connection(): behind the starting lock, what there is already           *)
ConnectionCheck(k) ==
    /\ chatUp > 0 /\ At(k, "queued") /\ Connecting = {}
    /\ UNCHANGED <<chatUp, gen, agents>>
    /\ \/ /\ chat.closed
          /\ Goto(k, "done", 0) /\ UNCHANGED <<chat, saves, saved, seen>>
       \/ /\ ~chat.closed /\ chat.live # 0
          /\ Connected(k, chat.live, chat)
       \/ /\ ~chat.closed /\ chat.live = 0
          /\ Goto(k, "checked", 0) /\ UNCHANGED <<chat, saves, saved, seen>>

(* Starting, a new token and connect(): the adapter's process, or none     *)
(* when the folder is gone.                                                *)
ConnectionStart(k) ==
    /\ chatUp > 0 /\ At(k, "checked")
    /\ Becomes([chat EXCEPT !.status = "starting"])
    /\ gen' = gen + 1
    /\ Goto(k, "connecting", gen + 1)
    /\ \E st \in {"starting", "none"} :
         agents' = [agents EXCEPT ![gen + 1] = [NoAgent EXCEPT !.st = st]]
    /\ UNCHANGED chatUp

(* handshake(): session/load of a known conversation; what it replays is   *)
(* left out of a log that is not empty.                                    *)
LoadSession(t) ==
    /\ chatUp > 0 /\ agents[t].st = "starting" /\ chat.session
    /\ agents' = [agents EXCEPT ![t].st = "loading"]
    /\ chat' = [chat EXCEPT !.replaying = chat.seq > 0]
    /\ UNCHANGED <<chatUp, gen, tasks, saves, saved, seen>>

Replay(t) ==
    /\ chatUp > 0 /\ agents[t].st = "loading" /\ is_current(t)
    /\ ~chat.replaying
    /\ Becomes([emit(chat, "user") EXCEPT !.hist = "part"])
    /\ UNCHANGED <<chatUp, gen, tasks, agents>>

(* The session is there (loaded, or new because there was none or the      *)
(* agent lost it): its options are logged and the connection handed over,  *)
(* unless a newer start or a close superseded this one.                    *)
HandshakeDone(t) ==
    /\ chatUp > 0 /\ agents[t].st \in {"starting", "loading"}
    /\ LET loaded == [chat EXCEPT !.replaying = @ /\ agents[t].st # "loading",
                        !.hist = IF agents[t].st = "loading" /\ chat.replaying
                                 THEN @ ELSE "all"]
       IN  IF is_current(t)
           THEN /\ agents' = [agents EXCEPT ![t].st = "up", ![t].ready = TRUE]
                /\ Becomes(emit(loaded, "options"))
           ELSE /\ agents' = [agents EXCEPT ![t].st = "dying"]
                /\ Becomes(loaded)
    /\ UNCHANGED <<chatUp, gen, tasks>>

(* The agent's process ends, its connection breaks, the handshake fails or *)
(* the agent is silent for CONNECT_TIMEOUT: the driver is left.  Silence   *)
(* drops the handshake where it stands, replaying included.                *)
AgentFails(t) ==
    /\ chatUp > 0 /\ agents[t].st \in {"starting", "loading", "up"}
    /\ agents' = [agents EXCEPT ![t].st = "dying", ![t].cancelled = FALSE]
    /\ chat' \in {chat, [chat EXCEPT !.replaying = @ /\ agents[t].st # "loading"]}
    /\ UNCHANGED <<chatUp, gen, tasks, saves, saved, seen>>

EndedUnsettled(t) ==
    /\ chatUp > 0 /\ agents[t].st = "dying" /\ ~agents[t].ready
    /\ agents' = [agents EXCEPT ![t] = NoAgent]
    /\ IF chat.live = t THEN Becomes(emit([chat EXCEPT !.live = 0], "disconnected"))
       ELSE UNCHANGED <<chat, saves, saved, seen>>
    /\ UNCHANGED <<chatUp, gen, tasks>>

EndedAnyToken(t) ==
    /\ chatUp > 0 /\ agents[t].st = "dying" /\ ~agents[t].ready
    /\ \A k \in Tasks : tasks[k] # [at |-> "adopting", tok |-> t]
    /\ agents' = [agents EXCEPT ![t] = NoAgent]
    /\ Becomes(emit(settle_all(chat), "disconnected"))
    /\ UNCHANGED <<chatUp, gen, tasks>>

(* The driver waits for the process (SIGTERM, SIGKILL after KILL_AFTER),   *)
(* reports, and ended() takes the connection away and settles its cards.   *)
(* By then the task the connection was handed to has long taken it.        *)
Ended(t) ==
    /\ chatUp > 0 /\ agents[t].st = "dying"
    /\ \/ Racing
       \/ ~agents[t].ready /\ \A k \in Tasks : tasks[k] # [at |-> "adopting", tok |-> t]
    /\ agents' = [agents EXCEPT ![t] = [NoAgent EXCEPT !.ready = agents[t].ready]]
    /\ IF chat.live = t
       THEN Becomes(emit(settle_all([chat EXCEPT !.live = 0]), "disconnected"))
       ELSE UNCHANGED <<chat, saves, saved, seen>>
    /\ UNCHANGED <<chatUp, gen, tasks>>

(* connection() goes on with what connect() gave                           *)
AdoptCheck(k) ==
    /\ chatUp > 0 /\ At(k, "connecting") /\ agents[tasks[k].tok].ready
    /\ LET t == tasks[k].tok IN
       IF is_current(t)
       THEN /\ Goto(k, "adopting", t)
            /\ agents' = [agents EXCEPT ![t].ready = FALSE]
       ELSE /\ Goto(k, "done", 0)
            /\ agents' = [agents EXCEPT ![t].ready = FALSE,
                                        ![t].st = IF @ = "up" THEN "dying" ELSE @]
    /\ UNCHANGED <<chatUp, chat, gen, saves, saved, seen>>

Adopt(k) ==
    /\ chatUp > 0 /\ At(k, "adopting")
    /\ LET t == tasks[k].tok IN
       Connected(k, t, [chat EXCEPT !.live = t, !.session = TRUE, !.status = "idle"])
    /\ UNCHANGED <<chatUp, gen, agents>>

ConnectionRetries(k) ==
    /\ chatUp > 0 /\ At(k, "connecting") /\ agents[tasks[k].tok] = NoAgent
    /\ agents' = [agents EXCEPT ![tasks[k].tok].st = "starting"]
    /\ UNCHANGED <<chatUp, chat, gen, tasks, saves, saved, seen>>

ConnectionFails(k) ==
    /\ chatUp > 0 /\ At(k, "connecting")
    /\ LET t == tasks[k].tok IN
       /\ agents[t] = NoAgent
       /\ IF is_current(t)
          THEN Becomes(emit(settle_all(chat), "disconnected"))
          ELSE UNCHANGED <<chat, saves, saved, seen>>
       /\ Goto(k, "done", 0)
    /\ UNCHANGED <<chatUp, gen, agents>>

-----------------------------------------------------------------------------
(* from_session_update: what the log gets of what the agent says           *)
session_updates == {"chunk", "title"}

(* on_update: what the agent says, ignored from one that is not current;   *)
(* chunks, not titles, are left out while replaying.                       *)
Update(t, ev) ==
    /\ chatUp > 0 /\ agents[t].st = "up" /\ Turns(t) # {}
    /\ is_current(t)
    /\ Becomes(IF ev = "title" THEN [emit(chat, ev) EXCEPT !.title = "agent"]
               ELSE IF chat.replaying THEN chat ELSE emit(chat, ev))
    /\ UNCHANGED <<chatUp, gen, tasks, agents>>

(* on_permission: a card, unless the agent is not current (answered as     *)
(* cancelled at once) or the request has no option to pick.                *)
Ask(t, choosable) ==
    /\ chatUp > 0 /\ agents[t].st = "up" /\ Turns(t) # {}
    /\ agents[t].cancelled => Racing
    /\ is_current(t) /\ chat.nextAsk <= MaxAsks
    /\ LET a == chat.nextAsk
           c == [chat EXCEPT !.nextAsk = @ + 1] IN
       Becomes(IF choosable
               THEN emit([c EXCEPT !.asks = @ \cup {a}, !.cards = @ \cup {a}], "permission")
               ELSE c)
    /\ UNCHANGED <<chatUp, gen, tasks, agents>>

Answer(a) ==
    /\ Serving /\ a \in chat.asks
    /\ Becomes(settle(chat, a))
    /\ UNCHANGED <<chatUp, gen, tasks, agents>>

Cancel ==
    /\ Serving
    /\ chat.live # 0 /\ Turns(chat.live) # {}
    /\ agents' = [agents EXCEPT ![chat.live].cancelled = TRUE]
    /\ Becomes(settle_all(chat))
    /\ UNCHANGED <<chatUp, gen, tasks>>

(* The agent answers session/prompt.  It waits for the cards of its turn,  *)
(* unless it was told to cancel it.                                        *)
TurnEnds(k) ==
    /\ chatUp > 0 /\ At(k, "turn")
    /\ LET t == tasks[k].tok IN
       /\ agents[t].st = "up"
       /\ chat.asks = {} \/ agents[t].cancelled \/ Turns(t) # {k}
       /\ agents' = [agents EXCEPT ![t].cancelled = @ /\ Turns(t) # {k}]
    /\ Goto(k, "done", 0)
    /\ Becomes(emit(chat, "end"))
    /\ UNCHANGED <<chatUp, gen>>

(* The call fails with its connection: an Error and a cancelled turn       *)
TurnFails(k) ==
    /\ chatUp > 0 /\ At(k, "turn") /\ agents[tasks[k].tok].st \in {"dying", "none"}
    /\ Goto(k, "done", 0)
    /\ Becomes(emit(emit(chat, "error"), "end"))
    /\ UNCHANGED <<chatUp, gen, agents>>

(* set_option: the options the agent answered with, or its error           *)
OptionSet(k) ==
    /\ chatUp > 0 /\ At(k, "setting")
    /\ Goto(k, "done", 0)
    /\ \/ agents[tasks[k].tok].st = "up" /\ Becomes(emit(chat, "options"))
       \/ UNCHANGED <<chat, saves, saved, seen>>
    /\ UNCHANGED <<chatUp, gen, agents>>

TitleDoneAnyway ==
    /\ chatUp > 0 /\ chat.titler
    /\ Becomes([emit([chat EXCEPT !.titler = FALSE], "title") EXCEPT !.title = "model"])
    /\ UNCHANGED <<chatUp, gen, tasks, agents>>

(* title::name: the model's name for the chat, unless it has one           *)
TitleDone ==
    /\ chatUp > 0 /\ chat.titler
    /\ LET c == [chat EXCEPT !.titler = FALSE] IN
       \/ chat.title = "none" /\ Becomes([emit(c, "title") EXCEPT !.title = "model"])
       \/ Becomes(c)
    /\ UNCHANGED <<chatUp, gen, tasks, agents>>

(* changed()'s second half                                                 *)
Save(info) ==
    /\ chatUp > 0 /\ info \in saves
    /\ saves' = saves \ {info} /\ saved' = info
    /\ UNCHANGED <<chatUp, chat, gen, tasks, agents, seen>>

CloseKeepsAgent ==
    /\ Serving /\ \A k \in Tasks : tasks[k].at \notin {"checked", "adopting"}
    /\ gen' = gen + 1
    /\ chat' = [chat EXCEPT !.listed = FALSE, !.closed = TRUE, !.live = 0, !.asks = {}]
    /\ saved' = NoInfo
    /\ UNCHANGED <<chatUp, tasks, agents, saves, seen>>

(* ChatClose: forgotten, superseded, its agent stopped, its files removed  *)
Close ==
    /\ Serving
    /\ Racing \/ \A k \in Tasks : tasks[k].at \notin {"checked", "adopting"}
    /\ gen' = gen + 1
    /\ chat' = [chat EXCEPT !.listed = FALSE, !.closed = TRUE, !.live = 0,
                            !.asks = {}]
    /\ agents' = [t \in Tokens |->
         IF t = chat.live /\ agents[t].st = "up"
         THEN [agents[t] EXCEPT !.st = "dying"] ELSE agents[t]]
    /\ saved' = NoInfo
    /\ UNCHANGED <<chatUp, tasks, saves, seen>>

(* Daemon shutdown: the live agent is killed, nothing is logged            *)
Stop ==
    /\ Serving /\ ~chat.stopping
    /\ gen' = gen + 1
    /\ chat' = [chat EXCEPT !.live = 0, !.stopping = TRUE]
    /\ agents' = [t \in Tokens |->
         IF t = chat.live /\ agents[t].st = "up"
         THEN [agents[t] EXCEPT !.st = "dying"] ELSE agents[t]]
    /\ UNCHANGED <<chatUp, tasks, saves, saved, seen>>

LoadedSeqFromJson(c) == saved.seq

(* The end of a daemon, with or without a stop, and the next one's load    *)
LoadedSeq(c) == IF c.seq > 0 THEN c.seq ELSE saved.seq

Restart ==
    /\ chatUp > 0 /\ chatUp < MaxLives
    /\ chatUp' = chatUp + 1
    /\ chat' = IF saved = NoInfo THEN [chat EXCEPT !.listed = FALSE, !.live = 0]
               ELSE [NewChat(FALSE) EXCEPT
                       !.status = "disconnected", !.session = saved.session,
                       !.title = saved.title, !.seq = LoadedSeq(chat),
                       !.users = chat.users, !.cards = chat.cards,
                       !.hist = chat.hist]
    /\ gen' = 0
    /\ tasks' = [k \in Tasks |-> IF k = "create" THEN [NoTask EXCEPT !.at = "done"]
                                 ELSE NoTask]
    /\ agents' = [t \in Tokens |-> NoAgent]
    /\ saves' = {}
    /\ UNCHANGED <<saved, seen>>

ChatIdle ==
    /\ \A k \in Tasks : tasks[k].at \in {"idle", "done"}
    /\ UNCHANGED chatVars

(* What the tasks do by themselves                                         *)
TaskStep(k) ==
    \/ ConnectionCheck(k) \/ ConnectionStart(k) \/ AdoptCheck(k) \/ Adopt(k)
    \/ ConnectionFails(k) \/ TurnFails(k) \/ OptionSet(k)

ChatNext ==
    \/ \E r \in BOOLEAN : Create(r)
    \/ \E k \in Tasks : Request(k) \/ TurnEnds(k)
    \/ \E k \in Tasks : TaskStep(k)
    \/ \E t \in Tokens :
         \/ LoadSession(t) \/ Replay(t) \/ HandshakeDone(t) \/ AgentFails(t)
         \/ Ended(t)
         \/ \E ev \in session_updates : Update(t, ev)
         \/ \E o \in BOOLEAN : Ask(t, o)
    \/ \E a \in 1 .. MaxAsks : Answer(a)
    \/ \E info \in saves : Save(info)
    \/ Cancel \/ TitleDone \/ Close \/ Stop \/ Restart \/ ChatIdle

(* Every task goes on when it can; a handshake ends because silence ends   *)
(* it; a driver that was left waits KILL_AFTER at most.                    *)
ChatFairness ==
    /\ WF_chatVars(\E k \in Tasks : TaskStep(k))
    /\ WF_chatVars(\E t \in Tokens : Ended(t))
    /\ WF_chatVars(\E t \in Tokens : agents[t].st # "up" /\ (HandshakeDone(t) \/ AgentFails(t)))

ChatSpec == ChatInit /\ [][ChatNext]_chatVars /\ ChatFairness

-----------------------------------------------------------------------------
(* The fields of the chat, its tasks and its agents; no more than LogLimit *)
(* entries are kept of the log.                                            *)
ChatTypeOK ==
    /\ chatUp \in 1 .. MaxLives
    /\ chat.live \in 0 .. MaxStarts /\ gen \in 0 .. MaxStarts
    /\ chat.status \in Statuses /\ chat.title \in Titles
    /\ chat.asks \subseteq 1 .. MaxAsks /\ chat.cards \subseteq 1 .. MaxAsks
    /\ chat.hist \in {"no", "part", "all"}
    /\ chat.users \subseteq 0 .. MaxSeq /\ Cardinality(chat.users) <= LogLimit
    /\ tasks \in [Tasks -> [at : {"idle", "queued", "checked", "connecting", "adopting",
                                  "turn", "setting", "done"},
                            tok : 0 .. MaxStarts]]
    /\ agents \in [Tokens -> [st : {"none", "starting", "loading", "up", "dying"},
                              ready : BOOLEAN, cancelled : BOOLEAN]]

(* One agent at a time works on a chat (connection() holds the starting    *)
(* lock and looks at live; live is given up only after the process ended   *)
(* or was told to end).                                                    *)
OneAgent ==
    \A s, t \in Tokens :
        {agents[s].st, agents[t].st} \subseteq {"starting", "loading", "up"} => s = t

(* A closed chat keeps no files and no agent, whatever task still holds it *)
(* (the comment on State::closed): no json comes back, and an agent still  *)
(* there is one that has yet to see that its start was superseded.         *)
ClosedKeepsNothing ==
    chat.closed =>
        /\ saved = NoInfo
        /\ chat.live = 0
        /\ \A t \in Tokens : agents[t].st \in {"starting", "loading", "up"} => ~is_current(t)

(* The status says what is so: Running and Needs only with a turn or a     *)
(* card, Idle with an agent, Disconnected without one.                     *)
StatusTrue ==
    chat.listed /\ ~chat.stopping =>
      /\ chat.status = "running" =>
            \E t \in Tokens : Turns(t) # {} \/ agents[t].st = "dying"
      /\ chat.status = "needs" => chat.asks # {}
      /\ chat.status = "idle" => chat.live # 0 \/ Connecting # {}
      /\ chat.status = "disconnected" => chat.live = 0

(* No card waits for an agent that went away (settle_all in ended())       *)
AsksHaveAgent ==
    chat.listed /\ ~chat.stopping /\ chat.asks # {} =>
        \E t \in Tokens : agents[t].st \in {"up", "dying"}

(* A seq is never given out twice, over restarts of the daemon as well     *)
(* (Chats::load takes it from the last log entry, not from the json)       *)
SeqNeverReused == chat.listed => chat.seq >= seen

(* The log already has the conversation a resume replays unless the chat   *)
(* is new here (the comment on State::replaying): what is left out of the  *)
(* log while replaying is in it.                                           *)
ReplayIsLogged == chat.replaying => chat.hist = "all"

(* A name the agent gave is not replaced by the model's (title::name)      *)
AgentTitleKept == [][chat.title = "agent" /\ chat'.listed => chat'.title # "model"]_chatVars

(* A request that waits for the connection gets it or fails                *)
RequestsMoveOn == \A k \in Tasks : At(k, "queued") ~> ~At(k, "queued")

(* The agent of a closed chat ends                                         *)
ClosedAgentEnds ==
    chat.closed ~> \A t \in Tokens : agents[t].st = "none"

=============================================================================
