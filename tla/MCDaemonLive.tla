---------------------------- MODULE MCDaemonLive ----------------------------
(* What ptyd and its readers must come to, one part per behaviour: the       *)
(* initial state picks the part, whose steps are the only ones that follow;  *)
(* the others rest where none of their fair steps is possible, so that the   *)
(* fairness of every part can be assumed as its module states it.            *)
EXTENDS Integers

VARIABLES
  part,   \* the component this behaviour is of
  chatUp, chat, gen, tasks, agents, saves, saved, chat_seen,
  entries, closed, viewing, conn, req, inbox, viewers, next_seq, open, last, twice,
  op, queue, breaks,
  trees, heads, fetch_head, ADDING, wcalls, asks, fails, wrong,
  launched, front, kind, status, live, agent, everWorked, hook, screen, seq, poll,
  status_seen, fore, told, sending, usage, usage_seen, conversation, moves

C == INSTANCE Chat WITH
  Prompts <- {"prompt"}, Setters <- {}, MaxAsks <- 0, MaxLives <- 1, MaxSeq <- 1,
  LogLimit <- 1, Racing <- FALSE, seen <- chat_seen
R == INSTANCE ChatRelay WITH
  Channels <- {"c1", "c2"}, MaxEntries <- 2, MaxBreaks <- 1, WindowsClose <- FALSE
W == INSTANCE Worktrees WITH
  AppCallers <- {"app1", "app2"}, DaemonCallers <- {}, Branches <- {"branch"},
  Prs <- {"pr"}, MaxCalls <- 2, MaxFails <- 1, Racing <- FALSE
S == INSTANCE AgentStatus WITH
  MaxMoves <- 2, StartPrompts <- FALSE, Racing <- FALSE, seen <- status_seen

chatVars == <<chatUp, chat, gen, tasks, agents, saves, saved, chat_seen>>
relayVars == <<entries, closed, viewing, conn, req, inbox, viewers, next_seq, open,
               last, twice, op, queue, breaks>>
worktreesVars == <<trees, heads, fetch_head, ADDING, wcalls, asks, fails, wrong>>
statusVars == <<launched, front, kind, status, live, agent, everWorked, hook, screen,
                seq, poll, status_seen, fore, told, sending, usage, usage_seen,
                conversation, moves>>
vars == <<part, chatVars, relayVars, worktreesVars, statusVars>>

\* The session has exited
StatusRests ==
  /\ launched = "claude" /\ front = "claude" /\ kind = "claude" /\ status = "Exited"
  /\ live = FALSE /\ agent = "fresh" /\ everWorked = FALSE /\ hook = "none"
  /\ screen = "blank" /\ seq = 0 /\ poll = S!Sleeping /\ status_seen = S!Unseen
  /\ fore = "sleep" /\ told = "Exited" /\ sending = {}
  /\ usage = [n |-> 0, id |-> ""] /\ usage_seen = 0 /\ conversation = "" /\ moves = 0

Init ==
  /\ part \in {"chat", "relay", "worktrees", "status"}
  /\ C!ChatInit
  /\ R!RelayInit
  /\ W!WorktreesInit
  /\ IF part = "status" THEN S!AgentStatusInit ELSE StatusRests

Next ==
  /\ UNCHANGED part
  /\ \/ /\ part = "chat" /\ C!ChatNext
        /\ UNCHANGED <<relayVars, worktreesVars, statusVars>>
     \/ /\ part = "relay" /\ R!RelayNext
        /\ UNCHANGED <<chatVars, worktreesVars, statusVars>>
     \/ /\ part = "worktrees" /\ W!WorktreesNext
        /\ UNCHANGED <<chatVars, relayVars, statusVars>>
     \/ /\ part = "status" /\ S!AgentStatusNext
        /\ UNCHANGED <<chatVars, relayVars, worktreesVars>>

Spec == Init /\ [][Next]_vars
  /\ C!ChatFairness
  /\ R!RelayFairness
  /\ W!WorktreesFairness
  /\ S!AgentStatusFairness
-----------------------------------------------------------------------------
\* What a chat, its requests, its agent and its windows come to
ChatsSettle ==
  \* A request that waits for the connection of a chat gets it or fails,
  \* through agents that die, hang or are superseded (connection)
  /\ C!RequestsMoveOn
  \* The agent of a closed chat ends, whichever start was under way
  /\ C!ClosedAgentEnds
  \* title::name does not replace a name the agent gave while the model was
  \* asked
  /\ C!AgentTitleKept
  \* A watching window gets the whole log in the end, through reconnects
  /\ R!ChannelsCatchUp
  \* A chat no window watches stops streaming to the app
  /\ R!UnwatchedStops

\* What windows are shown of a chat implements LogView
ImplementsView ==
  \* The relay implements the view of a log: a window is sent its next entry
  /\ R!ImplementsLogView

\* What calls of add_worktree and the status of a session come to
SessionsSettle ==
  \* A call that joined another one returns, also when that one fails
  /\ W!JoinersReturn
  \* Once agent and terminal rest, the session's status is what the agent last
  \* reported or drew
  /\ S!StatusSettles
  \* ... and its conversation is the statusline's, though it is read half
  \* written
  /\ S!ConversationSettles
  \* ... and clients know the status
  /\ S!ClientsAgree

\* The answer of add_worktree
AnswerKept ==
  \* The Ok of add_worktree names a folder that is there, with the branch
  \* checked out and the setup run, after earlier failures and removals too
  /\ part = "worktrees" => W!AnswerHolds
=============================================================================
