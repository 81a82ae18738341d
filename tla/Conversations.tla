--------------------------- MODULE Conversations ---------------------------
(* How a codex terminal learns which conversation it runs: the app looks a   *)
(* few times for the oldest rollout in the session's folder that no session  *)
(* has (commands/agents.rs, core/agents/codex.rs), and tells the daemon. One *)
(* folder; a rollout is its place in the order of their start times, and     *)
(* holds the session whose codex wrote it, which the app cannot see.         *)
EXTENDS Integers, Sequences, SequencesExt, FiniteSets, FiniteSetsExt

CONSTANTS
  Sessions,    \* codex sessions of the folder
  CODEX_LOOKS, \* how many times each is looked for
  Racing       \* TRUE: the steps of two looks interleave

VARIABLES rollouts, codex, look

cvars == <<rollouts, codex, look>>

NotStarted == [status |-> "none", since |-> 0, agent_session |-> 0]
NoLook == [at |-> "off", left |-> 0, taken |-> {}, found |-> 0]

ConvInit ==
  /\ rollouts = <<>>
  /\ codex = [s \in Sessions |-> NotStarted]
  /\ look = [s \in Sessions |-> NoLook]

Live == {s \in Sessions : codex[s].status = "live"}
Looking(s) == look[s].at \in {"listed", "found"}
Alone(s) == Racing \/ \A t \in Sessions \ {s} : ~Looking(t)

\* A session starts and its looks begin; of the rollouts from just before,
\* CODEX_SLACK_MS lets the last one count or not
StartCodex(s) ==
  /\ codex[s].status = "none"
  /\ \E slack \in {0, 1} :
       codex' = [codex EXCEPT ![s] = [status |-> "live", agent_session |-> 0,
                                      since |-> Max({0, Len(rollouts) - slack}) + 1]]
  /\ look' = [look EXCEPT ![s] = [NoLook EXCEPT !.at = "sleep", !.left = CODEX_LOOKS]]
  /\ UNCHANGED rollouts

\* Codex writes its rollout on the first prompt
FirstPrompt(s) ==
  /\ s \in Live /\ s \notin ToSet(rollouts)
  /\ rollouts' = Append(rollouts, s)
  /\ UNCHANGED <<codex, look>>

\* The session is removed; its conversation is nobody's again
RemoveCodex(s) ==
  /\ s \in Live /\ Alone(s)
  /\ codex' = [codex EXCEPT ![s].status = "gone"]
  /\ UNCHANGED <<rollouts, look>>

\* The daemon's list: what every session has, and whether this one still needs
\* a look
ListSessions(s) ==
  /\ look[s].at = "sleep" /\ Alone(s)
  /\ look' = [look EXCEPT ![s] =
       IF s \in Live /\ codex[s].agent_session = 0
       THEN [@ EXCEPT !.at = "listed",
                      !.taken = {codex[t].agent_session : t \in Live} \ {0}]
       ELSE NoLook]
  /\ UNCHANGED <<rollouts, codex>>

\* Any conversation since the session began
UntakenOrNot(s) == {r \in DOMAIN rollouts : r >= codex[s].since}

\* codex_conversations of the folder since the session began, oldest first,
\* without the ones taken
Untaken(s) == {r \in DOMAIN rollouts : r >= codex[s].since /\ r \notin look[s].taken}

ReadRollouts(s) ==
  /\ look[s].at = "listed"
  /\ look' = [look EXCEPT ![s] =
       IF Untaken(s) # {}
       THEN [@ EXCEPT !.at = "found", !.found = Min(Untaken(s))]
       ELSE IF @.left = 1 THEN NoLook
            ELSE [NoLook EXCEPT !.at = "sleep", !.left = look[s].left - 1]]
  /\ UNCHANGED <<rollouts, codex>>

\* SetAgentSession: refused for a session that is gone, and the looks are over
\* either way
SetAgentSession(s) ==
  /\ look[s].at = "found"
  /\ codex' = IF s \in Live
              THEN [codex EXCEPT ![s].agent_session = look[s].found] ELSE codex
  /\ look' = [look EXCEPT ![s] = NoLook]
  /\ UNCHANGED rollouts

\* A request that fails, with the connection to the daemon, ends the looks
LookFails(s) ==
  /\ look[s].at \in {"sleep", "found"}
  /\ look' = [look EXCEPT ![s] = NoLook]
  /\ UNCHANGED <<rollouts, codex>>

ConvDone ==
  /\ \A s \in Sessions : codex[s].status = "gone" /\ look[s].at = "off"
  /\ UNCHANGED cvars

ConvNext ==
  \/ \E s \in Sessions :
       \/ StartCodex(s) \/ FirstPrompt(s) \/ RemoveCodex(s)
       \/ ListSessions(s) \/ ReadRollouts(s) \/ SetAgentSession(s)
       \/ LookFails(s)
  \/ ConvDone
ConvSpec == ConvInit /\ [][ConvNext]_cvars

\* "The oldest conversation in its folder since it started that no other
\* session has": two open sessions are never told the same conversation, or a
\* resume of either would continue one conversation twice
OneSessionEach ==
  \A s, t \in Live :
    s # t /\ codex[s].agent_session # 0 => codex[s].agent_session # codex[t].agent_session

\* What a terminal is told it runs is what its own codex wrote (the id codex
\* resume takes); the code can only guess it
OwnConversation ==
  \A s \in Live : codex[s].agent_session # 0 => rollouts[codex[s].agent_session] = s
============================================================================
