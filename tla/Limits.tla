------------------------------ MODULE Limits ------------------------------
(* Claude's plan window as Treeix shows it: three programs leave readings of *)
(* it in files (Treeix's status line bridge, LimitBar, the Claude desktop    *)
(* app), core/agents/limits.rs takes the newest, and commands/agents.rs      *)
(* answers the pages and watches for changes. One window; percents and times *)
(* are small numbers, 0 stands for no reset time.                            *)
EXTENDS Integers, FiniteSets

CONSTANTS
  MaxTime,   \* how far the clock runs
  Window,    \* how long a window lasts
  MaxUsed,   \* the largest percent
  Calls,     \* calls of usage_limits
  Desktop,   \* TRUE: the Claude desktop app samples too
  Racing     \* TRUE: files and calls change between a call's read and its end

VARIABLES
  now,
  plan,      \* the account's window: [used, resets_at]
  files,     \* what each source last wrote, or None
  watched,   \* LIMITS_WATCHED
  last,      \* what watch_limits saw last
  ask,       \* usage_limits by call: [at, limits]
  bar,       \* what the page shows
  usage_on   \* settings.features.usage

lvars == <<now, plan, files, watched, last, ask, bar, usage_on>>

Sources == {"status", "limitbar", "desktop"}
Rank == [status |-> 1, limitbar |-> 2, desktop |-> 3]
None == [used |-> 0 - 1, resets_at |-> 0, updated_at |-> 0]

LimitsInit ==
  /\ now = 1
  /\ plan = [used |-> 0, resets_at |-> 1 + Window]
  /\ files = [s \in Sources |-> None]
  /\ watched = FALSE /\ last = None /\ bar = None /\ usage_on = TRUE
  /\ ask = [c \in Calls |-> [at |-> "new", limits |-> None]]

\* It is shown as it was read
to_window_as_read(r) == r

\* A window whose reset time has passed starts over at 0%
to_window(r) ==
  IF r # None /\ r.resets_at # 0 /\ r.resets_at <= now
  THEN [r EXCEPT !.used = 0, !.resets_at = 0] ELSE r

\* The newest of some sources; equal ones in the order they are read
Newest(S) ==
  CHOOSE s \in S : \A t \in S \ {s} :
    \/ files[s].updated_at > files[t].updated_at
    \/ /\ files[s].updated_at = files[t].updated_at
       /\ Rank[s] < Rank[t]

\* The newest reading wins; without a reset time it borrows the one of the newest
\* reading that has one ahead
newest_limits ==
  LET read == [s \in Sources |-> to_window(files[s])]
      there == {s \in Sources : read[s] # None}
      ahead == {s \in there : read[s].resets_at > now}
      newest == read[Newest(there)]
  IN IF there = {} THEN None
     ELSE IF newest.resets_at # 0 \/ ahead = {} THEN newest
     ELSE [newest EXCEPT !.resets_at = read[Newest(ahead)].resets_at]

Calm == Racing \/ \A c \in Calls : ask[c].at # "read"

\* Time passes; a window that ran out starts over
Pass ==
  /\ Calm /\ now < MaxTime /\ now' = now + 1
  /\ plan' = IF plan.resets_at <= now'
             THEN [used |-> 0, resets_at |-> now' + Window] ELSE plan
  /\ UNCHANGED <<files, watched, last, ask, bar, usage_on>>

\* An agent spends some of the plan
Spend ==
  /\ plan.used < MaxUsed
  /\ plan' = [plan EXCEPT !.used = @ + 1]
  /\ UNCHANGED <<now, files, watched, last, ask, bar, usage_on>>

\* A program writes what it sees of the plan, no two in the same millisecond; the
\* desktop app has no reset time
Sample(s) ==
  /\ Calm /\ (s = "desktop" => Desktop)
  /\ \A o \in Sources : files[o].updated_at < now
  /\ files' = [files EXCEPT ![s] =
       [used |-> plan.used, updated_at |-> now,
        resets_at |-> IF s = "desktop" THEN 0 ELSE plan.resets_at]]
  /\ UNCHANGED <<now, plan, watched, last, ask, bar, usage_on>>

Switch ==
  /\ usage_on' = ~usage_on
  /\ UNCHANGED <<now, plan, files, watched, last, ask, bar>>

\* usage_limits reads
CallReads(c) ==
  /\ ask[c].at = "new" /\ Calm
  /\ ask' = [ask EXCEPT ![c] = [at |-> "read", limits |-> newest_limits]]
  /\ UNCHANGED <<now, plan, files, watched, last, bar, usage_on>>

\* Its reading starts the watch when it is the first, and goes to its page
CallAnswers(c) ==
  /\ ask[c].at = "read"
  /\ watched' = TRUE
  /\ last' = IF watched THEN last ELSE ask[c].limits
  /\ bar' = ask[c].limits
  /\ ask' = [ask EXCEPT ![c] = [at |-> "done", limits |-> None]]
  /\ UNCHANGED <<now, plan, files, usage_on>>

\* The event goes out with what was seen before
WatchBehind ==
  /\ watched /\ usage_on /\ Calm
  /\ last # newest_limits
  /\ last' = newest_limits
  /\ bar' = last
  /\ UNCHANGED <<now, plan, files, watched, ask, usage_on>>

\* One turn of watch_limits: UsageLimitsChanged on any change
Watch ==
  /\ watched /\ usage_on /\ Calm
  /\ last # newest_limits
  /\ last' = newest_limits
  /\ bar' = newest_limits
  /\ UNCHANGED <<now, plan, files, watched, ask, usage_on>>

LimitsNext ==
  \/ Pass \/ Spend \/ Switch \/ Watch
  \/ \E s \in Sources : Sample(s)
  \/ \E c \in Calls : CallReads(c) \/ CallAnswers(c)

LimitsFairness ==
  /\ WF_lvars(Watch)
  /\ \A c \in Calls : WF_lvars(CallReads(c)) /\ WF_lvars(CallAnswers(c))
LimitsSpec == LimitsInit /\ [][LimitsNext]_lvars /\ LimitsFairness

\* What a reading says now never names a reset that is behind it, whichever
\* source is newest and whoever it borrows from (newest_limits)
NoPastReset == newest_limits # None => newest_limits.resets_at \notin 1 .. now

\* "A window whose reset time has passed starts over at 0%": what a source with
\* reset times says is never more than the plan has used, across resets
NeverOverstated ==
  /\ newest_limits # None
  /\ files["desktop"].updated_at < newest_limits.updated_at
  => newest_limits.used <= plan.used

\* "UsageLimitsChanged follows any change": a page behind the newest reading
\* gets it, unless the feature is switched off
PageCatchesUp ==
  (watched /\ bar # newest_limits) ~> (bar = newest_limits \/ ~usage_on)
============================================================================
