----------------------------- MODULE RoutineRuns -----------------------------
(***************************************************************************)
(* The routines engine of treeix-ptyd: the queue of runs and its slots,    *)
(* the task that starts a run, the watcher that ends it and delivers its   *)
(* pull request, cancels, and the three files it is rebuilt from after a   *)
(* stop, a crash or an upgrade (crates/ptyd/src/routines/mod.rs,           *)
(* budget.rs).                                                             *)
(*                                                                         *)
(* A run is the number of its firing, its session and the pull request it  *)
(* opens are named after it.                                               *)
(***************************************************************************)
EXTENDS Integers, Sequences, FiniteSets

CONSTANTS
  Routines,    \* routine ids RoutinePut may draw
  MaxParallel, \* settings.routines.maxParallel
  KeepRuns,    \* KEEP_RUNS
  MaxRuns,     \* bound: runs a behaviour may fire
  Spends,      \* what of a routine's budget a run may have spent, see below
  DraftPrs,    \* routines open draft pull requests; or their runs stay local
  Racing,      \* a handler may be overtaken between its read and its update
  LateNews,    \* a RunChanged event may be overtaken by a later one
  Upgrades     \* the daemon may exec a newer image

ASSUME RunsAssumption ==
  /\ MaxParallel \in Nat \ {0}
  /\ KeepRuns \in Nat \ {0}
  /\ MaxRuns \in Nat
  /\ Routines # {}
  /\ Spends \subseteq 0..2 /\ 0 \in Spends
  /\ {DraftPrs, Racing, LateNews, Upgrades} \subseteq BOOLEAN

Runs == 1..MaxRuns
NoPr == 0

VARIABLES
  up,         \* a daemon serves
  drawn,      \* history: the routine ids drawn
  fired,      \* history: the runs fired
  routines,   \* State.routines
  kept,       \* State.runs, oldest first: a smaller run is an older one
  run,        \* the RoutineRun of every run
  hits,       \* the keys of Saved.queued
  writes,     \* files still to be written before the state lock is released
  file,       \* routines.json, runs.jsonl and engine.json
  stage,      \* where the start task of a run is
  placed,     \* the open pull request place() found for a run
  agent,      \* the session of a run: its process, its exit, its tab
  killed,     \* runs whose session was hung up
  dropping,   \* runs end() has ended and not yet taken from Saved.queued
  ending,     \* runs remove() has still to end
  cancelling, \* runs RunCancel has read and not yet ended
  pumpDue,    \* somebody is about to pump
  looking,    \* the rest of the list the watcher took
  delivery,   \* the run the watcher delivers
  prs,        \* pull requests open on the forge
  news,       \* RunChanged events about to be sent
  shown       \* what the clients were last told of a run

memory == <<routines, kept, run, hits>>
tasks == <<stage, placed, dropping, ending, cancelling, pumpDue, looking, delivery>>
world == <<agent, killed, prs>>
told == <<news, shown>>
history == <<drawn, fired>>
vars == <<up, history, memory, writes, file, tasks, world, told>>

-----------------------------------------------------------------------------
(* Values *)

Open == {"Queued", "Running"}
Statuses == Open \cup {"Ok", "Failed", "OverBudget", "Skipped", "Cancelled"}
\* A spend is 0 below the routine's limits, 1 at max_turns, 2 past a limit
Prs == Runs \cup {NoPr}
RunRecords ==
  [routine : Routines, status : Statuses, session : BOOLEAN, spent : Spends,
   pr : Prs]
Views == [status : Statuses, spent : Spends]
Files == {"routines", "runs", "engine"}
Nobody == [run |-> 0, at |-> "idle", pr |-> NoPr]
Deliveries ==
  {Nobody} \cup [run : Runs, at : {"push", "note", "end", "fail"}, pr : Prs]

\* A run that was not fired yet
Unfired(r) ==
  [routine |-> CHOOSE rt \in Routines : TRUE, status |-> "Queued",
   session |-> FALSE, spent |-> 0, pr |-> NoPr]
View(rec) == [status |-> rec.status, spent |-> rec.spent]

TypeOK ==
  /\ up \in BOOLEAN
  /\ drawn \subseteq Routines
  /\ fired \in 0..MaxRuns
  /\ routines \subseteq drawn
  /\ kept \subseteq 1..fired
  /\ run \in [Runs -> RunRecords]
  /\ hits \subseteq 1..fired
  /\ writes \in Seq(Files)
  /\ file.routines \subseteq drawn
  /\ file.kept \subseteq 1..fired
  /\ file.run \in [Runs -> RunRecords]
  /\ file.hits \subseteq 1..fired
  /\ stage \in [Runs -> {"none", "place", "create", "tell"}]
  /\ placed \in [Runs -> Prs]
  /\ agent \in [Runs -> {"none", "live", "ok", "bad", "gone"}]
  /\ killed \subseteq Runs
  /\ dropping \subseteq 1..fired
  /\ ending \subseteq 1..fired
  /\ cancelling \subseteq 1..fired
  /\ pumpDue \in BOOLEAN
  /\ looking \subseteq 1..fired
  /\ delivery \in Deliveries
  /\ prs \subseteq Runs
  /\ news \subseteq Runs \X Views
  /\ shown \in [Runs -> Views]

EmptyFiles ==
  [routines |-> {}, kept |-> {}, run |-> [r \in Runs |-> Unfired(r)], hits |-> {}]

Init ==
  /\ up = FALSE
  /\ drawn = {}
  /\ fired = 0
  /\ routines = {}
  /\ kept = {}
  /\ run = EmptyFiles.run
  /\ hits = {}
  /\ writes = <<>>
  /\ file = EmptyFiles
  /\ stage = [r \in Runs |-> "none"]
  /\ placed = [r \in Runs |-> NoPr]
  /\ agent = [r \in Runs |-> "none"]
  /\ killed = {}
  /\ dropping = {}
  /\ ending = {}
  /\ cancelling = {}
  /\ pumpDue = FALSE
  /\ looking = {}
  /\ delivery = Nobody
  /\ prs = {}
  /\ news = {}
  /\ shown = [r \in Runs |-> View(run[r])]

-----------------------------------------------------------------------------
(* The state lock, its files and the broadcasts *)

\* The lock can be taken
Unlocked == up /\ writes = <<>>

\* Atomic writes, in the order the critical section makes them
Write ==
  /\ writes # <<>>
  /\ writes' = Tail(writes)
  /\ \/ Head(writes) = "routines" /\ file' = [file EXCEPT !.routines = routines]
     \/ Head(writes) = "runs" /\ file' = [file EXCEPT !.kept = kept, !.run = run]
     \/ Head(writes) = "engine" /\ file' = [file EXCEPT !.hits = hits]
  /\ UNCHANGED <<up, history, memory, tasks, world, told>>

\* changed: the runs in S go to every client, after the lock is released
Tell(S) ==
  IF LateNews
  THEN /\ news' = news \cup {<<r, View(run'[r])>> : r \in S}
       /\ UNCHANGED shown
  ELSE /\ shown' = [r \in Runs |-> IF r \in S THEN View(run'[r]) ELSE shown[r]]
       /\ UNCHANGED news

Broadcast(n) ==
  /\ up
  /\ n \in news
  /\ news' = news \ {n}
  /\ shown' = [shown EXCEPT ![n[1]] = n[2]]
  /\ UNCHANGED <<up, history, memory, writes, file, tasks, world>>

Ended(status) == status \notin Open

\* Mutant: whatever has ended may change too
InList(r) == r \in kept

\* What update() changes: a run in the list that has not ended
Active(r) == r \in kept /\ ~Ended(run[r].status)

\* Mutant: nobody is told
EndSilent(r, rec) ==
  IF Active(r)
  THEN /\ run' = [run EXCEPT ![r] = rec]
       /\ writes' = <<"runs">>
       /\ dropping' = dropping \cup {r}
       /\ UNCHANGED told
  ELSE UNCHANGED <<run, writes, dropping, told>>

\* end: the run's record, saved; its hit goes in a critical section of its own
End(r, rec) ==
  IF Active(r)
  THEN /\ run' = [run EXCEPT ![r] = rec]
       /\ writes' = <<"runs">>
       /\ dropping' = dropping \cup {r}
       /\ Tell({r})
  ELSE UNCHANGED <<run, writes, dropping, told>>

DropHit(r) ==
  /\ Unlocked
  /\ r \in dropping
  /\ dropping' = dropping \ {r}
  /\ hits' = hits \ {r}
  /\ writes' = IF r \in hits THEN <<"engine">> ELSE <<>>
  /\ UNCHANGED <<up, history, routines, kept, run, file, stage, placed, ending,
                 cancelling, pumpDue, looking, delivery, world, told>>

\* finish: end, tell, start the next one
Finish(r, rec) ==
  /\ End(r, rec)
  /\ pumpDue' = (pumpDue \/ Active(r))

As(r, status) == [run[r] EXCEPT !.status = status]

-----------------------------------------------------------------------------
(* Routines and the queue *)

Put(rt) ==
  /\ Unlocked
  /\ rt \notin drawn
  /\ drawn' = drawn \cup {rt}
  /\ routines' = routines \cup {rt}
  /\ writes' = <<"routines">>
  /\ UNCHANGED <<up, fired, kept, run, hits, file, tasks, world, told>>

\* remove: the routine goes now, its queued runs one by one after the lock
Remove(rt) ==
  /\ Unlocked
  /\ rt \in routines
  /\ routines' = routines \ {rt}
  /\ writes' = <<"routines">>
  /\ ending' = ending \cup
       {r \in kept : run[r].routine = rt /\ run[r].status = "Queued"}
  /\ UNCHANGED <<up, history, kept, run, hits, file, stage, placed, dropping,
                 cancelling, pumpDue, looking, delivery, world, told>>

EndRemoved(r) ==
  /\ Unlocked
  /\ r \in ending
  /\ ending' = ending \ {r}
  /\ End(r, As(r, "Cancelled"))
  /\ UNCHANGED <<up, history, routines, kept, hits, file, stage, placed,
                 cancelling, pumpDue, looking, delivery, world>>

\* enqueue saves what a run fired with before the run
EnqueueWrites == <<"engine", "runs">>

\* The KeepRuns newest of S: runs.drain(..over)
Newest(S) == {r \in S : Cardinality({q \in S : q >= r}) <= KeepRuns}

\* The run enqueue adds
NewRun(rt, skip) ==
  [routine |-> rt, status |-> IF skip THEN "Skipped" ELSE "Queued",
   session |-> FALSE, spent |-> 0, pr |-> NoPr]

\* fire: a schedule, an event, a webhook or Run now queues a run of a routine
\* that is there, or records a skipped one
Fire(rt, skip) ==
  LET r == fired + 1
  IN  /\ Unlocked
      /\ rt \in routines
      /\ fired < MaxRuns
      /\ fired' = r
      /\ run' = [run EXCEPT ![r] = NewRun(rt, skip)]
      /\ kept' = Newest(kept \cup {r})
      /\ hits' = IF skip THEN hits ELSE hits \cup {r}
      /\ writes' = IF skip THEN <<"runs">> ELSE EnqueueWrites
      /\ Tell({r})
      /\ pumpDue' = TRUE
      /\ UNCHANGED <<up, drawn, routines, file, stage, placed, dropping, ending,
                     cancelling, looking, delivery, world>>

\* Mutant: the tick only saves
TickSilent ==
  /\ Unlocked
  /\ ~pumpDue
  /\ writes' = <<"engine">>
  /\ UNCHANGED <<up, history, memory, file, tasks, world, told>>

\* Every TICK the clock is saved with the hits, and a pump comes before the next
Tick ==
  /\ Unlocked
  /\ ~pumpDue
  /\ writes' = <<"engine">>
  /\ pumpDue' = TRUE
  /\ UNCHANGED <<up, history, memory, file, stage, placed, dropping, ending,
                 cancelling, looking, delivery, world, told>>

Queued == {r \in kept : run[r].status = "Queued"}
Running == {r \in kept : run[r].status = "Running"}
Startable == {r \in Queued : run[r].routine \in routines /\ r \in hits}

\* Mutant: the runs it just took are not counted
NotCounted == {r \in Queued : Cardinality(Running) < MaxParallel}

\* The queued runs take_startable comes to while slots are free
Reached ==
  {r \in Queued :
     Cardinality(Running) + Cardinality({q \in Startable : q < r}) < MaxParallel}

\* Mutant: the files in the other order
EngineFirst == <<"engine", "runs">>

\* take_startable saves that a run runs before what it fired with goes
PumpWrites == <<"runs", "engine">>

\* pump: take_startable and a start task for each run it took. A run whose
\* routine or hit is gone is cancelled in passing
Pump ==
  LET started == Reached \cap Startable
  IN  /\ Unlocked
      /\ pumpDue
      /\ ending = {} \/ Racing
      /\ pumpDue' = FALSE
      /\ run' = [r \in Runs |->
           IF r \in started THEN As(r, "Running")
           ELSE IF r \in Reached THEN As(r, "Cancelled") ELSE run[r]]
      /\ hits' = hits \ Reached
      /\ writes' = IF started = {} THEN <<>> ELSE PumpWrites
      /\ stage' = [r \in Runs |-> IF r \in started THEN "place" ELSE stage[r]]
      /\ Tell(started)
      /\ UNCHANGED <<up, history, routines, kept, file, placed, dropping, ending,
                     cancelling, looking, delivery, world>>

-----------------------------------------------------------------------------
(* Starting a run *)

\* The newest run of the routine that has a pull request
LastPr(rt) ==
  LET with == {q \in kept : run[q].routine = rt /\ run[q].pr # NoPr}
  IN  IF with = {} THEN NoPr
      ELSE run[CHOOSE q \in with : \A p \in with : p <= q].pr

\* open_pr: that pull request, while it is open
OpenPr(rt) == IF LastPr(rt) \in prs THEN LastPr(rt) ELSE NoPr

\* place: a worktree, and the pull request the run adds to
Place(r) ==
  /\ Unlocked
  /\ stage[r] = "place"
  /\ stage' = [stage EXCEPT ![r] = "create"]
  /\ placed' = [placed EXCEPT ![r] = OpenPr(run[r].routine)]
  /\ UNCHANGED <<up, history, memory, writes, file, dropping, ending, cancelling,
                 pumpDue, looking, delivery, world, told>>

\* place, the worktree or the session failed
StartFails(r) ==
  /\ Unlocked
  /\ stage[r] \in {"place", "create"}
  /\ stage' = [stage EXCEPT ![r] = "none"]
  /\ Finish(r, As(r, "Failed"))
  /\ UNCHANGED <<up, history, routines, kept, hits, file, placed, ending,
                 cancelling, looking, delivery, world>>

StartCreate(r) ==
  /\ up
  /\ stage[r] = "create"
  /\ stage' = [stage EXCEPT ![r] = "tell"]
  /\ agent' = [agent EXCEPT ![r] = "live"]
  /\ UNCHANGED <<up, history, memory, writes, file, placed, dropping, ending,
                 cancelling, pumpDue, looking, delivery, killed, prs, told>>

\* Mutant: the session of a run cancelled meanwhile is left
KillNone(r) == killed

KillOf(r) == killed \cup {r}

\* The run learns its session; one that ended meanwhile has it killed
StartTell(r) ==
  /\ Unlocked
  /\ stage[r] = "tell"
  /\ stage' = [stage EXCEPT ![r] = "none"]
  /\ IF Active(r)
     THEN /\ run' = [run EXCEPT ![r].session = TRUE, ![r].pr = placed[r]]
          /\ writes' = <<"runs">>
          /\ Tell({r})
          /\ UNCHANGED killed
     ELSE /\ killed' = KillOf(r)
          /\ UNCHANGED <<run, writes, told>>
  /\ UNCHANGED <<up, history, routines, kept, hits, file, placed, dropping, ending,
                 cancelling, pumpDue, looking, delivery, agent, prs>>

-----------------------------------------------------------------------------
(* What happens to a run's session, and to pull requests *)

\* The agent ends on its own, or of the hangup
AgentExits(r) ==
  /\ up
  /\ agent[r] = "live"
  /\ \E e \in (IF r \in killed THEN {"bad"} ELSE {"ok", "bad"}) :
       agent' = [agent EXCEPT ![r] = e]
  /\ UNCHANGED <<up, history, memory, writes, file, tasks, killed, prs, told>>

\* The user closes its tab: the session is removed and killed
TabClosed(r) ==
  /\ up
  /\ agent[r] \in {"live", "ok", "bad"}
  /\ agent' = [agent EXCEPT ![r] = "gone"]
  /\ UNCHANGED <<up, history, memory, writes, file, tasks, killed, prs, told>>

\* A pull request is merged or closed
PrCloses(p) ==
  /\ p \in prs
  /\ prs' = prs \ {p}
  /\ UNCHANGED <<up, history, memory, writes, file, tasks, agent, killed, told>>

\* RunCancel: the session the run has is hung up, then the run ends
Cancel(r) ==
  /\ Unlocked
  /\ Active(r)
  /\ killed' = IF run[r].session /\ agent[r] # "gone" THEN killed \cup {r} ELSE killed
  /\ IF Racing
     THEN /\ cancelling' = cancelling \cup {r}
          /\ UNCHANGED <<run, writes, dropping, pumpDue, told>>
     ELSE /\ Finish(r, As(r, "Cancelled"))
          /\ UNCHANGED cancelling
  /\ UNCHANGED <<up, history, routines, kept, hits, file, stage, placed, ending,
                 looking, delivery, agent, prs>>

CancelEnds(r) ==
  /\ Unlocked
  /\ r \in cancelling
  /\ cancelling' = cancelling \ {r}
  /\ Finish(r, As(r, "Cancelled"))
  /\ UNCHANGED <<up, history, routines, kept, hits, file, stage, placed, ending,
                 looking, delivery, world>>

-----------------------------------------------------------------------------
(* The watcher *)

\* Every WATCH: the running runs, of which those without a session are passed over
WatchTake ==
  /\ Unlocked
  /\ looking = {}
  /\ delivery = Nobody
  /\ looking' = {r \in Running : run[r].session}
  /\ looking' # {}
  /\ UNCHANGED <<up, history, memory, writes, file, stage, placed, dropping, ending,
                 cancelling, pumpDue, delivery, world, told>>

\* The next run of the list
Looked(r) == Unlocked /\ delivery = Nobody /\ r \in looking
             /\ \A q \in looking : r <= q

\* Mutant: a closed tab is passed over
ClosedIgnored(r) ==
  /\ Looked(r)
  /\ agent[r] = "gone"
  /\ looking' = looking \ {r}
  /\ UNCHANGED <<up, history, memory, writes, file, stage, placed, dropping, ending,
                 cancelling, pumpDue, delivery, world, told>>

WatchClosed(r) ==
  /\ Looked(r)
  /\ agent[r] = "gone"
  /\ looking' = looking \ {r}
  /\ Finish(r, As(r, "Cancelled"))
  /\ UNCHANGED <<up, history, routines, kept, hits, file, stage, placed, ending,
                 cancelling, delivery, world>>

\* Mutant: the spend is added to the last one, which it includes
SpentAdded(r, n) == [run[r] EXCEPT !.spent = @ + n]

\* What the transcript says was spent so far
Spent(r, n) == [run[r] EXCEPT !.spent = n]

\* The agent runs: the run's spend is updated, and no event sent, since the
\* update is compared with itself
WatchLive(r) ==
  /\ Looked(r)
  /\ agent[r] = "live"
  /\ \E n \in Spends \ {2} :
       /\ n >= run[r].spent
       /\ run' = IF Active(r) THEN [run EXCEPT ![r] = Spent(r, n)] ELSE run
       /\ writes' = IF run' = run THEN <<>> ELSE <<"runs">>
  /\ looking' = looking \ {r}
  /\ UNCHANGED <<up, history, routines, kept, hits, file, stage, placed, dropping,
                 ending, cancelling, pumpDue, delivery, world, told>>

\* breach: the session is hung up and the run ends
WatchBreach(r) ==
  /\ Looked(r)
  /\ agent[r] = "live"
  /\ run[r].routine \in routines
  /\ 2 \in Spends
  /\ looking' = looking \ {r}
  /\ killed' = KillOf(r)
  /\ Finish(r, [Spent(r, 2) EXCEPT !.status = "OverBudget"])
  /\ UNCHANGED <<up, history, routines, kept, hits, file, stage, placed, ending,
                 cancelling, delivery, agent, prs>>

\* The agent failed or was killed, or there is nothing to deliver for: no routine
WatchExit(r) ==
  /\ Looked(r)
  /\ agent[r] = "bad" \/ (agent[r] = "ok" /\ run[r].routine \notin routines)
  /\ looking' = looking \ {r}
  /\ \E n \in Spends :
       /\ n >= run[r].spent
       /\ Finish(r, [Spent(r, n) EXCEPT !.status =
            IF agent[r] = "ok" THEN "Ok"
            ELSE IF n >= 1 /\ run[r].routine \in routines THEN "OverBudget"
            ELSE "Failed"])
  /\ UNCHANGED <<up, history, routines, kept, hits, file, stage, placed, ending,
                 cancelling, delivery, world>>

\* The agent succeeded: what it left is delivered, unless the run has ended
WatchOk(r) ==
  /\ Looked(r)
  /\ agent[r] = "ok"
  /\ run[r].routine \in routines
  /\ looking' = looking \ {r}
  /\ delivery' = IF Active(r) THEN [run |-> r, at |-> "push", pr |-> NoPr] ELSE delivery
  /\ UNCHANGED <<up, history, memory, writes, file, stage, placed, dropping, ending,
                 cancelling, pumpDue, world, told>>

\* deliver, without the lock: an error, nothing to push, a push to the run's pull
\* request, or a new draft pull request
Deliver ==
  LET r == delivery.run
      to(at, pr) == delivery' = [run |-> r, at |-> at, pr |-> pr]
  IN  /\ up
      /\ delivery.at = "push"
      /\ \/ to("fail", NoPr) /\ UNCHANGED prs
         \/ to("note", NoPr) /\ UNCHANGED prs
         \/ run[r].pr # NoPr /\ to("note", run[r].pr) /\ UNCHANGED prs
         \/ DraftPrs /\ run[r].pr = NoPr /\ to("note", r) /\ prs' = prs \cup {r}
      /\ UNCHANGED <<up, history, memory, writes, file, stage, placed, dropping,
                     ending, cancelling, pumpDue, looking, agent, killed, told>>

\* The pull request is written to the run, if it has not ended
NotePr ==
  LET r == delivery.run
  IN  /\ Unlocked
      /\ delivery.at = "note"
      /\ run' = IF Active(r) THEN [run EXCEPT ![r].pr = delivery.pr] ELSE run
      /\ writes' = IF run' = run THEN <<>> ELSE <<"runs">>
      /\ delivery' = [delivery EXCEPT !.at = "end"]
      /\ UNCHANGED <<up, history, routines, kept, hits, file, stage, placed, dropping,
                     ending, cancelling, pumpDue, looking, world, told>>

DeliverEnds ==
  LET r == delivery.run
  IN  /\ Unlocked
      /\ delivery.at \in {"end", "fail"}
      /\ delivery' = Nobody
      /\ Finish(r, As(r, IF delivery.at = "end" THEN "Ok" ELSE "Failed"))
      /\ UNCHANGED <<up, history, routines, kept, hits, file, stage, placed, ending,
                     cancelling, looking, world>>

-----------------------------------------------------------------------------
(* The daemon's life *)

\* Mutant: a run that ran when the daemon died goes on
LoadedAsIs(r) == file.run[r]

\* Routines::load: what ran when the daemon died has failed
Loaded(r) ==
  IF file.run[r].status = "Running"
  THEN [file.run[r] EXCEPT !.status = "Failed"] ELSE file.run[r]

NoTasks ==
  /\ stage' = [r \in Runs |-> "none"]
  /\ placed' = [r \in Runs |-> NoPr]
  /\ dropping' = {}
  /\ ending' = {}
  /\ cancelling' = {}
  /\ pumpDue' = FALSE
  /\ looking' = {}
  /\ delivery' = Nobody
  /\ news' = {}

Load(hitsFile) ==
  /\ up' = TRUE
  /\ routines' = file.routines
  /\ kept' = file.kept
  /\ run' = [r \in Runs |-> IF r \in file.kept THEN Loaded(r) ELSE file.run[r]]
  /\ hits' = hitsFile
  /\ writes' = <<"runs">>
  /\ shown' = [r \in Runs |-> View(run'[r])]
  /\ NoTasks
  /\ UNCHANGED <<history, prs>>

Start ==
  /\ ~up
  /\ Load(file.hits)
  /\ UNCHANGED <<file, agent, killed>>

\* The image goes and the sessions with it; stop() saves the engine first
Down(hitsFile) ==
  /\ up' = FALSE
  /\ routines' = {}
  /\ kept' = {}
  /\ run' = file.run
  /\ hits' = {}
  /\ writes' = <<>>
  /\ file' = [file EXCEPT !.hits = hitsFile]
  /\ agent' = [r \in Runs |-> IF agent[r] = "none" THEN "none" ELSE "gone"]
  /\ NoTasks
  /\ UNCHANGED <<history, killed, prs, shown>>

\* The runtime's shutdown lets a handler come to its end
Stop ==
  /\ Unlocked
  /\ dropping \cup ending \cup cancelling = {} /\ news = {}
  /\ Down(hits)

Crash == up /\ Down(file.hits)

\* hand_off: stop() and a load in the new image, whose adopted sessions run on
Exec ==
  /\ Upgrades
  /\ Unlocked
  /\ dropping \cup ending \cup cancelling = {} /\ news = {}
  /\ file' = [file EXCEPT !.hits = hits]
  /\ Load(hits)
  /\ UNCHANGED <<agent, killed>>

-----------------------------------------------------------------------------

Request ==
  \/ \E rt \in Routines :
       \/ Put(rt) \/ Remove(rt)
       \/ \E skip \in BOOLEAN : Fire(rt, skip)
  \/ \E r \in Runs : Cancel(r)

Task(r) ==
  \/ EndRemoved(r) \/ DropHit(r) \/ CancelEnds(r)
  \/ Place(r) \/ StartFails(r) \/ StartCreate(r) \/ StartTell(r)
  \/ WatchClosed(r) \/ WatchLive(r) \/ WatchBreach(r) \/ WatchExit(r) \/ WatchOk(r)

World ==
  \E r \in Runs : AgentExits(r) \/ TabClosed(r) \/ PrCloses(r)

Next ==
  \/ Write \/ Tick \/ Pump \/ WatchTake \/ Deliver \/ NotePr \/ DeliverEnds
  \/ Start \/ Stop \/ Crash \/ Exec
  \/ Request
  \/ World
  \/ \E r \in Runs : Task(r)
  \/ \E n \in news : Broadcast(n)

Spec == Init /\ [][Next]_vars

Watch ==
  \/ WatchTake
  \/ \E r \in Runs : WatchClosed(r) \/ WatchLive(r) \/ WatchExit(r) \/ WatchOk(r)

\* The timers and the tasks run and get the lock when they wait for it again
\* and again; writes, deliveries and setups come back; and an agent ends some
\* day, though nothing but its budget bounds how long it runs
Fairness ==
  /\ WF_vars(Write)
  /\ WF_vars(Deliver \/ \E r \in Runs : AgentExits(r) \/ StartCreate(r))
  /\ SF_vars(Tick \/ Pump)
  /\ SF_vars(Watch)
  /\ SF_vars(NotePr \/ DeliverEnds
              \/ \E r \in Runs : Place(r) \/ StartTell(r) \/ EndRemoved(r))

FairSpec == Spec /\ Fairness

-----------------------------------------------------------------------------
(* Properties *)

\* "maxParallel slots; the rest wait queued": however fires, finishes and ticks
\* pump at the same time, no more runs run than there are slots (take_startable)
SlotsBounded == Cardinality(Running) <= MaxParallel

\* An agent that runs is one of a running run, which the watcher looks at and
\* whose budget it enforces, or was hung up, or its start task is about to say
\* whose it is (start, RunCancel, watch_run): none runs on unattended
AgentsWatched ==
  up => \A r \in Runs : agent[r] = "live" /\ stage[r] = "none" =>
    r \in killed \/ r \in Running

\* A queued run of a routine that is there can be started after a crash at any
\* point (enqueue, take_startable and end write two files each)
QueuedHasHit ==
  \A r \in file.kept :
    file.run[r].status = "Queued" /\ file.run[r].routine \in file.routines =>
      r \in file.hits

\* What runs.jsonl says has ended never changes again, whichever of cancel,
\* watcher, setup, remove and restart comes last (update, end)
EndedStays ==
  [][\A r \in file.kept : Ended(file.run[r].status) /\ r \in file'.kept =>
       file'.run[r].status = file.run[r].status]_vars

\* A running run is one this image started: after a crash none is waited for
\* that nobody will end (load, start)
RunningIsOurs ==
  up => \A r \in Running : stage[r] # "none" \/ run[r].session

\* "A run was queued, started, progressed (turns, cost) or ended; goes to every
\* client" (RunChanged): once no event is under way the clients know the status
\* of every run whose routine is still there
ClientsTold ==
  up /\ news = {} => \A r \in kept : run[r].routine \in routines =>
    shown[r].status = run[r].status

\* The same of a run's turns and cost
ProgressTold ==
  [][\A r \in Runs : r \in kept /\ r \in kept' /\ up /\ up' /\
       run'[r].spent # run[r].spent => shown'[r].spent = run'[r].spent]_vars

\* "while it's open, later runs add to it" (RoutineResult::DraftPr): a run that
\* is placed, with no delivery under way, while a pull request of its routine is
\* open is placed on one
LaterRunsAdd ==
  [][\A r \in Runs :
       Active(r) /\ stage[r] = "place" /\ stage'[r] = "create" /\ delivery = Nobody =>
         placed'[r] # NoPr \/ \A p \in prs : run[p].routine # run[r].routine]_vars

\* A queued run starts or ends, while this image runs (pump, Tick)
QueuedMoves ==
  \A r \in Runs : (up /\ r \in Queued) ~> (~up \/ r \notin Queued)

\* A running run ends, while this image runs (start, watch_run, deliver)
RunEnds ==
  \A r \in Runs : (up /\ r \in Running) ~> (~up \/ r \notin Running)

\* Every run gets to its end, while this image runs (pump, Tick, watch_run): no
\* run waits for a slot nobody frees or for an agent nobody looks at
RunsMove == QueuedMoves /\ RunEnds
=============================================================================
