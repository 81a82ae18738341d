-------------------------- MODULE RoutineRunsProofs --------------------------
(***************************************************************************)
(* What RoutineRuns guarantees for every set of routines, every number of  *)
(* slots, runs and kept runs, with handlers overtaken and daemons upgraded *)
(* or not: its files, then its slots, start tasks, watcher and broadcasts. *)
(* No more runs than slots, none waited for that nobody ends, clients that *)
(* know, and no agent that runs on unattended.                             *)
(***************************************************************************)
EXTENDS RoutineRuns, SequenceTheorems, FiniteSetTheorems, TLAPS

-----------------------------------------------------------------------------
(* The inductive invariant *)

FileShape ==
  file \in [routines : SUBSET Routines, kept : SUBSET Runs,
            run : [Runs -> RunRecords], hits : SUBSET Runs]

\* The critical sections: the files each of them writes, in order
WriteShape ==
  /\ writes \in {<<>>, <<"routines">>, <<"runs">>, <<"engine">>,
                 <<"engine", "runs">>, <<"runs", "engine">>}
  /\ writes # <<>> => up

EngineNext == writes = <<"engine">> \/ writes = <<"engine", "runs">>
RunsNext == writes = <<"runs">> \/ writes = <<"runs", "engine">>

\* The routines memory or routines.json has
AnyRoutine == file.routines \cup routines

Waits(rec) == rec.status = "Queued" /\ rec.routine \in AnyRoutine

\* A queued run can be started from memory, from the files, and from either
\* half of them while the other is being written
MemoryHit == \A r \in kept : Waits(run[r]) => r \in hits
FileHit == \A r \in file.kept : Waits(file.run[r]) => r \in file.hits
MemoryFileHit == ~EngineNext => \A r \in kept : Waits(run[r]) => r \in file.hits
FileMemoryHit ==
  up /\ ~RunsNext => \A r \in file.kept : Waits(file.run[r]) => r \in hits

\* The hits end() still has to drop are of runs that are not queued
DroppingEnded ==
  \A r \in dropping :
    /\ r \in kept => run[r].status # "Queued"
    /\ r \in file.kept /\ ~RunsNext => file.run[r].status # "Queued"

\* A run keeps its routine, and what the file says has ended has ended
SameRun ==
  \A r \in kept \cap file.kept :
    /\ file.run[r].routine = run[r].routine
    /\ Ended(file.run[r].status) => run[r].status = file.run[r].status

RoutinesDrawn ==
  /\ \A r \in kept : run[r].routine \in drawn
  /\ \A r \in file.kept : file.run[r].routine \in drawn

RoutinesWritten == up /\ writes # <<"routines">> => file.routines = routines

Consistent ==
  /\ MemoryHit
  /\ FileHit
  /\ MemoryFileHit
  /\ FileMemoryHit
  /\ DroppingEnded
  /\ SameRun
  /\ RoutinesDrawn
  /\ RoutinesWritten

IInv ==
  /\ TypeOK
  /\ FileShape
  /\ WriteShape
  /\ Consistent

-----------------------------------------------------------------------------
(* The sequences of writes *)

LEMMA WriteSteps ==
  /\ Head(<<"routines">>) = "routines" /\ Tail(<<"routines">>) = <<>>
  /\ Head(<<"runs">>) = "runs" /\ Tail(<<"runs">>) = <<>>
  /\ Head(<<"engine">>) = "engine" /\ Tail(<<"engine">>) = <<>>
  /\ Head(<<"engine", "runs">>) = "engine" /\ Tail(<<"engine", "runs">>) = <<"runs">>
  /\ Head(<<"runs", "engine">>) = "runs" /\ Tail(<<"runs", "engine">>) = <<"engine">>
  <1>1. Head(<<"routines">>) = "routines" /\ Tail(<<"routines">>) = <<>>
    OBVIOUS
  <1>2. Head(<<"runs">>) = "runs" /\ Tail(<<"runs">>) = <<>>
    OBVIOUS
  <1>3. Head(<<"engine">>) = "engine" /\ Tail(<<"engine">>) = <<>>
    OBVIOUS
  <1>4. Head(<<"engine", "runs">>) = "engine" /\ Tail(<<"engine", "runs">>) = <<"runs">>
    OBVIOUS
  <1>5. Head(<<"runs", "engine">>) = "runs" /\ Tail(<<"runs", "engine">>) = <<"engine">>
    OBVIOUS
  <1>6. QED
    BY <1>1, <1>2, <1>3, <1>4, <1>5

\* No two of them are the same
LEMMA WritesDistinct ==
  /\ <<>> # <<"routines">> /\ <<>> # <<"runs">> /\ <<>> # <<"engine">>
  /\ <<>> # <<"engine", "runs">> /\ <<>> # <<"runs", "engine">>
  /\ <<"routines">> # <<"runs">> /\ <<"routines">> # <<"engine">>
  /\ <<"routines">> # <<"engine", "runs">> /\ <<"routines">> # <<"runs", "engine">>
  /\ <<"runs">> # <<"engine">> /\ <<"runs">> # <<"engine", "runs">>
  /\ <<"runs">> # <<"runs", "engine">> /\ <<"engine">> # <<"engine", "runs">>
  /\ <<"engine">> # <<"runs", "engine">>
  /\ <<"engine", "runs">> # <<"runs", "engine">>
  OBVIOUS

\* They are all sequences of files
LEMMA WriteType ==
  /\ <<>> \in Seq(Files)
  /\ <<"routines">> \in Seq(Files) /\ <<"runs">> \in Seq(Files) /\ <<"engine">> \in Seq(Files)
  /\ <<"engine", "runs">> \in Seq(Files) /\ <<"runs", "engine">> \in Seq(Files)
  <1>1. <<>> \in Seq(Files)
    OBVIOUS
  <1>2. <<"routines">> \in Seq(Files) /\ <<"runs">> \in Seq(Files) /\ <<"engine">> \in Seq(Files)
    BY DEF Files
  <1>3. <<"engine", "runs">> \in Seq(Files) /\ <<"runs", "engine">> \in Seq(Files)
    BY DEF Files
  <1>4. QED
    BY <1>1, <1>2, <1>3

-----------------------------------------------------------------------------
(* Types *)

\* The variables Consistent speaks of, apart from writes
core == <<up, drawn, fired, routines, kept, run, hits, file, dropping>>

LEMMA Typed ==
  ASSUME IInv
  PROVE  /\ fired \in Nat /\ 1..fired \subseteq Runs
         /\ kept \subseteq Runs /\ hits \subseteq Runs /\ dropping \subseteq Runs
         /\ file.kept \subseteq Runs
         /\ \A r \in Runs : run[r] \in RunRecords /\ file.run[r] \in RunRecords
  <1>1. fired \in Nat /\ 1..fired \subseteq Runs
    BY RunsAssumption DEF IInv, TypeOK, Runs
  <1>2. QED
    BY <1>1 DEF IInv, TypeOK

\* changed keeps the types of the events and of what clients know
LEMMA TellType ==
  ASSUME TypeOK, NEW S \in SUBSET Runs, Tell(S), run' \in [Runs -> RunRecords]
  PROVE  news' \subseteq Runs \X Views /\ shown' \in [Runs -> Views]
  <1>1. \A r \in Runs : View(run'[r]) \in Views
    BY DEF View, Views, RunRecords
  <1>2. CASE LateNews
    BY <1>1, <1>2 DEF Tell, TypeOK
  <1>3. CASE ~LateNews
    BY <1>1, <1>3 DEF Tell, TypeOK
  <1>4. QED
    BY <1>2, <1>3

-----------------------------------------------------------------------------
(* Steps of the same kind *)

\* A step that touches neither the memory nor the files
LEMMA QuietKeeps ==
  ASSUME IInv, UNCHANGED core, UNCHANGED writes
  PROVE  FileShape' /\ WriteShape' /\ Consistent'
  <1> USE DEF core
  <1>1. FileShape' /\ WriteShape'
    BY DEF IInv, FileShape, WriteShape, Unlocked
  <1>2. MemoryHit' /\ FileHit' /\ MemoryFileHit' /\ FileMemoryHit'
    BY DEF IInv, Consistent, MemoryHit, FileHit, MemoryFileHit, FileMemoryHit, Waits,
           AnyRoutine, EngineNext, RunsNext
  <1>3. DroppingEnded' /\ SameRun' /\ RoutinesDrawn' /\ RoutinesWritten'
    BY DEF IInv, Consistent, DroppingEnded, SameRun, RoutinesDrawn, RoutinesWritten,
           RunsNext
  <1>4. QED
    BY <1>1, <1>2, <1>3 DEF Consistent

\* A critical section that only saves the hits
LEMMA EngineKeeps ==
  ASSUME IInv, Unlocked, UNCHANGED core, writes' = <<"engine">>
  PROVE  FileShape' /\ WriteShape' /\ Consistent'
  <1> USE DEF core
  <1>1. FileShape' /\ WriteShape'
    BY DEF IInv, FileShape, WriteShape, Unlocked
  <1>2. writes = <<>> /\ ~RunsNext' /\ ~RunsNext /\ EngineNext' /\ writes' # <<"routines">>
    BY WritesDistinct DEF Unlocked, RunsNext, EngineNext
  <1>3. MemoryHit' /\ FileHit' /\ MemoryFileHit' /\ FileMemoryHit'
    BY <1>2 DEF IInv, Consistent, MemoryHit, FileHit, MemoryFileHit, FileMemoryHit, Waits,
           AnyRoutine
  <1>4. DroppingEnded' /\ SameRun' /\ RoutinesDrawn' /\ RoutinesWritten'
    BY <1>2, WritesDistinct DEF IInv, Consistent, DroppingEnded, SameRun, RoutinesDrawn,
           RoutinesWritten
  <1>5. QED
    BY <1>1, <1>3, <1>4 DEF Consistent

\* A critical section that changes the record of a run that has not ended, whose
\* routine stays and which is not queued again, and saves the runs
LEMMA RecordKeeps ==
  ASSUME IInv, Unlocked, NEW r \in Runs, Active(r), NEW rec \in RunRecords,
         rec.routine = run[r].routine,
         rec.status = "Queued" => run[r].status = "Queued" /\ dropping' = dropping,
         run' = [run EXCEPT ![r] = rec], writes' = <<"runs">>,
         dropping' \subseteq dropping \cup {r},
         UNCHANGED <<up, drawn, fired, routines, kept, hits, file>>
  PROVE  /\ run' \in [Runs -> RunRecords]
         /\ dropping' \subseteq 1..fired
         /\ FileShape' /\ WriteShape' /\ Consistent'
  <1>1. run' \in [Runs -> RunRecords]
    BY DEF IInv, TypeOK
  <1>2. dropping' \subseteq 1..fired
    BY DEF IInv, TypeOK, Active
  <1>3. FileShape' /\ WriteShape'
    BY DEF IInv, FileShape, WriteShape, Unlocked
  <1>4. writes = <<>> /\ RunsNext' /\ ~RunsNext /\ ~EngineNext /\ writes' # <<"routines">>
    BY WritesDistinct DEF Unlocked, RunsNext, EngineNext
  <1>5. /\ run'[r] = rec
        /\ \A q \in Runs : q # r => run'[q] = run[q]
    BY DEF IInv, TypeOK
  <1>6. \A q \in Runs : Waits(run'[q]) => Waits(run[q])
    BY <1>5 DEF Waits, AnyRoutine
  <1>7. AnyRoutine' = AnyRoutine
    BY DEF AnyRoutine
  <1>8. \A q \in kept : Waits(run[q])' => Waits(run[q])
    BY <1>6, <1>7, Typed DEF Waits
  <1>9. MemoryHit' /\ MemoryFileHit'
    BY <1>4, <1>8 DEF IInv, Consistent, MemoryHit, MemoryFileHit
  <1>10. FileHit' /\ FileMemoryHit'
    BY <1>4, <1>7 DEF IInv, Consistent, FileHit, FileMemoryHit, Waits
  <1>11. DroppingEnded'
    BY <1>4, <1>5, Typed DEF IInv, Consistent, DroppingEnded
  <1>12. SameRun'
    BY <1>5, Typed DEF IInv, Consistent, SameRun, Active
  <1>13. RoutinesDrawn'
    BY <1>5, Typed DEF IInv, Consistent, RoutinesDrawn
  <1>14. RoutinesWritten'
    BY <1>4, WritesDistinct DEF IInv, Consistent, RoutinesWritten
  <1>15. QED
    BY <1>1, <1>2, <1>3, <1>9, <1>10, <1>11, <1>12, <1>13, <1>14 DEF Consistent

\* end
LEMMA EndKeeps ==
  ASSUME IInv, Unlocked, NEW r, NEW rec, End(r, rec),
         Active(r) => /\ rec \in RunRecords
                      /\ rec.routine = run[r].routine /\ rec.status # "Queued",
         UNCHANGED <<up, drawn, fired, routines, kept, hits, file>>
  PROVE  /\ run' \in [Runs -> RunRecords]
         /\ writes' \in Seq(Files)
         /\ dropping' \subseteq 1..fired
         /\ news' \subseteq Runs \X Views /\ shown' \in [Runs -> Views]
         /\ FileShape' /\ WriteShape' /\ Consistent'
  <1>1. CASE Active(r)
    <2>1. /\ run' = [run EXCEPT ![r] = rec] /\ writes' = <<"runs">>
          /\ dropping' = dropping \cup {r} /\ Tell({r})
      BY <1>1 DEF End
    <2>a. r \in Runs
      BY <1>1, Typed DEF Active
    <2>2. /\ run' \in [Runs -> RunRecords]
          /\ dropping' \subseteq 1..fired
          /\ FileShape' /\ WriteShape' /\ Consistent'
      BY <1>1, <2>1, <2>a, RecordKeeps
    <2>3. writes' \in Seq(Files)
      BY <2>1 DEF Files
    <2>4. news' \subseteq Runs \X Views /\ shown' \in [Runs -> Views]
      BY <2>1, <2>2, <2>a, TellType DEF IInv
    <2>5. QED
      BY <2>2, <2>3, <2>4
  <1>2. CASE ~Active(r)
    <2>1. UNCHANGED <<run, writes, dropping, told>>
      BY <1>2 DEF End
    <2>2. QED
      BY <2>1, QuietKeeps DEF IInv, TypeOK, core, told
  <1>3. QED
    BY <1>1, <1>2

-----------------------------------------------------------------------------
(* The initial states *)

LEMMA InitKeeps ==
  Init => IInv
  <1> SUFFICES ASSUME Init PROVE IInv
    OBVIOUS
  <1> USE DEF Init
  <1>1. \A r \in Runs : Unfired(r) \in RunRecords
    <2>1. (CHOOSE rt \in Routines : TRUE) \in Routines
      BY RunsAssumption
    <2>2. QED
      BY <2>1, RunsAssumption DEF Unfired, RunRecords, Statuses, Open, Prs
  <1>2. EmptyFiles.run \in [Runs -> RunRecords]
    BY <1>1 DEF EmptyFiles
  <1>3. FileShape /\ WriteShape
    BY <1>2 DEF FileShape, WriteShape, EmptyFiles
  <1>4. shown \in [Runs -> Views]
    BY <1>2 DEF View, Views, RunRecords
  <1>5. TypeOK
    <2>1. /\ up \in BOOLEAN /\ drawn \subseteq Routines /\ fired \in 0..MaxRuns
          /\ routines \subseteq drawn /\ kept \subseteq 1..fired
          /\ run \in [Runs -> RunRecords] /\ hits \subseteq 1..fired
          /\ writes \in Seq(Files)
      <3>1. fired \in 0..MaxRuns
        BY RunsAssumption
      <3>2. writes \in Seq(Files)
        OBVIOUS
      <3>3. run \in [Runs -> RunRecords]
        BY <1>2
      <3>4. QED
        BY <3>1, <3>2, <3>3
    <2>2. /\ file.routines \subseteq drawn /\ file.kept \subseteq 1..fired
          /\ file.run \in [Runs -> RunRecords] /\ file.hits \subseteq 1..fired
      BY <1>2 DEF EmptyFiles
    <2>3. /\ stage \in [Runs -> {"none", "place", "create", "tell"}]
          /\ placed \in [Runs -> Prs]
          /\ agent \in [Runs -> {"none", "live", "ok", "bad", "gone"}]
          /\ delivery \in Deliveries
      BY DEF Prs, Deliveries
    <2>4. QED
      BY <1>4, <2>1, <2>2, <2>3 DEF TypeOK
  <1>6. Consistent
    BY WritesDistinct DEF Consistent, MemoryHit, FileHit, MemoryFileHit, FileMemoryHit,
       DroppingEnded, SameRun, RoutinesDrawn, RoutinesWritten, EmptyFiles
  <1>7. QED
    BY <1>3, <1>5, <1>6 DEF IInv

-----------------------------------------------------------------------------
(* The files *)

LEMMA WriteKeeps ==
  ASSUME IInv, Write
  PROVE  IInv'
  <1> USE DEF Write, history, memory, tasks, world, told
  <1>1. UNCHANGED <<up, drawn, fired, routines, kept, run, hits, dropping>>
    OBVIOUS
  <1>2. CASE writes = <<"routines">>
    <2>1. writes' = <<>> /\ file' = [file EXCEPT !.routines = routines]
      BY <1>2, WriteSteps
    <2>2. /\ file'.routines = routines /\ file'.kept = file.kept
          /\ file'.run = file.run /\ file'.hits = file.hits
      BY <2>1 DEF IInv, FileShape
    <2>3. FileShape' /\ WriteShape'
      BY <2>1 DEF IInv, FileShape, WriteShape, TypeOK
    <2>4. TypeOK'
      BY <2>1, <2>2, <1>1 DEF IInv, TypeOK
    <2>5. AnyRoutine' \subseteq AnyRoutine
      BY <2>2 DEF AnyRoutine
    <2>6. ~EngineNext /\ ~RunsNext /\ ~EngineNext' /\ ~RunsNext'
      BY <1>2, <2>1, WritesDistinct DEF EngineNext, RunsNext
    <2>7. MemoryHit' /\ FileHit' /\ MemoryFileHit' /\ FileMemoryHit'
      BY <1>1, <2>2, <2>5, <2>6 DEF IInv, Consistent, MemoryHit, FileHit, MemoryFileHit,
         FileMemoryHit, Waits
    <2>8. DroppingEnded' /\ SameRun' /\ RoutinesDrawn' /\ RoutinesWritten'
      BY <1>1, <2>2, <2>6 DEF IInv, Consistent, DroppingEnded, SameRun, RoutinesDrawn,
         RoutinesWritten
    <2>9. QED
      BY <2>3, <2>4, <2>7, <2>8 DEF IInv, Consistent
  <1>3. CASE RunsNext
    <2>1. file' = [file EXCEPT !.kept = kept, !.run = run]
      BY <1>3, WriteSteps DEF RunsNext
    <2>2. /\ file'.routines = file.routines /\ file'.kept = kept
          /\ file'.run = run /\ file'.hits = file.hits
      BY <2>1 DEF IInv, FileShape
    <2>3. writes' = <<>> \/ writes' = <<"engine">>
      BY <1>3, WriteSteps DEF RunsNext
    <2>4. FileShape' /\ WriteShape'
      BY <2>1, <2>3, Typed DEF IInv, FileShape, WriteShape, TypeOK
    <2>5. TypeOK'
      BY <2>3, <2>4, WriteType, <2>2, <1>1 DEF IInv, TypeOK, Files
    <2>6. AnyRoutine' = AnyRoutine /\ ~EngineNext
      BY <1>1, <1>3, <2>2, WritesDistinct DEF AnyRoutine, EngineNext, RunsNext
    <2>7. ~RunsNext'
      BY <2>3, WritesDistinct DEF RunsNext
    <2>8. \A q : Waits(run[q])' <=> Waits(run[q])
      BY <1>1, <2>6 DEF Waits
    <2>9. MemoryHit' /\ MemoryFileHit'
      BY <1>1, <2>2, <2>6, <2>8 DEF IInv, Consistent, MemoryHit, MemoryFileHit
    <2>10. FileHit' /\ FileMemoryHit'
      BY <1>1, <2>2, <2>6 DEF IInv, Consistent, MemoryHit, MemoryFileHit, FileHit,
         FileMemoryHit, Waits
    <2>11. DroppingEnded' /\ SameRun' /\ RoutinesDrawn'
      BY <1>1, <2>2 DEF IInv, Consistent, DroppingEnded, SameRun, RoutinesDrawn
    <2>12. RoutinesWritten'
      BY <1>1, <1>3, <2>2, WritesDistinct DEF IInv, Consistent, RoutinesWritten, RunsNext
    <2>13. QED
      BY <2>4, <2>5, <2>9, <2>10, <2>11, <2>12 DEF IInv, Consistent
  <1>4. CASE EngineNext
    <2>1. file' = [file EXCEPT !.hits = hits]
      BY <1>4, WriteSteps DEF EngineNext
    <2>2. /\ file'.routines = file.routines /\ file'.kept = file.kept
          /\ file'.run = file.run /\ file'.hits = hits
      BY <2>1 DEF IInv, FileShape
    <2>3. writes' = <<>> \/ writes' = <<"runs">>
      BY <1>4, WriteSteps DEF EngineNext
    <2>4. FileShape' /\ WriteShape'
      BY <2>1, <2>3, Typed DEF IInv, FileShape, WriteShape, TypeOK
    <2>5. TypeOK'
      BY <2>3, <2>2, <1>1 DEF IInv, TypeOK, Files
    <2>6. AnyRoutine' = AnyRoutine /\ ~RunsNext
      BY <1>1, <1>4, <2>2, WritesDistinct DEF AnyRoutine, EngineNext, RunsNext
    <2>7. MemoryHit' /\ MemoryFileHit'
      BY <1>1, <2>2, <2>6 DEF IInv, Consistent, MemoryHit, MemoryFileHit, Waits
    <2>8. FileHit'
      BY <1>1, <2>2, <2>6 DEF IInv, Consistent, WriteShape, FileHit, FileMemoryHit, Waits
    <2>9. FileMemoryHit'
      BY <1>1, <2>2, <2>6 DEF IInv, Consistent, FileHit, FileMemoryHit, Waits
    <2>10. DroppingEnded' /\ SameRun' /\ RoutinesDrawn'
      BY <1>1, <2>2, <2>6 DEF IInv, Consistent, DroppingEnded, SameRun, RoutinesDrawn
    <2>11. RoutinesWritten'
      BY <1>1, <1>4, <2>2, WritesDistinct DEF IInv, Consistent, RoutinesWritten, EngineNext
    <2>12. QED
      BY <2>4, <2>5, <2>7, <2>8, <2>9, <2>10, <2>11 DEF IInv, Consistent
  <1>5. QED
    BY <1>2, <1>3, <1>4 DEF IInv, WriteShape, RunsNext, EngineNext

-----------------------------------------------------------------------------
(* Steps that end a run *)

LEMMA AsType ==
  ASSUME IInv, NEW r \in Runs, NEW status \in Statuses
  PROVE  /\ As(r, status) \in RunRecords
         /\ As(r, status).routine = run[r].routine
         /\ As(r, status).status = status
  BY Typed DEF As, RunRecords

LEMMA SpentType ==
  ASSUME IInv, NEW r \in Runs, NEW n \in Spends, NEW status \in Statuses
  PROVE  /\ Spent(r, n) \in RunRecords
         /\ Spent(r, n).routine = run[r].routine
         /\ Spent(r, n).status = run[r].status
         /\ [Spent(r, n) EXCEPT !.status = status] \in RunRecords
         /\ [Spent(r, n) EXCEPT !.status = status].routine = run[r].routine
         /\ [Spent(r, n) EXCEPT !.status = status].status = status
  BY Typed DEF Spent, RunRecords

\* finish, in a step that leaves the agents' side typed
LEMMA FinishKeeps ==
  ASSUME IInv, Unlocked, NEW r, NEW rec, Finish(r, rec),
         Active(r) => /\ rec \in RunRecords
                      /\ rec.routine = run[r].routine /\ rec.status # "Queued",
         UNCHANGED <<up, drawn, fired, routines, kept, hits, file, placed, ending,
                     agent, prs>>,
         stage' \in [Runs -> {"none", "place", "create", "tell"}],
         killed' \subseteq Runs, cancelling' \subseteq 1..fired,
         looking' \subseteq 1..fired,
         delivery' \in Deliveries
  PROVE  IInv'
  <1>1. /\ run' \in [Runs -> RunRecords]
        /\ writes' \in Seq(Files)
        /\ dropping' \subseteq 1..fired
        /\ news' \subseteq Runs \X Views /\ shown' \in [Runs -> Views]
        /\ FileShape' /\ WriteShape' /\ Consistent'
    BY EndKeeps DEF Finish
  <1>2. pumpDue' \in BOOLEAN
    BY DEF Finish
  <1>3. TypeOK'
    BY <1>1, <1>2 DEF IInv, TypeOK
  <1>4. QED
    BY <1>1, <1>3 DEF IInv

LEMMA StartFailsKeeps ==
  ASSUME IInv, NEW r \in Runs, StartFails(r)
  PROVE  IInv'
  <1> USE DEF StartFails, history, world
  <1>1. As(r, "Failed") \in RunRecords /\ As(r, "Failed").routine = run[r].routine
        /\ As(r, "Failed").status = "Failed"
    BY AsType DEF Statuses
  <1>2. stage' \in [Runs -> {"none", "place", "create", "tell"}]
    BY DEF IInv, TypeOK
  <1>3. QED
    BY <1>1, <1>2, FinishKeeps DEF IInv, TypeOK

LEMMA CancelEndsKeeps ==
  ASSUME IInv, NEW r \in Runs, CancelEnds(r)
  PROVE  IInv'
  <1> USE DEF CancelEnds, history, world
  <1>1. As(r, "Cancelled") \in RunRecords /\ As(r, "Cancelled").routine = run[r].routine
        /\ As(r, "Cancelled").status = "Cancelled"
    BY AsType DEF Statuses
  <1>2. QED
    BY <1>1, FinishKeeps DEF IInv, TypeOK

LEMMA CancelKeeps ==
  ASSUME IInv, NEW r \in Runs, Cancel(r)
  PROVE  IInv'
  <1> USE DEF Cancel, history
  <1>1. As(r, "Cancelled") \in RunRecords /\ As(r, "Cancelled").routine = run[r].routine
        /\ As(r, "Cancelled").status = "Cancelled"
    BY AsType DEF Statuses
  <1>2. r \in 1..fired
    BY DEF Active, IInv, TypeOK
  <1>3. killed' \subseteq Runs
    BY <1>2 DEF IInv, TypeOK
  <1>4. CASE Racing
    <2>1. FileShape' /\ WriteShape' /\ Consistent'
      BY <1>4, QuietKeeps DEF core
    <2>2. TypeOK'
      BY <1>2, <1>3, <1>4 DEF IInv, TypeOK, told
    <2>3. QED
      BY <2>1, <2>2 DEF IInv
  <1>5. CASE ~Racing
    BY <1>1, <1>3, <1>5, FinishKeeps DEF IInv, TypeOK
  <1>6. QED
    BY <1>4, <1>5

LEMMA WatchEndKeeps ==
  ASSUME IInv, NEW r \in Runs, WatchClosed(r) \/ WatchBreach(r) \/ WatchExit(r)
  PROVE  IInv'
  <1> USE DEF history, world, Looked
  <1>1. CASE WatchClosed(r)
    <2>1. As(r, "Cancelled") \in RunRecords /\ As(r, "Cancelled").routine = run[r].routine
          /\ As(r, "Cancelled").status = "Cancelled"
      BY AsType DEF Statuses
    <2>2. looking' \subseteq 1..fired
      BY <1>1 DEF WatchClosed, IInv, TypeOK
    <2>3. QED
      BY <1>1, <2>1, <2>2, FinishKeeps DEF WatchClosed, IInv, TypeOK
  <1>2. CASE WatchBreach(r)
    <2> DEFINE rec == [Spent(r, 2) EXCEPT !.status = "OverBudget"]
    <2>1. rec \in RunRecords /\ rec.routine = run[r].routine /\ rec.status = "OverBudget"
      BY <1>2, SpentType DEF Statuses, WatchBreach
    <2>2. looking' \subseteq 1..fired /\ killed' \subseteq Runs
      BY <1>2 DEF WatchBreach, KillOf, IInv, TypeOK
    <2>3. Finish(r, rec) /\ Unlocked
      BY <1>2 DEF WatchBreach
    <2> HIDE DEF rec
    <2>4. QED
      BY <1>2, <2>1, <2>2, <2>3, FinishKeeps DEF WatchBreach, IInv, TypeOK
  <1>3. CASE WatchExit(r)
    <2>1. PICK n \in Spends :
            Finish(r, [Spent(r, n) EXCEPT !.status =
              IF agent[r] = "ok" THEN "Ok"
              ELSE IF n >= 1 /\ run[r].routine \in routines THEN "OverBudget"
              ELSE "Failed"])
      BY <1>3 DEF WatchExit
    <2> DEFINE status ==
          IF agent[r] = "ok" THEN "Ok"
          ELSE IF n >= 1 /\ run[r].routine \in routines THEN "OverBudget"
          ELSE "Failed"
    <2> DEFINE rec == [Spent(r, n) EXCEPT !.status = status]
    <2>2. status \in Statuses /\ status # "Queued"
      BY DEF Statuses
    <2>3. Finish(r, rec)
      BY <2>1
    <2> HIDE DEF status
    <2>4. rec \in RunRecords /\ rec.routine = run[r].routine /\ rec.status # "Queued"
      BY <2>2, SpentType
    <2>5. looking' \subseteq 1..fired
      BY <1>3 DEF WatchExit, IInv, TypeOK
    <2> HIDE DEF rec
    <2>6. /\ Unlocked
          /\ UNCHANGED <<up, drawn, fired, routines, kept, hits, file, stage, placed,
                         ending, cancelling, delivery, agent, killed, prs>>
      BY <1>3 DEF WatchExit
    <2>7. QED
      BY <2>3, <2>4, <2>5, <2>6, FinishKeeps DEF IInv, TypeOK
  <1>4. QED
    BY <1>1, <1>2, <1>3

LEMMA DeliverEndsKeeps ==
  ASSUME IInv, DeliverEnds
  PROVE  IInv'
  <1> DEFINE r == delivery.run
             status == IF delivery.at = "end" THEN "Ok" ELSE "Failed"
             rec == As(r, status)
  <1>1. /\ Unlocked /\ delivery' = Nobody /\ Finish(r, rec)
        /\ UNCHANGED <<up, drawn, fired, routines, kept, hits, file, stage, placed,
                       ending, cancelling, looking, agent, killed, prs>>
    BY DEF DeliverEnds, history, world
  <1>2. status \in Statuses /\ status # "Queued"
    BY DEF Statuses
  <1> HIDE DEF r, status
  <1>3. Active(r) => r \in Runs
    BY Typed DEF Active
  <1>4. Active(r) =>
          rec \in RunRecords /\ rec.routine = run[r].routine /\ rec.status # "Queued"
    BY <1>2, <1>3, AsType
  <1> HIDE DEF rec
  <1>5. Nobody \in Deliveries
    BY DEF Deliveries
  <1>6. QED
    BY <1>1, <1>4, <1>5, FinishKeeps DEF IInv, TypeOK

LEMMA EndRemovedKeeps ==
  ASSUME IInv, NEW r \in Runs, EndRemoved(r)
  PROVE  IInv'
  <1> USE DEF EndRemoved, history, world
  <1>1. As(r, "Cancelled") \in RunRecords /\ As(r, "Cancelled").routine = run[r].routine
        /\ As(r, "Cancelled").status = "Cancelled"
    BY AsType DEF Statuses
  <1>2. /\ run' \in [Runs -> RunRecords]
        /\ writes' \in Seq(Files)
        /\ dropping' \subseteq 1..fired
        /\ news' \subseteq Runs \X Views /\ shown' \in [Runs -> Views]
        /\ FileShape' /\ WriteShape' /\ Consistent'
    BY <1>1, EndKeeps
  <1>3. TypeOK'
    BY <1>2 DEF IInv, TypeOK
  <1>4. QED
    BY <1>2, <1>3 DEF IInv

-----------------------------------------------------------------------------
(* Steps that change the record of a run that goes on *)

LEMMA StartTellKeeps ==
  ASSUME IInv, NEW r \in Runs, StartTell(r)
  PROVE  IInv'
  <1> USE DEF StartTell, history
  <1>1. stage' \in [Runs -> {"none", "place", "create", "tell"}]
    BY DEF IInv, TypeOK
  <1>2. CASE Active(r)
    <2> DEFINE rec == [run[r] EXCEPT !.session = TRUE, !.pr = placed[r]]
    <2>1. rec \in RunRecords /\ rec.routine = run[r].routine /\ rec.status = run[r].status
      BY Typed DEF IInv, TypeOK, RunRecords
    <2>2. run' = [run EXCEPT ![r] = rec]
      BY <1>2, Typed DEF IInv, TypeOK, RunRecords
    <2>3. writes' = <<"runs">> /\ Tell({r}) /\ UNCHANGED <<killed, dropping>>
      BY <1>2
    <2> HIDE DEF rec
    <2>4. /\ run' \in [Runs -> RunRecords]
          /\ FileShape' /\ WriteShape' /\ Consistent'
      BY <1>2, <2>1, <2>2, <2>3, RecordKeeps
    <2>5. news' \subseteq Runs \X Views /\ shown' \in [Runs -> Views]
      BY <2>3, <2>4, TellType DEF IInv
    <2>6. writes' \in Seq(Files)
      BY <2>3 DEF Files
    <2>7. TypeOK'
      BY <1>1, <2>3, <2>4, <2>5, <2>6 DEF IInv, TypeOK
    <2>8. QED
      BY <2>4, <2>7 DEF IInv
  <1>3. CASE ~Active(r)
    <2>1. FileShape' /\ WriteShape' /\ Consistent'
      BY <1>3, QuietKeeps DEF core
    <2>2. killed' = killed \cup {r} /\ UNCHANGED <<run, writes, told>>
      BY <1>3 DEF KillOf
    <2>3. TypeOK'
      BY <1>1, <2>2 DEF IInv, TypeOK, told
    <2>4. QED
      BY <2>1, <2>3 DEF IInv
  <1>4. QED
    BY <1>2, <1>3

LEMMA WatchLiveKeeps ==
  ASSUME IInv, NEW r \in Runs, WatchLive(r)
  PROVE  IInv'
  <1> USE DEF WatchLive, history, world, told, Looked
  <1>1. PICK n \in Spends :
          /\ run' = IF Active(r) THEN [run EXCEPT ![r] = Spent(r, n)] ELSE run
          /\ writes' = IF run' = run THEN <<>> ELSE <<"runs">>
    OBVIOUS
  <1>2. /\ Unlocked /\ looking' = looking \ {r}
        /\ UNCHANGED <<up, drawn, fired, routines, kept, hits, file, stage, placed,
                       dropping, ending, cancelling, pumpDue, delivery, agent, killed,
                       prs, news, shown>>
    OBVIOUS
  <1> USE DEF WatchLive
  <1>3. run' \in [Runs -> RunRecords] /\ FileShape' /\ WriteShape' /\ Consistent'
    <2>1. CASE run' = run
      BY <1>1, <1>2, <2>1, QuietKeeps DEF core, Unlocked, IInv, TypeOK
    <2>2. CASE run' # run
      <3>1. Active(r) /\ run' = [run EXCEPT ![r] = Spent(r, n)] /\ writes' = <<"runs">>
        BY <1>1, <2>2
      <3>2. /\ Spent(r, n) \in RunRecords /\ Spent(r, n).routine = run[r].routine
            /\ Spent(r, n).status = run[r].status
        BY SpentType DEF Statuses
      <3>3. QED
        BY <1>2, <3>1, <3>2, RecordKeeps
    <2>3. QED
      BY <2>1, <2>2
  <1>4. writes' \in Seq(Files)
    BY <1>1, WriteType
  <1>5. TypeOK'
    BY <1>2, <1>3, <1>4 DEF IInv, TypeOK
  <1>6. QED
    BY <1>3, <1>5 DEF IInv

LEMMA NotePrKeeps ==
  ASSUME IInv, NotePr
  PROVE  IInv'
  <1> DEFINE r == delivery.run
             rec == [run[r] EXCEPT !.pr = delivery.pr]
  <1>1. /\ Unlocked
        /\ run' = IF Active(r) THEN [run EXCEPT ![r].pr = delivery.pr] ELSE run
        /\ writes' = IF run' = run THEN <<>> ELSE <<"runs">>
        /\ delivery' = [delivery EXCEPT !.at = "end"]
        /\ UNCHANGED <<up, drawn, fired, routines, kept, hits, file, stage, placed,
                       dropping, ending, cancelling, pumpDue, looking, agent, killed,
                       prs, news, shown>>
    BY DEF NotePr, history, world, told
  <1>2. run' \in [Runs -> RunRecords] /\ FileShape' /\ WriteShape' /\ Consistent'
    <2>1. CASE run' = run
      BY <1>1, <2>1, QuietKeeps DEF core, Unlocked, IInv, TypeOK
    <2>2. CASE run' # run
      <3>1. Active(r) /\ r \in Runs /\ writes' = <<"runs">>
        BY <1>1, <2>2, Typed DEF Active
      <3>2. delivery.pr \in Prs
        BY DEF NotePr, IInv, TypeOK, Deliveries, Nobody
      <3>3. rec \in RunRecords /\ rec.routine = run[r].routine /\ rec.status = run[r].status
        BY <3>1, <3>2, Typed DEF RunRecords
      <3>4. run' = [run EXCEPT ![r] = rec]
        BY <1>1, <3>1
      <3> HIDE DEF rec, r
      <3>5. QED
        BY <1>1, <3>1, <3>3, <3>4, RecordKeeps
    <2>3. QED
      BY <2>1, <2>2
  <1>3. writes' \in Seq(Files)
    BY <1>1, WriteType
  <1>4. delivery' \in Deliveries
    BY <1>1 DEF IInv, TypeOK, Deliveries, Nobody, NotePr
  <1>5. TypeOK'
    BY <1>1, <1>2, <1>3, <1>4 DEF IInv, TypeOK
  <1>6. QED
    BY <1>2, <1>5 DEF IInv

-----------------------------------------------------------------------------
(* Steps that leave the runs, the hits and the files alone *)

LEMMA QuietStepKeeps ==
  ASSUME IInv, NEW r \in Runs,
         \/ Place(r) \/ StartCreate(r) \/ AgentExits(r) \/ TabClosed(r) \/ PrCloses(r)
         \/ WatchTake \/ WatchOk(r)
  PROVE  IInv'
  <1> USE DEF history, memory, tasks, world, told
  <1>1. UNCHANGED core /\ UNCHANGED writes
    BY DEF Place, StartCreate, AgentExits, TabClosed, PrCloses, WatchTake, WatchOk, core
  <1>2. FileShape' /\ WriteShape' /\ Consistent'
    BY <1>1, QuietKeeps
  <1>3. TypeOK'
    <2>1. CASE Place(r)
      <3>1. OpenPr(run[r].routine) \in Prs
        BY Typed DEF OpenPr, Prs, IInv, TypeOK
      <3>2. QED
        BY <2>1, <3>1 DEF Place, IInv, TypeOK
    <2>2. CASE StartCreate(r)
      BY <2>2 DEF StartCreate, IInv, TypeOK
    <2>3. CASE AgentExits(r)
      BY <2>3 DEF AgentExits, IInv, TypeOK
    <2>4. CASE TabClosed(r)
      BY <2>4 DEF TabClosed, IInv, TypeOK
    <2>5. CASE PrCloses(r)
      BY <2>5 DEF PrCloses, IInv, TypeOK
    <2>6. CASE WatchTake
      BY <2>6 DEF WatchTake, Running, IInv, TypeOK
    <2>7. CASE WatchOk(r)
      <3>1. [run |-> r, at |-> "push", pr |-> NoPr] \in Deliveries
        BY DEF Prs, Deliveries
      <3>2. delivery' \in Deliveries
        BY <2>7, <3>1 DEF WatchOk, IInv, TypeOK
      <3>3. QED
        BY <2>7, <3>2 DEF WatchOk, IInv, TypeOK
    <2>8. QED
      BY <2>1, <2>2, <2>3, <2>4, <2>5, <2>6, <2>7
  <1>4. QED
    BY <1>2, <1>3 DEF IInv

LEMMA DeliverKeeps ==
  ASSUME IInv, Deliver
  PROVE  IInv'
  <1> USE DEF history, memory, world, told
  <1>1. UNCHANGED core /\ UNCHANGED writes
    BY DEF Deliver, core
  <1>2. FileShape' /\ WriteShape' /\ Consistent'
    BY <1>1, QuietKeeps
  <1>3. delivery.run \in Runs
    BY DEF Deliver, IInv, TypeOK, Deliveries, Nobody
  <1>4. run[delivery.run].pr \in Prs /\ delivery.run \in Prs /\ NoPr \in Prs
    BY <1>3, Typed DEF RunRecords, Prs
  <1>5. \A at \in {"fail", "note"}, pr \in Prs :
          [run |-> delivery.run, at |-> at, pr |-> pr] \in Deliveries
    BY <1>3 DEF Deliveries
  <1>6. delivery' \in Deliveries
    BY <1>4, <1>5 DEF Deliver
  <1>7. prs' \subseteq Runs
    BY <1>3 DEF Deliver, IInv, TypeOK
  <1>8. TypeOK'
    BY <1>6, <1>7 DEF Deliver, IInv, TypeOK
  <1>9. QED
    BY <1>2, <1>8 DEF IInv

LEMMA BroadcastKeeps ==
  ASSUME IInv, NEW n \in news, Broadcast(n)
  PROVE  IInv'
  <1> USE DEF Broadcast, history, memory, tasks, world
  <1>1. FileShape' /\ WriteShape' /\ Consistent'
    BY QuietKeeps DEF core
  <1>2. n[1] \in Runs /\ n[2] \in Views
    BY DEF IInv, TypeOK
  <1>3. TypeOK'
    BY <1>2 DEF IInv, TypeOK
  <1>4. QED
    BY <1>1, <1>3 DEF IInv

LEMMA TickKeeps ==
  ASSUME IInv, Tick
  PROVE  IInv'
  <1> USE DEF Tick, history, memory, world, told
  <1>1. FileShape' /\ WriteShape' /\ Consistent'
    BY EngineKeeps DEF core
  <1>2. writes' \in Seq(Files)
    BY DEF Files
  <1>3. TypeOK'
    BY <1>2 DEF IInv, TypeOK
  <1>4. QED
    BY <1>1, <1>3 DEF IInv

-----------------------------------------------------------------------------
(* The queue *)

LEMMA DropHitKeeps ==
  ASSUME IInv, NEW r \in Runs, DropHit(r)
  PROVE  IInv'
  <1> USE DEF DropHit, history, world, told
  <1>1. /\ UNCHANGED <<up, drawn, fired, routines, kept, run, file>>
        /\ dropping' = dropping \ {r} /\ hits' = hits \ {r}
    OBVIOUS
  <1>2. writes = <<>> /\ up /\ ~RunsNext /\ ~EngineNext /\ ~RunsNext' /\ writes' # <<"routines">>
    BY WritesDistinct DEF Unlocked, RunsNext, EngineNext
  <1>3. FileShape' /\ WriteShape'
    BY <1>1, <1>2 DEF IInv, FileShape, WriteShape
  <1>4. writes' \in Seq(Files)
    BY WriteType
  <1>5. TypeOK'
    BY <1>4 DEF IInv, TypeOK
  <1>6. AnyRoutine' = AnyRoutine
    BY <1>1 DEF AnyRoutine
  <1>7. /\ r \in kept => run[r].status # "Queued"
        /\ r \in file.kept => file.run[r].status # "Queued"
    BY <1>2 DEF IInv, Consistent, DroppingEnded
  <1>8. MemoryHit' /\ FileHit' /\ MemoryFileHit' /\ FileMemoryHit'
    BY <1>1, <1>2, <1>6, <1>7 DEF IInv, Consistent, MemoryHit, FileHit, MemoryFileHit,
       FileMemoryHit, Waits
  <1>9. DroppingEnded' /\ SameRun' /\ RoutinesDrawn' /\ RoutinesWritten'
    BY <1>1, <1>2, WritesDistinct DEF IInv, Consistent, DroppingEnded, SameRun,
       RoutinesDrawn, RoutinesWritten
  <1>10. QED
    BY <1>3, <1>5, <1>8, <1>9 DEF IInv, Consistent

LEMMA PutKeeps ==
  ASSUME IInv, NEW rt \in Routines, Put(rt)
  PROVE  IInv'
  <1> USE DEF Put, tasks, world, told
  <1>1. /\ UNCHANGED <<up, fired, kept, run, hits, file, dropping>>
        /\ drawn' = drawn \cup {rt} /\ routines' = routines \cup {rt}
        /\ writes' = <<"routines">>
    OBVIOUS
  <1>2. /\ writes = <<>> /\ up /\ ~RunsNext /\ ~EngineNext /\ ~RunsNext' /\ ~EngineNext'
        /\ writes' # <<>>
    BY WritesDistinct DEF Unlocked, RunsNext, EngineNext
  <1>3. FileShape' /\ WriteShape'
    BY <1>1, <1>2 DEF IInv, FileShape, WriteShape
  <1>4. TypeOK'
    BY <1>1, WriteType DEF IInv, TypeOK
  <1>5. AnyRoutine' = AnyRoutine \cup {rt}
    BY <1>1 DEF AnyRoutine
  <1>6. /\ \A q \in kept : run[q].routine # rt
        /\ \A q \in file.kept : file.run[q].routine # rt
    BY DEF IInv, Consistent, RoutinesDrawn
  <1>7. MemoryHit' /\ FileHit' /\ MemoryFileHit' /\ FileMemoryHit'
    BY <1>1, <1>2, <1>5, <1>6 DEF IInv, Consistent, MemoryHit, FileHit, MemoryFileHit,
       FileMemoryHit, Waits
  <1>8. DroppingEnded' /\ SameRun' /\ RoutinesDrawn' /\ RoutinesWritten'
    BY <1>1, <1>2 DEF IInv, Consistent, DroppingEnded, SameRun, RoutinesDrawn,
       RoutinesWritten
  <1>9. QED
    BY <1>3, <1>4, <1>7, <1>8 DEF IInv, Consistent

LEMMA RemoveKeeps ==
  ASSUME IInv, NEW rt \in Routines, Remove(rt)
  PROVE  IInv'
  <1> USE DEF Remove, history, world, told
  <1>1. /\ UNCHANGED <<up, drawn, fired, kept, run, hits, file, dropping>>
        /\ routines' = routines \ {rt} /\ writes' = <<"routines">>
    OBVIOUS
  <1>2. /\ writes = <<>> /\ up /\ ~RunsNext /\ ~EngineNext /\ ~RunsNext' /\ ~EngineNext'
        /\ writes' # <<>>
    BY WritesDistinct DEF Unlocked, RunsNext, EngineNext
  <1>3. FileShape' /\ WriteShape'
    BY <1>1, <1>2 DEF IInv, FileShape, WriteShape
  <1>4. TypeOK'
    BY <1>1, WriteType DEF IInv, TypeOK
  <1>5. AnyRoutine' \subseteq AnyRoutine
    BY <1>1 DEF AnyRoutine
  <1>6. MemoryHit' /\ FileHit' /\ MemoryFileHit' /\ FileMemoryHit'
    BY <1>1, <1>2, <1>5 DEF IInv, Consistent, MemoryHit, FileHit, MemoryFileHit,
       FileMemoryHit, Waits
  <1>7. DroppingEnded' /\ SameRun' /\ RoutinesDrawn' /\ RoutinesWritten'
    BY <1>1, <1>2 DEF IInv, Consistent, DroppingEnded, SameRun, RoutinesDrawn,
       RoutinesWritten
  <1>8. QED
    BY <1>3, <1>4, <1>6, <1>7 DEF IInv, Consistent

LEMMA FireKeeps ==
  ASSUME IInv, NEW rt \in Routines, NEW skip \in BOOLEAN, Fire(rt, skip)
  PROVE  IInv'
  <1> DEFINE r == fired + 1
  <1>1. /\ Unlocked /\ rt \in routines /\ fired < MaxRuns /\ fired' = r
        /\ run' = [run EXCEPT ![r] = NewRun(rt, skip)]
        /\ kept' = Newest(kept \cup {r})
        /\ hits' = IF skip THEN hits ELSE hits \cup {r}
        /\ writes' = IF skip THEN <<"runs">> ELSE <<"engine", "runs">>
        /\ Tell({r}) /\ pumpDue' = TRUE
        /\ UNCHANGED <<up, drawn, routines, file, stage, placed, dropping, ending,
                       cancelling, looking, delivery, agent, killed, prs>>
    BY DEF Fire, EnqueueWrites, world
  <1>2. r \in Runs /\ r \notin 1..fired /\ 1..fired \subseteq 1..r /\ fired' \in 0..MaxRuns
        /\ r \in 1..r
    BY <1>1, RunsAssumption, Typed DEF IInv, TypeOK, Runs
  <1>3. r \notin kept /\ r \notin file.kept /\ r \notin dropping /\ r \notin hits
    BY <1>2 DEF IInv, TypeOK
  <1>4. /\ NewRun(rt, skip) \in RunRecords
        /\ NewRun(rt, skip).routine = rt
        /\ NewRun(rt, skip).status = IF skip THEN "Skipped" ELSE "Queued"
    BY RunsAssumption DEF NewRun, RunRecords, Statuses, Open, Prs
  <1>5. kept' \subseteq kept \cup {r}
    BY <1>1 DEF Newest
  <1> HIDE DEF r
  <1>6. /\ run' \in [Runs -> RunRecords] /\ run'[r] = NewRun(rt, skip)
        /\ \A q \in Runs : q # r => run'[q] = run[q]
    BY <1>1, <1>2, <1>4 DEF IInv, TypeOK
  <1>7. news' \subseteq Runs \X Views /\ shown' \in [Runs -> Views]
    BY <1>1, <1>2, <1>6, TellType DEF IInv
  <1>8. FileShape' /\ WriteShape'
    BY <1>1 DEF IInv, FileShape, WriteShape, Unlocked
  <1>9. writes' \in Seq(Files)
    BY <1>1, WriteType
  <1>10. TypeOK'
    BY <1>1, <1>2, <1>5, <1>6, <1>7, <1>9 DEF IInv, TypeOK
  <1>11. /\ writes = <<>> /\ up /\ ~RunsNext /\ ~EngineNext
         /\ ~skip => EngineNext' /\ ~RunsNext'
         /\ skip => RunsNext'
         /\ writes' # <<"routines">>
    BY <1>1, WritesDistinct DEF Unlocked, RunsNext, EngineNext
  <1>12. AnyRoutine' = AnyRoutine
    BY <1>1 DEF AnyRoutine
  <1>13. \A q \in kept' : Waits(run[q])' => (q = r /\ ~skip) \/ (q \in kept /\ Waits(run[q]))
    BY <1>4, <1>5, <1>6, <1>12, Typed DEF Waits
  <1>14. MemoryHit' /\ MemoryFileHit'
    BY <1>1, <1>11, <1>13 DEF IInv, Consistent, MemoryHit, MemoryFileHit
  <1>15. FileHit' /\ FileMemoryHit'
    BY <1>1, <1>11, <1>12 DEF IInv, Consistent, FileHit, FileMemoryHit, Waits
  <1>16. DroppingEnded'
    BY <1>1, <1>3, <1>5, <1>6, <1>11, Typed DEF IInv, Consistent, DroppingEnded
  <1>17. SameRun'
    BY <1>1, <1>3, <1>5, <1>6, Typed DEF IInv, Consistent, SameRun
  <1>18. RoutinesDrawn'
    <2>1. rt \in drawn /\ run'[r].routine = rt
      BY <1>1, <1>4, <1>6 DEF IInv, TypeOK
    <2>2. \A q \in kept' : run'[q].routine \in drawn
      BY <1>5, <1>6, <2>1, Typed DEF IInv, Consistent, RoutinesDrawn
    <2>3. QED
      BY <1>1, <2>2 DEF IInv, Consistent, RoutinesDrawn
  <1>19. RoutinesWritten'
    BY <1>1, <1>11, WritesDistinct DEF IInv, Consistent, RoutinesWritten
  <1>20. QED
    BY <1>8, <1>10, <1>14, <1>15, <1>16, <1>17, <1>18, <1>19 DEF IInv, Consistent

LEMMA PumpKeeps ==
  ASSUME IInv, Pump
  PROVE  IInv'
  <1> DEFINE started == Reached \cap Startable
  <1>1. /\ Unlocked /\ pumpDue' = FALSE
        /\ run' = [r \in Runs |->
             IF r \in started THEN As(r, "Running")
             ELSE IF r \in Reached THEN As(r, "Cancelled") ELSE run[r]]
        /\ hits' = hits \ Reached
        /\ writes' = IF started = {} THEN <<>> ELSE <<"runs", "engine">>
        /\ stage' = [r \in Runs |-> IF r \in started THEN "place" ELSE stage[r]]
        /\ Tell(started)
        /\ UNCHANGED <<up, drawn, fired, routines, kept, file, placed, dropping, ending,
                       cancelling, looking, delivery, agent, killed, prs>>
    BY DEF Pump, PumpWrites, history, world
  <1>2. /\ started \subseteq Runs
        /\ \A q \in Reached : q \in kept /\ run[q].status = "Queued"
        /\ \A q \in Reached : run[q].routine \in routines /\ q \in hits => q \in started
    BY Typed DEF Reached, Startable, Queued
  <1>3. \A q \in Runs : /\ As(q, "Running") \in RunRecords
                        /\ As(q, "Running").routine = run[q].routine
                        /\ As(q, "Running").status = "Running"
                        /\ As(q, "Cancelled") \in RunRecords
                        /\ As(q, "Cancelled").routine = run[q].routine
                        /\ As(q, "Cancelled").status = "Cancelled"
    BY AsType DEF Statuses, Open
  <1> HIDE DEF started
  <1>4. run' \in [Runs -> RunRecords]
    BY <1>1, <1>3, Typed
  <1>5. \A q \in Runs : /\ q \in Reached => run'[q].status # "Queued"
                        /\ q \notin Reached /\ q \notin started => run'[q] = run[q]
                        /\ run'[q].routine = run[q].routine
    BY <1>1, <1>3
  <1>6. started \subseteq Reached
    BY DEF started
  <1>7. news' \subseteq Runs \X Views /\ shown' \in [Runs -> Views]
    BY <1>1, <1>2, <1>4, TellType DEF IInv
  <1>8. FileShape' /\ WriteShape'
    BY <1>1 DEF IInv, FileShape, WriteShape, Unlocked
  <1>9. writes' \in Seq(Files)
    BY <1>1, WriteType
  <1>10. TypeOK'
    BY <1>1, <1>4, <1>7, <1>9 DEF IInv, TypeOK
  <1>11. /\ writes = <<>> /\ up /\ ~RunsNext /\ ~EngineNext
         /\ started # {} => RunsNext'
         /\ writes' # <<"routines">> /\ writes # <<"routines">>
    BY <1>1, WritesDistinct DEF Unlocked, RunsNext, EngineNext
  <1>12. AnyRoutine' = AnyRoutine /\ AnyRoutine = routines
    BY <1>1, <1>11 DEF AnyRoutine, IInv, Consistent, RoutinesWritten
  <1>13. \A q \in kept : Waits(run[q])' => Waits(run[q]) /\ q \notin Reached
    BY <1>5, <1>6, <1>12, Typed DEF Waits
  <1>14. MemoryHit' /\ MemoryFileHit'
    BY <1>1, <1>11, <1>13 DEF IInv, Consistent, MemoryHit, MemoryFileHit
  <1>15. FileHit'
    BY <1>1, <1>12 DEF IInv, Consistent, FileHit, Waits
  <1>16. FileMemoryHit'
    <2>1. CASE started # {}
      BY <1>11, <2>1 DEF FileMemoryHit
    <2>2. CASE started = {}
      <3>1. \A q \in file.kept : Waits(file.run[q]) => q \in hits
        BY <1>11 DEF IInv, Consistent, FileMemoryHit
      <3>2. \A q \in file.kept : q \in Reached => ~Waits(file.run[q])
        BY <1>2, <1>12, <2>2, <3>1 DEF IInv, Consistent, SameRun, Waits
      <3>3. QED
        BY <1>1, <1>12, <3>1, <3>2 DEF FileMemoryHit, Waits
    <2>3. QED
      BY <2>1, <2>2
  <1>17. DroppingEnded'
    BY <1>1, <1>2, <1>5, <1>6, <1>11, Typed DEF IInv, Consistent, DroppingEnded
  <1>18. SameRun'
    BY <1>1, <1>2, <1>5, <1>6, Typed DEF IInv, Consistent, SameRun, Ended, Open
  <1>19. RoutinesDrawn'
    BY <1>1, <1>5, Typed DEF IInv, Consistent, RoutinesDrawn
  <1>20. RoutinesWritten'
    BY <1>1, <1>11 DEF IInv, Consistent, RoutinesWritten
  <1>21. QED
    BY <1>8, <1>10, <1>14, <1>15, <1>16, <1>17, <1>18, <1>19, <1>20 DEF IInv, Consistent

-----------------------------------------------------------------------------
(* The daemon's life *)

\* A new image has what the files have, and the queued runs' hits
LEMMA LoadKeeps ==
  ASSUME IInv, NEW hitsFile \in SUBSET (1..fired), Load(hitsFile),
         file' = [file EXCEPT !.hits = hitsFile],
         \A r \in file.kept :
           file.run[r].status = "Queued" /\ file.run[r].routine \in file.routines
             => r \in hitsFile,
         UNCHANGED <<agent, killed>>
  PROVE  IInv'
  <1> USE DEF Load, NoTasks, history
  <1>1. /\ up' = TRUE /\ routines' = file.routines /\ kept' = file.kept
        /\ hits' = hitsFile /\ writes' = <<"runs">> /\ dropping' = {}
        /\ run' = [r \in Runs |-> IF r \in file.kept THEN Loaded(r) ELSE file.run[r]]
        /\ UNCHANGED <<drawn, fired, prs>>
    OBVIOUS
  <1>2. /\ file'.routines = file.routines /\ file'.kept = file.kept
        /\ file'.run = file.run /\ file'.hits = hitsFile
    BY DEF IInv, FileShape
  <1>3. \A r \in Runs : /\ Loaded(r) \in RunRecords
                        /\ Loaded(r).routine = file.run[r].routine
                        /\ Loaded(r).status = "Queued" => file.run[r].status = "Queued"
                        /\ Ended(file.run[r].status) => Loaded(r) = file.run[r]
    <2> TAKE r \in Runs
    <2>1. file.run[r] \in RunRecords
      BY Typed
    <2>2. CASE file.run[r].status = "Running"
      BY <2>1, <2>2 DEF Loaded, RunRecords, Statuses, Ended, Open
    <2>3. CASE file.run[r].status # "Running"
      BY <2>1, <2>3 DEF Loaded
    <2>4. QED
      BY <2>2, <2>3
  <1>4. run' \in [Runs -> RunRecords]
    BY <1>1, <1>3, Typed
  <1>5. FileShape' /\ WriteShape'
    BY <1>1, Typed DEF IInv, FileShape, WriteShape
  <1>6. shown' \in [Runs -> Views]
    BY <1>4 DEF View, Views, RunRecords
  <1>7. TypeOK'
    <2>1. /\ stage' \in [Runs -> {"none", "place", "create", "tell"}]
          /\ placed' \in [Runs -> Prs] /\ delivery' \in Deliveries
      BY DEF Prs, Deliveries
    <2>2. /\ writes' \in Seq(Files) /\ pumpDue' = FALSE /\ looking' = {} /\ ending' = {}
          /\ cancelling' = {} /\ news' = {}
      BY WriteType
    <2>3. QED
      BY <1>1, <1>2, <1>4, <1>6, <2>1, <2>2 DEF IInv, TypeOK
  <1>8. AnyRoutine' = file.routines
    BY <1>1, <1>2 DEF AnyRoutine
  <1>9. RunsNext' /\ writes' # <<"routines">>
    BY <1>1, WritesDistinct DEF RunsNext
  <1>10. \A q \in file.kept : run'[q] = Loaded(q)
    BY <1>1, Typed
  <1>11. \A q \in file.kept : Waits(run[q])' => q \in hitsFile
    BY <1>3, <1>8, <1>10, Typed DEF Waits
  <1>12. MemoryHit' /\ MemoryFileHit' /\ FileMemoryHit'
    BY <1>1, <1>2, <1>9, <1>11 DEF MemoryHit, MemoryFileHit, FileMemoryHit
  <1>13. FileHit'
    BY <1>2, <1>8 DEF FileHit, Waits
  <1>14. DroppingEnded' /\ RoutinesWritten'
    BY <1>1, <1>2 DEF DroppingEnded, RoutinesWritten
  <1>15. SameRun' /\ RoutinesDrawn'
    BY <1>1, <1>2, <1>3, <1>10, Typed DEF IInv, Consistent, SameRun, RoutinesDrawn
  <1>16. QED
    BY <1>5, <1>7, <1>12, <1>13, <1>14, <1>15 DEF IInv, Consistent

LEMMA DownKeeps ==
  ASSUME IInv, NEW hitsFile \in SUBSET (1..fired), Down(hitsFile),
         \A r \in file.kept :
           file.run[r].status = "Queued" /\ file.run[r].routine \in file.routines
             => r \in hitsFile
  PROVE  IInv'
  <1> USE DEF Down, NoTasks, history
  <1>1. /\ up' = FALSE /\ routines' = {} /\ kept' = {} /\ run' = file.run
        /\ hits' = {} /\ writes' = <<>> /\ dropping' = {}
        /\ file' = [file EXCEPT !.hits = hitsFile]
        /\ UNCHANGED <<drawn, fired, prs>>
    OBVIOUS
  <1>2. /\ file'.routines = file.routines /\ file'.kept = file.kept
        /\ file'.run = file.run /\ file'.hits = hitsFile
    BY <1>1 DEF IInv, FileShape
  <1>3. FileShape' /\ WriteShape'
    BY <1>1, Typed DEF IInv, FileShape, WriteShape
  <1>4. TypeOK'
    <2>1. /\ stage' \in [Runs -> {"none", "place", "create", "tell"}]
          /\ placed' \in [Runs -> Prs] /\ delivery' \in Deliveries
      BY DEF Prs, Deliveries
    <2>2. /\ writes' \in Seq(Files) /\ pumpDue' = FALSE /\ looking' = {} /\ ending' = {}
          /\ cancelling' = {} /\ news' = {}
      BY WriteType
    <2>3. agent' \in [Runs -> {"none", "live", "ok", "bad", "gone"}]
      OBVIOUS
    <2>4. QED
      BY <1>1, <1>2, <2>1, <2>2, <2>3 DEF IInv, TypeOK
  <1>5. AnyRoutine' = file.routines
    BY <1>1, <1>2 DEF AnyRoutine
  <1>6. Consistent'
    BY <1>1, <1>2, <1>5 DEF IInv, Consistent, MemoryHit, FileHit, MemoryFileHit,
       FileMemoryHit, DroppingEnded, SameRun, RoutinesDrawn, RoutinesWritten, Waits
  <1>7. QED
    BY <1>3, <1>4, <1>6 DEF IInv

\* Every stop, crash, start and upgrade
LEMMA LifeKeeps ==
  ASSUME IInv, Start \/ Stop \/ Crash \/ Exec
  PROVE  IInv'
  <1>1. file.hits \subseteq 1..fired /\ hits \subseteq 1..fired
    BY DEF IInv, TypeOK
  <1>2. \A r \in file.kept :
          file.run[r].status = "Queued" /\ file.run[r].routine \in file.routines
            => r \in file.hits
    BY DEF IInv, Consistent, FileHit, Waits, AnyRoutine
  <1>3. Unlocked => \A r \in file.kept :
          file.run[r].status = "Queued" /\ file.run[r].routine \in file.routines
            => r \in hits
    <2>1. Unlocked => up /\ ~RunsNext
      BY WritesDistinct DEF Unlocked, RunsNext
    <2>2. QED
      BY <2>1 DEF IInv, Consistent, FileMemoryHit, Waits, AnyRoutine
  <1>4. CASE Start
    <2>1. file' = [file EXCEPT !.hits = file.hits]
      BY <1>4 DEF Start, IInv, FileShape
    <2>2. QED
      BY <1>1, <1>2, <1>4, <2>1, LoadKeeps DEF Start
  <1>5. CASE Exec
    BY <1>1, <1>3, <1>5, LoadKeeps DEF Exec
  <1>6. CASE Stop
    BY <1>1, <1>3, <1>6, DownKeeps DEF Stop
  <1>7. CASE Crash
    BY <1>1, <1>2, <1>7, DownKeeps DEF Crash
  <1>8. QED
    BY <1>4, <1>5, <1>6, <1>7

-----------------------------------------------------------------------------
(* The theorems *)

\* Every step of the engine, the agents, the clients and the daemon's life
LEMMA NextKeeps ==
  ASSUME IInv, [Next]_vars
  PROVE  IInv'
  <1>1. CASE Request
    BY <1>1, PutKeeps, RemoveKeeps, FireKeeps, CancelKeeps DEF Request
  <1>2. CASE World
    BY <1>2, QuietStepKeeps DEF World
  <1>3. CASE \E r \in Runs : Task(r)
    BY <1>3, EndRemovedKeeps, DropHitKeeps, CancelEndsKeeps, QuietStepKeeps,
       StartFailsKeeps, StartTellKeeps, WatchEndKeeps, WatchLiveKeeps DEF Task
  <1>4. CASE \E n \in news : Broadcast(n)
    BY <1>4, BroadcastKeeps
  <1>5. CASE WatchTake
    <2>1. PICK r \in looking' : TRUE
      BY <1>5 DEF WatchTake
    <2>2. r \in Runs
      BY <1>5, <2>1, Typed DEF WatchTake, Running
    <2>3. QED
      BY <1>5, <2>2, QuietStepKeeps
  <1>6. CASE UNCHANGED vars
    <2> USE <1>6 DEF vars, history, memory, tasks, world, told
    <2>1. FileShape' /\ WriteShape' /\ Consistent'
      BY QuietKeeps DEF core
    <2>2. TypeOK'
      BY DEF IInv, TypeOK
    <2>3. QED
      BY <2>1, <2>2 DEF IInv
  <1>7. QED
    BY <1>1, <1>2, <1>3, <1>4, <1>5, <1>6, WriteKeeps, TickKeeps, PumpKeeps, DeliverKeeps,
       NotePrKeeps, DeliverEndsKeeps, LifeKeeps DEF Next

\* The engine's memory and its files agree as IInv says, at every step of every
\* behaviour, in the middle of a critical section and after a crash there too
THEOREM EngineInvariant == Spec => []IInv
  <1>1. Init => IInv
    BY InitKeeps
  <1>2. IInv /\ [Next]_vars => IInv'
    BY NextKeeps
  <1>3. QED
    BY <1>1, <1>2, PTL DEF Spec

\* Every variable keeps its type: in particular what is kept, queued or being
\* ended is a run that was fired, and a routine that is there was drawn
THEOREM RunsTypeCorrect == Spec => []TypeOK
  <1>1. IInv => TypeOK
    BY DEF IInv
  <1>2. QED
    BY <1>1, EngineInvariant, PTL

\* A crash between any two writes loses no queued run: what runs.jsonl lists as
\* queued, of a routine of routines.json, has in engine.json what it fired with
\* (enqueue, take_startable, end, remove, load)
THEOREM QueuedSurvives == Spec => []QueuedHasHit
  <1>1. IInv => QueuedHasHit
    BY DEF IInv, Consistent, FileHit, Waits, AnyRoutine, QueuedHasHit
  <1>2. QED
    BY <1>1, EngineInvariant, PTL

\* What is in runs.jsonl changes only where a critical section saves the runs
LEMMA RunsFileSteps ==
  ASSUME IInv, [Next]_vars
  PROVE  \/ file'.kept = file.kept /\ file'.run = file.run
         \/ file'.kept = kept /\ file'.run = run
  <1>1. CASE file' = file
    BY <1>1
  <1>2. CASE \E h : file' = [file EXCEPT !.hits = h]
    BY <1>2 DEF IInv, FileShape
  <1>3. CASE Write
    BY <1>3 DEF Write, IInv, FileShape
  <1>4. CASE Stop \/ Crash \/ Exec
    BY <1>2, <1>4 DEF Stop, Crash, Exec, Down
  <1>5. CASE Request \/ World \/ \E r \in Runs : Task(r)
    BY <1>1, <1>5 DEF Request, World, Task, Put, Remove, Fire, Cancel, AgentExits, TabClosed,
       PrCloses, EndRemoved, DropHit, CancelEnds, Place, StartFails, StartCreate, StartTell,
       WatchClosed, WatchLive, WatchBreach, WatchExit, WatchOk
  <1>6. CASE \/ Tick \/ Pump \/ WatchTake \/ Deliver \/ NotePr \/ DeliverEnds \/ Start
             \/ \E n \in news : Broadcast(n)
    BY <1>1, <1>6 DEF Tick, Pump, WatchTake, Deliver, NotePr, DeliverEnds, Start, Broadcast
  <1>7. CASE UNCHANGED vars
    BY <1>1, <1>7 DEF vars
  <1>8. QED
    BY <1>3, <1>4, <1>5, <1>6, <1>7 DEF Next

\* A run that has ended stays as it ended in runs.jsonl: no late watcher, cancel,
\* setup, removal or restart brings it back or ends it another way (update, end)
THEOREM EndedForGood == Spec => EndedStays
  <1>1. IInv /\ [Next]_vars =>
          [\A r \in file.kept : Ended(file.run[r].status) /\ r \in file'.kept =>
             file'.run[r].status = file.run[r].status]_vars
    BY RunsFileSteps DEF IInv, Consistent, SameRun
  <1>2. QED
    BY <1>1, EngineInvariant, PTL DEF Spec, EndedStays

-----------------------------------------------------------------------------
(* What a step does to the runs *)

\* A record of an active run is replaced, and no other one
LEMMA OneRecord ==
  ASSUME IInv, NEW r, Active(r), NEW rec, run' = [run EXCEPT ![r] = rec]
  PROVE  /\ r \in Runs /\ r \in kept
         /\ run'[r] = rec
         /\ \A q \in Runs : q # r => run'[q] = run[q]
  BY Typed DEF Active, IInv, TypeOK

\* The statuses the engine ends runs with, and what As leaves as it was
LEMMA AsFields ==
  ASSUME IInv, NEW r \in Runs, NEW status
  PROVE  /\ As(r, status).status = status
         /\ As(r, status).session = run[r].session
         /\ As(r, status).routine = run[r].routine
  BY Typed DEF As, RunRecords

LEMMA SpentFields ==
  ASSUME IInv, NEW r \in Runs, NEW n, NEW status
  PROVE  /\ Spent(r, n).status = run[r].status
         /\ Spent(r, n).session = run[r].session
         /\ Spent(r, n).routine = run[r].routine
         /\ [Spent(r, n) EXCEPT !.status = status].status = status
         /\ [Spent(r, n) EXCEPT !.status = status].session = run[r].session
         /\ [Spent(r, n) EXCEPT !.status = status].routine = run[r].routine
  BY Typed DEF Spent, RunRecords

\* r ends with a status, is changed while it goes on, or stays as it was; and
\* clients that get events in order know the status of r
Ends(r) ==
  /\ kept' = kept
  /\ ~Active(r) => run' = run
  /\ Active(r) => /\ r \in Runs
                  /\ Ended(run'[r].status)
                  /\ run'[r].routine = run[r].routine
  /\ \A q \in Runs : q # r => run'[q] = run[q]
  /\ ~LateNews => \A q \in Runs :
       shown'[q] = IF q = r /\ Active(r) THEN View(run'[q]) ELSE shown[q]

GoesOn(r) ==
  /\ kept' = kept
  /\ ~Active(r) => run' = run
  /\ Active(r) => /\ r \in Runs
                  /\ run'[r].status = run[r].status
                  /\ run[r].session => run'[r].session
                  /\ run'[r].routine = run[r].routine
  /\ \A q \in Runs : q # r => run'[q] = run[q]
  /\ ~LateNews => \A q \in Runs :
       shown'[q] = shown[q] \/ shown'[q] = View(run'[q])

LEMMA EndEnds ==
  ASSUME IInv, NEW r, NEW rec, End(r, rec), kept' = kept,
         Active(r) => Ended(rec.status) /\ rec.routine = run[r].routine
  PROVE  Ends(r)
  <1>1. CASE Active(r)
    <2>1. run' = [run EXCEPT ![r] = rec] /\ Tell({r})
      BY <1>1 DEF End
    <2>2. r \in Runs /\ run'[r] = rec /\ \A q \in Runs : q # r => run'[q] = run[q]
      BY <1>1, <2>1, OneRecord
    <2>3. ~LateNews => \A q \in Runs :
            shown'[q] = IF q = r THEN View(run'[q]) ELSE shown[q]
      BY <2>1 DEF Tell
    <2>4. QED
      BY <1>1, <2>2, <2>3 DEF Ends
  <1>2. CASE ~Active(r)
    BY <1>2 DEF End, Ends, told
  <1>3. QED
    BY <1>1, <1>2

\* The ends of runs
LEMMA EndSteps ==
  ASSUME IInv, NEW r \in Runs,
         \/ EndRemoved(r) \/ CancelEnds(r) \/ StartFails(r) \/ WatchClosed(r)
         \/ WatchBreach(r) \/ WatchExit(r) \/ (Cancel(r) /\ ~Racing)
  PROVE  Ends(r)
  <1> USE DEF Ended, Open
  <1>1. CASE EndRemoved(r) \/ CancelEnds(r) \/ WatchClosed(r) \/ (Cancel(r) /\ ~Racing)
    <2>1. End(r, As(r, "Cancelled")) /\ kept' = kept
      BY <1>1 DEF EndRemoved, CancelEnds, WatchClosed, Cancel, Finish
    <2>2. QED
      BY <2>1, AsFields, EndEnds
  <1>2. CASE StartFails(r)
    <2>1. End(r, As(r, "Failed")) /\ kept' = kept
      BY <1>2 DEF StartFails, Finish
    <2>2. QED
      BY <2>1, AsFields, EndEnds
  <1>3. CASE WatchBreach(r)
    <2> DEFINE rec == [Spent(r, 2) EXCEPT !.status = "OverBudget"]
    <2>1. End(r, rec) /\ kept' = kept
      BY <1>3 DEF WatchBreach, Finish
    <2>2. rec.status = "OverBudget" /\ rec.routine = run[r].routine
      BY SpentFields
    <2> HIDE DEF rec
    <2>3. QED
      BY <2>1, <2>2, EndEnds
  <1>4. CASE WatchExit(r)
    <2>1. PICK n \in Spends :
            Finish(r, [Spent(r, n) EXCEPT !.status =
              IF agent[r] = "ok" THEN "Ok"
              ELSE IF n >= 1 /\ run[r].routine \in routines THEN "OverBudget"
              ELSE "Failed"])
      BY <1>4 DEF WatchExit
    <2> DEFINE status ==
          IF agent[r] = "ok" THEN "Ok"
          ELSE IF n >= 1 /\ run[r].routine \in routines THEN "OverBudget"
          ELSE "Failed"
        rec == [Spent(r, n) EXCEPT !.status = status]
    <2>2. End(r, rec) /\ kept' = kept /\ Ended(status)
      BY <1>4, <2>1 DEF WatchExit, Finish
    <2> HIDE DEF status
    <2>3. rec.status = status /\ rec.routine = run[r].routine
      BY SpentFields
    <2> HIDE DEF rec
    <2>4. QED
      BY <2>2, <2>3, EndEnds
  <1>5. QED
    BY <1>1, <1>2, <1>3, <1>4

LEMMA DeliverEndsStep ==
  ASSUME IInv, DeliverEnds
  PROVE  Ends(delivery.run)
  <1> DEFINE r == delivery.run
             status == IF delivery.at = "end" THEN "Ok" ELSE "Failed"
  <1>1. End(r, As(r, status)) /\ kept' = kept
    BY DEF DeliverEnds, Finish
  <1>2. Ended(status)
    BY DEF Ended, Open
  <1> HIDE DEF status
  <1>3. Active(r) => r \in Runs
    BY Typed DEF Active
  <1>4. QED
    BY <1>1, <1>2, <1>3, AsFields, EndEnds

\* The changes of runs that go on
LEMMA GoesOnSteps ==
  ASSUME IInv, NEW r \in Runs, StartTell(r) \/ WatchLive(r)
  PROVE  GoesOn(r)
  <1>1. CASE StartTell(r)
    <2>1. CASE Active(r)
      <3>1. /\ run' = [run EXCEPT ![r].session = TRUE, ![r].pr = placed[r]]
            /\ Tell({r}) /\ kept' = kept
        BY <1>1, <2>1 DEF StartTell
      <3>2. run' = [run EXCEPT ![r] = [run[r] EXCEPT !.session = TRUE, !.pr = placed[r]]]
        BY <3>1 DEF IInv, TypeOK
      <3>3. /\ run'[r] = [run[r] EXCEPT !.session = TRUE, !.pr = placed[r]]
            /\ \A q \in Runs : q # r => run'[q] = run[q]
        BY <2>1, <3>2, OneRecord
      <3>4. /\ run'[r].status = run[r].status /\ run'[r].session
            /\ run'[r].routine = run[r].routine
        BY <3>3, Typed DEF RunRecords
      <3>5. ~LateNews => \A q \in Runs :
              shown'[q] = IF q = r THEN View(run'[q]) ELSE shown[q]
        BY <3>1 DEF Tell
      <3>6. QED
        BY <2>1, <3>1, <3>3, <3>4, <3>5 DEF GoesOn
    <2>2. CASE ~Active(r)
      BY <1>1, <2>2 DEF StartTell, GoesOn, told
    <2>3. QED
      BY <2>1, <2>2
  <1>2. CASE WatchLive(r)
    <2>1. PICK n : run' = IF Active(r) THEN [run EXCEPT ![r] = Spent(r, n)] ELSE run
      BY <1>2 DEF WatchLive
    <2>2. kept' = kept /\ shown' = shown
      BY <1>2 DEF WatchLive, told
    <2>3. CASE Active(r)
      BY <2>1, <2>2, <2>3, OneRecord, SpentFields DEF GoesOn
    <2>4. CASE ~Active(r)
      BY <2>1, <2>2, <2>4 DEF GoesOn
    <2>5. QED
      BY <2>3, <2>4
  <1>3. QED
    BY <1>1, <1>2

LEMMA NotePrStep ==
  ASSUME IInv, NotePr
  PROVE  GoesOn(delivery.run)
  <1> DEFINE r == delivery.run
  <1>1. /\ run' = IF Active(r) THEN [run EXCEPT ![r].pr = delivery.pr] ELSE run
        /\ kept' = kept /\ shown' = shown
    BY DEF NotePr, told
  <1>2. CASE Active(r)
    <2>1. run' = [run EXCEPT ![r] = [run[r] EXCEPT !.pr = delivery.pr]]
      BY <1>1, <1>2 DEF IInv, TypeOK
    <2>2. /\ r \in Runs /\ run'[r] = [run[r] EXCEPT !.pr = delivery.pr]
          /\ \A q \in Runs : q # r => run'[q] = run[q]
      BY <1>2, <2>1, OneRecord
    <2>3. /\ run'[r].status = run[r].status /\ run'[r].session = run[r].session
          /\ run'[r].routine = run[r].routine
      BY <2>2, Typed DEF RunRecords
    <2>4. QED
      BY <1>1, <1>2, <2>2, <2>3 DEF GoesOn
  <1>3. CASE ~Active(r)
    BY <1>1, <1>3 DEF GoesOn
  <1>4. QED
    BY <1>2, <1>3

\* The steps that change no run
Quiet ==
  \/ Write \/ Tick \/ WatchTake \/ Deliver
  \/ World
  \/ \E r \in Runs : DropHit(r) \/ Place(r) \/ StartCreate(r) \/ WatchOk(r)
  \/ (Racing /\ \E r \in Runs : Cancel(r))
  \/ UNCHANGED vars

LEMMA QuietSteps ==
  ASSUME IInv, Quiet
  PROVE  /\ UNCHANGED <<up, routines, kept, run, ending, news, shown>>
         /\ \A r \in Runs : stage'[r] = stage[r] \/ stage'[r] # "none"
  <1> USE DEF history, memory, tasks, world, told
  <1>1. CASE Write \/ Tick \/ WatchTake \/ Deliver
    BY <1>1 DEF Write, Tick, WatchTake, Deliver
  <1>2. CASE World
    BY <1>2 DEF World, AgentExits, TabClosed, PrCloses
  <1>3. CASE \E r \in Runs : DropHit(r) \/ WatchOk(r)
    BY <1>3 DEF DropHit, WatchOk
  <1>4. CASE \E r \in Runs : Place(r) \/ StartCreate(r)
    BY <1>4 DEF Place, StartCreate, IInv, TypeOK
  <1>5. CASE Racing /\ \E r \in Runs : Cancel(r)
    BY <1>5 DEF Cancel
  <1>6. CASE UNCHANGED vars
    BY <1>6 DEF vars
  <1>7. QED
    BY <1>1, <1>2, <1>3, <1>4, <1>5, <1>6 DEF Quiet

\* Every step is quiet, ends a run, changes one, or is one of the few that change
\* more
LEMMA StepKinds ==
  ASSUME [Next]_vars
  PROVE  \/ Quiet
         \/ \E r \in Runs :
              \/ EndRemoved(r) \/ CancelEnds(r) \/ StartFails(r) \/ WatchClosed(r)
              \/ WatchBreach(r) \/ WatchExit(r) \/ (Cancel(r) /\ ~Racing)
         \/ DeliverEnds
         \/ \E r \in Runs : StartTell(r) \/ WatchLive(r)
         \/ NotePr
         \/ Pump
         \/ \E rt \in Routines : Put(rt) \/ Remove(rt) \/ \E skip \in BOOLEAN : Fire(rt, skip)
         \/ \E n \in news : Broadcast(n)
         \/ Start \/ Stop \/ Crash \/ Exec
  BY DEF Next, Request, Task, Quiet

\* The list of runs only loses runs, apart from the one that is fired
LEMMA FireStep ==
  ASSUME IInv, NEW rt \in Routines, NEW skip \in BOOLEAN, Fire(rt, skip)
  PROVE  LET r == fired + 1
         IN  /\ r \in Runs /\ r \notin kept
             /\ kept' \subseteq kept \cup {r}
             /\ run'[r] = NewRun(rt, skip)
             /\ run'[r].status \in {"Queued", "Skipped"}
             /\ \A q \in Runs : q # r => run'[q] = run[q]
             /\ ~LateNews => \A q \in Runs :
                  shown'[q] = IF q = r THEN View(run'[q]) ELSE shown[q]
  <1> DEFINE r == fired + 1
  <1>1. r \in Runs /\ r \notin kept
    BY RunsAssumption DEF Fire, IInv, TypeOK, Runs
  <1>2. kept' \subseteq kept \cup {r}
    BY DEF Fire, Newest
  <1>3. run' = [run EXCEPT ![r] = NewRun(rt, skip)] /\ Tell({r})
    BY DEF Fire
  <1>4. run'[r] = NewRun(rt, skip) /\ \A q \in Runs : q # r => run'[q] = run[q]
    BY <1>1, <1>3 DEF IInv, TypeOK
  <1>5. run'[r].status \in {"Queued", "Skipped"}
    BY <1>4 DEF NewRun
  <1>6. ~LateNews => \A q \in Runs :
          shown'[q] = IF q = r THEN View(run'[q]) ELSE shown[q]
    BY <1>3 DEF Tell
  <1>7. QED
    BY <1>1, <1>2, <1>4, <1>5, <1>6

\* A loaded image has no running run
LEMMA LoadStep ==
  ASSUME IInv, NEW hitsFile, Load(hitsFile)
  PROVE  /\ kept' = file.kept /\ routines' = file.routines /\ up'
         /\ \A r \in kept' : run'[r].status # "Running"
         /\ \A r \in Runs : shown'[r] = View(run'[r])
         /\ \A r \in Runs : stage'[r] = "none"
         /\ ending' = {} /\ cancelling' = {} /\ delivery' = Nobody
  <1>1. \A r \in file.kept : r \in Runs /\ Loaded(r).status # "Running"
    BY Typed DEF Loaded, RunRecords
  <1>2. \A r \in file.kept : run'[r] = Loaded(r)
    BY <1>1 DEF Load
  <1>3. QED
    BY <1>1, <1>2 DEF Load, NoTasks

\* The runs a pump starts
Started == Reached \cap Startable

LEMMA PumpStep ==
  ASSUME IInv, Pump
  PROVE  /\ Started \subseteq Queued /\ Started \subseteq Runs /\ Reached \subseteq Queued
         /\ kept' = kept /\ routines' = routines /\ up' = up
         /\ \A r \in Started : run'[r] = As(r, "Running")
         /\ \A r \in Reached \ Started : run'[r] = As(r, "Cancelled")
         /\ \A r \in Runs \ Reached : run'[r] = run[r]
         /\ stage' = [r \in Runs |-> IF r \in Started THEN "place" ELSE stage[r]]
         /\ ~LateNews => \A q \in Runs :
              shown'[q] = IF q \in Started THEN View(run'[q]) ELSE shown[q]
  <1>1. Started \subseteq Queued /\ Started \subseteq Reached /\ Reached \subseteq Queued
        /\ Queued \subseteq Runs
    BY Typed DEF Started, Startable, Reached, Queued
  <1>2. /\ run' = [r \in Runs |->
             IF r \in Started THEN As(r, "Running")
             ELSE IF r \in Reached THEN As(r, "Cancelled") ELSE run[r]]
        /\ stage' = [r \in Runs |-> IF r \in Started THEN "place" ELSE stage[r]]
        /\ Tell(Started)
        /\ kept' = kept /\ routines' = routines /\ up' = up
    BY DEF Pump, Started
  <1>3. ~LateNews => \A q \in Runs :
          shown'[q] = IF q \in Started THEN View(run'[q]) ELSE shown[q]
    BY <1>2 DEF Tell
  <1>4. QED
    BY <1>1, <1>2, <1>3

-----------------------------------------------------------------------------
(* The running runs *)

\* Only a pump makes a run a running one; any other step that leaves it running
\* leaves it its session, and its start task or a session instead
LEMMA RunningSteps ==
  ASSUME IInv, [Next]_vars, ~Pump
  PROVE  \A q \in Running' :
           /\ q \in Running
           /\ run[q].session => run'[q].session
           /\ stage'[q] = stage[q] \/ stage'[q] # "none" \/ run'[q].session
  <1>1. CASE Quiet
    BY <1>1, QuietSteps, Typed DEF Running
  <1>2. CASE \E r \in Runs :
               \/ EndRemoved(r) \/ CancelEnds(r) \/ StartFails(r) \/ WatchClosed(r)
               \/ WatchBreach(r) \/ WatchExit(r) \/ (Cancel(r) /\ ~Racing)
    <2>1. PICK r \in Runs :
               \/ EndRemoved(r) \/ CancelEnds(r) \/ StartFails(r) \/ WatchClosed(r)
               \/ WatchBreach(r) \/ WatchExit(r) \/ (Cancel(r) /\ ~Racing)
      BY <1>2
    <2>2. Ends(r)
      BY <2>1, EndSteps
    <2>3. stage' = stage \/ stage' = [stage EXCEPT ![r] = "none"]
      BY <2>1 DEF EndRemoved, CancelEnds, StartFails, WatchClosed, WatchBreach, WatchExit,
         Cancel
    <2>4. \A q \in Running' : q \in Running /\ q # r /\ run'[q] = run[q]
      BY <2>2, Typed DEF Running, Ends, Active, Ended, Open
    <2>5. \A q \in Runs : q # r => stage'[q] = stage[q]
      BY <2>3 DEF IInv, TypeOK
    <2>6. QED
      BY <2>4, <2>5, Typed DEF Running
  <1>3. CASE DeliverEnds
    <2>1. Ends(delivery.run) /\ stage' = stage
      BY <1>3, DeliverEndsStep DEF DeliverEnds
    <2>2. \A q \in Running' : q \in Running /\ run'[q] = run[q]
      BY <2>1, Typed DEF Running, Ends, Active, Ended, Open
    <2>3. QED
      BY <2>1, <2>2
  <1>4. CASE \E r \in Runs : StartTell(r) \/ WatchLive(r)
    <2>1. PICK r \in Runs : StartTell(r) \/ WatchLive(r)
      BY <1>4
    <2>2. GoesOn(r)
      BY <2>1, GoesOnSteps
    <2>3. \A q \in Running' : q \in Running /\ (run[q].session => run'[q].session)
      BY <2>2, Typed DEF Running, GoesOn
    <2>4. CASE WatchLive(r)
      BY <2>3, <2>4 DEF WatchLive
    <2>5. CASE StartTell(r)
      <3>1. stage' = [stage EXCEPT ![r] = "none"]
        BY <2>5 DEF StartTell
      <3>2. \A q \in Runs : q # r => stage'[q] = stage[q]
        BY <3>1 DEF IInv, TypeOK
      <3>3. r \in Running' => run'[r].session
        <4>1. r \in Running' => Active(r)
          BY <2>3 DEF Running, Active, Ended, Open
        <4>2. Active(r) => run' = [run EXCEPT ![r].session = TRUE, ![r].pr = placed[r]]
          BY <2>5 DEF StartTell
        <4>3. Active(r) => run'[r] = [run[r] EXCEPT !.session = TRUE, !.pr = placed[r]]
          BY <4>2 DEF IInv, TypeOK
        <4>4. Active(r) => run'[r].session
          BY <4>3, Typed DEF RunRecords
        <4>5. QED
          BY <4>1, <4>4
      <3>4. QED
        BY <2>3, <3>2, <3>3, Typed DEF Running
    <2>6. QED
      BY <2>1, <2>4, <2>5
  <1>5. CASE NotePr
    <2>1. GoesOn(delivery.run) /\ stage' = stage
      BY <1>5, NotePrStep DEF NotePr
    <2>2. QED
      BY <2>1, Typed DEF Running, GoesOn
  <1>6. CASE \E rt \in Routines : Put(rt) \/ Remove(rt)
    BY <1>6 DEF Put, Remove, Running, tasks
  <1>7. CASE \E rt \in Routines : \E skip \in BOOLEAN : Fire(rt, skip)
    <2>1. PICK rt \in Routines, skip \in BOOLEAN : Fire(rt, skip)
      BY <1>7
    <2>2. \A q \in Running' : q \in Running /\ run'[q] = run[q]
      BY <2>1, FireStep, Typed DEF Running
    <2>3. QED
      BY <2>1, <2>2 DEF Fire
  <1>8. CASE \E n \in news : Broadcast(n)
    BY <1>8 DEF Broadcast, Running, memory, tasks
  <1>9. CASE Start \/ Exec
    BY <1>9, LoadStep DEF Start, Exec, Running
  <1>10. CASE Stop \/ Crash
    BY <1>10 DEF Stop, Crash, Down, Running
  <1>11. QED
    BY <1>1, <1>2, <1>3, <1>4, <1>5, <1>6, <1>7, <1>8, <1>9, <1>10, StepKinds

\* After a crash no run is waited for that nobody will end: every run that runs
\* has its start task, or the session the watcher looks at (load, start)
THEOREM RunningAttended == Spec => []RunningIsOurs
  <1>1. Init => RunningIsOurs
    BY DEF Init, RunningIsOurs
  <1>2. IInv /\ RunningIsOurs /\ [Next]_vars => RunningIsOurs'
    <2> SUFFICES ASSUME IInv, RunningIsOurs, [Next]_vars
                 PROVE  RunningIsOurs'
      OBVIOUS
    <2>1. CASE Pump
      <3>1. \A r \in Running' : r \in Started \/ (r \in Running /\ run'[r] = run[r])
        BY <2>1, PumpStep, AsFields, Typed DEF Running
      <3>2. \A r \in Running' : r \in Runs
        BY <2>1, PumpStep, Typed DEF Running
      <3>3. QED
        BY <2>1, <3>1, <3>2, PumpStep DEF RunningIsOurs
    <2>2. CASE ~Pump
      <3>1. up' => up \/ Running' = {}
        <4>1. CASE Start
          BY <4>1, LoadStep DEF Start, Running
        <4>2. CASE ~Start
          BY <4>2 DEF Next, Write, Tick, Pump, WatchTake, Deliver, NotePr, DeliverEnds, Stop,
             Crash, Exec, Request, World, Task, Put, Remove, Fire, Cancel, AgentExits,
             TabClosed, PrCloses, EndRemoved, DropHit, CancelEnds, Place, StartFails,
             StartCreate, StartTell, WatchClosed, WatchLive, WatchBreach, WatchExit, WatchOk,
             Broadcast, vars, Unlocked, Looked, Down
        <4>3. QED
          BY <4>1, <4>2
      <3>2. QED
        BY <2>2, <3>1, RunningSteps DEF RunningIsOurs
    <2>3. QED
      BY <2>1, <2>2
  <1>3. QED
    BY <1>1, <1>2, EngineInvariant, PTL DEF Spec

-----------------------------------------------------------------------------
(* The slots *)

LEMMA LeastNumber ==
  ASSUME NEW T \in SUBSET Nat, T # {}
  PROVE  \E n \in T : \A m \in T : n <= m
  <1> DEFINE R == {ss \in Nat \X Nat : ss[1] < ss[2]}
  <1>1. IsWellFoundedOn(R, Nat)
    BY NatLessThanWellFounded DEF OpToRel
  <1> HIDE DEF R
  <1>2. PICK n \in T : \A m \in T : ~(<<m, n>> \in R)
    BY <1>1, WFMin
  <1>3. \A m \in T : n <= m
    <2> TAKE m \in T
    <2>1. m \in Nat /\ n \in Nat
      OBVIOUS
    <2>2. m < n => <<m, n>> \in R
      BY <2>1 DEF R
    <2>3. QED
      BY <1>2, <2>1, <2>2
  <1>4. QED
    BY <1>3

LEMMA NewestRun ==
  ASSUME NEW S \in SUBSET Runs, S # {}
  PROVE  \E m \in S : \A q \in S : q <= m
  <1> DEFINE T == {n \in Nat : \A q \in S : q <= n}
  <1>1. T \in SUBSET Nat /\ MaxRuns \in T
    BY RunsAssumption DEF Runs
  <1>2. PICK n \in T : \A m \in T : n <= m
    BY <1>1, LeastNumber
  <1>3. n \in Nat /\ \A q \in S : q <= n
    BY <1>2
  <1>4. \A q \in S : q \in Nat /\ q >= 1
    BY RunsAssumption DEF Runs
  <1>5. n >= 1
    BY <1>3, <1>4
  <1>6. n - 1 \notin T
    BY <1>2, <1>3, <1>5
  <1>7. n \in S
    <2> SUFFICES ASSUME n \notin S PROVE FALSE
      OBVIOUS
    <2>1. n - 1 \in Nat /\ \A q \in S : q <= n - 1
      BY <1>3, <1>4, <1>5
    <2>2. QED
      BY <1>6, <2>1
  <1>8. QED
    BY <1>3, <1>7

LEMMA RunsFinite ==
  ASSUME NEW S \in SUBSET Runs
  PROVE  IsFiniteSet(S) /\ Cardinality(S) \in Nat /\ Cardinality(S) <= MaxRuns
  <1>1. IsFiniteSet(Runs) /\ Cardinality(Runs) = MaxRuns
    BY RunsAssumption, FS_Interval DEF Runs
  <1>2. QED
    BY <1>1, FS_Subset, FS_CardinalityType

\* The runs a pump starts fit in the slots that are free: the newest of them was
\* reached while the running ones and the older ones it starts left a slot
LEMMA StartedFit ==
  ASSUME IInv, SlotsBounded
  PROVE  Cardinality(Running) + Cardinality(Started) <= MaxParallel
  <1>1. Running \subseteq Runs /\ Started \subseteq Runs /\ Startable \subseteq Runs
    BY Typed DEF Running, Started, Startable, Queued
  <1>2. /\ Cardinality(Running) \in Nat /\ MaxParallel \in Nat
        /\ IsFiniteSet(Started) /\ Cardinality(Started) \in Nat
    BY <1>1, RunsFinite, RunsAssumption
  <1>3. CASE Started = {}
    BY <1>2, <1>3, FS_EmptySet DEF SlotsBounded
  <1>4. CASE Started # {}
    <2>1. PICK m \in Started : \A q \in Started : q <= m
      BY <1>1, <1>4, NewestRun
    <2> DEFINE older == {q \in Startable : q < m}
    <2>2. Cardinality(Running) + Cardinality(older) < MaxParallel
      BY <2>1 DEF Started, Reached
    <2>3. Started \ {m} \subseteq older
      <3>1. \A q \in Started : q \in Startable /\ q \in Nat /\ m \in Nat
        BY <1>1, <2>1, RunsAssumption DEF Started, Runs
      <3>2. QED
        BY <2>1, <3>1
    <2>4. IsFiniteSet(older) /\ Cardinality(older) \in Nat
      BY <1>1, RunsFinite
    <2> HIDE DEF older
    <2>5. Cardinality(Started \ {m}) <= Cardinality(older)
      BY <2>3, <2>4, FS_Subset
    <2>6. Cardinality(Started \ {m}) = Cardinality(Started) - 1
      BY <1>2, <2>1, FS_RemoveElement
    <2>7. QED
      BY <1>2, <2>2, <2>4, <2>5, <2>6
  <1>5. QED
    BY <1>3, <1>4

\* However many fires, finishes and ticks pump at the same time, no more runs run
\* than settings.routines.maxParallel allows (take_startable)
THEOREM SlotsHold == Spec => []SlotsBounded
  <1>1. Init => SlotsBounded
    <2> SUFFICES ASSUME Init PROVE SlotsBounded
      OBVIOUS
    <2>1. Running = {}
      BY DEF Init, Running
    <2>2. QED
      BY <2>1, FS_EmptySet, RunsAssumption DEF SlotsBounded
  <1>2. IInv /\ SlotsBounded /\ [Next]_vars => SlotsBounded'
    <2> SUFFICES ASSUME IInv, SlotsBounded, [Next]_vars
                 PROVE  SlotsBounded'
      OBVIOUS
    <2>1. Running \subseteq Runs /\ Started \subseteq Runs
      BY Typed DEF Running, Started, Startable, Queued
    <2>2. IsFiniteSet(Running) /\ Cardinality(Running) \in Nat
      BY <2>1, RunsFinite
    <2>3. IsFiniteSet(Started) /\ Cardinality(Started) \in Nat
      BY <2>1, RunsFinite
    <2>4. CASE Pump
      <3>1. Running' \subseteq Running \cup Started
        BY <2>4, PumpStep, AsFields, Typed DEF Running
      <3>2. IsFiniteSet(Running \cup Started)
            /\ Cardinality(Running \cup Started)
                 <= Cardinality(Running) + Cardinality(Started)
        <4>1. Running \cap Started \subseteq Runs
          BY <2>1
        <4>2. Cardinality(Running \cap Started) \in Nat
          BY <4>1, RunsFinite
        <4>3. /\ IsFiniteSet(Running \cup Started)
              /\ Cardinality(Running \cup Started)
                   = Cardinality(Running) + Cardinality(Started)
                       - Cardinality(Running \cap Started)
          BY <2>2, <2>3, FS_Union
        <4>4. QED
          BY <2>2, <2>3, <4>2, <4>3
      <3>3. Cardinality(Running') <= Cardinality(Running \cup Started)
            /\ Cardinality(Running') \in Nat /\ Cardinality(Running \cup Started) \in Nat
        BY <3>1, <3>2, FS_Subset, FS_CardinalityType
      <3>4. Cardinality(Running') <= MaxParallel
        BY <2>2, <2>3, <3>2, <3>3, StartedFit, RunsAssumption
      <3>5. QED
        BY <3>4 DEF SlotsBounded
    <2>5. CASE ~Pump
      <3>1. Running' \subseteq Running
        BY <2>5, RunningSteps
      <3>2. Cardinality(Running') <= Cardinality(Running) /\ Cardinality(Running') \in Nat
        BY <2>2, <3>1, FS_Subset, FS_CardinalityType
      <3>3. QED
        BY <2>2, <3>2, RunsAssumption DEF SlotsBounded
    <2>6. QED
      BY <2>4, <2>5
  <1>3. QED
    BY <1>1, <1>2, EngineInvariant, PTL DEF Spec

-----------------------------------------------------------------------------
(* What the clients know *)

LEMMA ViewStatus ==
  \A rec : View(rec).status = rec.status
  BY DEF View

Known ==
  /\ news = {}
  /\ up => \A r \in kept :
       run[r].routine \in routines => shown[r].status = run[r].status

LEMMA KnownSteps ==
  ASSUME IInv, Known, ~LateNews, [Next]_vars
  PROVE  Known'
  <1> USE ViewStatus
  <1>0. news' = {}
    <2>1. CASE \E n \in news : Broadcast(n)
      BY <2>1 DEF Known
    <2>2. CASE \/ Write \/ Tick \/ Pump \/ WatchTake \/ Deliver \/ NotePr \/ DeliverEnds
               \/ World \/ UNCHANGED vars
      BY <2>2 DEF Known, Write, Tick, Pump, WatchTake, Deliver, NotePr, DeliverEnds, World,
         AgentExits, TabClosed, PrCloses, vars, told, Tell, End, Finish
    <2>3. CASE Start \/ Stop \/ Crash \/ Exec
      BY <2>3 DEF Known, Start, Stop, Crash, Exec, Down, Load, NoTasks, Tell, told
    <2>4. CASE Request
      BY <2>4 DEF Known, Request, Put, Remove, Fire, Cancel, Finish, End, Tell, told
    <2>5. ASSUME NEW r \in Runs, Task(r)
          PROVE  news' = {}
      <3>1. CASE EndRemoved(r) \/ DropHit(r) \/ CancelEnds(r)
        BY <3>1 DEF Known, EndRemoved, DropHit, CancelEnds, Tell, told, End, Finish
      <3>2. CASE Place(r) \/ StartFails(r) \/ StartCreate(r) \/ StartTell(r)
        BY <3>2 DEF Known, Place, StartFails, StartCreate, StartTell, Tell, told, End, Finish
      <3>3. CASE WatchClosed(r) \/ WatchLive(r) \/ WatchBreach(r) \/ WatchExit(r) \/ WatchOk(r)
        BY <3>3 DEF Known, WatchClosed, WatchLive, WatchBreach, WatchExit, WatchOk, Tell, told,
           End, Finish
      <3>4. QED
        BY <2>5, <3>1, <3>2, <3>3 DEF Task
    <2>6. QED
      BY <2>1, <2>2, <2>3, <2>4, <2>5 DEF Next
  <1>1. CASE Quiet
    BY <1>1, QuietSteps DEF Known
  <1>2. CASE \E r \in Runs :
               \/ EndRemoved(r) \/ CancelEnds(r) \/ StartFails(r) \/ WatchClosed(r)
               \/ WatchBreach(r) \/ WatchExit(r) \/ (Cancel(r) /\ ~Racing)
    <2>1. PICK r \in Runs :
               \/ EndRemoved(r) \/ CancelEnds(r) \/ StartFails(r) \/ WatchClosed(r)
               \/ WatchBreach(r) \/ WatchExit(r) \/ (Cancel(r) /\ ~Racing)
      BY <1>2
    <2>2. up' = up /\ routines' = routines
      BY <2>1 DEF EndRemoved, CancelEnds, StartFails, WatchClosed, WatchBreach, WatchExit,
         Cancel
    <2>3. Ends(r)
      BY <2>1, EndSteps
    <2>4. QED
      BY <1>0, <2>2, <2>3, Typed DEF Known, Ends
  <1>3. CASE DeliverEnds
    <2>1. up' = up /\ routines' = routines /\ Ends(delivery.run)
      BY <1>3, DeliverEndsStep DEF DeliverEnds
    <2>2. QED
      BY <1>0, <2>1, Typed DEF Known, Ends
  <1>4. CASE NotePr \/ \E r \in Runs : StartTell(r) \/ WatchLive(r)
    <2>1. up' = up /\ routines' = routines
      BY <1>4 DEF NotePr, StartTell, WatchLive
    <2>2. PICK r : GoesOn(r)
      BY <1>4, NotePrStep, GoesOnSteps
    <2>3. \A q \in kept : q \in Runs /\ run'[q].status = run[q].status
                          /\ run'[q].routine = run[q].routine
      BY <2>2, Typed DEF GoesOn
    <2>4. QED
      BY <1>0, <2>1, <2>2, <2>3 DEF Known, GoesOn
  <1>5. CASE Pump
    <2>1. \A r \in Reached : run[r].routine \in routines => r \in Started
      BY DEF Reached, Startable, Started, Queued, IInv, Consistent, MemoryHit, Waits,
         AnyRoutine
    <2>2. \A r \in kept : /\ r \in Runs /\ run'[r].routine = run[r].routine
                          /\ r \notin Reached => run'[r] = run[r]
      BY <1>5, PumpStep, AsFields, Typed
    <2>3. Started \subseteq Reached
      BY DEF Started
    <2>4. \A r \in kept : run'[r].routine \in routines => shown'[r].status = run'[r].status
                          \/ ~up
      <3> SUFFICES ASSUME NEW r \in kept, run'[r].routine \in routines, up
                   PROVE  shown'[r].status = run'[r].status
        OBVIOUS
      <3>1. CASE r \in Started
        BY <1>5, <2>2, <3>1, PumpStep 
      <3>2. CASE r \notin Started
        BY <1>5, <2>1, <2>2, <3>2, PumpStep DEF Known
      <3>3. QED
        BY <3>1, <3>2
    <2>5. QED
      BY <1>0, <1>5, <2>4, PumpStep DEF Known
  <1>6. CASE \E rt \in Routines : Put(rt)
    BY <1>6 DEF Put, told, Known, IInv, Consistent, RoutinesDrawn
  <1>7. CASE \E rt \in Routines : Remove(rt)
    BY <1>7 DEF Remove, told, Known
  <1>8. CASE \E rt \in Routines : \E skip \in BOOLEAN : Fire(rt, skip)
    <2>1. PICK rt \in Routines, skip \in BOOLEAN : Fire(rt, skip)
      BY <1>8
    <2>2. up' = up /\ routines' = routines
      BY <2>1 DEF Fire
    <2>3. QED
      BY <1>0, <2>1, <2>2, FireStep, Typed DEF Known
  <1>9. CASE \E n \in news : Broadcast(n)
    BY <1>9 DEF Known
  <1>10. CASE Start \/ Exec
    <2>1. \A r \in kept' : r \in Runs /\ shown'[r] = View(run'[r])
      BY <1>10, LoadStep, Typed DEF Start, Exec
    <2>2. QED
      BY <1>0, <2>1 DEF Known
  <1>11. CASE Stop \/ Crash
    BY <1>0, <1>11 DEF Stop, Crash, Down, Known
  <1>12. QED
    BY <1>1, <1>2, <1>3, <1>4, <1>5, <1>6, <1>7, <1>8, <1>9, <1>10, <1>11, StepKinds

\* Once no event is under way the clients know the status of every run whose
\* routine is still there, when a client gets the events in the order of their
\* critical sections (changed, end, take_startable): a queued run of a routine
\* that is there has its hit, so a pump never cancels one without a word
THEOREM ClientsKnow ==
  ASSUME ~LateNews
  PROVE  Spec => []ClientsTold
  <1>1. Init => Known
    BY DEF Init, Known
  <1>2. IInv /\ Known /\ [Next]_vars => Known'
    BY KnownSteps
  <1>3. Known => ClientsTold
    BY DEF Known, ClientsTold
  <1>4. QED
    BY <1>1, <1>2, <1>3, EngineInvariant, PTL DEF Spec

-----------------------------------------------------------------------------
(* The agents *)

\* A session that is not closed is one of a run of this image that was started:
\* it runs with the run, was hung up, or is still to be told to the run
Sessions == {"live", "ok", "bad"}

LiveAttended ==
  \A r \in Runs : agent[r] \in Sessions =>
    /\ up
    /\ r \in kept
    /\ run[r].status # "Queued"
    /\ stage[r] \in {"none", "tell"}
    /\ stage[r] = "none" /\ agent[r] = "live" =>
         r \in killed \/ run[r].status = "Running"

\* A start task is one of a run that was taken from the queue
StartsTaken ==
  \A r \in Runs : stage[r] # "none" => r \in kept /\ run[r].status # "Queued"

\* What is delivered is the work of an agent that is done
DeliversDone ==
  delivery # Nobody =>
    /\ delivery.run \in kept
    /\ run[delivery.run].status # "Queued"
    /\ stage[delivery.run] \in {"none", "tell"}
    /\ agent[delivery.run] # "live"

\* The runs a removal still has to end are not started meanwhile
RemovedWait == \A r \in ending : r \in kept /\ run[r].status # "Running"

Attended ==
  /\ LiveAttended
  /\ StartsTaken
  /\ DeliversDone
  /\ RemovedWait
  /\ cancelling = {}

LEMMA AttendedInit ==
  Init => Attended
  BY DEF Init, Attended, LiveAttended, StartsTaken, DeliversDone, RemovedWait, Sessions

\* The list keeps every run when it may hold as many as are fired
LEMMA AllKept ==
  ASSUME KeepRuns >= MaxRuns, NEW S \in SUBSET Runs
  PROVE  Newest(S) = S
  <1> SUFFICES ASSUME NEW r \in S
               PROVE  Cardinality({q \in S : q >= r}) <= KeepRuns
    BY DEF Newest
  <1>1. {q \in S : q >= r} \in SUBSET Runs
    OBVIOUS
  <1>2. QED
    BY <1>1, RunsFinite, RunsAssumption

\* A step that touches neither the runs nor their tasks and agents
LEMMA StillAttended ==
  ASSUME Attended,
         UNCHANGED <<up, kept, run, stage, agent, killed, delivery, ending, cancelling>>
  PROVE  Attended'
  BY DEF Attended, LiveAttended, StartsTaken, DeliversDone, RemovedWait

\* A step that ends a run whose agent does not run on: it is not there yet, is
\* gone, has exited, is hung up or is still to be told to the run
LEMMA EndAttended ==
  ASSUME IInv, Attended, NEW r, Ends(r),
         UNCHANGED <<up, agent, cancelling>>,
         killed \subseteq killed', ending' \subseteq ending,
         delivery' = delivery \/ delivery' = Nobody,
         \/ stage' = stage
         \/ r \in Runs /\ stage[r] \in {"place", "create"} /\ stage' = [stage EXCEPT ![r] = "none"],
         Active(r) /\ agent[r] = "live" => stage[r] = "tell" \/ r \in killed'
  PROVE  Attended'
  <1>1. /\ kept' = kept
        /\ \A q \in Runs : q # r => run'[q] = run[q]
        /\ \A q \in kept : q = r => run'[q] = run[q] \/ (Active(r) /\ Ended(run'[r].status))
    BY DEF Ends
  <1>2. \A q \in kept : run[q].status # "Queued" => run'[q].status # "Queued"
    BY <1>1, Typed DEF Ended, Open
  <1>3. \A q \in kept : run'[q].status = "Running" => run[q].status = "Running"
    BY <1>1, Typed DEF Ended, Open
  <1>4. \A q \in Runs :
          stage'[q] = stage[q] \/ (q = r /\ stage[q] \in {"place", "create"} /\ stage'[q] = "none")
    BY DEF IInv, TypeOK
  <1>5. LiveAttended'
    <2> SUFFICES ASSUME NEW q \in Runs, agent[q] \in Sessions
                 PROVE  /\ up /\ q \in kept /\ run'[q].status # "Queued"
                        /\ stage'[q] \in {"none", "tell"}
                        /\ stage'[q] = "none" /\ agent[q] = "live" =>
                             q \in killed' \/ run'[q].status = "Running"
      BY <1>1 DEF LiveAttended, Sessions
    <2>1. /\ up /\ q \in kept /\ run[q].status # "Queued" /\ stage[q] \in {"none", "tell"}
          /\ stage[q] = "none" /\ agent[q] = "live" =>
               q \in killed \/ run[q].status = "Running"
      BY DEF Attended, LiveAttended
    <2>2. stage'[q] = stage[q]
      BY <1>4, <2>1
    <2>3. run'[q] = run[q] \/ (q = r /\ Active(r))
      BY <1>1, <2>1
    <2>4. QED
      BY <1>2, <2>1, <2>2, <2>3
  <1>6. StartsTaken'
    BY <1>1, <1>2, <1>4 DEF Attended, StartsTaken
  <1>7. DeliversDone'
    <2>1. delivery' # Nobody => delivery' = delivery /\ delivery.run \in Runs
      BY Typed DEF Attended, DeliversDone
    <2>2. QED
      BY <1>1, <1>2, <1>4, <2>1 DEF Attended, DeliversDone
  <1>8. RemovedWait'
    BY <1>1, <1>3 DEF Attended, RemovedWait
  <1>9. QED
    BY <1>5, <1>6, <1>7, <1>8 DEF Attended

LEMMA EndStepsAttended ==
  ASSUME IInv, RunningIsOurs, Attended, ~Racing, NEW r \in Runs,
         \/ EndRemoved(r) \/ CancelEnds(r) \/ StartFails(r) \/ WatchClosed(r)
         \/ WatchBreach(r) \/ WatchExit(r) \/ Cancel(r)
  PROVE  Attended'
  <1> USE DEF history, world, Unlocked
  <1>0. Ends(r)
    BY EndSteps
  <1>a. agent[r] = "live" /\ Active(r) => run[r].status = "Running"
    <2>1. Active(r) => run[r].status \in Open
      BY DEF Active, Ended
    <2>2. agent[r] = "live" => run[r].status # "Queued"
      BY DEF Attended, LiveAttended, Sessions
    <2>3. QED
      BY <2>1, <2>2 DEF Open
  <1>1. CASE EndRemoved(r)
    <2>1. r \in ending /\ run[r].status # "Running"
      BY <1>1 DEF EndRemoved, Attended, RemovedWait
    <2>2. UNCHANGED <<up, agent, cancelling, killed, delivery, stage>> /\ ending' \subseteq ending
      BY <1>1 DEF EndRemoved
    <2>3. QED
      BY <1>0, <1>a, <2>1, <2>2, EndAttended
  <1>2. CASE CancelEnds(r)
    BY <1>2 DEF CancelEnds, Attended
  <1>3. CASE StartFails(r)
    <2>1. agent[r] # "live"
      BY <1>3 DEF StartFails, Attended, LiveAttended, Sessions
    <2>2. /\ UNCHANGED <<up, agent, cancelling, killed, delivery, ending>>
          /\ stage[r] \in {"place", "create"} /\ stage' = [stage EXCEPT ![r] = "none"]
      BY <1>3 DEF StartFails
    <2>3. QED
      BY <1>0, <2>1, <2>2, EndAttended
  <1>4. CASE WatchClosed(r)
    <2>1. agent[r] # "live"
      BY <1>4 DEF WatchClosed
    <2>2. UNCHANGED <<up, agent, cancelling, killed, delivery, ending, stage>>
      BY <1>4 DEF WatchClosed
    <2>3. QED
      BY <1>0, <2>1, <2>2, EndAttended
  <1>5. CASE WatchBreach(r)
    <2>1. killed' = killed \cup {r} /\ UNCHANGED <<up, agent, cancelling, delivery, ending, stage>>
      BY <1>5 DEF WatchBreach, KillOf
    <2>2. QED
      BY <1>0, <2>1, EndAttended
  <1>6. CASE WatchExit(r)
    <2>1. agent[r] # "live"
      BY <1>6 DEF WatchExit
    <2>2. UNCHANGED <<up, agent, cancelling, killed, delivery, ending, stage>>
      BY <1>6 DEF WatchExit
    <2>3. QED
      BY <1>0, <2>1, <2>2, EndAttended
  <1>7. CASE Cancel(r)
    <2>1. /\ UNCHANGED <<up, agent, cancelling, delivery, ending, stage>> /\ up /\ Active(r)
          /\ killed' = IF run[r].session /\ agent[r] # "gone" THEN killed \cup {r} ELSE killed
      BY <1>7 DEF Cancel
    <2>2. agent[r] = "live" => run[r].session \/ stage[r] # "none"
      BY <1>a, <2>1 DEF RunningIsOurs, Running, Active
    <2>3. agent[r] = "live" => stage[r] \in {"none", "tell"}
      BY DEF Attended, LiveAttended, Sessions
    <2>4. agent[r] = "live" => stage[r] = "tell" \/ r \in killed'
      BY <2>1, <2>2, <2>3
    <2>5. QED
      BY <1>0, <2>1, <2>4, EndAttended
  <1>8. QED
    BY <1>1, <1>2, <1>3, <1>4, <1>5, <1>6, <1>7

LEMMA DeliverEndsAttended ==
  ASSUME IInv, Attended, DeliverEnds
  PROVE  Attended'
  <1>1. Ends(delivery.run)
    BY DeliverEndsStep
  <1>2. delivery # Nobody
    BY DEF DeliverEnds, Nobody
  <1>3. agent[delivery.run] # "live"
    BY <1>2 DEF Attended, DeliversDone
  <1>4. UNCHANGED <<up, agent, cancelling, killed, ending, stage>> /\ delivery' = Nobody
    BY DEF DeliverEnds, world
  <1>5. QED
    BY <1>1, <1>3, <1>4, EndAttended

\* A step that leaves the runs as they are, and where each is
LEMMA GoesOnAttended ==
  ASSUME IInv, Attended, NEW r, GoesOn(r),
         UNCHANGED <<up, agent, cancelling, ending>>,
         killed \subseteq killed',
         delivery' = delivery \/ (delivery # Nobody /\ delivery'.run = delivery.run),
         \/ stage' = stage
         \/ /\ r \in Runs /\ stage[r] = "tell" /\ stage' = [stage EXCEPT ![r] = "none"]
            /\ Active(r) \/ r \in killed'
  PROVE  Attended'
  <1>1. kept' = kept /\ \A q \in kept : q \in Runs /\ run'[q].status = run[q].status
    BY Typed DEF GoesOn
  <1>2. \A q \in Runs :
          stage'[q] = stage[q]
            \/ (q = r /\ stage[q] = "tell" /\ stage'[q] = "none" /\ (Active(r) \/ r \in killed'))
    BY DEF IInv, TypeOK
  <1>3. LiveAttended'
    <2> SUFFICES ASSUME NEW q \in Runs, agent[q] \in Sessions
                 PROVE  /\ up /\ q \in kept /\ run'[q].status # "Queued"
                        /\ stage'[q] \in {"none", "tell"}
                        /\ stage'[q] = "none" /\ agent[q] = "live" =>
                             q \in killed' \/ run'[q].status = "Running"
      BY <1>1 DEF LiveAttended, Sessions
    <2>1. /\ up /\ q \in kept /\ run[q].status # "Queued" /\ stage[q] \in {"none", "tell"}
          /\ stage[q] = "none" /\ agent[q] = "live" =>
               q \in killed \/ run[q].status = "Running"
      BY DEF Attended, LiveAttended
    <2>2. Active(q) => run[q].status = "Running"
      BY <2>1 DEF Active, Ended, Open
    <2>3. QED
      BY <1>1, <1>2, <2>1, <2>2
  <1>4. StartsTaken'
    BY <1>1, <1>2 DEF Attended, StartsTaken
  <1>5. DeliversDone'
    <2>1. delivery' # Nobody => delivery # Nobody /\ delivery'.run = delivery.run
      OBVIOUS
    <2>2. QED
      BY <1>1, <1>2, <2>1 DEF Attended, DeliversDone
  <1>6. RemovedWait'
    BY <1>1 DEF Attended, RemovedWait
  <1>7. QED
    BY <1>3, <1>4, <1>5, <1>6 DEF Attended

LEMMA GoesOnStepsAttended ==
  ASSUME IInv, Attended, NotePr \/ \E r \in Runs : StartTell(r) \/ WatchLive(r)
  PROVE  Attended'
  <1> USE DEF history, world
  <1>1. CASE NotePr
    <2>1. /\ UNCHANGED <<up, agent, cancelling, ending, killed, stage>>
          /\ delivery.at = "note" /\ delivery' = [delivery EXCEPT !.at = "end"]
      BY <1>1 DEF NotePr
    <2>2. delivery # Nobody
      BY <2>1 DEF Nobody
    <2>3. delivery'.run = delivery.run
      BY <2>1, <2>2 DEF IInv, TypeOK, Deliveries
    <2>4. QED
      BY <1>1, <2>1, <2>2, <2>3, NotePrStep, GoesOnAttended
  <1>2. ASSUME NEW r \in Runs, StartTell(r)
        PROVE  Attended'
    <2>1. /\ UNCHANGED <<up, agent, cancelling, ending, delivery>> /\ killed \subseteq killed'
          /\ stage[r] = "tell" /\ stage' = [stage EXCEPT ![r] = "none"]
          /\ Active(r) \/ r \in killed'
      BY <1>2 DEF StartTell, KillOf
    <2>2. QED
      BY <1>2, <2>1, GoesOnSteps, GoesOnAttended
  <1>3. ASSUME NEW r \in Runs, WatchLive(r)
        PROVE  Attended'
    <2>1. UNCHANGED <<up, agent, cancelling, ending, delivery, killed, stage>>
      BY <1>3 DEF WatchLive
    <2>2. QED
      BY <1>3, <2>1, GoesOnSteps, GoesOnAttended
  <1>4. QED
    BY <1>1, <1>2, <1>3

LEMMA QuietAttended ==
  ASSUME IInv, Attended, Quiet, ~Racing
  PROVE  Attended'
  <1> USE DEF history, memory, tasks, world, told
  <1>1. CASE Write \/ Tick \/ WatchTake \/ UNCHANGED vars \/ \E r \in Runs : DropHit(r) \/ PrCloses(r)
    BY <1>1, StillAttended DEF Write, Tick, WatchTake, DropHit, PrCloses, vars
  <1>2. CASE Deliver
    <2>1. /\ UNCHANGED <<up, kept, run, agent, cancelling, ending, killed, stage>>
          /\ delivery.at = "push" /\ delivery'.run = delivery.run
      BY <1>2 DEF Deliver
    <2>2. delivery # Nobody
      BY <2>1 DEF Nobody
    <2>3. QED
      BY <2>1, <2>2 DEF Attended, LiveAttended, StartsTaken, DeliversDone, RemovedWait
  <1>3. ASSUME NEW r \in Runs, AgentExits(r) \/ TabClosed(r)
        PROVE  Attended'
    <2>1. /\ UNCHANGED <<up, kept, run, stage, cancelling, ending, killed, delivery>>
          /\ agent[r] \in Sessions
          /\ \E e \in {"ok", "bad", "gone"} : agent' = [agent EXCEPT ![r] = e]
      BY <1>3 DEF AgentExits, TabClosed, Sessions
    <2>2. \A q \in Runs : agent'[q] = agent[q] \/ (agent[q] \in Sessions /\ agent'[q] # "live")
      BY <2>1 DEF IInv, TypeOK
    <2>3. DeliversDone'
      <3>1. delivery # Nobody => delivery.run \in Runs
        BY Typed DEF Attended, DeliversDone
      <3>2. QED
        BY <2>1, <2>2, <3>1 DEF Attended, DeliversDone
    <2>4. QED
      BY <2>1, <2>2, <2>3 DEF Attended, LiveAttended, StartsTaken, RemovedWait
  <1>4. ASSUME NEW r \in Runs, Place(r) \/ StartCreate(r)
        PROVE  Attended'
    <2>1. /\ UNCHANGED <<up, kept, run, cancelling, ending, killed, delivery>> /\ up
          /\ stage[r] \in {"place", "create"}
          /\ \/ stage' = [stage EXCEPT ![r] = "create"] /\ agent' = agent
             \/ stage' = [stage EXCEPT ![r] = "tell"] /\ agent' = [agent EXCEPT ![r] = "live"]
      BY <1>4 DEF Place, StartCreate, Unlocked
    <2>2. /\ \A q \in Runs : q # r => stage'[q] = stage[q] /\ agent'[q] = agent[q]
          /\ stage'[r] = "tell" \/ (stage'[r] = "create" /\ agent'[r] = agent[r])
      BY <2>1 DEF IInv, TypeOK
    <2>3. agent[r] \notin Sessions /\ r \in kept /\ run[r].status # "Queued"
      BY <2>1 DEF Attended, LiveAttended, StartsTaken
    <2>4. DeliversDone'
      <3>1. delivery # Nobody => delivery.run \in Runs /\ delivery.run # r
        BY <2>1, Typed DEF Attended, DeliversDone
      <3>2. QED
        BY <2>1, <2>2, <3>1 DEF Attended, DeliversDone
    <2>5. LiveAttended' /\ StartsTaken'
      BY <2>1, <2>2, <2>3 DEF Attended, LiveAttended, StartsTaken
    <2>6. QED
      BY <2>1, <2>4, <2>5 DEF Attended, RemovedWait
  <1>5. ASSUME NEW r \in Runs, WatchOk(r)
        PROVE  Attended'
    <2>1. /\ UNCHANGED <<up, kept, run, stage, agent, cancelling, ending, killed>>
          /\ agent[r] = "ok"
          /\ delivery' = delivery \/ delivery' = [run |-> r, at |-> "push", pr |-> NoPr]
      BY <1>5 DEF WatchOk
    <2>2. r \in kept /\ run[r].status # "Queued" /\ stage[r] \in {"none", "tell"}
      BY <2>1 DEF Attended, LiveAttended, Sessions
    <2>3. DeliversDone'
      BY <2>1, <2>2 DEF Attended, DeliversDone
    <2>4. QED
      BY <2>1, <2>3 DEF Attended, LiveAttended, StartsTaken, RemovedWait
  <1>6. QED
    BY <1>1, <1>2, <1>3, <1>4, <1>5 DEF Quiet, World

LEMMA PumpAttended ==
  ASSUME IInv, Attended, ~Racing, Pump
  PROVE  Attended'
  <1>1. UNCHANGED <<up, kept, agent, killed, cancelling, delivery, ending>> /\ ending = {}
    BY DEF Pump, world
  <1>2. \A r \in Runs : /\ r \in Started => r \in Queued /\ run'[r].status = "Running"
                                            /\ stage'[r] = "place"
                        /\ r \notin Started => stage'[r] = stage[r]
                        /\ r \in Reached => r \in Queued /\ run'[r].status # "Queued"
                        /\ r \notin Queued => run'[r] = run[r]
    BY PumpStep, AsFields
  <1>3. \A r \in Queued : r \in kept /\ run[r].status = "Queued"
    BY DEF Queued
  <1>4. Started \subseteq Reached
    BY DEF Started
  <1>5. LiveAttended'
    <2>1. \A r \in Runs : agent[r] \in Sessions => r \notin Queued
      BY <1>3 DEF Attended, LiveAttended
    <2>2. QED
      BY <1>1, <1>2, <1>4, <2>1 DEF Attended, LiveAttended
  <1>6. StartsTaken'
    <2>1. \A r \in Runs : stage[r] # "none" => r \notin Queued
      BY <1>3 DEF Attended, StartsTaken
    <2>2. QED
      BY <1>1, <1>2, <1>3, <1>4, <2>1 DEF Attended, StartsTaken
  <1>7. DeliversDone'
    <2>1. delivery # Nobody => delivery.run \in Runs /\ delivery.run \notin Queued
      BY <1>3, Typed DEF Attended, DeliversDone
    <2>2. QED
      BY <1>1, <1>2, <1>4, <2>1 DEF Attended, DeliversDone
  <1>8. QED
    BY <1>1, <1>5, <1>6, <1>7 DEF Attended, RemovedWait

LEMMA FireAttended ==
  ASSUME IInv, Attended, KeepRuns >= MaxRuns, NEW rt \in Routines, NEW skip \in BOOLEAN,
         Fire(rt, skip)
  PROVE  Attended'
  <1> DEFINE r == fired + 1
  <1>1. UNCHANGED <<up, stage, agent, killed, cancelling, delivery, ending>>
    BY DEF Fire, world
  <1>2. r \in Runs /\ r \notin kept /\ \A q \in Runs : q # r => run'[q] = run[q]
    BY FireStep
  <1>3. kept' = kept \cup {r}
    <2>1. kept \cup {r} \in SUBSET Runs
      BY <1>2, Typed
    <2>2. QED
      BY <2>1, AllKept DEF Fire
  <1> HIDE DEF r
  <1>4. \A q \in kept : q \in kept' /\ run'[q] = run[q]
    BY <1>2, <1>3, Typed
  <1>5. QED
    BY <1>1, <1>4 DEF Attended, LiveAttended, StartsTaken, DeliversDone, RemovedWait

LEMMA LifeAttended ==
  ASSUME IInv, Attended, ~Upgrades, Start \/ Stop \/ Crash \/ Exec
  PROVE  Attended'
  <1>1. CASE Start
    <2>1. \A r \in Runs : agent'[r] \notin Sessions
      BY <1>1 DEF Start, Attended, LiveAttended
    <2>2. /\ \A r \in Runs : stage'[r] = "none"
          /\ ending' = {} /\ cancelling' = {} /\ delivery' = Nobody
      BY <1>1, LoadStep DEF Start
    <2>3. QED
      BY <2>1, <2>2 DEF Attended, LiveAttended, StartsTaken, DeliversDone, RemovedWait
  <1>2. CASE Stop \/ Crash
    <2>1. /\ \A r \in Runs : stage'[r] = "none" /\ agent'[r] \in {"none", "gone"}
          /\ ending' = {} /\ cancelling' = {} /\ delivery' = Nobody
      BY <1>2 DEF Stop, Crash, Down, NoTasks
    <2>2. QED
      BY <2>1 DEF Attended, LiveAttended, StartsTaken, DeliversDone, RemovedWait, Sessions
  <1>3. CASE Exec
    BY <1>3 DEF Exec
  <1>4. QED
    BY <1>1, <1>2, <1>3

LEMMA NextAttended ==
  ASSUME IInv, RunningIsOurs, Attended, ~Racing, ~Upgrades, KeepRuns >= MaxRuns, [Next]_vars
  PROVE  Attended'
  <1>1. CASE \E rt \in Routines : Put(rt)
    BY <1>1, StillAttended DEF Put, world, tasks
  <1>2. CASE \E n \in news : Broadcast(n)
    BY <1>2, StillAttended DEF Broadcast, memory, world, tasks
  <1>3. CASE \E rt \in Routines : Remove(rt)
    <2>1. /\ UNCHANGED <<up, kept, run, stage, agent, killed, cancelling, delivery>>
          /\ \A r \in ending' : r \in ending \/ (r \in kept /\ run[r].status = "Queued")
      BY <1>3 DEF Remove, world
    <2>2. QED
      BY <2>1 DEF Attended, LiveAttended, StartsTaken, DeliversDone, RemovedWait
  <1>4. QED
    BY <1>1, <1>2, <1>3, StepKinds, QuietAttended, EndStepsAttended, DeliverEndsAttended,
       GoesOnStepsAttended, PumpAttended, FireAttended, LifeAttended

\* No agent runs on unattended: its run runs, so that the watcher looks at it and
\* enforces its budget, or it was hung up, or its start task is about to say whose
\* it is. So it is when RunCancel is not overtaken between its read of the run and
\* its end (Racing), the image is not exec'ed under running agents (Upgrades), and
\* no more runs are fired than the list keeps
THEOREM AgentsAttended ==
  ASSUME ~Racing, ~Upgrades, KeepRuns >= MaxRuns
  PROVE  Spec => []AgentsWatched
  <1>1. Init => Attended
    BY AttendedInit
  <1>2. IInv /\ RunningIsOurs /\ Attended /\ [Next]_vars => Attended'
    BY NextAttended
  <1>3. Attended => AgentsWatched
    BY DEF Attended, LiveAttended, AgentsWatched, Running, Sessions
  <1>4. QED
    BY <1>1, <1>2, <1>3, EngineInvariant, RunningAttended, PTL DEF Spec
=============================================================================
