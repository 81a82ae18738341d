----------------------------- MODULE SessionLife -----------------------------
(***************************************************************************)
(* The sessions of treeix-ptyd across the daemon's life: their processes,  *)
(* the status clients see, state.json and the snapshot files, and the      *)
(* daemon's start, stop, crash and exec of a newer image                   *)
(* (crates/ptyd/src: server.rs, session.rs, state.rs, lib.rs).             *)
(*                                                                         *)
(* A process is a number, the order in which the machine started it: it    *)
(* stands for procinfo::start_time. Its pid is another number, free again  *)
(* once the process is gone and has been reaped.                           *)
(***************************************************************************)
EXTENDS Integers, FiniteSets

CONSTANTS
  Sessions,      \* session ids Create may draw
  Routines,      \* the sessions launched by a routine: not started again
  Snapped,       \* sessions a snapshot of falls due: they print, or are detached
  Clients,       \* connections, each with one request at a time
  MaxProcs,      \* bound: processes a behaviour may start
  Pids,          \* the pids the machine has
  FastExit,      \* a process may be gone before Create registers its session
  RacingRestart, \* a restart may race the exit it follows, or a hand-over
  LateWrites     \* a write on the blocking pool may be overtaken

Procs == 1..MaxProcs
None == 0         \* no process, no pid
Foreign == "foreign"

ASSUME LifeAssumption ==
  /\ Routines \subseteq Sessions
  /\ Snapped \subseteq Sessions
  /\ Foreign \notin Sessions
  /\ MaxProcs \in Nat
  /\ None \notin Pids
  /\ {FastExit, RacingRestart, LateWrites} \subseteq BOOLEAN

VARIABLES
  owner,    \* [Procs -> Sessions \cup {Foreign}] of the processes started
  pidOf,    \* [Procs -> Pids \cup {None}]
  born,     \* processes started so far
  alive,    \* the processes still there
  phase,    \* where the main task is
  known,    \* the keys of Daemon.sessions
  used,     \* history: the session ids drawn
  removed,  \* history: the sessions a client removed
  overtaken, \* history: those with a snapshot on the blocking pool at that time
  status,   \* SessionInfo.status
  pid,      \* SessionInfo.pid
  process,  \* Session.process
  botched,  \* history: sessions last started with a start() that failed
  watched,  \* processes with a read_loop and a coalesce task in this image
  lost,     \* children of this image nobody waits for
  reaped,   \* watched processes whose wait() returned
  exiting,  \* processes whose exited() took Session.process and has not told
  grace,    \* processes kill() hung up, to be killed after KILL_GRACE
  request,  \* the request a connection is in the middle of
  reviving, \* sessions load() has still to start
  dirty,    \* the permit of state_dirty
  saver,    \* where the task that writes state.json is
  disk,     \* state.json
  snaps,    \* sessions with a snapshot file
  queued,   \* sessions with a snapshot on the blocking pool
  ended     \* history: how the last image that served ended

machine == <<owner, pidOf, born, alive>>
session == <<known, used, removed, overtaken, status, pid, process, botched,
             watched, lost, reaped, exiting, grace>>
store == <<dirty, saver, disk, snaps, queued>>
vars == <<machine, session, store, phase, request, reviving, ended>>

-----------------------------------------------------------------------------
(* Values *)

\* "Running" stands for every status of a live session (Needs, Done, Idle,
\* Watching: hooks.rs moves between them), "Exited" for Error too
Statuses == {"Running", "Exited", "Restored", "Crashed"}
Idle == [op |-> "idle"]
Requests ==
  {Idle} \cup [op : {"insert", "restart"}, session : Sessions]
Entries == [status : Statuses, pid : Pids \cup {None},
            started : Procs \cup {None}]
Phases == {"down", "loading", "serving", "stop", "handoff", "saved",
           "inherit", "ended"}

TypeOK ==
  /\ owner \in [Procs -> Sessions \cup {Foreign}]
  /\ pidOf \in [Procs -> Pids \cup {None}]
  /\ born \in 0..MaxProcs
  /\ alive \subseteq 1..born
  /\ phase \in Phases
  /\ known \subseteq used
  /\ used \subseteq Sessions
  /\ removed \subseteq used
  /\ overtaken \subseteq removed
  /\ status \in [Sessions -> Statuses]
  /\ pid \in [Sessions -> Pids \cup {None}]
  /\ process \in [Sessions -> Procs \cup {None}]
  /\ botched \subseteq Sessions
  /\ watched \subseteq 1..born
  /\ lost \subseteq 1..born
  /\ reaped \subseteq watched
  /\ exiting \subseteq reaped
  /\ grace \subseteq 1..born
  /\ request \in [Clients -> Requests]
  /\ reviving \subseteq known
  /\ dirty \in BOOLEAN
  /\ saver \in {"wait", "debounce", "write", "gone"}
  /\ disk.clean \in BOOLEAN
  /\ disk.ids \subseteq Sessions
  /\ disk.entry \in [Sessions -> Entries]
  /\ snaps \subseteq Sessions
  /\ queued \subseteq Sessions
  /\ ended \in {"never", "clean", "crash"}

\* state::load of a missing file: State::default
NoEntry == [status |-> "Exited", pid |-> None, started |-> None]
EmptyDisk ==
  [clean |-> FALSE, ids |-> {}, entry |-> [s \in Sessions |-> NoEntry]]

Init ==
  /\ owner = [p \in Procs |-> Foreign]
  /\ pidOf = [p \in Procs |-> None]
  /\ born = 0
  /\ alive = {}
  /\ phase = "down"
  /\ known = {}
  /\ used = {}
  /\ removed = {}
  /\ overtaken = {}
  /\ status = [s \in Sessions |-> "Exited"]
  /\ pid = [s \in Sessions |-> None]
  /\ process = [s \in Sessions |-> None]
  /\ botched = {}
  /\ watched = {}
  /\ lost = {}
  /\ reaped = {}
  /\ exiting = {}
  /\ grace = {}
  /\ request = [c \in Clients |-> Idle]
  /\ reviving = {}
  /\ dirty = FALSE
  /\ saver = "wait"
  /\ disk = EmptyDisk
  /\ snaps = {}
  /\ queued = {}
  /\ ended = "never"

-----------------------------------------------------------------------------
(* The machine *)

\* A child holds its pid until wait() reaps it, for good when nobody waits
Holders == alive \cup (watched \ reaped) \cup lost
FreePids == Pids \ {pidOf[p] : p \in Holders}

\* The next process, of session s, with pid n
Fork(s, n) ==
  /\ born < MaxProcs
  /\ n \in FreePids
  /\ born' = born + 1
  /\ owner' = [owner EXCEPT ![born + 1] = s]
  /\ pidOf' = [pidOf EXCEPT ![born + 1] = n]

\* Some other program starts
ForeignStart ==
  /\ \E n \in FreePids : Fork(Foreign, n)
  /\ alive' = alive \cup {born + 1}
  /\ UNCHANGED <<session, store, phase, request, reviving, ended>>

\* A session's process ends: on its own, of a hangup, or not at all
ProcExit(p) ==
  /\ p \in alive
  /\ owner[p] # Foreign
  /\ alive' = alive \ {p}
  /\ UNCHANGED <<owner, pidOf, born, session, store, phase, request, reviving,
                 ended>>

-----------------------------------------------------------------------------
(* Sessions *)

Up == phase # "down"
Stopping == phase \in {"stop", "handoff", "saved", "inherit", "ended"}

\* Mutant: the info keeps the last run's status
SpawnUntold(s) ==
  /\ \E n \in FreePids :
       /\ Fork(s, n)
       /\ pid' = [pid EXCEPT ![s] = n]
  /\ alive' = alive \cup {born + 1}
  /\ process' = [process EXCEPT ![s] = born + 1]
  /\ watched' = watched \cup {born + 1}
  /\ botched' = botched \ {s}
  /\ UNCHANGED <<status, lost>>

\* Session::spawn: the child, then the info, then Session.process and the
\* threads that watch it
Spawn(s) ==
  /\ \E n \in FreePids :
       /\ Fork(s, n)
       /\ pid' = [pid EXCEPT ![s] = n]
  /\ alive' = alive \cup {born + 1}
  /\ status' = [status EXCEPT ![s] = "Running"]
  /\ process' = [process EXCEPT ![s] = born + 1]
  /\ watched' = watched \cup {born + 1}
  /\ botched' = botched \ {s}
  /\ UNCHANGED lost

\* The child and the info, then start() fails: nobody reads the PTY or waits,
\* and Session.process has the child if only the reader could not be started
HalfSpawn(s, told, n) ==
  /\ Fork(s, n)
  /\ alive' = alive \cup {born + 1}
  /\ lost' = lost \cup {born + 1}
  /\ status' = [status EXCEPT ![s] = told]
  /\ process' \in {process, [process EXCEPT ![s] = born + 1]}
  /\ botched' = botched \cup {s}
  /\ UNCHANGED watched

\* A connection that is between two requests
Free(c) == Up /\ phase # "loading" /\ request[c] = Idle

\* Create: spawn first, Daemon.sessions later
Create(c, s) ==
  /\ Free(c)
  /\ s \notin used
  /\ used' = used \cup {s}
  /\ Spawn(s)
  /\ request' = [request EXCEPT ![c] = [op |-> "insert", session |-> s]]
  /\ UNCHANGED <<known, removed, overtaken, reaped, exiting, grace, store, phase,
                 reviving, ended>>

\* start() fails behind the child: the session and its PTY are dropped
CreateFails(c, s) ==
  /\ Free(c)
  /\ s \notin used
  /\ used' = used \cup {s}
  /\ \E n \in FreePids : Fork(s, n)
  /\ alive' = alive \cup {born + 1}
  /\ lost' = lost \cup {born + 1}
  /\ UNCHANGED <<known, removed, overtaken, status, pid, process, botched, watched,
                 reaped, exiting, grace, store, phase, request, reviving, ended>>

CreateInsert(c) ==
  /\ request[c].op = "insert"
  /\ known' = known \cup {request[c].session}
  /\ request' = [request EXCEPT ![c] = Idle]
  /\ dirty' = TRUE
  /\ UNCHANGED <<machine, used, removed, overtaken, status, pid, process, botched,
                 watched, lost, reaped, exiting, grace, saver, disk, snaps, queued,
                 phase, reviving, ended>>

\* What a client that waits for events and replies knows of the session
ToldOfExit(s) == status[s] # "Running" \/ s \in botched

\* Restart of a session that is_live() says has no process
RestartCheck(c, s) ==
  /\ Free(c)
  /\ s \in known
  /\ process[s] = None
  /\ (ToldOfExit(s) /\ ~Stopping) \/ RacingRestart
  /\ request' = [request EXCEPT ![c] = [op |-> "restart", session |-> s]]
  /\ UNCHANGED <<machine, session, store, phase, reviving, ended>>

RestartSpawn(c) ==
  /\ request[c].op = "restart"
  /\ Spawn(request[c].session)
  /\ request' = [request EXCEPT ![c] = Idle]
  /\ dirty' = TRUE
  /\ UNCHANGED <<known, used, removed, overtaken, reaped, exiting, grace, saver, disk,
                 snaps, queued, phase, reviving, ended>>

\* The PTY or the command could not be started, or what start() needs behind
\* them: the error is the reply, and the info stays as it was set
RestartFails(c) ==
  /\ request[c].op = "restart"
  /\ request' = [request EXCEPT ![c] = Idle]
  /\ \/ UNCHANGED <<machine, session>>
     \/ LET s == request[c].session
        IN  /\ \E n \in FreePids :
                 /\ HalfSpawn(s, "Running", n)
                 /\ pid' = [pid EXCEPT ![s] = n]
            /\ UNCHANGED <<known, used, removed, overtaken, reaped, exiting, grace>>
  /\ UNCHANGED <<store, phase, reviving, ended>>

\* Who has the pid of a process: signal() has no other name for it
Named(p) == {q \in alive : p # None /\ pidOf[q] = pidOf[p]}

\* A hangup of the sessions' processes. One of them may end of it (ProcExit);
\* so may another program that has its pid
Hangup(ss) ==
  \E hit \in SUBSET {q \in UNION {Named(process[s]) : s \in ss} : owner[q] = Foreign} :
    alive' = alive \ hit

\* Mutant: a session without a process is hung up too
HangUpAny(s) == Hangup({s}) /\ grace' = grace \cup {process[s]}

\* Session::kill: a hangup now, a kill later
HangUp(s) == Hangup({s}) /\ grace' = grace \cup ({process[s]} \ {None})

Kill(c, s) ==
  /\ Free(c)
  /\ s \in known
  /\ process[s] # None
  /\ HangUp(s)
  /\ UNCHANGED <<owner, pidOf, born, known, used, removed, overtaken, status, pid,
                 process, botched, watched, lost, reaped, exiting, store, phase,
                 request, reviving, ended>>

\* Mutant: nothing follows the hangup
GraceForgotten(p) ==
  /\ p \in grace
  /\ grace' = grace \ {p}
  /\ UNCHANGED <<machine, known, used, removed, overtaken, status, pid, process,
                 botched, watched, lost, reaped, exiting, store, phase, request,
                 reviving, ended>>

\* Mutant: the timer does not look at what the session has now
GraceBlind(p) ==
  /\ p \in grace
  /\ grace' = grace \ {p}
  /\ alive' = alive \ Named(p)
  /\ UNCHANGED <<owner, pidOf, born, known, used, removed, overtaken, status, pid,
                 process, botched, watched, lost, reaped, exiting, store, phase,
                 request, reviving, ended>>

\* KILL_GRACE passed: SIGKILL, when the session's process has the pid still
GraceEnd(p) ==
  LET now == process[owner[p]]
  IN  /\ p \in grace
      /\ grace' = grace \ {p}
      /\ alive' = IF now # None /\ pidOf[now] = pidOf[p]
                  THEN alive \ Named(now) ELSE alive
      /\ UNCHANGED <<owner, pidOf, born, known, used, removed, overtaken, status, pid,
                     process, botched, watched, lost, reaped, exiting, store, phase,
                     request, reviving, ended>>

\* Mutant: the snapshot stays
SnapsKept(s) == snaps

SnapsWithout(s) == snaps \ {s}

Remove(c, s) ==
  /\ Free(c)
  /\ s \in known
  /\ known' = known \ {s}
  /\ removed' = removed \cup {s}
  /\ overtaken' = overtaken \cup ({s} \cap queued)
  /\ HangUp(s)
  /\ snaps' = SnapsWithout(s)
  /\ dirty' = TRUE
  /\ UNCHANGED <<owner, pidOf, born, used, status, pid, process, botched, watched, lost,
                 reaped, exiting, saver, disk, queued, phase, request, reviving,
                 ended>>

\* read_loop: the PTY is at its end, and the child is reaped
ExitReap(p) ==
  /\ p \in watched \ (alive \cup reaped)
  /\ reaped' = reaped \cup {p}
  /\ UNCHANGED <<machine, known, used, removed, overtaken, status, pid, process,
                 botched, watched, lost, exiting, grace, store, phase, request,
                 reviving, ended>>

\* Mutant: the exit is not told
ExitSilent(p) ==
  /\ p \in reaped \ exiting
  /\ FastExit \/ \A c \in Clients :
       request[c] # [op |-> "insert", session |-> owner[p]]
  /\ process' = [process EXCEPT ![owner[p]] = None]
  /\ watched' = watched \ {p}
  /\ reaped' = reaped \ {p}
  /\ UNCHANGED <<machine, known, used, removed, overtaken, status, pid, botched, lost,
                 exiting, grace, store, phase, request, reviving, ended>>

\* coalesce received the exit: exited() takes whatever Session.process holds,
\* and goes on only for a session the daemon knows
ExitTake(p) ==
  LET s == owner[p]
      goesOn == ~Stopping /\ s \in known
  IN  /\ p \in reaped \ exiting
      /\ FastExit \/ \A c \in Clients :
           request[c] # [op |-> "insert", session |-> s]
      /\ process' = [process EXCEPT ![s] = None]
      /\ exiting' = IF goesOn THEN exiting \cup {p} ELSE exiting
      /\ watched' = IF goesOn THEN watched ELSE watched \ {p}
      /\ reaped' = IF goesOn THEN reaped ELSE reaped \ {p}
      /\ UNCHANGED <<machine, known, used, removed, overtaken, status, pid, botched,
                     lost, grace, store, phase, request, reviving, ended>>

\* Mutant: the exit is told but not saved
ExitUnsaved(p) ==
  LET s == owner[p]
  IN  /\ p \in exiting
      /\ exiting' = exiting \ {p}
      /\ watched' = watched \ {p}
      /\ reaped' = reaped \ {p}
      /\ status' = [status EXCEPT ![s] = "Exited"]
      /\ pid' = [pid EXCEPT ![s] = None]
      /\ UNCHANGED <<machine, known, used, removed, overtaken, process, botched, lost,
                     grace, store, phase, request, reviving, ended>>

\* ... then sets the status and broadcasts it
ExitTell(p) ==
  LET s == owner[p]
  IN  /\ p \in exiting
      /\ exiting' = exiting \ {p}
      /\ watched' = watched \ {p}
      /\ reaped' = reaped \ {p}
      /\ status' = [status EXCEPT ![s] = "Exited"]
      /\ pid' = [pid EXCEPT ![s] = None]
      /\ dirty' = TRUE
      /\ UNCHANGED <<machine, known, used, removed, overtaken, process, botched, lost,
                     grace, saver, disk, snaps, queued, phase, request, reviving,
                     ended>>

-----------------------------------------------------------------------------
(* state.json and the snapshots *)

\* save_state: the sessions in the map as they are now
Saved(clean) ==
  [clean |-> clean, ids |-> known,
   entry |-> [s \in Sessions |->
     IF s \in known
     THEN [status |-> status[s], pid |-> pid[s], started |-> process[s]]
     ELSE NoEntry]]

SaverWake ==
  /\ phase \notin {"down", "loading"}
  /\ saver = "wait"
  /\ dirty
  /\ dirty' = FALSE
  /\ saver' = "debounce"
  /\ UNCHANGED <<machine, session, disk, snaps, queued, phase, request,
                 reviving, ended>>

\* STATE_DEBOUNCE passed
SaverCheck ==
  /\ saver = "debounce"
  /\ saver' = IF Stopping THEN "gone" ELSE "write"
  /\ UNCHANGED <<machine, session, dirty, disk, snaps, queued, phase, request,
                 reviving, ended>>

SaverWrite ==
  /\ saver = "write"
  /\ disk' = Saved(FALSE)
  /\ saver' = "wait"
  /\ UNCHANGED <<machine, session, dirty, snaps, queued, phase, request,
                 reviving, ended>>

\* The 30 s timer, or the last viewer detached: the file is written on the
\* blocking pool, one step with this when nothing overtakes it
SnapshotDue(s) ==
  /\ phase = "serving"
  /\ s \in known \cap Snapped
  /\ s \notin queued
  /\ IF LateWrites
     THEN queued' = queued \cup {s} /\ UNCHANGED snaps
     ELSE snaps' = snaps \cup {s} /\ UNCHANGED queued
  /\ UNCHANGED <<machine, session, dirty, saver, disk, phase, request, reviving,
                 ended>>

SnapshotWrite(s) ==
  /\ s \in queued
  /\ queued' = queued \ {s}
  /\ snaps' = snaps \cup {s}
  /\ UNCHANGED <<machine, session, dirty, saver, disk, phase, request, reviving,
                 ended>>

-----------------------------------------------------------------------------
(* The daemon's life *)

WasRunning(e) == e.status # "Exited"

\* Mutant: whatever has the pid now goes
OrphanByPid(e, q) == WasRunning(e) /\ e.started # None /\ pidOf[q] = e.pid

\* kill_orphan: the pid and the start time are those state.json recorded
Orphan(e, q) ==
  WasRunning(e) /\ e.started # None /\ pidOf[q] = e.pid /\ q = e.started

Revived == IF disk.clean THEN "Restored" ELSE "Crashed"

\* The sessions whose PTY is handed over and that have a pid to wait for
Adopted(masters) ==
  {s \in disk.ids \cap masters : disk.entry[s].pid # None}

\* Mutant: what was running starts again, handed over or not
ToReviveAll(masters, failed) == {s \in disk.ids : WasRunning(disk.entry[s])}

\* The sessions to start again, those that could not be taken over included
ToRevive(masters, failed) ==
  {s \in disk.ids \ (Adopted(masters) \ failed) :
     WasRunning(disk.entry[s]) \/ s \in masters}

\* Daemon::load up to the first spawn, with the PTYs in masters handed over:
\* the adopted sessions keep their process, the others that ran lose it and
\* wait to be started. So do those whose adopt failed in start(), some with
\* Session.process set
Load(masters, failed, kept) ==
  /\ known' = disk.ids
  /\ status' = [s \in Sessions |->
       IF s \in ToRevive(masters, failed) THEN Revived ELSE disk.entry[s].status]
  /\ pid' = [s \in Sessions |->
       IF s \in ToRevive(masters, failed) THEN None ELSE disk.entry[s].pid]
  /\ process' = [s \in Sessions |->
       IF s \in (Adopted(masters) \ failed) \cup kept THEN process[s] ELSE None]
  /\ watched' = {process[s] : s \in Adopted(masters) \ failed}
  /\ reaped' = watched' \ Holders
  /\ lost' = (lost \cup (watched \ reaped)) \ watched'
  /\ botched' = kept
  /\ alive' = {q \in alive :
       \A s \in disk.ids \ masters : ~Orphan(disk.entry[s], q)}
  /\ reviving' = ToRevive(masters, failed) \ Routines
  /\ phase' = "loading"
  /\ exiting' = {}
  /\ grace' = {}
  /\ dirty' = FALSE
  /\ saver' = "wait"
  /\ queued' = {}
  /\ request' = [c \in Clients |-> Idle]
  /\ UNCHANGED <<removed, overtaken>>

Start ==
  /\ phase = "down"
  /\ Load({}, {}, {})
  /\ UNCHANGED <<owner, pidOf, born, used, disk, snaps, ended>>

\* A session that ran is started again; when that fails it keeps the status
Revive(s) ==
  /\ phase = "loading"
  /\ s \in reviving
  /\ reviving' = reviving \ {s}
  /\ \/ Spawn(s)
     \/ /\ \E n \in FreePids : HalfSpawn(s, status[s], n)
        /\ pid' = [pid EXCEPT ![s] = None]
     \/ UNCHANGED <<machine, status, pid, process, botched, watched, lost>>
  /\ UNCHANGED <<known, used, removed, overtaken, reaped, exiting, grace, store, phase,
                 request, ended>>

\* Mutant: the file still says what the last image wrote
ServeUnsaved ==
  /\ phase = "loading"
  /\ reviving = {}
  /\ phase' = "serving"
  /\ UNCHANGED <<machine, session, dirty, saver, disk, snaps, queued, request,
                 reviving, ended>>

\* serve: load is done, the state is saved as a running daemon's
Serve ==
  /\ phase = "loading"
  /\ reviving = {}
  /\ disk' = Saved(FALSE)
  /\ phase' = "serving"
  /\ UNCHANGED <<machine, session, dirty, saver, snaps, queued, request,
                 reviving, ended>>

\* Shutdown or a signal sets stopping in stop(), an Upgrade in hand_off()
StopBegin(next) ==
  /\ phase = "serving"
  /\ saver = "write" => LateWrites
  /\ (\E c \in Clients : request[c].op = "restart") => RacingRestart
  /\ phase' = next
  /\ UNCHANGED <<machine, session, store, request, reviving, ended>>

\* persist: the snapshots and the clean state of the sessions there are
Persist ==
  /\ phase \in {"stop", "handoff"}
  /\ snaps' = snaps \cup known
  /\ disk' = Saved(TRUE)
  /\ phase' = IF phase = "stop" THEN "saved" ELSE "inherit"
  /\ UNCHANGED <<machine, session, dirty, saver, queued, request, reviving,
                 ended>>

\* stop hangs up the children of the sessions persist saw; hand_off does when
\* exec failed
HangUpAll ==
  /\ phase \in {"saved", "inherit"}
  /\ phase' = "ended"
  /\ Hangup(disk.ids)
  /\ UNCHANGED <<owner, pidOf, born, session, store, request, reviving, ended>>

\* exec: the new image gets the master of every persisted session that has one
Exec ==
  /\ phase = "inherit"
  /\ LET masters == {s \in disk.ids : process[s] # None}
     IN  \E failed \in SUBSET Adopted(masters) : \E kept \in SUBSET failed :
           Load(masters, failed, kept)
  /\ ended' = "clean"
  /\ UNCHANGED <<owner, pidOf, born, used, disk, snaps>>

\* The image is gone, with everything it kept in memory
Gone ==
  /\ phase' = "down"
  /\ known' = {}
  /\ process' = [s \in Sessions |-> None]
  /\ watched' = {}
  /\ lost' = {}
  /\ reaped' = {}
  /\ exiting' = {}
  /\ grace' = {}
  /\ reviving' = {}
  /\ dirty' = FALSE
  /\ saver' = "wait"
  /\ queued' = {}
  /\ request' = [c \in Clients |-> Idle]
  /\ UNCHANGED <<machine, used, removed, overtaken, status, pid, botched, disk, snaps>>

\* The runtime's shutdown waits for the blocking pool
Quit ==
  /\ phase = "ended"
  /\ saver # "write"
  /\ queued = {}
  /\ Gone
  /\ ended' = "clean"

\* SIGKILL, a panic, a power cut. An image that never served leaves the file
\* as it was, one that had persisted leaves a clean one
Crash ==
  /\ Up
  /\ Gone
  /\ ended' = CASE phase = "loading" -> ended
                [] phase \in {"saved", "inherit", "ended"} -> "clean"
                [] OTHER -> "crash"

Client(c) ==
  \/ CreateInsert(c)
  \/ RestartSpawn(c)
  \/ RestartFails(c)
  \/ \E s \in Sessions :
       \/ Create(c, s) \/ CreateFails(c, s) \/ RestartCheck(c, s)
       \/ Kill(c, s) \/ Remove(c, s)

Process(p) ==
  ProcExit(p) \/ ExitReap(p) \/ ExitTake(p) \/ ExitTell(p) \/ GraceEnd(p)

Storage ==
  \/ SaverWake \/ SaverCheck \/ SaverWrite
  \/ \E s \in Sessions : SnapshotDue(s) \/ SnapshotWrite(s)

Life ==
  \/ Start \/ Serve \/ Persist \/ HangUpAll \/ Exec \/ Quit \/ Crash
  \/ StopBegin("stop") \/ StopBegin("handoff")
  \/ \E s \in Sessions : Revive(s)

Next ==
  \/ ForeignStart
  \/ Life
  \/ Storage
  \/ \E c \in Clients : Client(c)
  \/ \E p \in Procs : Process(p)

Spec == Init /\ [][Next]_vars

\* The daemon's tasks and timers run and its children's exits are noticed.
\* Nobody has to connect, ask, exit, stop or crash.
Fairness ==
  /\ WF_vars(SaverWake) /\ WF_vars(SaverCheck) /\ WF_vars(SaverWrite)
  /\ \A c \in Clients : WF_vars(CreateInsert(c))
  /\ \A p \in Procs :
       /\ WF_vars(ExitReap(p)) /\ WF_vars(ExitTake(p)) /\ WF_vars(ExitTell(p))
       /\ WF_vars(GraceEnd(p))

FairSpec == Spec /\ Fairness

-----------------------------------------------------------------------------
(* Properties *)

\* A session listed as running has a process, or its exit is being told
\* (Create, Restart, exited, load): no client waits for the output of a session
\* nothing runs behind. Not so of one whose start() failed last: Restart leaves
\* the status spawn has set
RunningHasProcess ==
  phase = "serving" => \A s \in known \ botched : status[s] = "Running" =>
    process[s] # None \/ \E p \in exiting : owner[p] = s

\* A session with a process is listed as running, under that process's pid
\* (spawn, adopt, exited): after a restart, a crash and an upgrade as well
LiveIsRunning ==
  phase = "serving" => \A s \in known \ botched : process[s] # None =>
    status[s] = "Running" /\ pid[s] = pidOf[process[s]]

\* What clients are told of a session and the process behind it agree, in both
\* directions (Create, Restart, exited, load, adopt), unless its last start
\* broke off half way
ListAgrees == RunningHasProcess /\ LiveIsRunning

\* "session is running" (Restart): a session never has two processes behind it
OneProcess ==
  \A s \in Sessions :
    Cardinality({p \in watched \cap alive : owner[p] = s}) <= 1

\* The daemon ends no process it did not start, whatever becomes of the pids it
\* keeps (kill, its timer, stop) and of those in state.json (kill_orphan: "only
\* when the pid is still that process"). The one way to it: Session.process has
\* one that is reaped, and another program has its pid by now
OthersUntouched ==
  [][\A q \in alive \ alive' : owner[q] = Foreign =>
       \E s \in Sessions : /\ process[s] # None /\ process[s] \notin Holders
                          /\ pidOf[process[s]] = pidOf[q]]_vars

\* "False while a daemon runs; still false on the next start means it crashed"
\* (State.clean_shutdown): a session shown as restored was stopped, one shown as
\* crashed lost its daemon
CrashReported ==
  phase \in {"loading", "serving"} => \A s \in known :
    /\ status[s] = "Restored" => ended = "clean"
    /\ status[s] = "Crashed" => ended = "crash"

\* A removed session that is neither listed nor in state.json, where a crash
\* before the next save leaves it
Forgotten == removed \ (known \cup disk.ids)

\* "Forget an exited session and its snapshot" (Request::Remove)
SnapshotForgotten == snaps \cap Forgotten = {}

\* No snapshot outlives its session but one that was on the blocking pool when
\* it was removed (Remove, the timer, detach, stop, load), over crashes that
\* bring the session back
LateSnapshotsOnly == snaps \cap Forgotten \subseteq overtaken

\* state.json has what the daemon has in memory, but for sessions whose start
\* broke off: Restart does not mark that change
OnDisk ==
  /\ ~disk.clean
  /\ disk.ids = known
  /\ \A s \in known \ botched : disk.entry[s] = Saved(FALSE).entry[s]

\* Every change of a session reaches state.json (mark_state_dirty and the
\* debounce): again and again the file is what the daemon has in memory
EventuallySaved == []<>(phase # "serving" \/ OnDisk)

\* SIGKILL follows the hangup (Session::kill): a killed process goes, even one
\* that ignores SIGHUP, while this image serves
KillEnds ==
  \A p \in Procs : (p \in grace /\ process[owner[p]] = p)
                     ~> (p \notin alive \/ phase # "serving")

\* The exit reaches the clients (read_loop, coalesce, exited): a session whose
\* process is gone is not listed as running forever, unless its last start
\* broke off: then nobody waits for the process
ExitReported ==
  \A s \in Sessions :
    (s \in known \ botched /\ status[s] = "Running" /\ process[s] \notin alive)
      ~> (s \notin known \ botched \/ status[s] # "Running" \/ phase # "serving")
=============================================================================
