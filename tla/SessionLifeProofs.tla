-------------------------- MODULE SessionLifeProofs --------------------------
(***************************************************************************)
(* What SessionLife guarantees for every set of sessions, routines,        *)
(* connections and pids and every number of processes: whose processes it  *)
(* ends, and of the sessions clients see, one process behind a session, a  *)
(* list that agrees with the processes, a crash told from a stop, which    *)
(* snapshots a removed session may leave. Each theorem names the timing it *)
(* assumes.                                                                *)
(***************************************************************************)
EXTENDS SessionLife, FiniteSetTheorems, TLAPS

-----------------------------------------------------------------------------
(* The inductive invariant *)

\* A process the daemon holds, records or waits for is one it started
ProcessOwned ==
  \A s \in Sessions : process[s] # None =>
    process[s] \in 1..born /\ owner[process[s]] = s

RecordOwned ==
  \A s \in Sessions : disk.entry[s].started # None =>
    disk.entry[s].started \in 1..born /\ owner[disk.entry[s].started] = s

WatchedOwned == \A p \in watched \cup grace : owner[p] \in Sessions

\* The ids in use, on disk and in a connection's hands
IdsUsed ==
  /\ disk.ids \subseteq used
  /\ \A c \in Clients : request[c].op = "insert" => request[c].session \in used
  /\ phase # "loading" => reviving = {}

\* A pid names one of those that hold one
PidsApart == \A p, q \in Holders : pidOf[p] = pidOf[q] => p = q

IInv ==
  /\ TypeOK
  /\ ProcessOwned
  /\ RecordOwned
  /\ WatchedOwned
  /\ IdsUsed
  /\ PidsApart

-----------------------------------------------------------------------------
(* What the helpers do *)

\* A request under way names a session
LEMMA RequestNames ==
  ASSUME request \in [Clients -> Requests], NEW c \in Clients,
         request[c].op \in {"insert", "restart"}
  PROVE  request[c].session \in Sessions
  <1>1. request[c] \in Requests
    OBVIOUS
  <1>2. request[c] # Idle
    BY DEF Idle
  <1>3. request[c] \in [op : {"insert", "restart"}, session : Sessions]
    BY <1>1, <1>2 DEF Requests
  <1>4. QED
    BY <1>3

\* Who holds a pid was started
LEMMA HoldersBorn ==
  ASSUME TypeOK
  PROVE  Holders \subseteq 1..born /\ born \in Nat
  BY LifeAssumption DEF TypeOK, Holders

\* A fork names a process nobody held before, with a pid nobody held, and leaves
\* the others their owner and their pid
LEMMA ForkFresh ==
  ASSUME TypeOK, NEW s \in Sessions \cup {Foreign}, NEW n, Fork(s, n)
  PROVE  /\ owner' \in [Procs -> Sessions \cup {Foreign}]
         /\ pidOf' \in [Procs -> Pids \cup {None}]
         /\ born' \in 0..MaxProcs
         /\ born' = born + 1
         /\ born + 1 \in Procs
         /\ owner'[born + 1] = s
         /\ \A p \in 1..born : p \in Procs /\ owner'[p] = owner[p] /\ pidOf'[p] = pidOf[p]
         /\ n \in Pids
         /\ pidOf'[born + 1] = n
         /\ 1..born' = (1..born) \cup {born + 1}
         /\ born + 1 \notin 1..born
         /\ born + 1 # None
  <1>1. born + 1 \in Procs
    BY LifeAssumption DEF TypeOK, Fork, Procs
  <1>2. n \in Pids
    BY DEF Fork, FreePids
  <1>3. born' \in 0..MaxProcs /\ born' = born + 1 /\ born \in Nat
    BY LifeAssumption DEF TypeOK, Fork
  <1>4. owner' \in [Procs -> Sessions \cup {Foreign}] /\ owner'[born + 1] = s
    BY <1>1 DEF TypeOK, Fork
  <1>5. pidOf' \in [Procs -> Pids \cup {None}] /\ pidOf'[born + 1] = n
    BY <1>1, <1>2 DEF TypeOK, Fork
  <1>6. \A p \in 1..born : p \in Procs /\ owner'[p] = owner[p] /\ pidOf'[p] = pidOf[p]
    BY <1>1, LifeAssumption DEF TypeOK, Fork, Procs
  <1>7. 1..born' = (1..born) \cup {born + 1} /\ born + 1 \notin 1..born /\ born + 1 # None
    BY <1>3 DEF None
  <1>8. QED
    BY <1>1, <1>2, <1>3, <1>4, <1>5, <1>6, <1>7

\* A fork leaves the pids apart
LEMMA ForkApart ==
  ASSUME TypeOK, PidsApart, NEW s \in Sessions \cup {Foreign}, NEW n, Fork(s, n),
         Holders' \subseteq Holders \cup {born + 1}
  PROVE  PidsApart'
  <1>1. /\ \A p \in 1..born : pidOf'[p] = pidOf[p]
        /\ pidOf'[born + 1] = n
    BY ForkFresh
  <1>2. \A p \in Holders : p \in 1..born /\ pidOf[p] # n
    BY HoldersBorn DEF Fork, FreePids
  <1>3. QED
    BY <1>1, <1>2 DEF PidsApart

\* Nor does a step in which nobody starts
LEMMA StillApart ==
  ASSUME PidsApart, UNCHANGED pidOf, Holders' \subseteq Holders
  PROVE  PidsApart'
  BY DEF PidsApart

\* What a start leaves of the machine, whoever has the process from then on
LEMMA ForkKeeps ==
  ASSUME IInv, NEW s \in Sessions \cup {Foreign}, NEW n, Fork(s, n),
         alive' = alive \cup {born + 1},
         watched' \subseteq watched \cup {born + 1},
         lost' \subseteq lost \cup {born + 1},
         reaped' = reaped, grace' = grace, disk' = disk,
         \/ watched' = watched
         \/ watched' = watched \cup {born + 1} /\ s \in Sessions
  PROVE  /\ owner' \in [Procs -> Sessions \cup {Foreign}]
         /\ pidOf' \in [Procs -> Pids \cup {None}]
         /\ born' \in 0..MaxProcs
         /\ alive' \subseteq 1..born'
         /\ watched' \subseteq 1..born'
         /\ lost' \subseteq 1..born'
         /\ reaped' \subseteq watched'
         /\ grace' \subseteq 1..born'
         /\ RecordOwned'
         /\ WatchedOwned'
         /\ PidsApart'
  <1>1. /\ owner' \in [Procs -> Sessions \cup {Foreign}]
        /\ pidOf' \in [Procs -> Pids \cup {None}]
        /\ born' \in 0..MaxProcs
        /\ owner'[born + 1] = s
        /\ \A p \in 1..born : owner'[p] = owner[p]
        /\ 1..born' = (1..born) \cup {born + 1}
    BY ForkFresh DEF IInv
  <1>2. /\ alive \subseteq 1..born /\ watched \subseteq 1..born /\ lost \subseteq 1..born
        /\ grace \subseteq 1..born /\ reaped \subseteq watched
    BY DEF IInv, TypeOK
  <1>3. RecordOwned'
    BY <1>1 DEF IInv, RecordOwned
  <1>4. WatchedOwned'
    BY <1>1, <1>2 DEF IInv, WatchedOwned
  <1>5. Holders' \subseteq Holders \cup {born + 1}
    BY DEF Holders
  <1>6. PidsApart'
    BY <1>5, ForkApart DEF IInv
  <1>7. QED
    BY <1>1, <1>2, <1>3, <1>4, <1>6

\* A session's new process is its own
LEMMA ProcessGiven ==
  ASSUME IInv, NEW s \in Sessions, NEW n, Fork(s, n),
         process' \in {process, [process EXCEPT ![s] = born + 1]}
  PROVE  process' \in [Sessions -> Procs \cup {None}] /\ ProcessOwned'
  <1>1. /\ born + 1 \in Procs /\ owner'[born + 1] = s
        /\ \A p \in 1..born : owner'[p] = owner[p]
        /\ 1..born' = (1..born) \cup {born + 1}
    BY ForkFresh DEF IInv
  <1>2. process' \in [Sessions -> Procs \cup {None}]
    BY <1>1 DEF IInv, TypeOK
  <1>3. ASSUME NEW t \in Sessions, process'[t] # None
        PROVE  process'[t] \in 1..born' /\ owner'[process'[t]] = t
    BY <1>1, <1>3 DEF IInv, TypeOK, ProcessOwned
  <1>4. QED
    BY <1>2, <1>3 DEF ProcessOwned

\* What save_state writes is of the state file's type and records owned
\* processes only
LEMMA SavedKeeps ==
  ASSUME IInv, NEW b \in BOOLEAN
  PROVE  /\ Saved(b).clean \in BOOLEAN
         /\ Saved(b).ids = known
         /\ Saved(b).entry \in [Sessions -> Entries]
         /\ \A s \in Sessions : Saved(b).entry[s].started # None =>
              /\ Saved(b).entry[s].started \in 1..born
              /\ owner[Saved(b).entry[s].started] = s
  <1>1. \A s \in Sessions :
          /\ status[s] \in Statuses
          /\ pid[s] \in Pids \cup {None}
          /\ process[s] \in Procs \cup {None}
    BY DEF IInv, TypeOK
  <1>2. NoEntry \in Entries
    BY DEF NoEntry, Entries, Statuses
  <1>3. \A s \in Sessions :
          [status |-> status[s], pid |-> pid[s], started |-> process[s]] \in Entries
    BY <1>1 DEF Entries
  <1>4. Saved(b).entry \in [Sessions -> Entries]
    BY <1>2, <1>3 DEF Saved
  <1>5. Saved(b).clean \in BOOLEAN /\ Saved(b).ids = known
    BY DEF Saved
  <1>6. \A s \in Sessions : Saved(b).entry[s].started \in {process[s], None}
    BY DEF Saved, NoEntry
  <1>7. QED
    BY <1>4, <1>5, <1>6 DEF IInv, ProcessOwned

\* load: the sessions are those of the file, an adopted one keeps its process
LEMMA LoadKeeps ==
  ASSUME IInv, NEW masters \in SUBSET Sessions, NEW failed, NEW kept,
         Load(masters, failed, kept),
         failed \subseteq Adopted(masters), kept \subseteq failed,
         \A s \in masters : process[s] # None,
         UNCHANGED <<owner, pidOf, born, used, disk>>
  PROVE  /\ alive' \subseteq 1..born'
         /\ phase' \in Phases
         /\ known' \subseteq used'
         /\ removed' \subseteq used'
         /\ overtaken' \subseteq removed'
         /\ status' \in [Sessions -> Statuses]
         /\ pid' \in [Sessions -> Pids \cup {None}]
         /\ process' \in [Sessions -> Procs \cup {None}]
         /\ botched' \subseteq Sessions
         /\ watched' \subseteq 1..born'
         /\ lost' \subseteq 1..born'
         /\ reaped' \subseteq watched'
         /\ exiting' \subseteq reaped'
         /\ grace' \subseteq 1..born'
         /\ request' \in [Clients -> Requests]
         /\ reviving' \subseteq known'
         /\ ProcessOwned'
         /\ RecordOwned'
         /\ WatchedOwned'
         /\ IdsUsed'
         /\ PidsApart'
  <1>1. /\ Adopted(masters) \subseteq masters /\ Adopted(masters) \subseteq disk.ids
        /\ ToRevive(masters, failed) \subseteq disk.ids
    BY DEF Adopted, ToRevive
  <1>2. alive' \subseteq alive /\ alive' \subseteq 1..born' /\ phase' \in Phases
    BY DEF IInv, TypeOK, Load, Phases
  <1>3. /\ known' \subseteq used' /\ removed' \subseteq used' /\ overtaken' \subseteq removed'
        /\ reviving' \subseteq known' /\ botched' \subseteq Sessions
    BY <1>1 DEF IInv, TypeOK, IdsUsed, Load
  <1>4. \A s \in Sessions : /\ disk.entry[s].status \in Statuses
                            /\ disk.entry[s].pid \in Pids \cup {None}
    BY DEF IInv, TypeOK, Entries
  <1>5. status' \in [Sessions -> Statuses]
    BY <1>4 DEF Load, Revived, Statuses
  <1>6. pid' \in [Sessions -> Pids \cup {None}]
    BY <1>4 DEF Load
  <1>7. /\ process' \in [Sessions -> Procs \cup {None}]
        /\ \A s \in Sessions : process'[s] \in {process[s], None}
    BY DEF IInv, TypeOK, Load
  <1>8. ProcessOwned'
    BY <1>7 DEF IInv, ProcessOwned
  <1>9. watched' \subseteq 1..born' /\ \A p \in watched' : owner'[p] \in Sessions
    <2>1. SUFFICES ASSUME NEW s \in Adopted(masters)
                   PROVE  process[s] \in 1..born /\ owner[process[s]] \in Sessions
      BY DEF Load
    <2>2. s \in Sessions /\ process[s] # None
      BY <1>1
    <2>3. QED
      BY <2>2 DEF IInv, ProcessOwned
  <1>10. /\ exiting' = {} /\ grace' = {}
         /\ reaped' = watched' \ Holders
         /\ lost' = (lost \cup (watched \ reaped)) \ watched'
    BY DEF Load
  <1>11. lost' \subseteq Holders /\ lost' \subseteq 1..born'
    BY <1>10, HoldersBorn DEF Holders, IInv
  <1>12. request' \in [Clients -> Requests] /\ \A c \in Clients : request'[c].op = "idle"
    BY DEF Load, Requests, Idle
  <1>13. RecordOwned'
    BY DEF IInv, RecordOwned
  <1>14. IdsUsed'
    BY <1>12 DEF IInv, IdsUsed, Load
  <1>15. PidsApart'
    <2>1. Holders' \subseteq Holders
      BY <1>2, <1>10, <1>11 DEF Holders
    <2>2. QED
      BY <2>1, StillApart DEF IInv
  <1>16. WatchedOwned'
    BY <1>9, <1>10 DEF WatchedOwned
  <1>17. QED
    BY <1>2, <1>3, <1>5, <1>6, <1>7, <1>8, <1>9, <1>10, <1>11, <1>12, <1>13, <1>14,
       <1>15, <1>16

-----------------------------------------------------------------------------
(* The invariant holds at every step *)

LEMMA InitIInv == Init => IInv
  <1> SUFFICES ASSUME Init PROVE IInv
    OBVIOUS
  <1> USE DEF Init
  <1>1. NoEntry \in Entries /\ NoEntry.started = None
    BY DEF NoEntry, Entries, Statuses
  <1>2. /\ disk.clean \in BOOLEAN
        /\ disk.ids = {}
        /\ disk.entry \in [Sessions -> Entries]
        /\ \A s \in Sessions : disk.entry[s].started = None
    BY <1>1 DEF EmptyDisk
  <1>3. request \in [Clients -> Requests] /\ \A c \in Clients : request[c].op = "idle"
    BY DEF Requests, Idle
  <1>4. TypeOK
    <2>1. /\ owner \in [Procs -> Sessions \cup {Foreign}]
          /\ pidOf \in [Procs -> Pids \cup {None}]
          /\ status \in [Sessions -> Statuses]
          /\ pid \in [Sessions -> Pids \cup {None}]
          /\ process \in [Sessions -> Procs \cup {None}]
      BY DEF Statuses
    <2>2. born \in 0..MaxProcs
      BY LifeAssumption
    <2>3. phase \in Phases
      BY DEF Phases
    <2>4. QED
      BY <1>2, <1>3, <2>1, <2>2, <2>3 DEF TypeOK
  <1>5. IdsUsed
    BY <1>2, <1>3 DEF IdsUsed
  <1>6. ProcessOwned /\ RecordOwned /\ WatchedOwned /\ PidsApart
    BY <1>2 DEF ProcessOwned, RecordOwned, WatchedOwned, PidsApart, Holders
  <1>7. QED
    BY <1>4, <1>5, <1>6 DEF IInv

\* A step that leaves the machine, the sessions and the file alone
LEMMA QuietKeeps ==
  ASSUME IInv, UNCHANGED <<machine, session, disk, request, reviving, ended>>,
         phase' \in Phases, phase' = "loading" <=> phase = "loading",
         dirty' \in BOOLEAN, saver' \in {"wait", "debounce", "write", "gone"},
         snaps' \subseteq Sessions, queued' \subseteq Sessions
  PROVE  IInv'
  <1>1. TypeOK'
    BY DEF IInv, TypeOK, machine, session
  <1>2. ProcessOwned' /\ RecordOwned' /\ WatchedOwned' /\ PidsApart'
    BY DEF IInv, ProcessOwned, RecordOwned, WatchedOwned, PidsApart, Holders,
           machine, session
  <1>3. IdsUsed'
    BY DEF IInv, IdsUsed, session
  <1>4. QED
    BY <1>1, <1>2, <1>3 DEF IInv

\* A step that starts nobody and leaves the file alone, and of the sessions
\* changes only who runs, for which no new process appears
LEMMA SessionKeeps ==
  ASSUME IInv, UNCHANGED <<owner, pidOf, born, used, disk, reviving, botched, lost>>,
         alive' \subseteq alive,
         known' \subseteq used, phase' \in Phases,
         phase' = "loading" <=> phase = "loading",
         phase = "loading" => known' = known,
         removed' \subseteq used, overtaken' \subseteq removed',
         status' \in [Sessions -> Statuses], pid' \in [Sessions -> Pids \cup {None}],
         process' \in [Sessions -> Procs \cup {None}],
         \A s \in Sessions : process'[s] \in {process[s], None},
         watched' \subseteq watched, reaped' \subseteq watched',
         watched' \ reaped' \subseteq watched \ reaped,
         exiting' \subseteq reaped',
         grace' \subseteq 1..born,
         \A p \in grace' : owner[p] \in Sessions,
         request' \in [Clients -> Requests],
         \A c \in Clients : request'[c].op = "insert" => request'[c] = request[c],
         dirty' \in BOOLEAN, saver' = saver,
         snaps' \subseteq Sessions, queued' = queued, ended' = ended
  PROVE  IInv'
  <1>1. reviving' \subseteq known'
    BY DEF IInv, TypeOK, IdsUsed
  <1>2. TypeOK'
    BY <1>1 DEF IInv, TypeOK
  <1>3. ProcessOwned' /\ RecordOwned'
    BY DEF IInv, ProcessOwned, RecordOwned
  <1>4. WatchedOwned'
    BY DEF IInv, WatchedOwned
  <1>5. IdsUsed'
    BY DEF IInv, IdsUsed
  <1>6. Holders' \subseteq Holders
    BY DEF Holders
  <1>7. PidsApart'
    BY <1>6, StillApart DEF IInv
  <1>8. QED
    BY <1>2, <1>3, <1>4, <1>5, <1>7 DEF IInv

\* A step in which a process starts, whoever has it from then on
LEMMA StartedKeeps ==
  ASSUME IInv, NEW s \in Sessions \cup {Foreign}, NEW n, Fork(s, n),
         alive' = alive \cup {born + 1},
         \/ watched' = watched
         \/ watched' = watched \cup {born + 1} /\ s \in Sessions,
         lost' \subseteq lost \cup {born + 1},
         UNCHANGED <<known, removed, overtaken, reaped, exiting, grace, disk,
                     snaps, queued, phase, ended, saver>>,
         status' \in [Sessions -> Statuses], pid' \in [Sessions -> Pids \cup {None}],
         \/ process' = process
         \/ s \in Sessions /\ process' = [process EXCEPT ![s] = born + 1],
         used \subseteq used', used' \subseteq Sessions, botched' \subseteq Sessions,
         dirty' \in BOOLEAN,
         reviving' \subseteq reviving,
         request' \in [Clients -> Requests],
         \A c \in Clients : request'[c].op = "insert" => request'[c].session \in used'
  PROVE  IInv'
  <1>1. /\ owner' \in [Procs -> Sessions \cup {Foreign}]
        /\ pidOf' \in [Procs -> Pids \cup {None}]
        /\ born' \in 0..MaxProcs
        /\ alive' \subseteq 1..born'
        /\ watched' \subseteq 1..born'
        /\ lost' \subseteq 1..born'
        /\ reaped' \subseteq watched'
        /\ grace' \subseteq 1..born'
        /\ RecordOwned'
        /\ WatchedOwned'
        /\ PidsApart'
    BY ForkKeeps
  <1>2. process' \in [Sessions -> Procs \cup {None}] /\ ProcessOwned'
    <2>1. CASE s \in Sessions
      BY <2>1, ProcessGiven
    <2>2. CASE process' = process
      <3>1. 1..born' = (1..born) \cup {born + 1} /\ \A p \in 1..born : owner'[p] = owner[p]
        BY ForkFresh DEF IInv
      <3>2. QED
        BY <2>2, <3>1 DEF IInv, TypeOK, ProcessOwned
    <2>3. QED
      BY <2>1, <2>2
  <1>3. TypeOK'
    BY <1>1, <1>2 DEF IInv, TypeOK
  <1>4. IdsUsed'
    BY DEF IInv, IdsUsed
  <1>5. QED
    BY <1>1, <1>2, <1>3, <1>4 DEF IInv

\* A step in which a session is started
LEMMA SpawnedKeeps ==
  ASSUME IInv, NEW s \in Sessions, Spawn(s),
         UNCHANGED <<known, removed, overtaken, reaped, exiting, grace, disk,
                     snaps, queued, phase, ended, saver>>,
         used \subseteq used', used' \subseteq Sessions, dirty' \in BOOLEAN,
         reviving' \subseteq reviving,
         request' \in [Clients -> Requests],
         \A c \in Clients : request'[c].op = "insert" => request'[c].session \in used'
  PROVE  IInv'
  <1>1. PICK n \in FreePids : Fork(s, n) /\ pid' = [pid EXCEPT ![s] = n]
    BY DEF Spawn
  <1>2. n \in Pids
    BY DEF FreePids
  <1>3. /\ alive' = alive \cup {born + 1}
        /\ watched' = watched \cup {born + 1} /\ lost' = lost
        /\ status' \in [Sessions -> Statuses]
        /\ pid' \in [Sessions -> Pids \cup {None}]
        /\ process' = [process EXCEPT ![s] = born + 1]
        /\ botched' \subseteq Sessions
    BY <1>1, <1>2 DEF Spawn, IInv, TypeOK, Statuses
  <1>4. QED
    BY <1>1, <1>3, StartedKeeps

\* A step in which a session's start breaks off
LEMMA HalfKeeps ==
  ASSUME IInv, NEW s \in Sessions, NEW told \in Statuses, NEW n, HalfSpawn(s, told, n),
         pid' \in [Sessions -> Pids \cup {None}],
         UNCHANGED <<known, used, removed, overtaken, reaped, exiting, grace, disk,
                     snaps, queued, phase, ended, saver>>,
         dirty' \in BOOLEAN,
         reviving' \subseteq reviving,
         request' \in [Clients -> Requests],
         \A c \in Clients : request'[c].op = "insert" => request'[c].session \in used'
  PROVE  IInv'
  <1>1. /\ Fork(s, n)
        /\ alive' = alive \cup {born + 1}
        /\ watched' = watched /\ lost' = lost \cup {born + 1}
        /\ status' \in [Sessions -> Statuses]
        /\ \/ process' = process
           \/ process' = [process EXCEPT ![s] = born + 1]
        /\ botched' \subseteq Sessions
        /\ used' \subseteq Sessions
    BY DEF HalfSpawn, IInv, TypeOK
  <1>2. QED
    BY <1>1, StartedKeeps

\* A step that writes what save_state collects
LEMMA WrittenKeeps ==
  ASSUME IInv, NEW b \in BOOLEAN, disk' = Saved(b),
         UNCHANGED <<machine, session, queued, request, reviving, ended>>,
         phase' \in Phases, phase' = "loading" => phase = "loading",
         phase' # "loading" => reviving = {},
         dirty' \in BOOLEAN, saver' \in {"wait", "debounce", "write", "gone"},
         snaps' \subseteq Sessions
  PROVE  IInv'
  <1>1. /\ disk'.clean \in BOOLEAN
        /\ disk'.ids = known
        /\ disk'.entry \in [Sessions -> Entries]
        /\ \A s \in Sessions : disk'.entry[s].started # None =>
             /\ disk'.entry[s].started \in 1..born
             /\ owner[disk'.entry[s].started] = s
    BY SavedKeeps
  <1>2. TypeOK'
    BY <1>1 DEF IInv, TypeOK, machine, session
  <1>3. RecordOwned'
    BY <1>1 DEF RecordOwned, machine
  <1>4. ProcessOwned' /\ WatchedOwned' /\ PidsApart'
    BY DEF IInv, ProcessOwned, WatchedOwned, PidsApart, Holders, machine, session
  <1>5. IdsUsed'
    BY <1>1 DEF IInv, TypeOK, IdsUsed, session
  <1>6. QED
    BY <1>2, <1>3, <1>4, <1>5 DEF IInv

\* A start, and an exec
LEMMA LoadedKeeps ==
  ASSUME IInv, NEW masters \in SUBSET Sessions, NEW failed, NEW kept,
         Load(masters, failed, kept),
         failed \subseteq Adopted(masters), kept \subseteq failed,
         \A s \in masters : process[s] # None,
         UNCHANGED <<owner, pidOf, born, used, disk, snaps>>,
         ended' \in {"never", "clean", "crash"}
  PROVE  IInv'
  <1>1. dirty' \in BOOLEAN /\ saver' = "wait" /\ queued' = {}
    BY DEF Load
  <1>2. TypeOK'
    BY <1>1, LoadKeeps DEF IInv, TypeOK
  <1>3. QED
    BY <1>2, LoadKeeps DEF IInv

\* The image goes
LEMMA GoneKeeps ==
  ASSUME IInv, Gone, ended' \in {"never", "clean", "crash"}
  PROVE  IInv'
  <1>1. request' \in [Clients -> Requests] /\ \A c \in Clients : request'[c].op = "idle"
    BY DEF Gone, Requests, Idle
  <1>2. TypeOK'
    BY <1>1 DEF IInv, TypeOK, Gone, Phases, machine
  <1>3. ProcessOwned' /\ RecordOwned' /\ WatchedOwned'
    BY DEF IInv, Gone, ProcessOwned, RecordOwned, WatchedOwned, machine
  <1>4. IdsUsed'
    BY <1>1 DEF IInv, IdsUsed, Gone
  <1>5. PidsApart'
    BY DEF IInv, PidsApart, Holders, Gone, machine
  <1>6. QED
    BY <1>2, <1>3, <1>4, <1>5 DEF IInv

\* A hangup starts nobody, and its timer is one of the session's process
LEMMA HangUpKeeps ==
  ASSUME IInv, NEW s \in Sessions, HangUp(s)
  PROVE  /\ alive' \subseteq alive
         /\ grace' \subseteq 1..born
         /\ \A p \in grace' : owner[p] \in Sessions
  BY DEF HangUp, Hangup, IInv, TypeOK, ProcessOwned, WatchedOwned

LEMMA ClientStep ==
  ASSUME IInv, NEW c \in Clients, Client(c)
  PROVE  IInv'
  <1> USE DEF store
  <1>1. \A x \in Clients : request[x] \in Requests
    BY DEF IInv, TypeOK
  <1>2. Idle \in Requests /\ Idle.op = "idle"
    BY DEF Idle, Requests
  <1>3. CASE CreateInsert(c)
    <2>1. request[c].session \in used
      BY <1>3 DEF CreateInsert, IInv, IdsUsed
    <2>2. request[c].session \in Sessions
      BY <2>1 DEF IInv, TypeOK
    <2>3. request' \in [Clients -> Requests]
      BY <1>2, <1>3 DEF CreateInsert, IInv, TypeOK
    <2>4. \A x \in Clients : request'[x].op = "insert" => request'[x] = request[x]
      BY <1>2, <1>3 DEF CreateInsert, IInv, TypeOK
    <2>5. TypeOK'
      BY <1>3, <2>1, <2>3 DEF CreateInsert, IInv, TypeOK, machine
    <2>6. IdsUsed'
      BY <1>3, <2>4 DEF CreateInsert, IInv, IdsUsed
    <2>7. ProcessOwned' /\ RecordOwned' /\ WatchedOwned' /\ PidsApart'
      BY <1>3 DEF CreateInsert, IInv, ProcessOwned, RecordOwned, WatchedOwned,
                  PidsApart, Holders, machine
    <2>8. QED
      BY <2>5, <2>6, <2>7 DEF IInv
  <1>4. ASSUME request[c].op = "restart", request' = [request EXCEPT ![c] = Idle]
        PROVE  /\ request[c].session \in Sessions
               /\ request' \in [Clients -> Requests]
               /\ \A x \in Clients : request'[x].op = "insert" => request'[x] = request[x]
    BY <1>2, <1>4, RequestNames DEF IInv, TypeOK
  <1>5. CASE RestartSpawn(c)
    <2> DEFINE s == request[c].session
    <2>1. /\ request[c].op = "restart" /\ Spawn(s)
          /\ request' = [request EXCEPT ![c] = Idle] /\ dirty' = TRUE
          /\ UNCHANGED <<known, used, removed, overtaken, reaped, exiting, grace,
                         disk, snaps, queued, phase, ended, saver, reviving>>
      BY <1>5 DEF RestartSpawn
    <2>2. /\ s \in Sessions /\ request' \in [Clients -> Requests]
          /\ \A x \in Clients : request'[x].op = "insert" => request'[x].session \in used'
          /\ used' \subseteq Sessions
      BY <1>4, <2>1 DEF IInv, IdsUsed, TypeOK
    <2> HIDE DEF s
    <2>3. QED
      BY <2>1, <2>2, SpawnedKeeps
  <1>6. CASE RestartFails(c)
    <2> DEFINE s == request[c].session
    <2>1. /\ request[c].op = "restart" /\ request' = [request EXCEPT ![c] = Idle]
          /\ UNCHANGED <<store, phase, reviving, ended>>
      BY <1>6 DEF RestartFails
    <2>2. /\ s \in Sessions /\ request' \in [Clients -> Requests]
          /\ \A x \in Clients : request'[x].op = "insert" => request'[x] = request[x]
      BY <1>4, <2>1
    <2>3. CASE UNCHANGED <<machine, session>>
      BY <2>1, <2>2, <2>3, SessionKeeps
         DEF IInv, TypeOK, machine, session, WatchedOwned
    <2>4. CASE /\ \E n \in FreePids : HalfSpawn(s, "Running", n) /\ pid' = [pid EXCEPT ![s] = n]
               /\ UNCHANGED <<known, used, removed, overtaken, reaped, exiting, grace>>
      <3>1. PICK n \in FreePids : HalfSpawn(s, "Running", n) /\ pid' = [pid EXCEPT ![s] = n]
        BY <2>4
      <3>2. pid' \in [Sessions -> Pids \cup {None}] /\ dirty' \in BOOLEAN
        BY <2>1, <3>1 DEF FreePids, IInv, TypeOK
      <3>3. \A x \in Clients : request'[x].op = "insert" => request'[x].session \in used'
        BY <2>1, <2>2, <2>4 DEF IInv, IdsUsed
      <3>4. "Running" \in Statuses
        BY DEF Statuses
      <3> HIDE DEF s
      <3>5. QED
        BY <2>1, <2>2, <2>4, <3>1, <3>2, <3>3, <3>4, HalfKeeps
    <2>5. QED
      BY <1>6, <2>3, <2>4 DEF RestartFails
  <1>7. ASSUME NEW s \in Sessions, Create(c, s)
        PROVE  IInv'
    <2> DEFINE r == [op |-> "insert", session |-> s]
    <2>1. r \in Requests
      BY DEF Requests
    <2>2. request' \in [Clients -> Requests]
      BY <1>7, <2>1 DEF Create, IInv, TypeOK
    <2>3. \A x \in Clients : request'[x].op = "insert" => request'[x].session \in used'
      BY <1>7 DEF Create, IInv, TypeOK, IdsUsed
    <2>4. Spawn(s)
      BY <1>7 DEF Create
    <2>5. QED
      BY <1>7, <2>2, <2>3, <2>4, SpawnedKeeps DEF Create, IInv, TypeOK
  <1>8. ASSUME NEW s \in Sessions, CreateFails(c, s)
        PROVE  IInv'
    <2>1. PICK n \in FreePids : Fork(s, n)
      BY <1>8 DEF CreateFails
    <2>2. used \subseteq used' /\ used' \subseteq Sessions /\ botched' \subseteq Sessions
      BY <1>8 DEF CreateFails, IInv, TypeOK
    <2>3. QED
      BY <1>8, <2>1, <2>2, StartedKeeps DEF CreateFails, IInv, TypeOK, IdsUsed
  <1>9. ASSUME NEW s \in Sessions, RestartCheck(c, s)
        PROVE  IInv'
    <2> DEFINE r == [op |-> "restart", session |-> s]
    <2>1. r \in Requests /\ r.op # "insert"
      BY DEF Requests
    <2>2. request' \in [Clients -> Requests]
      BY <1>9, <2>1 DEF RestartCheck, IInv, TypeOK
    <2>3. \A x \in Clients : request'[x].op = "insert" => request'[x] = request[x]
      BY <1>9, <2>1 DEF RestartCheck, IInv, TypeOK
    <2>4. QED
      BY <1>9, <2>2, <2>3, SessionKeeps
         DEF RestartCheck, IInv, TypeOK, machine, session, WatchedOwned
  <1>10. ASSUME NEW s \in Sessions, Kill(c, s)
         PROVE  IInv'
    <2>1. HangUp(s)
      BY <1>10 DEF Kill
    <2>2. QED
      BY <1>10, <2>1, HangUpKeeps, SessionKeeps DEF Kill, IInv, TypeOK
  <1>11. ASSUME NEW s \in Sessions, Remove(c, s)
         PROVE  IInv'
    <2>1. HangUp(s)
      BY <1>11 DEF Remove
    <2>2. /\ phase # "loading" /\ known' \subseteq used /\ removed' \subseteq used
          /\ overtaken' \subseteq removed'
      BY <1>11 DEF Remove, Free, IInv, TypeOK
    <2>3. snaps' \subseteq Sessions
      BY <1>11 DEF Remove, SnapsWithout, IInv, TypeOK
    <2>4. QED
      BY <1>11, <2>1, <2>2, <2>3, HangUpKeeps, SessionKeeps DEF Remove, IInv, TypeOK
  <1>12. QED
    BY <1>3, <1>5, <1>6, <1>7, <1>8, <1>9, <1>10, <1>11 DEF Client

LEMMA ProcessStep ==
  ASSUME IInv, NEW p \in Procs, Process(p)
  PROVE  IInv'
  <1> USE DEF store
  <1>1. CASE ProcExit(p)
    BY <1>1, SessionKeeps DEF ProcExit, IInv, TypeOK, session, WatchedOwned
  <1>2. CASE ExitReap(p)
    BY <1>2, SessionKeeps DEF ExitReap, IInv, TypeOK, machine, WatchedOwned
  <1>3. CASE ExitTake(p)
    <2>1. owner[p] \in Sessions
      BY <1>3 DEF ExitTake, IInv, TypeOK, WatchedOwned
    <2>2. /\ process' \in [Sessions -> Procs \cup {None}]
          /\ \A s \in Sessions : process'[s] \in {process[s], None}
      BY <1>3, <2>1 DEF ExitTake, IInv, TypeOK
    <2>3. /\ watched' \subseteq watched /\ reaped' \subseteq watched'
          /\ watched' \ reaped' \subseteq watched \ reaped /\ exiting' \subseteq reaped'
      BY <1>3 DEF ExitTake, IInv, TypeOK
    <2>4. QED
      BY <1>3, <2>2, <2>3, SessionKeeps DEF ExitTake, IInv, TypeOK, machine, WatchedOwned
  <1>4. CASE ExitTell(p)
    <2>1. /\ watched' \subseteq watched /\ reaped' \subseteq watched'
          /\ watched' \ reaped' \subseteq watched \ reaped /\ exiting' \subseteq reaped'
      BY <1>4 DEF ExitTell, IInv, TypeOK
    <2>2. /\ status' \in [Sessions -> Statuses]
          /\ pid' \in [Sessions -> Pids \cup {None}]
      BY <1>4 DEF ExitTell, IInv, TypeOK, Statuses
    <2>3. QED
      BY <1>4, <2>1, <2>2, SessionKeeps DEF ExitTell, IInv, TypeOK, machine, WatchedOwned
  <1>5. CASE GraceEnd(p)
    <2>1. alive' \subseteq alive /\ grace' \subseteq grace
      BY <1>5 DEF GraceEnd
    <2>2. QED
      BY <1>5, <2>1, SessionKeeps DEF GraceEnd, IInv, TypeOK, WatchedOwned
  <1>6. QED
    BY <1>1, <1>2, <1>3, <1>4, <1>5 DEF Process

LEMMA StorageStep ==
  ASSUME IInv, Storage
  PROVE  IInv'
  <1>1. CASE SaverWake
    BY <1>1, QuietKeeps DEF SaverWake, IInv, TypeOK
  <1>2. CASE SaverCheck
    BY <1>2, QuietKeeps DEF SaverCheck, IInv, TypeOK
  <1>3. CASE SaverWrite
    BY <1>3, WrittenKeeps DEF SaverWrite, IInv, TypeOK, IdsUsed
  <1>4. ASSUME NEW s \in Sessions, SnapshotDue(s) \/ SnapshotWrite(s)
        PROVE  IInv'
    BY <1>4, QuietKeeps DEF SnapshotDue, SnapshotWrite, IInv, TypeOK
  <1>5. QED
    BY <1>1, <1>2, <1>3, <1>4 DEF Storage

LEMMA LifeStep ==
  ASSUME IInv, Life
  PROVE  IInv'
  <1> USE DEF store
  <1>1. CASE Start
    <2>1. Load({}, {}, {}) /\ UNCHANGED <<owner, pidOf, born, used, disk, snaps, ended>>
      BY <1>1 DEF Start
    <2>2. {} \in SUBSET Sessions /\ {} \subseteq Adopted({}) /\ ended' \in {"never", "clean", "crash"}
      BY <2>1 DEF IInv, TypeOK
    <2>3. QED
      BY <2>1, <2>2, LoadedKeeps
  <1>2. CASE Serve
    BY <1>2, WrittenKeeps DEF Serve, IInv, TypeOK, Phases
  <1>3. CASE Persist
    <2>1. snaps' \subseteq Sessions
      BY <1>3 DEF Persist, IInv, TypeOK
    <2>2. QED
      BY <1>3, <2>1, WrittenKeeps DEF Persist, IInv, TypeOK, IdsUsed, Phases
  <1>4. CASE HangUpAll
    <2>1. alive' \subseteq alive
      BY <1>4 DEF HangUpAll, Hangup
    <2>2. QED
      BY <1>4, <2>1, SessionKeeps
         DEF HangUpAll, IInv, TypeOK, Phases, session, WatchedOwned
  <1>5. CASE Exec
    <2> DEFINE masters == {s \in disk.ids : process[s] # None}
    <2>1. masters \in SUBSET Sessions /\ \A s \in masters : process[s] # None
      BY DEF IInv, TypeOK
    <2>2. PICK failed \in SUBSET Adopted(masters) : \E kept \in SUBSET failed :
            Load(masters, failed, kept)
      BY <1>5 DEF Exec
    <2>3. PICK kept \in SUBSET failed : Load(masters, failed, kept)
      BY <2>2
    <2> HIDE DEF masters
    <2>4. QED
      BY <1>5, <2>1, <2>3, LoadedKeeps DEF Exec
  <1>6. CASE Quit
    BY <1>6, GoneKeeps DEF Quit
  <1>7. CASE Crash
    BY <1>7, GoneKeeps DEF Crash, IInv, TypeOK
  <1>8. CASE StopBegin("stop") \/ StopBegin("handoff")
    BY <1>8, QuietKeeps DEF StopBegin, IInv, TypeOK, Phases
  <1>9. ASSUME NEW s \in Sessions, Revive(s)
        PROVE  IInv'
    <2>1. /\ phase = "loading" /\ reviving' = reviving \ {s}
          /\ UNCHANGED <<known, used, removed, overtaken, reaped, exiting, grace, store,
                         phase, request, ended>>
      BY <1>9 DEF Revive, IInv, TypeOK
    <2>2. CASE Spawn(s)
      BY <2>1, <2>2, SpawnedKeeps DEF IInv, TypeOK, IdsUsed
    <2>3. CASE /\ \E n \in FreePids : HalfSpawn(s, status[s], n)
               /\ pid' = [pid EXCEPT ![s] = None]
      <3>1. PICK n \in FreePids : HalfSpawn(s, status[s], n)
        BY <2>3
      <3>2. status[s] \in Statuses /\ pid' \in [Sessions -> Pids \cup {None}]
        BY <2>3 DEF IInv, TypeOK
      <3>3. QED
        BY <2>1, <3>1, <3>2, HalfKeeps DEF IInv, TypeOK, IdsUsed
    <2>4. CASE UNCHANGED <<machine, status, pid, process, botched, watched, lost>>
      BY <2>1, <2>4 DEF IInv, TypeOK, ProcessOwned, RecordOwned, WatchedOwned,
                        IdsUsed, PidsApart, Holders, machine
    <2>5. QED
      BY <1>9, <2>2, <2>3, <2>4 DEF Revive
  <1>10. QED
    BY <1>1, <1>2, <1>3, <1>4, <1>5, <1>6, <1>7, <1>8, <1>9 DEF Life

LEMMA ForeignStep ==
  ASSUME IInv, ForeignStart
  PROVE  IInv'
  <1>1. PICK n \in FreePids : Fork(Foreign, n)
    BY DEF ForeignStart
  <1>2. QED
    BY <1>1, StartedKeeps DEF ForeignStart, session, store, IInv, TypeOK, IdsUsed

LEMMA StutterStep ==
  ASSUME IInv, UNCHANGED vars
  PROVE  IInv'
  BY DEF vars, machine, session, store, IInv, TypeOK, ProcessOwned, RecordOwned,
         WatchedOwned, IdsUsed, PidsApart, Holders

-----------------------------------------------------------------------------
(* Whose processes go *)

\* What a signal reaches is the session's own process, or the process has been
\* reaped and another program has its pid
LEMMA NamedOwn ==
  ASSUME IInv, NEW s \in Sessions, NEW q \in Named(process[s]), owner[q] = Foreign
  PROVE  /\ process[s] # None /\ process[s] \notin Holders
         /\ pidOf[process[s]] = pidOf[q]
  <1>1. q \in alive /\ process[s] # None /\ pidOf[q] = pidOf[process[s]]
    BY DEF Named
  <1>2. owner[process[s]] = s /\ s # Foreign
    BY <1>1, LifeAssumption DEF IInv, ProcessOwned
  <1>3. q \in Holders
    BY <1>1 DEF Holders
  <1>4. process[s] \in Holders => q = process[s]
    BY <1>1, <1>3 DEF IInv, PidsApart
  <1>5. QED
    BY <1>1, <1>2, <1>4

\* Who is reached by the pid the daemon keeps of a session
Reached(q) ==
  \E s \in Sessions : /\ process[s] # None /\ process[s] \notin Holders
                     /\ pidOf[process[s]] = pidOf[q]

LEMMA HangupReaches ==
  ASSUME IInv, NEW ss \in SUBSET Sessions, Hangup(ss),
         NEW q \in alive \ alive', owner[q] = Foreign
  PROVE  Reached(q)
  <1>1. PICK s \in ss : q \in Named(process[s])
    BY DEF Hangup
  <1>2. QED
    BY <1>1, NamedOwn DEF Reached

LEMMA GraceReaches ==
  ASSUME IInv, NEW p \in Procs, GraceEnd(p),
         NEW q \in alive \ alive', owner[q] = Foreign
  PROVE  Reached(q)
  <1>1. owner[p] \in Sessions /\ q \in Named(process[owner[p]])
    BY DEF GraceEnd, IInv, WatchedOwned
  <1>2. QED
    BY <1>1, NamedOwn DEF Reached

LEMMA LoadReaches ==
  ASSUME IInv, NEW masters, NEW failed, NEW kept, Load(masters, failed, kept),
         NEW q \in alive \ alive', owner[q] = Foreign
  PROVE  FALSE
  <1>1. PICK s \in disk.ids : Orphan(disk.entry[s], q)
    BY DEF Load
  <1>2. s \in Sessions /\ q = disk.entry[s].started /\ disk.entry[s].started # None
    BY <1>1 DEF Orphan, IInv, TypeOK
  <1>3. owner[q] = s
    BY <1>2 DEF IInv, RecordOwned
  <1>4. QED
    BY <1>2, <1>3, LifeAssumption

LEMMA OthersStep ==
  ASSUME IInv, [Next]_vars, NEW q \in alive \ alive', owner[q] = Foreign
  PROVE  Reached(q)
  <1>1. CASE ForeignStart
    BY <1>1 DEF ForeignStart
  <1>2. CASE Storage \/ UNCHANGED vars
    BY <1>2 DEF Storage, SaverWake, SaverCheck, SaverWrite, SnapshotDue, SnapshotWrite,
       vars, machine
  <1>3. ASSUME NEW c \in Clients, Client(c)
        PROVE  Reached(q)
    <2>1. CASE CreateInsert(c) \/ RestartSpawn(c) \/ RestartFails(c)
      BY <2>1 DEF CreateInsert, RestartSpawn, Spawn, RestartFails, HalfSpawn, machine
    <2>2. ASSUME NEW s \in Sessions, Create(c, s) \/ CreateFails(c, s) \/ RestartCheck(c, s)
          PROVE  Reached(q)
      BY <2>2 DEF Create, Spawn, CreateFails, RestartCheck, machine
    <2>3. ASSUME NEW s \in Sessions, Kill(c, s) \/ Remove(c, s)
          PROVE  Reached(q)
      <3>1. Hangup({s}) /\ {s} \in SUBSET Sessions
        BY <2>3 DEF Kill, Remove, HangUp
      <3>2. QED
        BY <3>1, HangupReaches
    <2>4. QED
      BY <1>3, <2>1, <2>2, <2>3 DEF Client
  <1>4. ASSUME NEW p \in Procs, Process(p)
        PROVE  Reached(q)
    <2>1. CASE ProcExit(p)
      BY <2>1 DEF ProcExit
    <2>2. CASE ExitReap(p) \/ ExitTake(p) \/ ExitTell(p)
      BY <2>2 DEF ExitReap, ExitTake, ExitTell, machine
    <2>3. CASE GraceEnd(p)
      BY <2>3, GraceReaches
    <2>4. QED
      BY <1>4, <2>1, <2>2, <2>3 DEF Process
  <1>5. CASE Life
    <2>1. CASE Start \/ Exec
      BY <2>1, LoadReaches DEF Start, Exec
    <2>2. CASE HangUpAll
      <3>1. Hangup(disk.ids) /\ disk.ids \in SUBSET Sessions
        BY <2>2 DEF HangUpAll, IInv, TypeOK
      <3>2. QED
        BY <3>1, HangupReaches
    <2>3. CASE Serve \/ Persist \/ Quit \/ Crash \/ StopBegin("stop") \/ StopBegin("handoff")
      BY <2>3 DEF Serve, Persist, Quit, Crash, Gone, StopBegin, machine
    <2>4. ASSUME NEW s \in Sessions, Revive(s)
          PROVE  Reached(q)
      BY <2>4 DEF Revive, Spawn, HalfSpawn, machine
    <2>5. QED
      BY <1>5, <2>1, <2>2, <2>3, <2>4 DEF Life
  <1>6. QED
    BY <1>1, <1>2, <1>3, <1>4, <1>5 DEF Next

-----------------------------------------------------------------------------
(* Results *)

\* The owner of every process the daemon holds, waits for or recorded in
\* state.json is a session, and who holds a pid holds it alone, through crashes,
\* upgrades, starts that break off and reuse of pids (spawn, save_state, load, adopt)
THEOREM OwnershipInvariant == Spec => []IInv
  <1>1. IInv /\ [Next]_vars => IInv'
    BY ClientStep, ProcessStep, StorageStep, LifeStep, ForeignStep, StutterStep DEF Next
  <1>2. QED
    BY InitIInv, <1>1, PTL DEF Spec

\* Types of the daemon's state and of state.json, which load trusts
THEOREM LifeTypeCorrect == Spec => []TypeOK
  BY OwnershipInvariant, PTL DEF IInv

\* Kill, its timer, Remove, stop and kill_orphan: none ends a process another
\* program started, whatever pids the machine hands out again, except in the window
\* between wait() and exited(), where Session.process names a process that is reaped
THEOREM NoForeignKill == Spec => OthersUntouched
  <1>1. IInv /\ [Next]_vars =>
          [\A q \in alive \ alive' : owner[q] = Foreign =>
             \E s \in Sessions : /\ process[s] # None /\ process[s] \notin Holders
                                /\ pidOf[process[s]] = pidOf[q]]_vars
    BY OthersStep DEF Reached
  <1>2. QED
    BY <1>1, OwnershipInvariant, PTL DEF Spec, OthersUntouched

-----------------------------------------------------------------------------
(* The invariants *)

\* A session being created is new to the map, and nobody else's
CreatesFresh ==
  \A c \in Clients : request[c].op = "insert" =>
    /\ request[c].session \notin known \cup removed
    /\ \A d \in Clients : d # c /\ request[d].op = "insert" =>
         request[d].session # request[c].session

\* A removed session that a crash brought back is still in the file, and its
\* snapshots, written or to be written, are of a listed session or were on the
\* blocking pool when it was removed
SnapInv ==
  /\ removed \cap known \subseteq disk.ids
  /\ snaps \cap removed \subseteq overtaken \cup (IF Up THEN known ELSE disk.ids)
  /\ queued \cap removed \subseteq overtaken \cup known
  /\ Up \/ (queued = {} /\ saver = "wait")
  /\ CreatesFresh

Alright == {"Running", "Exited"}

\* What has a pid was started, and is neither restored nor crashed
StartedAlright ==
  /\ \A s \in Sessions : pid[s] # None => status[s] \in Alright
  /\ \A s \in Sessions : disk.entry[s].pid # None => disk.entry[s].status \in Alright
  /\ \A c \in Clients : request[c].op = "insert" => status[request[c].session] \in Alright

\* What state.json says of the last image
CleanMeansClean ==
  /\ phase \in {"down", "loading"} =>
       IF disk.clean THEN ended = "clean" ELSE ended = "crash" \/ disk.ids = {}
  /\ phase \in {"serving", "stop", "handoff"} => ~disk.clean
  /\ phase \in {"saved", "inherit", "ended"} => disk.clean

\* Nobody writes or restarts behind a stop's back
NothingBehind ==
  /\ phase \in {"down", "loading"} =>
       saver = "wait" /\ \A c \in Clients : request[c] = Idle
  /\ phase = "loading" => known = disk.ids
  /\ Stopping => saver # "write" /\ \A c \in Clients : request[c].op # "restart"

CrashInv ==
  /\ StartedAlright
  /\ CleanMeansClean
  /\ NothingBehind
  /\ CrashReported

\* The process the daemon waits for is the session's
WatchedIsHeld == \A p \in watched \ exiting : process[owner[p]] = p

\* Nobody waits for a process of a session that is about to be started
NoneToStart ==
  /\ \A s \in reviving : \A p \in watched : owner[p] # s
  /\ \A c \in Clients : request[c].op = "restart" =>
       request[c].session \in used /\ process[request[c].session] = None
  /\ phase = "loading" => \A c \in Clients : request[c] = Idle

OwnersUsed ==
  /\ \A s \in Sessions : process[s] # None => s \in used
  /\ \A p \in watched : owner[p] \in used

OneInv ==
  /\ WatchedIsHeld
  /\ NoneToStart
  /\ OwnersUsed
  /\ reaped \cap alive = {}

\* A session with a process is running under its pid, unless load or revive left
\* it the process of a start that broke off
HeldIsRunning ==
  \A s \in Sessions : process[s] # None =>
    \/ status[s] = "Running" /\ pid[s] = pidOf[process[s]]
    \/ s \in botched /\ pid[s] = None

RunningIsHeld ==
  ~Stopping => \A s \in known \ botched : status[s] = "Running" =>
    process[s] # None \/ \E p \in exiting : owner[p] = s

\* An exit that is being told is of a session nobody has started again
ExitingFirst ==
  \A p \in exiting :
    /\ process[owner[p]] = None /\ status[owner[p]] = "Running"
    /\ \A r \in exiting : owner[r] = owner[p] => r = p

\* What the daemon waits for is behind no start that broke off
WatchedWhole == \A p \in watched : owner[p] \notin botched

StartsTold ==
  /\ \A s \in reviving : status[s] # "Running"
  /\ \A c \in Clients :
       /\ request[c].op = "restart" =>
            ~Stopping /\ ToldOfExit(request[c].session)
       /\ request[c].op = "insert" => process[request[c].session] # None

HandedIsHeld ==
  phase = "inherit" => \A s \in disk.ids :
    process[s] # None /\ disk.entry[s].pid # None =>
      disk.entry[s].status = "Running" /\ disk.entry[s].pid = pidOf[process[s]]

ListInv ==
  /\ HeldIsRunning
  /\ RunningIsHeld
  /\ ExitingFirst
  /\ WatchedWhole
  /\ StartsTold
  /\ HandedIsHeld

-----------------------------------------------------------------------------
(* What the helpers do *)

\* A connection is done with its request, or begins one; the others' stay
LEMMA RequestStep ==
  ASSUME IInv, NEW c \in Clients, NEW r, request' = [request EXCEPT ![c] = r]
  PROVE  /\ request'[c] = r
         /\ \A d \in Clients : d # c => request'[d] = request[d]
  BY DEF IInv, TypeOK

LEMMA IdleOp == Idle.op = "idle"
  BY DEF Idle

LEMMA RequestDone ==
  ASSUME IInv, NEW c \in Clients, request' = [request EXCEPT ![c] = Idle]
  PROVE  \A d \in Clients : request'[d].op = "idle" \/ (d # c /\ request'[d] = request[d])
  <1>1. /\ request'[c] = Idle
        /\ \A d \in Clients : d # c => request'[d] = request[d]
    BY RequestStep
  <1>2. SUFFICES ASSUME NEW d \in Clients
                 PROVE  request'[d].op = "idle" \/ (d # c /\ request'[d] = request[d])
    OBVIOUS
  <1>3. CASE d = c
    <2>1. request'[d] = Idle
      BY <1>1, <1>3
    <2>2. request'[d].op = "idle"
      BY <2>1, IdleOp
    <2>3. QED
      BY <2>2
  <1>4. CASE d # c
    BY <1>1, <1>4
  <1>5. QED
    BY <1>3, <1>4

\* A spawn makes one process, which nobody held, the session's
LEMMA SpawnStep ==
  ASSUME IInv, NEW s \in Sessions, Spawn(s)
  PROVE  LET q == born + 1
         IN  /\ q \in Procs /\ q # None /\ q \notin 1..born
             /\ process'[s] = q /\ status'[s] = "Running" /\ pid'[s] = pidOf'[q]
             /\ owner'[q] = s
             /\ \A t \in Sessions : t # s =>
                  process'[t] = process[t] /\ status'[t] = status[t] /\ pid'[t] = pid[t]
             /\ \A p \in 1..born : owner'[p] = owner[p] /\ pidOf'[p] = pidOf[p]
             /\ watched' = watched \cup {q} /\ alive' = alive \cup {q}
             /\ botched' = botched \ {s}
  <1> DEFINE q == born + 1
  <1>1. PICK n \in FreePids : Fork(s, n) /\ pid' = [pid EXCEPT ![s] = n]
    BY DEF Spawn
  <1>2. /\ q \in Procs /\ q # None /\ q \notin 1..born
        /\ owner'[q] = s /\ pidOf'[q] = n
        /\ \A p \in 1..born : owner'[p] = owner[p] /\ pidOf'[p] = pidOf[p]
    BY <1>1, ForkFresh DEF IInv
  <1>3. /\ process'[s] = q /\ status'[s] = "Running" /\ pid'[s] = n
        /\ \A t \in Sessions : t # s =>
             process'[t] = process[t] /\ status'[t] = status[t] /\ pid'[t] = pid[t]
        /\ watched' = watched \cup {q} /\ alive' = alive \cup {q}
        /\ botched' = botched \ {s}
    BY <1>1 DEF Spawn, IInv, TypeOK
  <1>4. QED
    BY <1>2, <1>3

\* A start that breaks off makes one that nobody waits for
LEMMA HalfStep ==
  ASSUME IInv, NEW s \in Sessions, NEW told, NEW n, HalfSpawn(s, told, n)
  PROVE  LET q == born + 1
         IN  /\ q \in Procs /\ q # None /\ q \notin 1..born
             /\ process'[s] \in {process[s], q} /\ status'[s] = told
             /\ owner'[q] = s /\ pidOf'[q] = n /\ n \in Pids
             /\ \A t \in Sessions : t # s =>
                  process'[t] = process[t] /\ status'[t] = status[t]
             /\ \A p \in 1..born : owner'[p] = owner[p] /\ pidOf'[p] = pidOf[p]
             /\ watched' = watched /\ alive' = alive \cup {q}
             /\ botched' = botched \cup {s}
  <1> DEFINE q == born + 1
  <1>1. /\ q \in Procs /\ q # None /\ q \notin 1..born
        /\ owner'[q] = s /\ pidOf'[q] = n /\ n \in Pids
        /\ \A p \in 1..born : owner'[p] = owner[p] /\ pidOf'[p] = pidOf[p]
    BY ForkFresh DEF HalfSpawn, IInv
  <1>2. /\ process'[s] \in {process[s], q} /\ status'[s] = told
        /\ \A t \in Sessions : t # s =>
             process'[t] = process[t] /\ status'[t] = status[t]
        /\ watched' = watched /\ alive' = alive \cup {q}
        /\ botched' = botched \cup {s}
    BY DEF HalfSpawn, IInv, TypeOK
  <1>3. QED
    BY <1>1, <1>2

\* The sessions requests name are used ones
LEMMA UsedInserts ==
  ASSUME IInv, NEW c \in Clients, request[c].op = "insert"
  PROVE  request[c].session \in used /\ request[c].session \in Sessions
  BY DEF IInv, IdsUsed, TypeOK

\* Of the sessions removed and of those created nobody, it follows what a
\* failed restart changes
LEMMA RestartFailsStep ==
  ASSUME NEW c \in Clients, RestartFails(c)
  PROVE  /\ request[c].op = "restart"
         /\ request' = [request EXCEPT ![c] = Idle]
         /\ UNCHANGED <<known, used, removed, overtaken, reaped, exiting, grace,
                        store, phase, reviving, ended>>
         /\ \/ UNCHANGED <<machine, status, pid, process, botched, watched, lost>>
            \/ \E n : /\ HalfSpawn(request[c].session, "Running", n)
                      /\ pid' = [pid EXCEPT ![request[c].session] = n]
  BY DEF RestartFails, session

-----------------------------------------------------------------------------
(* Which snapshots removed sessions leave *)

LEMMA SnapClient ==
  ASSUME IInv, SnapInv, NEW c \in Clients, Client(c)
  PROVE  SnapInv'
  <1> USE DEF store
  <1>0. phase' = phase /\ disk' = disk /\ saver' = saver
    BY DEF Client, CreateInsert, RestartSpawn, RestartFails, Create, CreateFails,
       RestartCheck, Kill, Remove
  <1>1. CASE CreateInsert(c)
    <2> DEFINE s == request[c].session
    <2>1. /\ request[c].op = "insert" /\ known' = known \cup {s}
          /\ request' = [request EXCEPT ![c] = Idle]
          /\ UNCHANGED <<removed, overtaken, snaps, queued>>
      BY <1>1 DEF CreateInsert
    <2>2. /\ request'[c].op = "idle"
          /\ \A d \in Clients : d # c => request'[d] = request[d]
      BY <2>1, RequestStep, IdleOp
    <2>3. CreatesFresh'
      BY <2>1, <2>2 DEF SnapInv, CreatesFresh
    <2>4. s \notin removed
      BY <2>1 DEF SnapInv, CreatesFresh
    <2>5. QED
      BY <1>0, <2>1, <2>3, <2>4 DEF SnapInv, Up
  <1>2. CASE RestartSpawn(c) \/ RestartFails(c)
    <2>1. /\ request' = [request EXCEPT ![c] = Idle]
          /\ UNCHANGED <<known, removed, overtaken, snaps, queued>>
      BY <1>2, RestartFailsStep DEF RestartSpawn
    <2>2. /\ request'[c].op = "idle"
          /\ \A d \in Clients : d # c => request'[d] = request[d]
      BY <2>1, RequestStep, IdleOp
    <2>3. CreatesFresh'
      BY <2>1, <2>2 DEF SnapInv, CreatesFresh
    <2>4. QED
      BY <1>0, <2>1, <2>3 DEF SnapInv, Up
  <1>3. ASSUME NEW s \in Sessions, Create(c, s)
        PROVE  SnapInv'
    <2>1. /\ s \notin used
          /\ request' = [request EXCEPT ![c] = [op |-> "insert", session |-> s]]
          /\ UNCHANGED <<known, removed, overtaken, snaps, queued>>
      BY <1>3 DEF Create
    <2>2. /\ request'[c] = [op |-> "insert", session |-> s]
          /\ \A d \in Clients : d # c => request'[d] = request[d]
      BY <2>1, RequestStep
    <2>3. s \notin known \cup removed
      BY <2>1 DEF IInv, TypeOK
    <2>4. \A d \in Clients : request[d].op = "insert" => request[d].session # s
      BY <2>1, UsedInserts
    <2>5. CreatesFresh'
      BY <2>1, <2>2, <2>3, <2>4 DEF SnapInv, CreatesFresh
    <2>6. QED
      BY <1>0, <2>1, <2>5 DEF SnapInv, Up
  <1>4. ASSUME NEW s \in Sessions, RestartCheck(c, s)
        PROVE  SnapInv'
    <2>1. /\ request' = [request EXCEPT ![c] = [op |-> "restart", session |-> s]]
          /\ UNCHANGED <<known, removed, overtaken, snaps, queued>>
      BY <1>4 DEF RestartCheck, session
    <2>2. /\ request'[c] = [op |-> "restart", session |-> s]
          /\ \A d \in Clients : d # c => request'[d] = request[d]
      BY <2>1, RequestStep
    <2>3. CreatesFresh'
      BY <2>1, <2>2 DEF SnapInv, CreatesFresh
    <2>4. QED
      BY <1>0, <2>1, <2>3 DEF SnapInv, Up
  <1>5. ASSUME NEW s \in Sessions, Kill(c, s) \/ CreateFails(c, s)
        PROVE  SnapInv'
    <2>1. UNCHANGED <<known, removed, overtaken, snaps, queued, request>>
      BY <1>5 DEF Kill, CreateFails
    <2>2. QED
      BY <1>0, <2>1 DEF SnapInv, CreatesFresh, Up
  <1>6. ASSUME NEW s \in Sessions, Remove(c, s)
        PROVE  SnapInv'
    <2>1. /\ s \in known /\ known' = known \ {s} /\ removed' = removed \cup {s}
          /\ overtaken' = overtaken \cup ({s} \cap queued) /\ phase # "down"
          /\ snaps' = snaps \ {s} /\ UNCHANGED <<queued, request>>
      BY <1>6 DEF Remove, SnapsWithout, Free, Up
    <2>2. CreatesFresh'
      BY <2>1 DEF SnapInv, CreatesFresh
    <2>3. QED
      BY <1>0, <2>1, <2>2 DEF SnapInv, Up
  <1>7. QED
    BY <1>1, <1>2, <1>3, <1>4, <1>5, <1>6 DEF Client

\* A new image has the sessions of the file
LEMMA SnapLoad ==
  ASSUME SnapInv, UNCHANGED <<snaps, disk>>, NEW masters, NEW failed, NEW kept,
         Load(masters, failed, kept)
  PROVE  SnapInv'
  <1>1. \A c \in Clients : request'[c].op = "idle"
    BY IdleOp DEF Load
  <1>2. queued' = {} /\ known' = disk.ids /\ phase' = "loading" /\ UNCHANGED <<removed, overtaken>>
    BY DEF Load
  <1>3. QED
    BY <1>1, <1>2 DEF SnapInv, CreatesFresh, Up

\* No image has none
LEMMA SnapGone ==
  ASSUME SnapInv, Gone, Up
  PROVE  SnapInv'
  <1>1. \A c \in Clients : request'[c].op = "idle"
    BY IdleOp DEF Gone
  <1>2. /\ queued' = {} /\ known' = {} /\ phase' = "down" /\ saver' = "wait"
        /\ UNCHANGED <<removed, overtaken, snaps, disk>>
    BY DEF Gone
  <1>3. QED
    BY <1>1, <1>2 DEF SnapInv, CreatesFresh, Up

LEMMA SnapStep ==
  ASSUME IInv, SnapInv, [Next]_vars
  PROVE  SnapInv'
  <1>1. CASE ForeignStart \/ SaverWake \/ SaverCheck \/ HangUpAll
             \/ StopBegin("stop") \/ StopBegin("handoff") \/ UNCHANGED vars
             \/ (\E s \in Sessions : Revive(s)) \/ (\E p \in Procs : Process(p))
    <2>1. /\ UNCHANGED <<known, removed, overtaken, snaps, queued, request, disk>>
          /\ Up' = Up /\ (Up \/ saver # "wait" \/ saver' = saver)
      BY <1>1 DEF ForeignStart, SaverWake, SaverCheck, HangUpAll, StopBegin, Up,
         vars, Revive, Process, ProcExit, ExitReap, ExitTake, ExitTell, GraceEnd, store, session
    <2>2. QED
      BY <2>1 DEF SnapInv, CreatesFresh
  <1>2. CASE SaverWrite \/ Serve \/ Persist
    <2>1. /\ disk'.ids = known /\ snaps' \subseteq snaps \cup known
          /\ UNCHANGED <<known, removed, overtaken, queued, request>>
      BY <1>2 DEF SaverWrite, Serve, Persist, Saved, session
    <2>2. Up /\ Up'
      BY <1>2 DEF SaverWrite, Serve, Persist, Up, SnapInv
    <2>3. QED
      BY <2>1, <2>2 DEF SnapInv, CreatesFresh
  <1>3. ASSUME NEW s \in Sessions, SnapshotDue(s) \/ SnapshotWrite(s)
        PROVE  SnapInv'
    <2>1. /\ UNCHANGED <<known, removed, overtaken, request, disk>> /\ Up /\ Up'
          /\ \/ /\ s \in known
                /\ snaps' \subseteq snaps \cup {s} /\ queued' \subseteq queued \cup {s}
             \/ s \in queued /\ snaps' = snaps \cup {s} /\ queued' \subseteq queued
      BY <1>3 DEF SnapshotDue, SnapshotWrite, session, Up, SnapInv
    <2>2. QED
      BY <2>1 DEF SnapInv, CreatesFresh
  <1>4. CASE Start \/ Exec
    BY <1>4, SnapLoad DEF Start, Exec
  <1>5. CASE Quit \/ Crash
    BY <1>5, SnapGone DEF Quit, Crash, Up
  <1>6. CASE Life
    BY <1>1, <1>2, <1>4, <1>5, <1>6 DEF Life
  <1>7. CASE Storage
    BY <1>1, <1>2, <1>3, <1>7 DEF Storage
  <1>8. CASE \E c \in Clients : Client(c)
    BY <1>8, SnapClient
  <1>9. QED
    BY <1>1, <1>6, <1>7, <1>8 DEF Next

\* The only snapshots that outlive their session are those that were on the blocking
\* pool when a client removed it (snapshot_in_background): no detach, no timer, no stop,
\* no crash that brings the session back and no later removal leaves another
THEOREM OnlyLateSnapshotsStay == Spec => []LateSnapshotsOnly
  <1>1. Init => SnapInv
    BY IdleOp DEF Init, SnapInv, CreatesFresh
  <1>2. IInv /\ SnapInv /\ [Next]_vars => SnapInv'
    BY SnapStep
  <1>3. SnapInv => LateSnapshotsOnly
    BY DEF SnapInv, LateSnapshotsOnly, Forgotten
  <1>4. QED
    BY <1>1, <1>2, <1>3, OwnershipInvariant, PTL DEF Spec

-----------------------------------------------------------------------------
(* One process behind a session *)

\* No session is restarted by two connections at once: the check that it has no
\* process and the spawn are not one step (server.rs, Request::Restart)
RestartsApart ==
  \A c, d \in Clients :
    c # d /\ request[c].op = "restart" /\ request[d].op = "restart" =>
      request[c].session # request[d].session

\* A session of which no process is waited for is given one: it is the only one
LEMMA SpawnOne ==
  ASSUME IInv, OneInv, NEW s \in Sessions, Spawn(s),
         \A p \in watched \ exiting : owner[p] # s, UNCHANGED <<exiting, reaped>>,
         used \subseteq used', s \in used'
  PROVE  WatchedIsHeld' /\ OwnersUsed' /\ reaped' \cap alive' = {}
  <1> DEFINE q == born + 1
  <1>1. /\ q \in Procs /\ q # None /\ q \notin 1..born
        /\ process'[s] = q /\ owner'[q] = s
        /\ \A t \in Sessions : t # s => process'[t] = process[t]
        /\ \A p \in 1..born : owner'[p] = owner[p]
        /\ watched' = watched \cup {q} /\ alive' = alive \cup {q}
    BY SpawnStep
  <1>2. watched \subseteq 1..born /\ reaped \subseteq watched
    BY DEF IInv, TypeOK
  <1>3. \A p \in watched : owner[p] \in Sessions
    BY DEF IInv, WatchedOwned
  <1>4. ASSUME NEW p \in watched' \ exiting'
        PROVE  process'[owner'[p]] = p
    <2>1. CASE p = q
      BY <1>1, <2>1
    <2>2. CASE p # q
      <3>1. p \in watched \ exiting
        BY <1>1, <1>4, <2>2
      <3>2. process[owner[p]] = p /\ owner[p] # s
        BY <3>1 DEF OneInv, WatchedIsHeld
      <3>3. QED
        BY <1>1, <1>2, <1>3, <3>1, <3>2
    <2>3. QED
      BY <2>1, <2>2
  <1>5. OwnersUsed'
    BY <1>1, <1>2 DEF OneInv, OwnersUsed
  <1>6. reaped' \cap alive' = {}
    BY <1>1, <1>2 DEF OneInv
  <1>7. QED
    BY <1>4, <1>5, <1>6 DEF WatchedIsHeld

\* One whose start breaks off is waited for by nobody
LEMMA HalfOne ==
  ASSUME IInv, OneInv, NEW s \in used, NEW told, NEW n, HalfSpawn(s, told, n),
         \A p \in watched \ exiting : owner[p] # s, UNCHANGED <<exiting, reaped, used>>
  PROVE  WatchedIsHeld' /\ OwnersUsed' /\ reaped' \cap alive' = {}
  <1>1. s \in Sessions
    BY DEF IInv, TypeOK
  <1>2. /\ \A t \in Sessions : t # s => process'[t] = process[t]
        /\ \A p \in 1..born : owner'[p] = owner[p]
        /\ born + 1 \notin 1..born
        /\ watched' = watched /\ alive' = alive \cup {born + 1}
    BY <1>1, HalfStep
  <1>3. watched \subseteq 1..born /\ reaped \subseteq watched
    BY DEF IInv, TypeOK
  <1>4. \A p \in watched : owner[p] \in Sessions
    BY DEF IInv, WatchedOwned
  <1>5. WatchedIsHeld'
    BY <1>2, <1>3, <1>4 DEF OneInv, WatchedIsHeld
  <1>6. OwnersUsed' /\ reaped' \cap alive' = {}
    BY <1>2, <1>3 DEF OneInv, OwnersUsed
  <1>7. QED
    BY <1>5, <1>6

\* Nobody waits for a process of a session that has none but to tell of its exit
LEMMA NoneWatched ==
  ASSUME IInv, OneInv, NEW s \in Sessions, process[s] = None
  PROVE  \A p \in watched \ exiting : owner[p] # s
  BY DEF OneInv, WatchedIsHeld, IInv, TypeOK, None

\* A connection's request is done with, of a session that may have got a process
LEMMA RestartedOne ==
  ASSUME RestartsApart, IInv, OneInv, NEW c \in Clients, request[c].op = "restart",
         request' = [request EXCEPT ![c] = Idle],
         UNCHANGED <<used, reviving, phase, known>>,
         \A t \in Sessions : t # request[c].session => process'[t] = process[t]
  PROVE  NoneToStart'
  <1> DEFINE s == request[c].session
  <1>1. \A d \in Clients : request'[d].op = "idle" \/ (d # c /\ request'[d] = request[d])
    BY RequestDone
  <1>2. phase # "loading"
    BY IdleOp DEF OneInv, NoneToStart
  <1>3. ASSUME NEW d \in Clients, request'[d].op = "restart"
        PROVE  request'[d].session \in used /\ process'[request'[d].session] = None
    <2>1. d # c /\ request'[d] = request[d]
      BY <1>1, <1>3
    <2>2. /\ request[d].session \in Sessions \ {s} /\ request[d].session \in used
          /\ process[request[d].session] = None
      BY <1>3, <2>1, RequestNames DEF RestartsApart, OneInv, NoneToStart, IInv, TypeOK
    <2>3. QED
      BY <2>1, <2>2
  <1>4. reviving = {}
    BY <1>2 DEF IInv, IdsUsed
  <1>5. QED
    BY <1>2, <1>3, <1>4 DEF NoneToStart

LEMMA OneClients ==
  ASSUME RestartsApart, IInv, OneInv, NEW c \in Clients, Client(c)
  PROVE  OneInv'
  <1>1. ASSUME request' = [request EXCEPT ![c] = Idle]
        PROVE  \A d \in Clients : request'[d].op = "idle" \/ (d # c /\ request'[d] = request[d])
    BY <1>1, RequestDone
  <1>2. CASE CreateInsert(c) \/ \E s \in Sessions : Kill(c, s) \/ Remove(c, s)
    <2>1. /\ alive' \subseteq alive
          /\ UNCHANGED <<process, watched, reaped, exiting, owner, used, reviving, phase>>
      BY <1>2 DEF CreateInsert, Kill, Remove, HangUp, Hangup, machine
    <2>2. \A d \in Clients : request'[d].op = "idle" \/ request'[d] = request[d]
      BY <1>1, <1>2 DEF CreateInsert, Kill, Remove
    <2>3. phase = "loading" => \A d \in Clients : request'[d] = Idle
      BY <1>2, RequestStep DEF OneInv, NoneToStart, CreateInsert, Kill, Remove, Free
    <2>4. NoneToStart'
      BY <2>1, <2>2, <2>3 DEF OneInv, NoneToStart
    <2>5. QED
      BY <2>1, <2>4 DEF OneInv, WatchedIsHeld, OwnersUsed
  <1>3. CASE RestartSpawn(c)
    <2> DEFINE s == request[c].session
    <2>1. /\ request[c].op = "restart" /\ Spawn(s) /\ request' = [request EXCEPT ![c] = Idle]
          /\ UNCHANGED <<known, used, reaped, exiting, reviving, phase>>
      BY <1>3 DEF RestartSpawn
    <2>2. s \in Sessions
      BY <2>1, RequestNames DEF IInv, TypeOK
    <2>3. process[s] = None /\ s \in used
      BY <2>1 DEF OneInv, NoneToStart
    <2>4. WatchedIsHeld' /\ OwnersUsed' /\ reaped' \cap alive' = {}
      BY <2>1, <2>2, <2>3, NoneWatched, SpawnOne
    <2>5. \A t \in Sessions : t # s => process'[t] = process[t]
      BY <2>1, <2>2, SpawnStep
    <2>6. NoneToStart'
      BY <2>1, <2>5, RestartedOne
    <2>7. QED
      BY <2>4, <2>6 DEF OneInv
  <1>4. CASE RestartFails(c)
    <2> DEFINE s == request[c].session
    <2>1. /\ request[c].op = "restart" /\ request' = [request EXCEPT ![c] = Idle]
          /\ UNCHANGED <<known, used, reaped, exiting, reviving, phase>>
          /\ \/ UNCHANGED <<machine, status, pid, process, botched, watched, lost>>
             \/ \E n : HalfSpawn(s, "Running", n)
      BY <1>4, RestartFailsStep
    <2>2. s \in Sessions
      BY <2>1, RequestNames DEF IInv, TypeOK
    <2>3. process[s] = None /\ s \in used
      BY <2>1 DEF OneInv, NoneToStart
    <2>4. CASE UNCHANGED <<machine, status, pid, process, botched, watched, lost>>
      <3>1. NoneToStart'
        BY <2>1, <2>4, RestartedOne
      <3>2. QED
        BY <2>1, <2>4, <3>1 DEF OneInv, WatchedIsHeld, OwnersUsed, machine
    <2>5. CASE \E n : HalfSpawn(s, "Running", n)
      <3>1. PICK n : HalfSpawn(s, "Running", n)
        BY <2>5
      <3>2. WatchedIsHeld' /\ OwnersUsed' /\ reaped' \cap alive' = {}
        BY <2>1, <2>2, <2>3, <3>1, NoneWatched, HalfOne
      <3>3. \A t \in Sessions : t # s => process'[t] = process[t]
        BY <2>2, <3>1, HalfStep
      <3>4. NoneToStart'
        BY <2>1, <3>3, RestartedOne
      <3>5. QED
        BY <3>2, <3>4 DEF OneInv
    <2>6. QED
      BY <2>1, <2>4, <2>5
  <1>5. ASSUME NEW s \in Sessions, Create(c, s)
        PROVE  OneInv'
    <2>1. /\ phase # "loading" /\ s \notin used /\ used' = used \cup {s} /\ Spawn(s)
          /\ request' = [request EXCEPT ![c] = [op |-> "insert", session |-> s]]
          /\ UNCHANGED <<reaped, exiting, reviving, phase>>
      BY <1>5 DEF Create, Free
    <2>2. process[s] = None
      BY <2>1 DEF OneInv, OwnersUsed
    <2>3. WatchedIsHeld' /\ OwnersUsed' /\ reaped' \cap alive' = {}
      BY <2>1, <2>2, NoneWatched, SpawnOne
    <2>4. ASSUME NEW d \in Clients, request'[d].op = "restart"
          PROVE  request'[d].session \in used' /\ process'[request'[d].session] = None
      <3>1. request'[c] = [op |-> "insert", session |-> s]
        BY <2>1, RequestStep
      <3>2. request'[d] = request[d]
        BY <2>1, <2>4, <3>1, RequestStep
      <3>3. /\ request[d].session \in Sessions \ {s} /\ request[d].session \in used
            /\ process[request[d].session] = None
        BY <2>1, <2>4, <3>2, RequestNames DEF OneInv, NoneToStart, IInv, TypeOK
      <3>4. QED
        BY <2>1, <3>2, <3>3, SpawnStep
    <2>5. NoneToStart'
      BY <2>1, <2>4 DEF IInv, IdsUsed, NoneToStart
    <2>6. QED
      BY <2>3, <2>5 DEF OneInv
  <1>6. ASSUME NEW s \in Sessions, CreateFails(c, s)
        PROVE  OneInv'
    <2>1. /\ used \subseteq used' /\ alive' = alive \cup {born + 1}
          /\ UNCHANGED <<process, watched, reaped, exiting, reviving, phase, request>>
          /\ \E n : Fork(s, n)
      BY <1>6 DEF CreateFails
    <2>2. /\ \A p \in 1..born : owner'[p] = owner[p]
          /\ born + 1 \notin 1..born
      BY <2>1, ForkFresh DEF IInv
    <2>3. watched \subseteq 1..born /\ reaped \subseteq watched
      BY DEF IInv, TypeOK
    <2>4. QED
      BY <2>1, <2>2, <2>3 DEF OneInv, WatchedIsHeld, OwnersUsed, NoneToStart
  <1>7. ASSUME NEW s \in Sessions, RestartCheck(c, s)
        PROVE  OneInv'
    <2>1. /\ phase # "loading" /\ process[s] = None /\ s \in known
          /\ request' = [request EXCEPT ![c] = [op |-> "restart", session |-> s]]
          /\ UNCHANGED <<process, watched, reaped, exiting, alive, owner, used, reviving, phase>>
      BY <1>7 DEF RestartCheck, Free, machine, session
    <2>2. \A d \in Clients : request'[d] = request[d] \/ request'[d].session = s
      <3>1. request'[c] = [op |-> "restart", session |-> s]
        BY <2>1, RequestStep
      <3>2. QED
        BY <2>1, <3>1, RequestStep
    <2>3. s \in used
      BY <2>1 DEF IInv, TypeOK
    <2>4. NoneToStart'
      BY <2>1, <2>2, <2>3 DEF OneInv, NoneToStart
    <2>5. QED
      BY <2>1, <2>4 DEF OneInv, WatchedIsHeld, OwnersUsed
  <1>8. QED
    BY <1>2, <1>3, <1>4, <1>5, <1>6, <1>7 DEF Client

LEMMA OneProcesses ==
  ASSUME IInv, OneInv, NEW p \in Procs, Process(p)
  PROVE  OneInv'
  <1>1. CASE ProcExit(p) \/ GraceEnd(p)
    <2>1. /\ alive' \subseteq alive
          /\ UNCHANGED <<process, watched, reaped, exiting, owner, used, reviving, phase, request>>
      BY <1>1 DEF ProcExit, GraceEnd, session
    <2>2. QED
      BY <2>1 DEF OneInv, WatchedIsHeld, OwnersUsed, NoneToStart
  <1>2. CASE ExitReap(p)
    <2>1. /\ p \notin alive /\ reaped' = reaped \cup {p}
          /\ UNCHANGED <<alive, process, watched, exiting, owner, used, reviving, phase, request>>
      BY <1>2 DEF ExitReap, machine
    <2>2. QED
      BY <2>1 DEF OneInv, WatchedIsHeld, OwnersUsed, NoneToStart
  <1>3. CASE ExitTake(p)
    <2> DEFINE s == owner[p]
    <2>1. /\ p \in watched \ exiting
          /\ process' = [process EXCEPT ![s] = None]
          /\ exiting' \subseteq exiting \cup {p} /\ watched' \subseteq watched
          /\ watched' \ exiting' = (watched \ exiting) \ {p}
          /\ reaped' \subseteq reaped
          /\ UNCHANGED <<alive, owner, used, reviving, phase, request>>
      BY <1>3 DEF ExitTake, machine, IInv, TypeOK
    <2>2. s \in Sessions /\ process[s] = p
      BY <2>1 DEF OneInv, WatchedIsHeld, IInv, WatchedOwned
    <2>3. process'[s] = None /\ \A t \in Sessions : t # s => process'[t] = process[t]
      BY <2>1, <2>2 DEF IInv, TypeOK
    <2>4. ASSUME NEW r \in watched' \ exiting'
          PROVE  process'[owner'[r]] = r
      <3>1. r \in watched \ exiting /\ r # p
        BY <2>1, <2>4
      <3>2. process[owner[r]] = r /\ owner[r] \in Sessions
        BY <3>1 DEF OneInv, WatchedIsHeld, IInv, WatchedOwned
      <3>3. QED
        BY <2>1, <2>2, <2>3, <3>1, <3>2
    <2>5. \A t \in Sessions : process'[t] = process[t] \/ process'[t] = None
      BY <2>3
    <2>6. NoneToStart'
      <3>1. \A c \in Clients : request[c].op = "restart" => request[c].session \in Sessions
        BY RequestNames DEF IInv, TypeOK
      <3>2. QED
        BY <2>1, <2>5, <3>1 DEF OneInv, NoneToStart
    <2>7. OwnersUsed' /\ reaped' \cap alive' = {}
      BY <2>1, <2>5 DEF OneInv, OwnersUsed
    <2>8. QED
      BY <2>4, <2>6, <2>7 DEF OneInv, WatchedIsHeld
  <1>4. CASE ExitTell(p)
    <2>1. /\ p \in exiting /\ exiting' = exiting \ {p} /\ watched' = watched \ {p}
          /\ reaped' \subseteq reaped
          /\ UNCHANGED <<process, alive, owner, used, reviving, phase, request>>
      BY <1>4 DEF ExitTell, machine
    <2>2. QED
      BY <2>1 DEF OneInv, WatchedIsHeld, OwnersUsed, NoneToStart
  <1>5. QED
    BY <1>1, <1>2, <1>3, <1>4 DEF Process

\* A new image waits for the processes whose sessions it took over
LEMMA OneLoad ==
  ASSUME IInv, OneInv, NEW masters, \A s \in masters : process[s] # None,
         NEW failed, NEW kept, failed \subseteq Adopted(masters), kept \subseteq failed,
         Load(masters, failed, kept), UNCHANGED <<owner, used>>
  PROVE  OneInv'
  <1> DEFINE taken == Adopted(masters) \ failed
  <1>1. /\ process' = [s \in Sessions |->
             IF s \in taken \cup kept THEN process[s] ELSE None]
        /\ watched' = {process[s] : s \in taken}
        /\ reviving' = ToRevive(masters, failed) \ Routines
        /\ exiting' = {} /\ reaped' = watched' \ Holders
        /\ alive' \subseteq alive
        /\ \A c \in Clients : request'[c] = Idle
    BY DEF Load
  <1>2. taken \cup kept \subseteq disk.ids \cap masters
    BY DEF Adopted
  <1>3. disk.ids \subseteq Sessions /\ disk.ids \subseteq used
    BY DEF IInv, TypeOK, IdsUsed
  <1>4. \A s \in taken : owner'[process[s]] = s /\ process'[s] = process[s]
    BY <1>1, <1>2, <1>3 DEF IInv, ProcessOwned
  <1>5. WatchedIsHeld' /\ OwnersUsed'
    BY <1>1, <1>2, <1>3, <1>4 DEF WatchedIsHeld, OwnersUsed
  <1>6. \A s \in reviving' : \A p \in watched' : owner'[p] # s
    BY <1>1, <1>4 DEF ToRevive
  <1>7. NoneToStart'
    BY <1>1, <1>6, IdleOp DEF NoneToStart
  <1>8. reaped' \cap alive' = {}
    BY <1>1 DEF Holders
  <1>9. QED
    BY <1>1, <1>5, <1>7, <1>8 DEF OneInv

LEMMA OneLife ==
  ASSUME IInv, OneInv, Life
  PROVE  OneInv'
  <1>1. CASE Start
    BY <1>1, OneLoad DEF Start
  <1>2. CASE Exec
    <2> DEFINE masters == {s \in disk.ids : process[s] # None}
    <2>1. /\ \E failed \in SUBSET Adopted(masters) : \E kept \in SUBSET failed :
               Load(masters, failed, kept)
          /\ UNCHANGED <<owner, used>> /\ \A s \in masters : process[s] # None
      BY <1>2 DEF Exec
    <2> HIDE DEF masters
    <2>2. QED
      BY <2>1, OneLoad
  <1>3. CASE Quit \/ Crash
    <2>1. /\ process' = [s \in Sessions |-> None] /\ watched' = {} /\ exiting' = {}
          /\ reaped' = {}
          /\ reviving' = {} /\ phase' = "down" /\ \A c \in Clients : request'[c] = Idle
      BY <1>3 DEF Quit, Crash, Gone
    <2>2. QED
      BY <2>1, IdleOp DEF OneInv, WatchedIsHeld, OwnersUsed, NoneToStart
  <1>4. CASE Serve \/ Persist \/ HangUpAll \/ StopBegin("stop") \/ StopBegin("handoff")
    <2>1. /\ phase' # "loading" /\ alive' \subseteq alive
          /\ UNCHANGED <<process, watched, reaped, exiting, owner, used, reviving, request>>
      BY <1>4 DEF Serve, Persist, HangUpAll, Hangup, StopBegin, machine, session
    <2>2. QED
      BY <2>1 DEF OneInv, WatchedIsHeld, OwnersUsed, NoneToStart
  <1>5. ASSUME NEW s \in Sessions, Revive(s)
        PROVE  OneInv'
    <2>1. /\ phase = "loading" /\ s \in reviving /\ reviving' = reviving \ {s}
          /\ UNCHANGED <<used, reaped, exiting, phase, request>>
      BY <1>5 DEF Revive
    <2>2. /\ s \in used /\ \A p \in watched : owner[p] # s
          /\ watched \subseteq 1..born /\ reviving \subseteq Sessions
      BY <2>1 DEF OneInv, NoneToStart, IInv, TypeOK
    <2>3. \A c \in Clients : request[c] = Idle
      BY <2>1 DEF OneInv, NoneToStart
    <2>4. CASE Spawn(s)
      <3>1. WatchedIsHeld' /\ OwnersUsed' /\ reaped' \cap alive' = {}
        BY <2>1, <2>2, <2>4, SpawnOne
      <3>2. /\ watched' = watched \cup {born + 1} /\ owner'[born + 1] = s
            /\ \A p \in 1..born : owner'[p] = owner[p]
        BY <2>4, SpawnStep
      <3>3. \A t \in reviving' : \A p \in watched' : owner'[p] # t
        BY <2>1, <2>2, <3>2 DEF OneInv, NoneToStart
      <3>4. NoneToStart'
        BY <2>1, <2>3, <3>3, IdleOp DEF NoneToStart
      <3>5. QED
        BY <3>1, <3>4 DEF OneInv
    <2>5. CASE \E n : HalfSpawn(s, status[s], n)
      <3>1. PICK n : HalfSpawn(s, status[s], n)
        BY <2>5
      <3>2. WatchedIsHeld' /\ OwnersUsed' /\ reaped' \cap alive' = {}
        BY <2>1, <2>2, <3>1, HalfOne
      <3>3. s \in Sessions
        BY <2>1, <2>2
      <3>4. watched' = watched /\ \A p \in 1..born : owner'[p] = owner[p]
        BY <3>1, <3>3, HalfStep
      <3>5. \A t \in reviving' : \A p \in watched' : owner'[p] # t
        BY <2>1, <2>2, <3>4 DEF OneInv, NoneToStart
      <3>6. NoneToStart'
        BY <2>1, <2>3, <3>5, IdleOp DEF NoneToStart
      <3>7. QED
        BY <3>2, <3>6 DEF OneInv
    <2>6. CASE UNCHANGED <<machine, status, pid, process, botched, watched, lost>>
      BY <2>1, <2>6 DEF OneInv, WatchedIsHeld, OwnersUsed, NoneToStart, machine
    <2>7. QED
      BY <1>5, <2>4, <2>5, <2>6 DEF Revive
  <1>6. QED
    BY <1>1, <1>2, <1>3, <1>4, <1>5 DEF Life

LEMMA OneStep ==
  ASSUME RestartsApart, IInv, OneInv, [Next]_vars
  PROVE  OneInv'
  <1>1. CASE ForeignStart
    <2>1. /\ alive' = alive \cup {born + 1} /\ \E n : Fork(Foreign, n)
          /\ UNCHANGED <<process, watched, reaped, exiting, used, reviving, phase, request>>
      BY <1>1 DEF ForeignStart, session
    <2>2. born + 1 \notin 1..born /\ \A p \in 1..born : owner'[p] = owner[p]
      BY <2>1, ForkFresh DEF IInv
    <2>3. watched \subseteq 1..born /\ reaped \subseteq watched
      BY DEF IInv, TypeOK
    <2>4. QED
      BY <2>1, <2>2, <2>3 DEF OneInv, WatchedIsHeld, OwnersUsed, NoneToStart
  <1>2. CASE Storage \/ UNCHANGED vars
    <2>1. UNCHANGED <<process, watched, reaped, exiting, alive, owner, used, reviving, phase,
                      request>>
      BY <1>2 DEF Storage, SaverWake, SaverCheck, SaverWrite, SnapshotDue, SnapshotWrite,
         vars, machine, session
    <2>2. QED
      BY <2>1 DEF OneInv, WatchedIsHeld, OwnersUsed, NoneToStart
  <1>3. QED
    BY <1>1, <1>2, OneClients, OneProcesses, OneLife DEF Next

\* "session is running" (Restart), as long as no two connections restart the same
\* session at once: whatever the clients ask and whenever processes exit, starts break
\* off, the daemon is stopped, crashes or hands over to a newer image, a session never has
\* two processes that this image waits for
THEOREM OneProcessEach ==
  Spec /\ []RestartsApart => []OneProcess
  <1>1. Init => OneInv
    BY IdleOp DEF Init, OneInv, WatchedIsHeld, NoneToStart, OwnersUsed
  <1>2. IInv /\ OneInv /\ RestartsApart /\ [Next]_vars => OneInv'
    BY OneStep
  <1>3. IInv /\ OneInv => OneProcess
    <2> SUFFICES ASSUME IInv, OneInv, NEW s \in Sessions
                 PROVE  Cardinality({p \in watched \cap alive : owner[p] = s}) <= 1
      BY DEF OneProcess
    <2>1. {p \in watched \cap alive : owner[p] = s} \subseteq {process[s]}
      BY DEF OneInv, WatchedIsHeld, IInv, TypeOK
    <2>2. IsFiniteSet({process[s]}) /\ Cardinality({process[s]}) = 1
      BY FS_Singleton
    <2>3. QED
      BY <2>1, <2>2, FS_Subset, FS_CardinalityType
  <1>4. QED
    BY <1>1, <1>2, <1>3, OwnershipInvariant, PTL DEF Spec

-----------------------------------------------------------------------------
(* A crash is told from a stop *)

\* What the statuses and the pids of the sessions can become in a step: those of
\* a start, of one that broke off, of an exit
StatusSteps ==
  \A t \in Sessions :
    /\ status'[t] = status[t] \/ status'[t] \in Alright
    /\ pid'[t] \in {pid[t], None} \/ status'[t] \in Alright

\* A session that is started is neither restored nor crashed, the others stay
LEMMA SpawnAlright ==
  ASSUME IInv, NEW s \in Sessions, Spawn(s)
  PROVE  StatusSteps /\ status'[s] = "Running"
  <1>1. /\ status'[s] = "Running"
        /\ \A t \in Sessions : t # s => pid'[t] = pid[t] /\ status'[t] = status[t]
    BY SpawnStep
  <1>2. QED
    BY <1>1 DEF StatusSteps, Alright

\* No pid comes to what was restored or crashed
LEMMA StatusKept ==
  ASSUME IInv, StartedAlright, StatusSteps
  PROVE  \A t \in Sessions : pid'[t] # None => status'[t] \in Alright
  BY DEF StartedAlright, StatusSteps

\* What is listed stays listed as it was, or as running or exited
LEMMA ReportKept ==
  ASSUME IInv, CrashReported, UNCHANGED <<ended>>, phase = phase',
         \A s \in known' : s \in known \/ status'[s] \in Alright,
         \A s \in known : status'[s] = status[s] \/ status'[s] \in Alright
  PROVE  CrashReported'
  BY DEF CrashReported, Alright

\* What a connection does to the statuses, to the sessions listed and to the
\* requests under way
LEMMA ClientTells ==
  ASSUME IInv, NEW c \in Clients, Client(c), CrashInv
  PROVE  /\ StatusSteps
         /\ \A s \in known' : s \in known \/ status'[s] \in Alright
         /\ \A d \in Clients : request'[d].op = "insert" =>
              status'[request'[d].session] \in Alright
  <1>1. CASE CreateInsert(c)
    <2>1. /\ request[c].op = "insert" /\ known' = known \cup {request[c].session}
          /\ request' = [request EXCEPT ![c] = Idle] /\ UNCHANGED <<status, pid>>
      BY <1>1 DEF CreateInsert
    <2>2. \A d \in Clients : request'[d].op = "idle" \/ request'[d] = request[d]
      BY <2>1, RequestDone
    <2>3. QED
      BY <2>1, <2>2 DEF StatusSteps, CrashInv, StartedAlright
  <1>2. ASSUME request[c].op = "restart", request' = [request EXCEPT ![c] = Idle],
               UNCHANGED known, StatusSteps
        PROVE  /\ StatusSteps
               /\ \A s \in known' : s \in known \/ status'[s] \in Alright
               /\ \A d \in Clients : request'[d].op = "insert" =>
                    status'[request'[d].session] \in Alright
    <2>1. \A d \in Clients : request'[d].op = "idle" \/ request'[d] = request[d]
      BY <1>2, RequestDone
    <2>2. \A d \in Clients : request[d].op = "insert" =>
            request[d].session \in Sessions /\ status[request[d].session] \in Alright
      BY UsedInserts DEF CrashInv, StartedAlright
    <2>3. QED
      BY <1>2, <2>1, <2>2 DEF StatusSteps
  <1>3. CASE RestartSpawn(c)
    <2>1. /\ request[c].op = "restart" /\ Spawn(request[c].session) /\ UNCHANGED known
          /\ request' = [request EXCEPT ![c] = Idle]
      BY <1>3 DEF RestartSpawn
    <2>2. request[c].session \in Sessions
      BY <2>1, RequestNames DEF IInv, TypeOK
    <2>3. QED
      BY <1>2, <2>1, <2>2, SpawnAlright
  <1>4. CASE RestartFails(c)
    <2> DEFINE s == request[c].session
    <2>1. /\ request[c].op = "restart" /\ UNCHANGED known
          /\ request' = [request EXCEPT ![c] = Idle]
          /\ \/ UNCHANGED <<machine, status, pid, process, botched, watched, lost>>
             \/ \E n : HalfSpawn(s, "Running", n) /\ pid' = [pid EXCEPT ![s] = n]
      BY <1>4, RestartFailsStep
    <2>2. s \in Sessions
      BY <2>1, RequestNames DEF IInv, TypeOK
    <2>3. CASE UNCHANGED <<machine, status, pid, process, botched, watched, lost>>
      BY <1>2, <2>1, <2>3 DEF StatusSteps
    <2>4. CASE \E n : HalfSpawn(s, "Running", n) /\ pid' = [pid EXCEPT ![s] = n]
      <3>1. PICK n : HalfSpawn(s, "Running", n) /\ pid' = [pid EXCEPT ![s] = n]
        BY <2>4
      <3>2. /\ status'[s] = "Running"
            /\ \A t \in Sessions : t # s => status'[t] = status[t] /\ pid'[t] = pid[t]
        BY <2>2, <3>1, HalfStep DEF IInv, TypeOK
      <3>3. StatusSteps
        BY <3>2 DEF StatusSteps, Alright
      <3>4. QED
        BY <1>2, <2>1, <3>3
    <2>5. QED
      BY <2>1, <2>3, <2>4
  <1>5. ASSUME NEW s \in Sessions, Create(c, s)
        PROVE  /\ StatusSteps /\ known' = known
               /\ \A d \in Clients : request'[d].op = "insert" =>
                    status'[request'[d].session] \in Alright
    <2>1. /\ Spawn(s) /\ UNCHANGED known
          /\ request' = [request EXCEPT ![c] = [op |-> "insert", session |-> s]]
      BY <1>5 DEF Create
    <2>2. StatusSteps /\ status'[s] \in Alright
      BY <2>1, SpawnAlright DEF Alright
    <2>3. \A d \in Clients : request'[d] = request[d] \/ request'[d].session = s
      <3>1. request'[c] = [op |-> "insert", session |-> s]
        BY <2>1, RequestStep
      <3>2. QED
        BY <2>1, <3>1, RequestStep
    <2>4. \A d \in Clients : request[d].op = "insert" =>
            request[d].session \in Sessions /\ status[request[d].session] \in Alright
      BY UsedInserts DEF CrashInv, StartedAlright
    <2>5. QED
      BY <2>1, <2>2, <2>3, <2>4 DEF StatusSteps
  <1>6. ASSUME NEW s \in Sessions,
               CreateFails(c, s) \/ RestartCheck(c, s) \/ Kill(c, s) \/ Remove(c, s)
        PROVE  /\ UNCHANGED <<status, pid>> /\ known' \subseteq known
               /\ \A d \in Clients : request'[d] = request[d] \/ request'[d].op = "restart"
    <2>1. /\ UNCHANGED <<status, pid>> /\ known' \subseteq known
          /\ \/ request' = request
             \/ request' = [request EXCEPT ![c] = [op |-> "restart", session |-> s]]
      BY <1>6 DEF CreateFails, RestartCheck, Kill, Remove, session
    <2>2. CASE request' = [request EXCEPT ![c] = [op |-> "restart", session |-> s]]
      <3>1. request'[c] = [op |-> "restart", session |-> s]
        BY <2>2, RequestStep
      <3>2. QED
        BY <2>1, <2>2, <3>1, RequestStep
    <2>3. QED
      BY <2>1, <2>2
  <1>7. ASSUME NEW s \in Sessions,
               CreateFails(c, s) \/ RestartCheck(c, s) \/ Kill(c, s) \/ Remove(c, s)
        PROVE  /\ StatusSteps /\ known' \subseteq known
               /\ \A d \in Clients : request'[d].op = "insert" =>
                    status'[request'[d].session] \in Alright
    BY <1>6, <1>7 DEF StatusSteps, CrashInv, StartedAlright
  <1>8. QED
    BY <1>1, <1>3, <1>4, <1>5, <1>7 DEF Client

LEMMA CrashClients ==
  ASSUME ~RacingRestart, IInv, CrashInv, NEW c \in Clients, Client(c)
  PROVE  CrashInv'
  <1>0. phase \notin {"down", "loading"}
    BY IdleOp DEF CrashInv, NothingBehind, Client, CreateInsert, RestartSpawn, RestartFails,
       Create, CreateFails, RestartCheck, Kill, Remove, Free, Up
  <1>1. UNCHANGED <<phase, disk, ended, saver>>
    BY DEF Client, CreateInsert, RestartSpawn, RestartFails,
       Create, CreateFails, RestartCheck, Kill, Remove, store
  <1>2. CleanMeansClean'
    BY <1>1 DEF CrashInv, CleanMeansClean
  <1>3. ASSUME NEW d \in Clients, request'[d].op = "restart"
        PROVE  request'[d] = request[d] \/ ~Stopping
    <2>1. CASE CreateInsert(c) \/ RestartSpawn(c) \/ RestartFails(c)
      <3>1. request' = [request EXCEPT ![c] = Idle]
        BY <2>1 DEF CreateInsert, RestartSpawn, RestartFails
      <3>2. QED
        BY <1>3, <3>1, RequestDone
    <2>2. ASSUME NEW s \in Sessions, CreateFails(c, s) \/ Kill(c, s) \/ Remove(c, s)
          PROVE  request'[d] = request[d]
      BY <2>2 DEF CreateFails, Kill, Remove
    <2>3. ASSUME NEW s \in Sessions, RestartCheck(c, s)
          PROVE  request'[d] = request[d] \/ ~Stopping
      BY <2>3 DEF RestartCheck
    <2>4. ASSUME NEW s \in Sessions, Create(c, s)
          PROVE  request'[d] = request[d]
      <3>1. request' = [request EXCEPT ![c] = [op |-> "insert", session |-> s]]
        BY <2>4 DEF Create
      <3>2. request'[c] = [op |-> "insert", session |-> s]
        BY <3>1, RequestStep
      <3>3. d # c
        BY <1>3, <3>2
      <3>4. QED
        BY <3>1, <3>3, RequestStep
    <2>5. QED
      BY <2>1, <2>2, <2>3, <2>4 DEF Client
  <1>4. NothingBehind'
    <2>1. Stopping' = Stopping
      BY <1>1 DEF Stopping
    <2>2. \A d \in Clients : Stopping => request'[d].op # "restart"
      BY <1>3 DEF CrashInv, NothingBehind
    <2>3. QED
      BY <1>0, <1>1, <2>1, <2>2 DEF CrashInv, NothingBehind
  <1>5. StartedAlright'
    BY <1>1, ClientTells, StatusKept DEF CrashInv, StartedAlright
  <1>6. CrashReported'
    <2>1. known \subseteq Sessions
      BY DEF IInv, TypeOK
    <2>2. QED
      BY <1>1, <2>1, ClientTells, ReportKept DEF CrashInv, StatusSteps
  <1>7. QED
    BY <1>2, <1>4, <1>5, <1>6 DEF CrashInv

LEMMA CrashProcesses ==
  ASSUME IInv, CrashInv, NEW p \in Procs, Process(p)
  PROVE  CrashInv'
  <1>1. UNCHANGED <<phase, disk, ended, saver, known, request>>
    BY DEF Process, ProcExit, ExitReap, ExitTake, ExitTell, GraceEnd, store, session
  <1>2. CleanMeansClean' /\ NothingBehind'
    BY <1>1 DEF CrashInv, CleanMeansClean, NothingBehind, Stopping
  <1>3. \A s \in Sessions : /\ status'[s] = status[s] \/ status'[s] = "Exited"
                            /\ pid'[s] = pid[s] \/ pid'[s] = None
    BY DEF Process, ProcExit, ExitReap, ExitTake, ExitTell, GraceEnd, session, IInv, TypeOK
  <1>4. known \subseteq Sessions
    BY DEF IInv, TypeOK
  <1>5. StartedAlright'
    <2>1. \A c \in Clients : request[c].op = "insert" => request[c].session \in Sessions
      BY UsedInserts
    <2>2. QED
      BY <1>1, <1>3, <2>1 DEF CrashInv, StartedAlright, Alright
  <1>6. CrashReported'
    BY <1>1, <1>3, <1>4, ReportKept DEF CrashInv, Alright
  <1>7. QED
    BY <1>2, <1>5, <1>6 DEF CrashInv

\* load: what ran and was not taken over is said to have been restored or to have
\* crashed, as state.json has it
LEMMA CrashLoad ==
  ASSUME IInv, StartedAlright, NEW masters, NEW failed, NEW kept,
         Load(masters, failed, kept), UNCHANGED disk,
         IF disk.clean THEN ended' = "clean" ELSE ended' = "crash" \/ disk.ids = {}
  PROVE  CrashInv'
  <1>1. /\ known' = disk.ids /\ phase' = "loading" /\ saver' = "wait"
        /\ status' = [s \in Sessions |->
             IF s \in ToRevive(masters, failed) THEN Revived ELSE disk.entry[s].status]
        /\ pid' = [s \in Sessions |->
             IF s \in ToRevive(masters, failed) THEN None ELSE disk.entry[s].pid]
        /\ request' = [c \in Clients |-> Idle]
    BY DEF Load
  <1>2. disk.ids \subseteq Sessions /\ \A s \in Sessions : disk.entry[s].status \in Statuses
    BY DEF IInv, TypeOK, Entries
  <1>3. \A s \in disk.ids : s \notin ToRevive(masters, failed) =>
          disk.entry[s].status \in Alright
    BY <1>2 DEF ToRevive, Adopted, WasRunning, Alright, StartedAlright
  <1>4. CrashReported'
    <2> SUFFICES ASSUME NEW s \in disk.ids
                 PROVE  /\ status'[s] = "Restored" => ended' = "clean"
                        /\ status'[s] = "Crashed" => ended' = "crash"
      BY <1>1 DEF CrashReported
    <2>1. CASE s \in ToRevive(masters, failed)
      <3>1. status'[s] = Revived
        BY <1>1, <1>2, <2>1
      <3>2. QED
        BY <3>1 DEF Revived
    <2>2. CASE s \notin ToRevive(masters, failed)
      BY <1>1, <1>2, <1>3, <2>2 DEF Alright
    <2>3. QED
      BY <2>1, <2>2
  <1>5. StartedAlright'
    <2>1. \A c \in Clients : request'[c].op # "insert"
      BY <1>1, IdleOp
    <2>2. \A s \in Sessions : pid'[s] # None => status'[s] \in Alright
      BY <1>1 DEF StartedAlright
    <2>3. QED
      BY <2>1, <2>2 DEF StartedAlright
  <1>6. CleanMeansClean' /\ NothingBehind'
    BY <1>1 DEF CleanMeansClean, NothingBehind, Stopping
  <1>7. QED
    BY <1>4, <1>5, <1>6 DEF CrashInv

\* save_state writes the pids with the statuses
LEMMA SavedAlright ==
  ASSUME IInv, StartedAlright, NEW b \in BOOLEAN, disk' = Saved(b)
  PROVE  /\ disk'.clean = b /\ disk'.ids = known
         /\ \A s \in Sessions : disk'.entry[s].pid # None => disk'.entry[s].status \in Alright
  <1>1. \A s \in Sessions :
          \/ disk'.entry[s].pid = None
          \/ disk'.entry[s].pid = pid[s] /\ disk'.entry[s].status = status[s]
    BY DEF Saved, NoEntry
  <1>2. QED
    BY <1>1 DEF Saved, StartedAlright

LEMMA CrashLife ==
  ASSUME ~LateWrites, ~RacingRestart, IInv, CrashInv, Life
  PROVE  CrashInv'
  <1>1. CASE Start
    BY <1>1, CrashLoad DEF Start, CrashInv, CleanMeansClean
  <1>2. CASE Exec
    <2>1. phase = "inherit" /\ ended' = "clean" /\ UNCHANGED disk
      BY <1>2 DEF Exec
    <2>2. \E masters, failed, kept : Load(masters, failed, kept)
      BY <1>2 DEF Exec
    <2>3. disk.clean /\ StartedAlright
      BY <2>1 DEF CrashInv, CleanMeansClean
    <2>4. QED
      BY <2>1, <2>2, <2>3, CrashLoad
  <1>3. CASE Quit \/ Crash
    <2>1. /\ known' = {}
          /\ phase' = "down" /\ \A c \in Clients : request'[c] = Idle
          /\ saver' = "wait" /\ UNCHANGED <<disk, status, pid>>
      BY <1>3 DEF Quit, Crash, Gone
    <2>2. CleanMeansClean'
      <3>1. CASE Quit
        BY <2>1, <3>1 DEF CrashInv, CleanMeansClean, Quit
      <3>2. CASE Crash
        <4>1. CASE phase = "loading"
          BY <2>1, <3>2, <4>1 DEF CrashInv, CleanMeansClean, Crash
        <4>2. CASE phase \in {"saved", "inherit", "ended"}
          BY <2>1, <3>2, <4>2 DEF CrashInv, CleanMeansClean, Crash
        <4>3. CASE phase \in {"serving", "stop", "handoff"}
          BY <2>1, <3>2, <4>3 DEF CrashInv, CleanMeansClean, Crash
        <4>4. QED
          BY <3>2, <4>1, <4>2, <4>3 DEF Crash, Up, IInv, TypeOK, Phases
      <3>3. QED
        BY <1>3, <3>1, <3>2
    <2>3. QED
      BY <2>1, <2>2, IdleOp DEF CrashInv, StartedAlright, NothingBehind,
         CrashReported, Stopping
  <1>4. CASE Serve
    <2>1. /\ phase = "loading" /\ phase' = "serving" /\ disk' = Saved(FALSE)
          /\ UNCHANGED <<pid, status, known, request, ended, saver>>
      BY <1>4 DEF Serve, session
    <2>2. /\ disk'.clean = FALSE
          /\ \A s \in Sessions : disk'.entry[s].pid # None => disk'.entry[s].status \in Alright
      BY <2>1, SavedAlright DEF CrashInv
    <2>3. QED
      BY <2>1, <2>2 DEF CrashInv, StartedAlright, CleanMeansClean, NothingBehind,
         CrashReported, Stopping
  <1>5. CASE StopBegin("stop") \/ StopBegin("handoff")
    <2>1. /\ phase = "serving" /\ phase' \in {"stop", "handoff"} /\ saver # "write"
          /\ \A c \in Clients : request[c].op # "restart"
          /\ UNCHANGED <<pid, status, known, request, ended, saver, disk>>
      BY <1>5 DEF StopBegin, session, store
    <2>2. QED
      BY <2>1 DEF CrashInv, StartedAlright, CleanMeansClean, NothingBehind,
         CrashReported, Stopping
  <1>6. CASE Persist
    <2>1. /\ phase \in {"stop", "handoff"} /\ phase' \in {"saved", "inherit"}
          /\ disk' = Saved(TRUE)
          /\ UNCHANGED <<pid, status, known, request, ended, saver>>
      BY <1>6 DEF Persist, session
    <2>2. /\ disk'.clean = TRUE
          /\ \A s \in Sessions : disk'.entry[s].pid # None => disk'.entry[s].status \in Alright
      BY <2>1, SavedAlright DEF CrashInv
    <2>3. QED
      BY <2>1, <2>2 DEF CrashInv, StartedAlright, CleanMeansClean, NothingBehind,
         CrashReported, Stopping
  <1>7. CASE HangUpAll
    <2>1. /\ phase \in {"saved", "inherit"} /\ phase' = "ended"
          /\ UNCHANGED <<pid, status, known, request, ended, saver, disk>>
      BY <1>7 DEF HangUpAll, session, store
    <2>2. QED
      BY <2>1 DEF CrashInv, StartedAlright, CleanMeansClean, NothingBehind,
         CrashReported, Stopping
  <1>8. ASSUME NEW s \in Sessions, Revive(s)
        PROVE  CrashInv'
    <2>1. phase = "loading" /\ UNCHANGED <<known, request, ended, saver, disk, phase>>
      BY <1>8 DEF Revive, store
    <2>2. StatusSteps
      <3>1. CASE Spawn(s)
        BY <3>1, SpawnAlright
      <3>2. CASE /\ \E n \in FreePids : HalfSpawn(s, status[s], n)
                 /\ pid' = [pid EXCEPT ![s] = None]
        <4>1. \A t \in Sessions : status'[t] = status[t]
          BY <3>2, HalfStep
        <4>2. \A t \in Sessions : pid'[t] \in {pid[t], None}
          BY <3>2 DEF IInv, TypeOK
        <4>3. QED
          BY <4>1, <4>2 DEF StatusSteps
      <3>3. CASE UNCHANGED <<machine, status, pid, process, botched, watched, lost>>
        BY <3>3 DEF StatusSteps
      <3>4. QED
        BY <1>8, <3>1, <3>2, <3>3 DEF Revive
    <2>3. known \subseteq Sessions
      BY DEF IInv, TypeOK
    <2>4. CrashReported'
      BY <2>1, <2>2, <2>3, ReportKept DEF CrashInv, StatusSteps
    <2>5. \A c \in Clients : request'[c].op # "insert"
      BY <2>1, IdleOp DEF CrashInv, NothingBehind
    <2>6. StartedAlright'
      BY <2>1, <2>2, <2>5, StatusKept DEF CrashInv, StartedAlright
    <2>7. QED
      BY <2>1, <2>4, <2>6 DEF CrashInv, CleanMeansClean, NothingBehind, Stopping
  <1>9. QED
    BY <1>1, <1>2, <1>3, <1>4, <1>5, <1>6, <1>7, <1>8 DEF Life

LEMMA CrashStep ==
  ASSUME ~LateWrites, ~RacingRestart, IInv, CrashInv, [Next]_vars
  PROVE  CrashInv'
  <1>1. CASE ForeignStart \/ SaverWake \/ SaverCheck \/ UNCHANGED vars \/
             \E s \in Sessions : SnapshotDue(s) \/ SnapshotWrite(s)
    <2>1. UNCHANGED <<pid, status, known, request, ended, disk, phase>>
      BY <1>1 DEF ForeignStart, SaverWake, SaverCheck, SnapshotDue, SnapshotWrite, vars,
         session, store
    <2>2. \/ saver' = saver
          \/ phase \notin {"down", "loading"} /\ saver' = "debounce"
          \/ saver = "debounce" /\ saver' # "write"
          \/ saver = "debounce" /\ ~Stopping
      BY <1>1 DEF ForeignStart, SaverWake, SaverCheck, SnapshotDue, SnapshotWrite, vars, store
    <2>3. NothingBehind'
      BY <2>1, <2>2 DEF CrashInv, NothingBehind, Stopping
    <2>4. QED
      BY <2>1, <2>3 DEF CrashInv, StartedAlright, CleanMeansClean, CrashReported
  <1>2. CASE SaverWrite
    <2>1. /\ saver = "write" /\ saver' = "wait" /\ disk' = Saved(FALSE)
          /\ UNCHANGED <<pid, status, known, request, ended, phase>>
      BY <1>2 DEF SaverWrite, session
    <2>2. phase = "serving"
      BY <2>1 DEF CrashInv, NothingBehind, Stopping, IInv, TypeOK, Phases
    <2>3. /\ disk'.clean = FALSE
          /\ \A s \in Sessions : disk'.entry[s].pid # None => disk'.entry[s].status \in Alright
      BY <2>1, SavedAlright DEF CrashInv
    <2>4. QED
      BY <2>1, <2>2, <2>3 DEF CrashInv, StartedAlright, CleanMeansClean, NothingBehind,
         CrashReported, Stopping
  <1>3. CASE Storage
    BY <1>1, <1>2, <1>3 DEF Storage
  <1>4. QED
    BY <1>1, <1>3, CrashClients, CrashProcesses, CrashLife DEF Next

\* "False while a daemon runs; still false on the next start means it crashed"
\* (State.clean_shutdown), when no write of state.json and no restart is overtaken by
\* the stop (LateWrites, RacingRestart): a session listed as restored was stopped, one
\* listed as crashed lost its daemon, however often the daemon starts, serves, is
\* stopped, crashes at any step or hands over
THEOREM CrashesReported ==
  ASSUME ~LateWrites, ~RacingRestart
  PROVE  Spec => []CrashReported
  <1>1. Init => CrashInv
    BY IdleOp DEF Init, CrashInv, StartedAlright, CleanMeansClean, NothingBehind,
       CrashReported, EmptyDisk, NoEntry, Stopping
  <1>2. IInv /\ CrashInv /\ [Next]_vars => CrashInv'
    BY CrashStep
  <1>3. CrashInv => CrashReported
    BY DEF CrashInv
  <1>4. QED
    BY <1>1, <1>2, <1>3, OwnershipInvariant, PTL DEF Spec

-----------------------------------------------------------------------------
(* The list agrees with the processes *)

\* A session whose exits were all told is started
LEMMA SpawnListed ==
  ASSUME IInv, ListInv, NEW s \in Sessions, Spawn(s), UNCHANGED <<exiting, known, phase>>,
         \A p \in exiting : owner[p] # s
  PROVE  HeldIsRunning' /\ RunningIsHeld' /\ ExitingFirst' /\ WatchedWhole'
  <1> DEFINE q == born + 1
  <1>1. /\ q # None
        /\ process'[s] = q /\ status'[s] = "Running" /\ pid'[s] = pidOf'[q]
        /\ owner'[q] = s
        /\ \A t \in Sessions : t # s =>
             process'[t] = process[t] /\ status'[t] = status[t] /\ pid'[t] = pid[t]
        /\ \A p \in 1..born : owner'[p] = owner[p] /\ pidOf'[p] = pidOf[p]
        /\ watched' = watched \cup {q} /\ botched' = botched \ {s}
    BY SpawnStep
  <1>2. exiting \subseteq 1..born /\ watched \subseteq 1..born /\ known \subseteq Sessions
    BY DEF IInv, TypeOK
  <1>3. \A p \in exiting : owner[p] \in Sessions
    BY DEF IInv, TypeOK, WatchedOwned
  <1>4. HeldIsRunning'
    <2> SUFFICES ASSUME NEW t \in Sessions, process'[t] # None
                 PROVE  \/ status'[t] = "Running" /\ pid'[t] = pidOf'[process'[t]]
                        \/ t \in botched' /\ pid'[t] = None
      BY DEF HeldIsRunning
    <2>1. CASE t = s
      BY <1>1, <2>1
    <2>2. CASE t # s
      <3>1. process[t] # None /\ process'[t] = process[t] /\ process[t] \in 1..born
        BY <1>1, <2>2 DEF IInv, ProcessOwned
      <3>2. QED
        BY <1>1, <2>2, <3>1 DEF ListInv, HeldIsRunning
    <2>3. QED
      BY <2>1, <2>2
  <1>5. RunningIsHeld'
    BY <1>1, <1>2 DEF ListInv, RunningIsHeld, Stopping
  <1>6. ExitingFirst'
    BY <1>1, <1>2, <1>3 DEF ListInv, ExitingFirst
  <1>7. WatchedWhole'
    BY <1>1, <1>2 DEF ListInv, WatchedWhole
  <1>8. QED
    BY <1>4, <1>5, <1>6, <1>7

\* One whose start breaks off, of which nobody waits for a process, gets the
\* pid of the process it keeps, or none
LEMMA HalfListed ==
  ASSUME IInv, ListInv, NEW s \in Sessions, NEW told, NEW n, HalfSpawn(s, told, n),
         UNCHANGED <<exiting, known, phase>>,
         \A p \in watched : owner[p] # s,
         \/ told = "Running" /\ pid' = [pid EXCEPT ![s] = n] /\ process[s] = None
         \/ pid' = [pid EXCEPT ![s] = None]
  PROVE  HeldIsRunning' /\ RunningIsHeld' /\ ExitingFirst' /\ WatchedWhole'
  <1> DEFINE q == born + 1
  <1>1. /\ process'[s] \in {process[s], q} /\ status'[s] = told
        /\ pidOf'[q] = n /\ q # None
        /\ \A t \in Sessions : t # s =>
             process'[t] = process[t] /\ status'[t] = status[t]
        /\ \A p \in 1..born : owner'[p] = owner[p] /\ pidOf'[p] = pidOf[p]
        /\ watched' = watched /\ botched' = botched \cup {s}
    BY HalfStep
  <1>2. /\ \A t \in Sessions : t # s => pid'[t] = pid[t]
        /\ \/ told = "Running" /\ pid'[s] = n /\ process[s] = None
           \/ pid'[s] = None
    BY DEF IInv, TypeOK
  <1>3. exiting \subseteq watched /\ watched \subseteq 1..born /\ known \subseteq Sessions
    BY DEF IInv, TypeOK
  <1>4. \A p \in exiting : owner[p] \in Sessions /\ owner[p] # s
    BY <1>3 DEF IInv, WatchedOwned
  <1>5. HeldIsRunning'
    <2> SUFFICES ASSUME NEW t \in Sessions, process'[t] # None
                 PROVE  \/ status'[t] = "Running" /\ pid'[t] = pidOf'[process'[t]]
                        \/ t \in botched' /\ pid'[t] = None
      BY DEF HeldIsRunning
    <2>1. CASE t = s
      BY <1>1, <1>2, <2>1
    <2>2. CASE t # s
      <3>1. process[t] # None /\ process'[t] = process[t] /\ process[t] \in 1..born
        BY <1>1, <2>2 DEF IInv, ProcessOwned
      <3>2. QED
        BY <1>1, <1>2, <2>2, <3>1 DEF ListInv, HeldIsRunning
    <2>3. QED
      BY <2>1, <2>2
  <1>6. RunningIsHeld'
    BY <1>1, <1>3, <1>4 DEF ListInv, RunningIsHeld, Stopping
  <1>7. ExitingFirst'
    BY <1>1, <1>3, <1>4 DEF ListInv, ExitingFirst
  <1>8. WatchedWhole'
    BY <1>1, <1>3 DEF ListInv, WatchedWhole
  <1>9. QED
    BY <1>5, <1>6, <1>7, <1>8

\* A session that can be restarted has no process that is waited for
LEMMA ToldAlone ==
  ASSUME IInv, OneInv, ListInv, NEW s \in Sessions, process[s] = None, ToldOfExit(s)
  PROVE  \A p \in watched : owner[p] # s
  <1>1. \A p \in watched \ exiting : owner[p] # s
    BY NoneWatched
  <1>2. ASSUME NEW p \in exiting, owner[p] = s
        PROVE  FALSE
    <2>1. status[s] = "Running" /\ p \in watched
      BY <1>2 DEF ListInv, ExitingFirst, IInv, TypeOK
    <2>2. s \notin botched
      BY <1>2, <2>1 DEF ListInv, WatchedWhole
    <2>3. QED
      BY <2>1, <2>2 DEF ToldOfExit
  <1>3. QED
    BY <1>1, <1>2

\* A restart is done with: the others' sessions are told of, or held, as before
LEMMA RestartedTold ==
  ASSUME RestartsApart, IInv, ListInv, NEW c \in Clients, request[c].op = "restart",
         request' = [request EXCEPT ![c] = Idle], UNCHANGED <<reviving, phase>>,
         phase # "loading", \A t \in Sessions : t # request[c].session =>
           /\ process'[t] = process[t] /\ status'[t] = status[t]
           /\ t \in botched => t \in botched',
         process'[request[c].session] # None \/ process' = process
  PROVE  StartsTold'
  <1> DEFINE s == request[c].session
  <1>1. \A d \in Clients : request'[d].op = "idle" \/ (d # c /\ request'[d] = request[d])
    BY RequestDone
  <1>2. ASSUME NEW d \in Clients, request'[d] = request[d], d # c
        PROVE  /\ request'[d].op = "restart" =>
                    ~Stopping' /\ ToldOfExit(request[d].session)'
               /\ request'[d].op = "insert" => process'[request'[d].session] # None
    <2>1. CASE request[d].op = "restart"
      <3>1. /\ request[d].session \in Sessions \ {s}
            /\ ~Stopping /\ ToldOfExit(request[d].session)
        BY <1>2, <2>1, RequestNames DEF RestartsApart, ListInv, StartsTold, IInv, TypeOK
      <3>2. QED
        BY <1>2, <2>1, <3>1 DEF Stopping, ToldOfExit
    <2>2. CASE request[d].op = "insert"
      <3>1. request[d].session \in Sessions /\ process[request[d].session] # None
        BY <2>2, UsedInserts DEF ListInv, StartsTold
      <3>2. QED
        BY <1>2, <2>2, <3>1
    <2>3. QED
      BY <1>2, <2>1, <2>2
  <1>3. reviving' = {}
    BY DEF IInv, IdsUsed
  <1>4. QED
    BY <1>1, <1>2, <1>3 DEF StartsTold, ToldOfExit

\* A step that changes neither what sessions have nor what is listed of them
LEMMA ListKept ==
  ASSUME IInv, ListInv,
         UNCHANGED <<process, exiting, watched, botched, status, pid, phase, disk>>,
         \A p \in 1..born : owner'[p] = owner[p] /\ pidOf'[p] = pidOf[p],
         known' \subseteq known
  PROVE  HeldIsRunning' /\ RunningIsHeld' /\ ExitingFirst' /\ WatchedWhole' /\ HandedIsHeld'
  <1>1. exiting \subseteq watched /\ watched \subseteq 1..born
    BY DEF IInv, TypeOK
  <1>2. \A s \in Sessions : process[s] # None => process[s] \in 1..born
    BY DEF IInv, ProcessOwned
  <1>3. HeldIsRunning'
    BY <1>2 DEF ListInv, HeldIsRunning
  <1>4. RunningIsHeld' /\ ExitingFirst' /\ WatchedWhole'
    BY <1>1 DEF ListInv, RunningIsHeld, ExitingFirst, WatchedWhole, Stopping
  <1>5. HandedIsHeld'
    BY <1>2 DEF ListInv, HandedIsHeld, IInv, TypeOK
  <1>6. QED
    BY <1>3, <1>4, <1>5

LEMMA ListClients ==
  ASSUME RestartsApart, ~RacingRestart, IInv, OneInv, ListInv, NEW c \in Clients, Client(c)
  PROVE  ListInv'
  <1>1. CASE CreateInsert(c)
    <2> DEFINE s == request[c].session
    <2>1. /\ request[c].op = "insert" /\ known' = known \cup {s}
          /\ request' = [request EXCEPT ![c] = Idle]
          /\ UNCHANGED <<process, exiting, watched, botched, owner, pidOf, status, pid,
                         reviving, phase, disk>>
      BY <1>1 DEF CreateInsert, machine
    <2>2. process[s] # None
      BY <2>1 DEF ListInv, StartsTold
    <2>3. \A d \in Clients : request'[d].op = "idle" \/ request'[d] = request[d]
      BY <2>1, RequestDone
    <2>4. StartsTold'
      BY <2>1, <2>3 DEF ListInv, StartsTold, Stopping, ToldOfExit
    <2>5. RunningIsHeld'
      BY <2>1, <2>2 DEF ListInv, RunningIsHeld, Stopping
    <2>6. QED
      BY <2>1, <2>4, <2>5 DEF ListInv, HeldIsRunning, ExitingFirst, WatchedWhole, HandedIsHeld
  <1>2. ASSUME NEW s \in Sessions, Kill(c, s) \/ Remove(c, s) \/ CreateFails(c, s)
        PROVE  ListInv'
    <2>1. /\ known' \subseteq known
          /\ UNCHANGED <<process, exiting, watched, botched, status, pid, reviving, phase,
                         disk, request>>
          /\ UNCHANGED <<owner, pidOf>> \/ \E n : Fork(s, n)
      BY <1>2 DEF Kill, Remove, CreateFails, store
    <2>2. \A p \in 1..born : owner'[p] = owner[p] /\ pidOf'[p] = pidOf[p]
      BY <2>1, ForkFresh DEF IInv
    <2>3. StartsTold'
      BY <2>1 DEF ListInv, StartsTold, Stopping, ToldOfExit
    <2>4. QED
      BY <2>1, <2>2, <2>3, ListKept DEF ListInv
  <1>3. ASSUME request[c].op = "restart"
        PROVE  LET s == request[c].session
               IN  /\ s \in Sessions /\ phase # "inherit" /\ phase # "loading"
                   /\ process[s] = None /\ \A p \in watched : owner[p] # s
    <2> DEFINE s == request[c].session
    <2>1. s \in Sessions
      BY <1>3, RequestNames DEF IInv, TypeOK
    <2>2. /\ ToldOfExit(s) /\ phase # "inherit" /\ phase # "loading"
          /\ process[s] = None
      BY <1>3, IdleOp DEF ListInv, StartsTold, Stopping, OneInv, NoneToStart
    <2>3. \A p \in watched : owner[p] # s
      BY <2>1, <2>2, ToldAlone
    <2>4. QED
      BY <2>1, <2>2, <2>3
  <1>4. CASE RestartSpawn(c)
    <2> DEFINE s == request[c].session
    <2>1. /\ request[c].op = "restart" /\ Spawn(s) /\ request' = [request EXCEPT ![c] = Idle]
          /\ UNCHANGED <<known, exiting, reviving, phase>>
      BY <1>4 DEF RestartSpawn
    <2>2. /\ s \in Sessions /\ phase # "inherit" /\ phase # "loading"
          /\ \A p \in exiting : owner[p] # s
      BY <1>3, <2>1 DEF IInv, TypeOK
    <2>3. HeldIsRunning' /\ RunningIsHeld' /\ ExitingFirst' /\ WatchedWhole'
      BY <2>1, <2>2, SpawnListed
    <2>4. /\ process'[s] # None
          /\ \A t \in Sessions : t # s =>
               /\ process'[t] = process[t] /\ status'[t] = status[t]
               /\ t \in botched => t \in botched'
      BY <2>1, <2>2, SpawnStep
    <2>5. StartsTold'
      BY <2>1, <2>2, <2>4, RestartedTold
    <2>6. QED
      BY <2>1, <2>2, <2>3, <2>5 DEF ListInv, HandedIsHeld
  <1>5. CASE RestartFails(c)
    <2> DEFINE s == request[c].session
    <2>1. /\ request[c].op = "restart" /\ request' = [request EXCEPT ![c] = Idle]
          /\ UNCHANGED <<known, used, reaped, exiting, reviving, phase, disk>>
          /\ \/ UNCHANGED <<machine, status, pid, process, botched, watched, lost>>
             \/ \E n : HalfSpawn(s, "Running", n) /\ pid' = [pid EXCEPT ![s] = n]
      BY <1>5, RestartFailsStep DEF store
    <2>2. /\ s \in Sessions /\ phase # "inherit" /\ phase # "loading"
          /\ process[s] = None /\ \A p \in watched : owner[p] # s
      BY <1>3, <2>1
    <2>3. CASE UNCHANGED <<machine, status, pid, process, botched, watched, lost>>
      <3>1. StartsTold'
        BY <2>1, <2>2, <2>3, RestartedTold
      <3>2. QED
        BY <2>1, <2>3, <3>1, ListKept DEF ListInv, machine
    <2>4. CASE \E n : HalfSpawn(s, "Running", n) /\ pid' = [pid EXCEPT ![s] = n]
      <3>1. PICK n : HalfSpawn(s, "Running", n) /\ pid' = [pid EXCEPT ![s] = n]
        BY <2>4
      <3>2. HeldIsRunning' /\ RunningIsHeld' /\ ExitingFirst' /\ WatchedWhole'
        BY <2>1, <2>2, <3>1, HalfListed
      <3>3. \A t \in Sessions : t # s =>
              /\ process'[t] = process[t] /\ status'[t] = status[t]
              /\ t \in botched => t \in botched'
        BY <2>2, <3>1, HalfStep
      <3>4. process'[s] # None \/ process' = process
        <4>1. process' \in {process, [process EXCEPT ![s] = born + 1]}
          BY <3>1 DEF HalfSpawn
        <4>2. born + 1 # None
          BY <2>2, <3>1, HalfStep
        <4>3. QED
          BY <2>2, <4>1, <4>2 DEF IInv, TypeOK
      <3>5. StartsTold'
        BY <2>1, <2>2, <3>3, <3>4, RestartedTold
      <3>6. QED
        BY <2>1, <2>2, <3>2, <3>5 DEF ListInv, HandedIsHeld
    <2>5. QED
      BY <2>1, <2>3, <2>4
  <1>6. ASSUME NEW s \in Sessions, Create(c, s)
        PROVE  ListInv'
    <2>1. /\ phase # "loading" /\ s \notin used /\ Spawn(s)
          /\ request' = [request EXCEPT ![c] = [op |-> "insert", session |-> s]]
          /\ UNCHANGED <<known, exiting, reviving, phase, disk>>
      BY <1>6 DEF Create, Free, store
    <2>2. \A p \in exiting : owner[p] # s
      BY <2>1 DEF OneInv, OwnersUsed, IInv, TypeOK
    <2>3. HeldIsRunning' /\ RunningIsHeld' /\ ExitingFirst' /\ WatchedWhole'
      BY <2>1, <2>2, SpawnListed
    <2>4. /\ process'[s] # None
          /\ \A t \in Sessions : t # s =>
               /\ process'[t] = process[t] /\ status'[t] = status[t]
               /\ t \in botched => t \in botched'
          /\ \A p \in 1..born : pidOf'[p] = pidOf[p]
      BY <2>1, SpawnStep
    <2>5. ASSUME NEW d \in Clients
          PROVE  /\ request'[d].op = "restart" =>
                      ~Stopping' /\ ToldOfExit(request[d].session)'
                 /\ request'[d].op = "insert" => process'[request'[d].session] # None
      <3>1. request'[c] = [op |-> "insert", session |-> s]
        BY <2>1, RequestStep
      <3>2. CASE d = c
        BY <2>4, <3>1, <3>2
      <3>3. CASE d # c
        <4>1. request'[d] = request[d]
          BY <2>1, <3>3, RequestStep
        <4>2. CASE request[d].op = "restart"
          <5>1. /\ request[d].session \in Sessions \ {s}
                /\ ~Stopping /\ ToldOfExit(request[d].session)
            BY <2>1, <4>2, RequestNames DEF ListInv, StartsTold, OneInv, NoneToStart, IInv, TypeOK
          <5>2. QED
            BY <2>1, <2>4, <4>1, <4>2, <5>1 DEF Stopping, ToldOfExit
        <4>3. CASE request[d].op = "insert"
          <5>1. request[d].session \in Sessions /\ process[request[d].session] # None
            BY <4>3, UsedInserts DEF ListInv, StartsTold
          <5>2. QED
            BY <2>4, <4>1, <4>3, <5>1
        <4>4. QED
          BY <4>1, <4>2, <4>3
      <3>4. QED
        BY <3>2, <3>3
    <2>6. StartsTold'
      BY <2>1, <2>5 DEF IInv, IdsUsed, StartsTold, ToldOfExit
    <2>7. HandedIsHeld'
      <3>1. s \notin disk.ids /\ disk.ids \subseteq Sessions
        BY <2>1 DEF IInv, IdsUsed, TypeOK
      <3>2. \A t \in disk.ids : process'[t] = process[t]
        BY <2>4, <3>1
      <3>3. \A t \in disk.ids : process[t] # None => pidOf'[process[t]] = pidOf[process[t]]
        BY <2>4, <3>1 DEF IInv, ProcessOwned
      <3>4. QED
        BY <2>1, <3>2, <3>3 DEF ListInv, HandedIsHeld
    <2>8. QED
      BY <2>3, <2>6, <2>7 DEF ListInv
  <1>7. ASSUME NEW s \in Sessions, RestartCheck(c, s)
        PROVE  ListInv'
    <2>1. /\ phase # "loading" /\ ToldOfExit(s) /\ ~Stopping
          /\ request' = [request EXCEPT ![c] = [op |-> "restart", session |-> s]]
          /\ UNCHANGED <<known, process, exiting, watched, botched, owner, pidOf, status, pid,
                         reviving, phase, disk>>
      BY <1>7 DEF RestartCheck, Free, machine, session, store
    <2>2. \A d \in Clients :
            \/ request'[d] = request[d]
            \/ request'[d].op = "restart" /\ request'[d].session = s
      <3>1. request'[c] = [op |-> "restart", session |-> s]
        BY <2>1, RequestStep
      <3>2. QED
        BY <2>1, <3>1, RequestStep
    <2>3. StartsTold'
      BY <2>1, <2>2 DEF ListInv, StartsTold, Stopping, ToldOfExit
    <2>4. QED
      BY <2>1, <2>3, ListKept DEF ListInv
  <1>8. QED
    BY <1>1, <1>2, <1>4, <1>5, <1>6, <1>7 DEF Client

LEMMA ListProcesses ==
  ASSUME ~FastExit, IInv, OneInv, ListInv, NEW p \in Procs, Process(p)
  PROVE  ListInv'
  <1>1. CASE ProcExit(p) \/ ExitReap(p) \/ GraceEnd(p)
    <2>1. UNCHANGED <<known, process, exiting, watched, botched, owner, pidOf, status, pid,
                      reviving, phase, request, disk>>
      BY <1>1 DEF ProcExit, ExitReap, GraceEnd, machine, session, store
    <2>2. StartsTold'
      BY <2>1 DEF ListInv, StartsTold, Stopping, ToldOfExit
    <2>3. QED
      BY <2>1, <2>2, ListKept DEF ListInv
  <1>2. CASE ExitTake(p)
    <2> DEFINE s == owner[p]
               goesOn == ~Stopping /\ s \in known
    <2>1. /\ p \in watched \ exiting
          /\ \A c \in Clients : request[c] # [op |-> "insert", session |-> s]
          /\ process' = [process EXCEPT ![s] = None]
          /\ exiting' = IF goesOn THEN exiting \cup {p} ELSE exiting
          /\ watched' \subseteq watched
          /\ UNCHANGED <<known, owner, pidOf, status, pid, botched, reviving, phase, request,
                         disk>>
      BY <1>2 DEF ExitTake, machine, store, IInv, TypeOK
    <2>2. s \in Sessions /\ process[s] = p /\ p # None /\ s \notin botched
      BY <2>1 DEF OneInv, WatchedIsHeld, IInv, WatchedOwned, TypeOK, None, ListInv, WatchedWhole
    <2>3. process'[s] = None /\ \A t \in Sessions : t # s => process'[t] = process[t]
      BY <2>1, <2>2 DEF IInv, TypeOK
    <2>4. status[s] = "Running"
      BY <2>2 DEF ListInv, HeldIsRunning
    <2>5. \A t \in Sessions : process'[t] # None => process'[t] = process[t]
      BY <2>3
    <2>6. HeldIsRunning'
      BY <2>1, <2>5 DEF ListInv, HeldIsRunning
    <2>7. RunningIsHeld'
      <3> SUFFICES ASSUME ~Stopping, NEW t \in known \ botched, status[t] = "Running"
                   PROVE  process'[t] # None \/ \E r \in exiting' : owner[r] = t
        BY <2>1 DEF RunningIsHeld, Stopping
      <3>1. CASE t = s
        BY <2>1, <3>1
      <3>2. CASE t # s
        <4>1. process'[t] = process[t] /\ exiting \subseteq exiting'
          BY <2>1, <2>3, <3>2 DEF IInv, TypeOK
        <4>2. QED
          BY <4>1 DEF ListInv, RunningIsHeld
      <3>3. QED
        BY <3>1, <3>2
    <2>8. ExitingFirst'
      <3>1. \A r \in exiting : owner[r] # s /\ owner[r] \in Sessions
        BY <2>2 DEF ListInv, ExitingFirst, IInv, TypeOK, WatchedOwned
      <3>2. QED
        BY <2>1, <2>3, <2>4, <3>1 DEF ListInv, ExitingFirst
    <2>9. StartsTold'
      <3>1. ASSUME NEW c \in Clients, request[c].op = "insert"
            PROVE  request[c].session \in Sessions \ {s}
        <4>1. request[c] \in [op : {"insert", "restart"}, session : Sessions]
          <5>1. request[c] \in Requests /\ request[c] # Idle
            BY <3>1, IdleOp DEF IInv, TypeOK
          <5>2. QED
            BY <5>1 DEF Requests
        <4>2. request[c] = [op |-> "insert", session |-> request[c].session]
          BY <3>1, <4>1
        <4>3. QED
          BY <2>1, <4>1, <4>2
      <3>2. QED
        BY <2>1, <2>3, <3>1 DEF ListInv, StartsTold, Stopping, ToldOfExit
    <2>10. HandedIsHeld'
      BY <2>1, <2>5 DEF ListInv, HandedIsHeld, IInv, TypeOK
    <2>11. WatchedWhole'
      BY <2>1 DEF ListInv, WatchedWhole
    <2>12. QED
      BY <2>6, <2>7, <2>8, <2>9, <2>10, <2>11 DEF ListInv
  <1>3. CASE ExitTell(p)
    <2> DEFINE s == owner[p]
    <2>1. /\ p \in exiting /\ exiting' = exiting \ {p} /\ watched' \subseteq watched
          /\ status' = [status EXCEPT ![s] = "Exited"]
          /\ pid' = [pid EXCEPT ![s] = None]
          /\ UNCHANGED <<known, process, owner, pidOf, botched, reviving, phase, request, disk>>
      BY <1>3 DEF ExitTell, machine
    <2>2. s \in Sessions /\ process[s] = None /\ \A r \in exiting' : owner[r] # s
      BY <2>1 DEF ListInv, ExitingFirst, IInv, TypeOK, WatchedOwned
    <2>3. /\ status'[s] = "Exited"
          /\ \A t \in Sessions : t # s => status'[t] = status[t] /\ pid'[t] = pid[t]
      BY <2>1, <2>2 DEF IInv, TypeOK
    <2>4. HeldIsRunning'
      BY <2>1, <2>2, <2>3 DEF ListInv, HeldIsRunning
    <2>5. RunningIsHeld'
      <3> SUFFICES ASSUME ~Stopping, NEW t \in known \ botched, status'[t] = "Running"
                   PROVE  process[t] # None \/ \E r \in exiting' : owner[r] = t
        BY <2>1 DEF RunningIsHeld, Stopping
      <3>1. t \in Sessions /\ t # s /\ status[t] = "Running"
        BY <2>3 DEF IInv, TypeOK
      <3>2. process[t] # None \/ \E r \in exiting : owner[r] = t
        BY <3>1 DEF ListInv, RunningIsHeld
      <3>3. QED
        BY <2>1, <3>1, <3>2
    <2>6. ExitingFirst'
      BY <2>1, <2>2, <2>3 DEF ListInv, ExitingFirst, IInv, TypeOK, WatchedOwned
    <2>7. StartsTold'
      <3>1. \A t \in Sessions : status[t] # "Running" => status'[t] # "Running"
        BY <2>3
      <3>2. reviving \subseteq Sessions
        BY DEF IInv, TypeOK
      <3>3. \A c \in Clients : request[c].op = "restart" => request[c].session \in Sessions
        BY RequestNames DEF IInv, TypeOK
      <3>4. QED
        BY <2>1, <3>1, <3>2, <3>3 DEF ListInv, StartsTold, Stopping, ToldOfExit
    <2>8. WatchedWhole'
      BY <2>1 DEF ListInv, WatchedWhole
    <2>9. QED
      BY <2>1, <2>4, <2>5, <2>6, <2>7, <2>8 DEF ListInv, HandedIsHeld
  <1>4. QED
    BY <1>1, <1>2, <1>3 DEF Process

\* load: what is taken over runs as state.json says, and nothing else is listed as
\* running
LEMMA ListLoad ==
  ASSUME IInv, NEW masters, NEW failed, NEW kept, Load(masters, failed, kept),
         failed \subseteq Adopted(masters), kept \subseteq failed,
         UNCHANGED <<owner, pidOf, disk>>,
         \A s \in masters \cap disk.ids : process[s] # None,
         \A s \in masters \cap disk.ids : disk.entry[s].pid # None =>
           disk.entry[s].status = "Running" /\ disk.entry[s].pid = pidOf[process[s]]
  PROVE  ListInv'
  <1> DEFINE taken == Adopted(masters) \ failed
  <1>1. /\ known' = disk.ids /\ phase' = "loading" /\ exiting' = {}
        /\ status' = [s \in Sessions |->
             IF s \in ToRevive(masters, failed) THEN Revived ELSE disk.entry[s].status]
        /\ pid' = [s \in Sessions |->
             IF s \in ToRevive(masters, failed) THEN None ELSE disk.entry[s].pid]
        /\ process' = [s \in Sessions |->
             IF s \in taken \cup kept THEN process[s] ELSE None]
        /\ watched' = {process[s] : s \in taken}
        /\ botched' = kept
        /\ reviving' = ToRevive(masters, failed) \ Routines
        /\ \A c \in Clients : request'[c].op = "idle"
    BY IdleOp DEF Load
  <1>2. disk.ids \subseteq Sessions
    BY DEF IInv, TypeOK
  <1>3. /\ \A s \in taken : /\ s \in masters \cap disk.ids /\ disk.entry[s].pid # None
                            /\ s \notin ToRevive(masters, failed) /\ s \notin kept
        /\ \A s \in kept : s \in ToRevive(masters, failed)
    BY DEF Adopted, ToRevive
  <1>4. Revived # "Running"
    BY DEF Revived
  <1>5. HeldIsRunning'
    <2> SUFFICES ASSUME NEW s \in Sessions, process'[s] # None
                 PROVE  \/ status'[s] = "Running" /\ pid'[s] = pidOf'[process'[s]]
                        \/ s \in botched' /\ pid'[s] = None
      BY DEF HeldIsRunning
    <2>1. CASE s \in taken
      BY <1>1, <1>3, <2>1
    <2>2. CASE s \in kept
      BY <1>1, <1>3, <2>2
    <2>3. QED
      BY <1>1, <2>1, <2>2
  <1>6. RunningIsHeld'
    <2> SUFFICES ASSUME NEW s \in disk.ids, status'[s] = "Running"
                 PROVE  process'[s] # None
      BY <1>1 DEF RunningIsHeld
    <2>1. s \notin ToRevive(masters, failed) /\ WasRunning(disk.entry[s])
      BY <1>1, <1>2, <1>4 DEF WasRunning
    <2>2. s \in taken
      BY <2>1 DEF ToRevive
    <2>3. QED
      BY <1>1, <1>2, <1>3, <2>2
  <1>7. StartsTold'
    BY <1>1, <1>2, <1>4 DEF StartsTold, ToRevive
  <1>8. WatchedWhole'
    BY <1>1, <1>2, <1>3 DEF WatchedWhole, IInv, ProcessOwned
  <1>9. QED
    BY <1>1, <1>5, <1>6, <1>7, <1>8 DEF ListInv, ExitingFirst, HandedIsHeld

\* save_state writes the pid each session's process has
LEMMA SavedHeld ==
  ASSUME IInv, ListInv, NEW b \in BOOLEAN, disk' = Saved(b), UNCHANGED <<process, pidOf>>
  PROVE  HandedIsHeld'
  <1>1. /\ disk'.ids = known
        /\ \A s \in known :
             disk'.entry[s].status = status[s] /\ disk'.entry[s].pid = pid[s]
    BY DEF Saved, IInv, TypeOK
  <1>2. \A s \in known : process[s] # None /\ pid[s] # None =>
          status[s] = "Running" /\ pid[s] = pidOf[process[s]]
    BY DEF ListInv, HeldIsRunning, IInv, TypeOK
  <1>3. QED
    BY <1>1, <1>2 DEF HandedIsHeld

LEMMA ListLife ==
  ASSUME ~RacingRestart, IInv, OneInv, ListInv, Life
  PROVE  ListInv'
  <1>1. CASE Start
    BY <1>1, ListLoad DEF Start
  <1>2. CASE Exec
    <2> DEFINE masters == {s \in disk.ids : process[s] # None}
    <2>1. /\ phase = "inherit" /\ UNCHANGED <<owner, pidOf, disk>>
          /\ \E failed \in SUBSET Adopted(masters) : \E kept \in SUBSET failed :
               Load(masters, failed, kept)
      BY <1>2 DEF Exec
    <2>2. /\ \A s \in masters \cap disk.ids : process[s] # None
          /\ \A s \in masters \cap disk.ids : disk.entry[s].pid # None =>
               disk.entry[s].status = "Running" /\ disk.entry[s].pid = pidOf[process[s]]
      BY <2>1 DEF ListInv, HandedIsHeld
    <2> HIDE DEF masters
    <2>3. QED
      BY <2>1, <2>2, ListLoad
  <1>3. CASE Quit \/ Crash
    <2>1. /\ process' = [s \in Sessions |-> None] /\ known' = {} /\ exiting' = {}
          /\ watched' = {}
          /\ reviving' = {} /\ phase' = "down" /\ \A c \in Clients : request'[c].op = "idle"
      BY <1>3, IdleOp DEF Quit, Crash, Gone
    <2>2. QED
      BY <2>1 DEF ListInv, HeldIsRunning, RunningIsHeld, ExitingFirst, WatchedWhole, StartsTold,
         HandedIsHeld
  <1>4. CASE Serve \/ HangUpAll \/ StopBegin("stop") \/ StopBegin("handoff")
    <2>1. /\ phase' # "inherit" /\ (Stopping => Stopping')
          /\ Stopping' => Stopping \/ \A c \in Clients : request[c].op # "restart"
          /\ UNCHANGED <<known, process, exiting, watched, botched, owner, pidOf, status, pid,
                         reviving, request>>
      BY <1>4 DEF Serve, HangUpAll, StopBegin, machine, session, Stopping
    <2>2. QED
      BY <2>1 DEF ListInv, HeldIsRunning, RunningIsHeld, ExitingFirst, WatchedWhole, StartsTold,
         HandedIsHeld, ToldOfExit
  <1>5. CASE Persist
    <2>1. /\ Stopping /\ Stopping' /\ disk' = Saved(TRUE)
          /\ UNCHANGED <<known, process, exiting, watched, botched, owner, pidOf, status, pid,
                         reviving, request>>
      BY <1>5 DEF Persist, machine, session, Stopping
    <2>2. HandedIsHeld'
      BY <2>1, SavedHeld
    <2>3. QED
      BY <2>1, <2>2 DEF ListInv, HeldIsRunning, RunningIsHeld, ExitingFirst, WatchedWhole,
         StartsTold, ToldOfExit
  <1>6. ASSUME NEW s \in Sessions, Revive(s)
        PROVE  ListInv'
    <2>1. /\ phase = "loading" /\ s \in reviving /\ reviving' = reviving \ {s}
          /\ UNCHANGED <<known, exiting, phase, request, disk>>
      BY <1>6 DEF Revive, store
    <2>2. \A c \in Clients : request[c].op = "idle"
      BY <2>1, IdleOp DEF OneInv, NoneToStart
    <2>3. /\ \A p \in watched : owner[p] # s
          /\ exiting \subseteq watched /\ reviving \subseteq Sessions
      BY <2>1 DEF OneInv, NoneToStart, IInv, TypeOK
    <2>4. CASE Spawn(s)
      <3>1. HeldIsRunning' /\ RunningIsHeld' /\ ExitingFirst' /\ WatchedWhole'
        BY <2>1, <2>3, <2>4, SpawnListed
      <3>2. \A t \in Sessions : t # s => status'[t] = status[t]
        BY <2>4, SpawnStep
      <3>3. StartsTold'
        BY <2>1, <2>2, <2>3, <3>2 DEF ListInv, StartsTold
      <3>4. QED
        BY <2>1, <3>1, <3>3 DEF ListInv, HandedIsHeld
    <2>5. CASE /\ \E n \in FreePids : HalfSpawn(s, status[s], n)
               /\ pid' = [pid EXCEPT ![s] = None]
      <3>1. PICK n \in FreePids : HalfSpawn(s, status[s], n)
        BY <2>5
      <3>2. HeldIsRunning' /\ RunningIsHeld' /\ ExitingFirst' /\ WatchedWhole'
        BY <2>1, <2>3, <2>5, <3>1, HalfListed
      <3>3. \A t \in Sessions : t # s => status'[t] = status[t]
        BY <2>1, <2>3, <3>1, HalfStep
      <3>4. StartsTold'
        BY <2>1, <2>2, <2>3, <3>3 DEF ListInv, StartsTold
      <3>5. QED
        BY <2>1, <3>2, <3>4 DEF ListInv, HandedIsHeld
    <2>6. CASE UNCHANGED <<machine, status, pid, process, botched, watched, lost>>
      <3>1. StartsTold'
        BY <2>1, <2>2, <2>6 DEF ListInv, StartsTold
      <3>2. QED
        BY <2>1, <2>6, <3>1, ListKept DEF ListInv, machine
    <2>7. QED
      BY <1>6, <2>4, <2>5, <2>6 DEF Revive
  <1>7. QED
    BY <1>1, <1>2, <1>3, <1>4, <1>5, <1>6 DEF Life

LEMMA ListStep ==
  ASSUME RestartsApart, ~FastExit, ~RacingRestart, IInv, OneInv, ListInv, [Next]_vars
  PROVE  ListInv'
  <1>1. CASE ForeignStart \/ SaverWake \/ SaverCheck \/ UNCHANGED vars \/
             \E s \in Sessions : SnapshotDue(s) \/ SnapshotWrite(s)
    <2>1. /\ UNCHANGED <<known, process, exiting, watched, botched, status, pid, reviving,
                         phase, request, disk>>
          /\ UNCHANGED <<owner, pidOf>> \/ \E n : Fork(Foreign, n)
      BY <1>1 DEF ForeignStart, SaverWake, SaverCheck, SnapshotDue, SnapshotWrite, vars,
         machine, session, store
    <2>2. \A p \in 1..born : owner'[p] = owner[p] /\ pidOf'[p] = pidOf[p]
      BY <2>1, ForkFresh DEF IInv
    <2>3. StartsTold'
      BY <2>1 DEF ListInv, StartsTold, Stopping, ToldOfExit
    <2>4. QED
      BY <2>1, <2>2, <2>3, ListKept DEF ListInv
  <1>2. CASE SaverWrite
    <2>1. /\ disk' = Saved(FALSE)
          /\ UNCHANGED <<known, process, exiting, watched, botched, owner, pidOf, status, pid,
                         reviving, phase, request>>
      BY <1>2 DEF SaverWrite, machine, session
    <2>2. HandedIsHeld'
      BY <2>1, SavedHeld
    <2>3. QED
      BY <2>1, <2>2 DEF ListInv, HeldIsRunning, RunningIsHeld, ExitingFirst, WatchedWhole,
         StartsTold, Stopping, ToldOfExit
  <1>3. CASE Storage
    BY <1>1, <1>2, <1>3 DEF Storage
  <1>4. QED
    BY <1>1, <1>3, ListClients, ListProcesses, ListLife DEF Next

\* What clients are told of a session and the process behind it agree (Create, Restart,
\* exited, load, adopt) but for a session whose last start() failed behind the child, as
\* long as no two connections restart the same session at once, no process is gone before
\* its session is registered and no restart races an exit or a hand-over: failed spawns and
\* adoptions, late writes of state.json, crashes, upgrades and reused pids included
THEOREM ListsAgree ==
  ASSUME ~FastExit, ~RacingRestart
  PROVE  Spec /\ []RestartsApart => []ListAgrees
  <1>1. Init => OneInv /\ ListInv
    BY IdleOp DEF Init, OneInv, WatchedIsHeld, NoneToStart, OwnersUsed,
       ListInv, HeldIsRunning, RunningIsHeld, ExitingFirst, WatchedWhole, StartsTold,
       HandedIsHeld
  <1>2. IInv /\ OneInv /\ ListInv /\ RestartsApart /\ [Next]_vars => OneInv' /\ ListInv'
    BY OneStep, ListStep
  <1>3. IInv /\ ListInv => ListAgrees
    <2>1. IInv => known \subseteq Sessions
      BY DEF IInv, TypeOK
    <2>2. QED
      BY <2>1 DEF ListInv, HeldIsRunning, RunningIsHeld, ListAgrees, RunningHasProcess, LiveIsRunning,
         Stopping
  <1>4. QED
    BY <1>1, <1>2, <1>3, OwnershipInvariant, PTL DEF Spec
=============================================================================
