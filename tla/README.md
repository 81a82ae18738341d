# Treeix: a TLA+ verification

Treeix is a desktop app for git worktrees and coding agents. What has to outlive the app's window lives in a daemon,
`treeix-ptyd`: the shells and their screens, the agents' chats, and the routines that start agents by themselves. The
app around it talks to the daemon and has services of its own: files, git, a browser, voice, language servers. This
project models both, checks the models with TLC on small instances, and proves with TLAPS, for every instance, the most
important invariants of the daemon's core and of most other components.

| Module | Models | Checked by | Proved in |
| --- | --- | --- | --- |
| `PtyStream` | one session's output: reader thread, coalesce task, viewers, flow control | `MCPtyStream`, 3 runs | `PtyStreamProofs` |
| `SessionLife` | all sessions over the daemon's life: processes, status, `state.json`, snapshots, stop, crash, exec | `MCSessionLife`, 2 runs | `SessionLifeProofs` |
| `RoutineRuns` | the routines engine: queue, slots, start, watcher, delivery, cancel, its three files | `MCRoutineRuns`, 3 runs, `MCComponents` | `RoutineRunsProofs` |
| `Chat` | one chat: starts, prompts, cards, log, status, title, files, crash | `MCComponents`, `MCDaemonLive` | `ChatProofs` |
| `Triggers` | what fires routines: minute ticks, poller, webhook | `MCComponents` | `TriggersProofs` |
| `AgentStatus` | hook file, statusline, screen, both polls, broadcast | `MCComponents`, `MCDaemonLive` | `ComponentProofs` |
| `Osc` | the scanner for OSC sequences | `MCComponents` | |
| `Conversations` | which codex rollout is which session's | `MCComponents` | |
| `Worktrees` | add and remove worktrees, in two processes | `MCComponents`, `MCDaemonLive` | `ComponentProofs` |
| `DaemonLink` | the app's connection: find, upgrade, start, requests, relays | `MCComponents`, `MCAppLive` | `AppProofs` |
| `ChatRelay`, `LogView` | chat windows on one stream, and what a window is promised | `MCComponents`, `MCDaemonLive` | `ChatRelayProofs` |
| `Voice`, `Dictation` | the two helpers, recordings, pieces and what is typed | `MCComponents`, `MCAppLive` | `AppProofs` |
| `Files`, `Stores`, `Checkout` | editor saves and watches; small JSON files; status and discard | `MCComponents` | `ComponentProofs` (not `Checkout`) |
| `Browser`, `Awake` | panes; keep-awake and lid sleep | `MCComponents` | `AppProofs` |
| `Mcp` | the agents' server and config | `MCComponents` | `ComponentProofs` |
| `Usage`, `Ports`, `ModuleGraph` | counting transcripts; who listens where; import cycles | `MCComponents` | `ComponentProofs` (`Usage`) |
| `Limits`, `Lsp` | readings of the plan's limits; language servers | `MCAppLive`, `Lsp` also `MCComponents` | `ComponentProofs` |

`PROJECT.json` has the map from definitions to source lines, the runs, the mutants, the findings, the hazards and the
main theorems (some others, on types, are in the proof modules only).

## 1. Inventory

### The daemon (`crates/ptyd`)

**PTY output streaming** (`session.rs`). State of one session: the terminal screen with the number of bytes parsed
into it (`vt.seq`), the channel to the coalesce task, `flow` (the attached viewers with `from_seq`, `unacked`,
`lagging` and when they last progressed; `closing`; the condition variable `credit`). Operations: `read_loop` (wait
for credit, read, `ingest`), `coalesce` (receive, batch, `flush`), `attach`, `detach`, `ack` and `resync`, `signal`,
restart. Two locks, screen before flow; the reader is a thread, the rest are async tasks. Hard: a snapshot and the
output that follows it must meet exactly; a viewer that is slow must not stop the others, and one that is stuck must
stop the reader, which must wake up again. Correct when: viewers show what was printed, memory per viewer is bounded,
nobody sleeps for ever.

**Session lifecycle** (`server.rs`, `session.rs`). State: `Daemon.sessions`, each session's `SessionInfo` (status,
pid) and `Session.process`. Operations: Create, Restart, Kill (hangup, then SIGKILL after `KILL_GRACE`), Remove, and
`exited()`. Each connection handles its requests in order, connections run in parallel, each process has a reader
thread and a task of its own. Hard: check-then-act on `is_live()`, an exit in two critical sections, timers that
outlive what they were for. Correct when the list a client sees and the processes there are agree.

**Daemon start, stop, crash, upgrade** (`lib.rs`, `server.rs`). Start loads `state.json`, kills orphans (by pid *and*
start time), takes over handed-down PTYs, starts again what ran. Stop persists and hangs up. Upgrade persists and
execs a newer image that inherits the PTYs. Hard: a crash anywhere, pids used again, requests served during a
hand-over. Correct when no foreign process is killed, no session is lost or doubled, a crash is told from a stop.

**State and snapshot files** (`state.rs`). Debounced, atomic writes of `state.json` on the blocking pool; snapshots
every 30 s and on detach. Hard: a write that lands after a later one. Correct when every change reaches the file and
nothing old overwrites something new.

**Routines engine** (`routines/mod.rs`, `routines/budget.rs`). State: routines, runs, and `Saved` (clock, hits) under
one lock, in `routines.json`, `runs.jsonl` and `engine.json`. Operations: put, remove, fire, pump (`take_startable`),
start (`place`, create a session, tell the run), the watcher (`watch_run`, `breach`, `deliver`), cancel, load, save.
Hard: each run is touched by its start task, the watcher, cancels, removal and pumps at once; every transition writes
two files; deliveries take seconds without the lock. Correct when slots are kept, runs survive crashes, ends are
final, no agent runs unattended, and clients are told.

**Chats** (`chat/*.rs`). State: per chat the info, the log and its next seq, the start's token and connection, turns,
permission cards, `closed`; a log and an info file each. Operations: create, prompt, set an option, cancel, answer a
card, attach, close, title, load. Hard: `changed()` saves after it looked at `closed`; a start that is outdated when
it connects; cards left over from an agent that went. Correct when a chat has one agent, its status is true, a closed
chat leaves nothing, every request comes to an end, and no seq is given out twice.

**Triggers and schedule** (`routines/triggers.rs`, `routines/schedule.rs`). The minute tick with `last_tick` on disk,
a poller with what it has seen per kind, a webhook listener. Hard: sleep, a clock set back, a crash between the saved
tick and the firing, a kind of event that was not polled for a while. Correct when nothing fires twice, no minute is
passed over without an answer, and old events are not news. `RoutineRuns` lets a routine fire at any moment, which
includes all they can cause.

**Agent status** (`hooks.rs`, `session.rs`): hooks and the screen turn into Running, Needs, Done, Idle, Watching, by
two tasks that poll several sources one after the other. Correct when the status is one the agent was in and clients
end with the last. **Output scanning** (`osc.rs`): correct when what is found does not depend on how reads cut the
output.

**Phone access** (`remote/mod.rs`): HTTP over the same operations, to the models one more client. **Process tree,
snapshot encoding** (`procinfo.rs`, `snapshot.rs`): system calls and encoding, data only.

### Around it

**Protocol** (`crates/proto`): message types and frames.

**Core** (`crates/core`), linked by both. Git: `ADDING` joins calls for one worktree, but per process; every git call
is a process of its own, so a status is put together from several moments. Files: a save is checked against what the
editor loaded, history keeps a version per burst. Stores: load, change, write aside, rename, without a lock. Agents'
logs: counted through a cache keyed by size and time, limits read from files of three programs, ports from `ps` and
`lsof`. The code graph: Tarjan's algorithm and a breadth-first search. Pull requests and tickets: calls of other
programs and parsing of what they say.

**The app** (`apps/desktop/src-tauri`). `daemon.rs`: pending requests by id, relays of attached sessions, a loop that
finds, upgrades, replaces or starts a daemon. `commands/chat.rs`: one stream per chat, fanned out to windows.
`voice.rs` and the Swift helpers: two supervised processes on pipes. `browser/mod.rs`: webviews that report on their
own. `commands/mcp.rs`, `keep_awake.rs`, `lsp.rs`: services switched by settings, each with tasks that outlive the
call that started them. Hard everywhere: a handler reads a state, awaits, and acts on what may have changed.

**User interface** (`apps/desktop/src`): panes, panels, stores; `shell/state.ts` (pane layout) is the part with logic
of its own.

### Interactions

Clients (the app, a phone, tests) send length-prefixed requests over a Unix socket. Requests of one connection are
handled one at a time, which `PtyStream` uses (`ack` goes on to `resync` before the same viewer's next request) and
`SessionLife` has as one `request` per client. The daemon answers and broadcasts events to all clients. Sessions call
the daemon back when a process ends; the routines engine creates and kills sessions like a client, and polls them
every `WATCH`. All survive through files only: an exec carries over nothing else but PTY masters.

## 2. Plan

Done: `PtyStream`, `SessionLife`, `RoutineRuns` with runs and proofs (sections 3 to 5 and 8); the other components of
the daemon and of the app with their runs, and `LogView`, the abstract specification `ChatRelay` is shown to implement
(section 6).

Proved: all safety properties of the three core modules, of `DaemonLink`, `ChatRelay`, `Triggers`, `Worktrees`,
`Stores`, `AgentStatus`, `Lsp`, `Limits`, `Awake` and `Dictation`, those of `Chat`, `Files`, `Mcp`, `Browser`, `Usage` and
`Voice` but one each, and that `ChatRelay` implements `LogView` (section 8).

Left:

1. `Mirror` (a viewer is a prefix of the output, jumping forward at snapshots) over `PtyStream`, and `RunLedger` (a run
   goes from queued to running to an end, once) over `RoutineRuns` through its file.
2. `PaneLayout` (`shell/state.ts`), the phone's replay of events, the updater.

## 3. PtyStream

A byte of output *is* its offset, so a frame's payload can be compared with its label. `reader` and `coalescer` are
the program counters of `read_loop` and `coalesce`; `tx` is the channel; `pseq`, `pbytes` are `Pending`; `from`,
`unacked`, `lagging`, `stuck`, the entries of `flow.clients` (`stuck` abstracts the age of `progressed`: at least
`STUCK`). `outbox` and `owed` are the socket to the viewer and the bytes the pane has written and not acked; `base`,
`shown` are the pane's (`panes/terminal/stream.ts`). One action is one critical section. The actions: `WaitForCredit`,
`Ingest`, `ReadEnd` (reader); `Absorb`, `Drained`, `FlushFirst`, `AbsorbInWindow`, `WindowEnd`, `ExitReceived`
(coalesce); `Attach`, `Detach`, `Disconnect`, `Ack`, `Resync`, `StuckTimeout`, `Signal`, `Restart`; `Deliver` (the
pane). The frames one flush sends one viewer are one message: they leave under the lock. Histories: `garbled` (a
viewer was given other bytes than the ones that follow what it shows), `hole` (output was not queued, because nobody
was attached, while older output was still queued).

Runs:

- `stream_two`: two viewers (symmetric), marks of 1 and 0, frames of two bytes, three bytes of output. `WaitsOnlyForStuck` (no lost wakeup),
  `NoByteTwice`, `FaithfulView`.
- `stream_live`: one viewer, marks of 2 and 1, a restart, four bytes. `UnackedBounded`, `NeverStranded` (a lagging
  viewer always has enough bytes left to ack), and `StreamFlows`: viewers catch up (`CatchesUp`) and a reader that waits
  goes on (`ReaderResumes`).
- `stream_gap` (violation of `ViewIsOutput`): see findings.

Bounds: the protocol compares `unacked` with the two marks and `from_seq` with the batch's seq, so marks of 1 and 0
put every comparison on both sides within three bytes, and two bytes a frame put frames across a mark. Marks of 2 and
1 add resyncs while bytes are still unacked. A second viewer matters only for the reader's condition and for `attached
= {}`. `MaxOutbox` bounds re-attaches while snapshots are on their way.

Fairness: threads, tasks and the socket make progress (WF); a viewer that rendered bytes acks them or leaves (SF on
the ack of all it owes: xterm's write callback, and a reloaded webview is detached). Nobody has to attach, print or
exit.

`SlowResync` is FALSE in the runs: `STUCK` (seconds) does not pass between the two halves of one `ack`. Set to TRUE,
TLC refutes `WaitsOnlyForStuck`: `resync` (`session.rs:670`) clears `lagging` without notifying `flow.credit`, so a
reader that went to sleep in that window stays asleep until the next ack, attach or detach.

## 4. SessionLife

A process is the number of its start and stands for `procinfo::start_time`; its pid comes from a small set and is free
again as soon as `wait()` has reaped it, before the task behind it takes `Session.process` (`session.rs:418`, `:564`).
`known`, `status`, `pid`, `process` are the daemon's map and each session's fields; `watched`, `reaped`, `exiting` the
processes with a reader in this image, those its `wait()` returned for, and those whose `exited()` is between its two
critical sections; `lost` children nobody waits for; `grace` the SIGKILL timers; `request` what each connection is in
the middle of; `dirty`, `saver` the debounce; `disk`, `snaps`, `queued` the files and what the blocking pool still has
to write; `phase` the main task. Statuses of a live session are one ("Running"), `Error` is "Exited". `Load` is
`Daemon::load` with the PTYs handed over, used by `Start` (none) and `Exec`; the pid of a session that is to be started
again is cleared (`set_status`). `ForeignStart` lets other programs take free pids at any time; they never end, so that `OthersUntouched`
sees every one the daemon would kill. `Crash` is enabled in every phase.

A start may fail before the child is there or behind it: `spawn` sets status and pid before `start()` (`session.rs:303`,
`:310`) needs descriptors and threads. `Create` then drops the session and `load` puts its status back (`CreateFails`,
`Revive`); `Restart` leaves what `spawn` has set (`RestartFails`), so that the session is listed as running with nothing
that reads its PTY or waits for its child, and the change is not marked dirty. `botched` are the sessions whose last start
broke off like that: `ListAgrees` and `EventuallySaved` except them, until they are started again, and nothing else.

Runs:

- `life_two`: a shell and a routine's session, two processes, two pids, one client. `ListAgrees` (`RunningHasProcess` and
  `LiveIsRunning`), `OneProcess`, `CrashReported`.
- `life_live`: one session, two processes on one pid, late writes, under fairness. `OthersUntouched` (the daemon ends a
  process it did not start only by a signal to a session whose process is reaped and not yet taken),
  `LateSnapshotsOnly` (a removed session's snapshot stays only if it was on the blocking pool at that moment),
  `EventuallySaved`, `KillEnds`, `ExitReported`.

Bounds: the shortest story of each hazard needs two processes (an exit and a restart, a crash and a reused pid); two
sessions show that one's steps leave the other alone and that routines' sessions are not started again. Fairness: the
saver, the timers, the exits' tasks and an insert that is under way run on (WF); nobody has to connect, exit, stop or
crash.

Timing switches, all FALSE in `life_two`, and what TLC refutes there with each TRUE:

- `FastExit`: a process is gone before `Create` has put its session into the map (`server.rs:575`). Then `exited()`
  finds no session, and the session is listed as running for ever: `RunningHasProcess`.
- `RacingRestart`: a restart between the halves of `exited()` (`session.rs:564`), possible for a client that does not
  wait for the event. The second half writes Exited over the new process's status: `LiveIsRunning`. Also a restart
  during a hand-over.
- `LateWrites`: a write on the blocking pool is overtaken. The saver's lands after stop's (`server.rs:280`) and the next
  start reports a crash: `CrashReported`. A snapshot's lands after Remove's
  deletion (`server.rs:211`, `:441`) and stays for good: `SnapshotForgotten` ("and its snapshot", `proto/src/lib.rs:101`),
  which is in no run; `life_live` has the switch on and checks that nothing but such a snapshot stays.
- `Clients` of two: two connections that restart the same exited session both pass the check and both start a process
  (`server.rs:517`): `OneProcess`.

Two more things reading showed: `Create` between persist and exec (`server.rs:234`) is not in the state the new image
loads, while `proto/src/lib.rs:215` says sessions carry over; and what ran at a crash is started again, while
`docs/daemon.md:30` says such sessions "show as crashed".

## 5. RoutineRuns

A run is the number of its firing, and names its session and the pull request it opens. `routines`, `kept`, `run`,
`hits` are the state under the lock; a critical section that saves leaves the files it writes, in its order, in
`writes`, and the lock is free when that is empty: a crash comes between any two writes. `stage`, `placed` are each
start task, `looking`, `delivery` the watcher, `dropping`, `ending`, `cancelling` handlers between two critical
sections, `pumpDue` any pending pump. `agent`, `killed`, `prs` are the world: sessions, hangups, open pull requests. A
spend is 0 (below the limits), 1 (at `max_turns`) or 2 (past a limit). `news` and `shown` are events and what clients
were told last.

Runs:

- `runs_racing`: two routines, every handler overtaken, crashes between any two writes, upgrades. `SlotsBounded`,
  `QueuedHasHit`, `RunningIsOurs`, `ClientsTold`, `EndedStays`.
- `runs_live`: two runs in one slot. `AgentsWatched` (no agent runs that neither the watcher nor a kill will end); under fairness
  `RunsMove`: a queued run starts or ends (`QueuedMoves`) and a running one ends (`RunEnds`).
- `runs_late`: one run with a pull request and every spend, whose events are sent late. `TypeOK`, `AgentsWatched`.
- `runs_later_pr` (violation): see findings.

Bounds: one slot and two runs are contention; more runs only lengthen the queue. `KeepRuns` is above `MaxRuns` in the
runs (the code keeps 1000). Fairness: writes, setups and deliveries come back and an agent ends some day (WF); tick,
watcher and tasks get a lock they ask for again and again (SF: the lock is held for one short critical section at a
time). Only the budget bounds how long an agent runs, so that it ends is an assumption about agents, not about the
daemon.

Switches, and what TLC refutes with each TRUE:

- `Racing`: `AgentsWatched`. RunCancel reads the run without a session, the start task writes the session, the cancel
  ends the run: nobody kills the agent (`routines/mod.rs:1071`).
- `LateNews`: `ClientsTold`. Events are sent after the lock is released and can be overtaken (`routines/mod.rs:498`).
- `Upgrades`: `AgentsWatched`. `hand_off` keeps the agents' processes while `load` fails their runs
  (`server.rs:230`, `routines/mod.rs:185`).
- `KeepRuns = 1`: `AgentsWatched`. `enqueue` drains the oldest runs, running ones included (`routines/mod.rs:377`).

`ProgressTold` is refuted by any run that spends: `watch_run` stores a run's turns and cost and then compares them
with what it has just stored (`routines/mod.rs:922`), so no event tells clients of progress, while
`proto/src/lib.rs:320` has the event sent when a run "progressed (turns, cost)".

`QueuedHasHit`, `EndedStays`, `RunningIsOurs` and `SlotsBounded` are proved whatever the switches are. `ClientsTold` speaks of routines that are still there because a pump that finds a queued run without
routine or hit cancels it without event or save (`routines/mod.rs:405`).

## 6. The other components

### How they are checked

The other components keep no state in common with each other: each talks to the rest through calls whose outcome is an
input of its module. Three MC modules each put several of them side by side: `MCComponents` (safety, run
`components`), `MCDaemonLive` and `MCAppLive` (liveness and the refinement, runs `daemon_live` and `app_live`). The
variable `part`, chosen in the initial state, names the component a behaviour is of; only its actions follow, the
others keep their initial state. So one run explores the sum of the components' state spaces, not their product, and
one component can have several parts with different constants (a clock that is set back, other programs that take
ports, a crashing app). In the liveness modules a component whose part was not chosen starts at rest (`LinkRests`,
`VoiceRests`, ...: a state in which none of its fair actions is enabled), so that each module's own fairness can be
assumed of the whole.

The properties of the components are stated in their modules, one comment each; the MC modules conjoin them by what
they are about, each conjunct under its part:

| Run | Property | Conjuncts |
| --- | --- | --- |
| `components` | `ChatHolds` | `OneAgent`, `SeqNeverReused`, `ClosedKeepsNothing`, `StatusTrue`, `AsksHaveAgent` |
| | `FiringsExact` | `NothingTwice`, `EveryMinuteAnswered`, `HushedNeverFire` |
| | `SessionsTrue` | `DoneWasWork`, `OneSessionEach`, `FoundExactly`, `HeldIsBounded` |
| | `LinkHolds` | `SnapshotFirst`, `RelayIsAttached`, `NoDeadPending`, `NoEntryTwice`, `WatchedIsStreamed` |
| | `FilesKept` | `EditNotLost`, `UnwatchStops`, `StoreWhole`, `SavedStays`, `MergedIsInBase`, `OneCreation` |
| | `WritesKeep` | actions: `KeepsBurst`, `RestoresHead`, `KeepsOthers` |
| | `ReportsTrue` | `CacheIsTrue`, `AnswerInRange`, `GroupsAreClasses`, `ShortestCycles`, `PortsExact`, `KilledIsOurs` |
| | `ServicesHold` | `TypedAsSaid`, `LoadingIsReal`, `ErrorAtRest`, `EnvIsServer`, `AgentsReach`, `AwakeWhenAsked`, `LidRestored`, `ExitIsLast` |
| `daemon_live` | `AnswerKept`, `ImplementsView` | `AnswerHolds`; `ChatRelay` implements `LogView` |
| | `ChatsSettle` | `RequestsMoveOn`, `ClosedAgentEnds`, `AgentTitleKept`, `ChannelsCatchUp`, `UnwatchedStops` |
| | `SessionsSettle` | `JoinersReturn`, `StatusSettles`, `ConversationSettles`, `ClientsAgree` |
| `app_live` | `ShownIsSo` | `TapeIsShown`, `PiecesTogether`, `PhaseShown`, `NoPastReset`, `NeverOverstated` |
| | `LinkRecovers` | `LeakHealed`, `EventuallyConnected` |
| | `EndsCome` | `MeetingsFinish`, `SavingEnds`, `BusyEnds`, `StopKills`, `PageCatchesUp` |

Type invariants are conjuncts too. Nearly every conjunct has a mutant of its own in `PROJECT.json`: a change of one
mapped definition, such as a dropped check or a swapped order, that TLC finds through it.

Fairness is weak and per task: tasks, threads, pipes and sockets go on; a handshake ends or fails; a write that was
asked for lands. `SF` is used three times: a service that is asked again and again starts the daemon some time
(`ServiceStart`; it may fail any number of times), a daemon that is asked again and again to go does so in time some time
(`ShutDown`), and the foreground poll's timer comes round though the watcher's
polls come between (`Foreground`). Users, agents, crashes and other programs owe nothing.

Bounds are the smallest at which each story happens: two callers or windows where something is joined or shared, one
crash or loss, two entries, pieces, commits or minutes where an order matters, four files in the module graph (two
cycles that share a file, and two that do not).

### The daemon's

**`Chat`** (`chat/mod.rs`, `agent.rs`, `events.rs`, `title.rs`). `chat` is the chat in memory, `gen` the newest
start's token, `tasks` each request between its awaits, `agents` the adapter processes by token, `saves` and `saved`
the writes under way and the files. Part `racing` lets other threads in between the lock sections of one handler and
restarts the daemon. With `Racing` TLC refutes three promises, none of them in a run: `ReplayIsLogged` (the replaying
flag goes when the handshake ends, while replayed updates are still in the pipe, `chat/mod.rs:87`),
`ClosedKeepsNothing` (a save that looked at `closed` before the close, `chat/mod.rs:90` and `:273`), `AgentTitleKept`
(the agent's title between a look and a write, `title.rs:73`).

**`Triggers`** (`routines/schedule.rs`, `triggers.rs`, the timers of `mod.rs`). `wall` and `last_tick` are the clock
and the saved tick, `due` what a tick has in hand, `runs` what was fired; `listed`, `seen`, `primed` and `poller_json`
the poller's. `NothingTwice` is of clocks that go forward: with `SetBack` a minute can come twice and fire twice (part
`set_back` checks `EveryMinuteAnswered` only). `Quiet`: a poll round that is not to fire forgets `primed` in memory
only; ptyd dies, and the older file makes the next round fire what was hushed (`routines/mod.rs:1155`):
`HushedNeverFire`.

**`AgentStatus`** (`hooks.rs`, the status part of `session.rs`). The watcher reads hook file, output count and screen
in steps, the foreground poll has its own, and a broadcast follows its lock section. The poll decides on the status it
read and sets its own in a later step (`PollScreen`, `PollSets`, `hooks.rs:283`). `StartPrompts` (an agent that
asks before its first turn) refutes `DoneWasWork`: the end of that prompt is shown as done work.

**`Osc`** (`osc.rs`): every sequence of up to five byte kinds in every cut into reads, against the sequences that are
there by a definition that does not scan. **`Conversations`** (`commands/agents.rs`, `agents/codex.rs`): with `Racing`
two looks take the same rollout (`commands/agents.rs:97`: the list of what others have is read first),
`OneSessionEach`; that the rollout is the session's own is a guess the code makes (`OwnConversation` does not hold).

**`Worktrees`** (`git.rs`). `ADDING` is a map per process, `trees` the folders, `wcalls` each call at its step. The main
checkout is not among the folders: a branch it has checked out is answered with it (`git.rs:1011`), which nothing here
changes.
`Racing` with two targets refutes `PrAtItsHead`: `FETCH_HEAD` is one file, and a second fetch between a fetch and its
checkout gives the first the other's head (`git.rs:1025`). The racing part has one branch.

### The app's

**`DaemonLink`** (`daemon.rs`, `service.rs`). `socket` is what listens (nothing, our build, one that can be upgraded,
one too old for that, one that is stuck), `link` the connection's loop, `pending` and `streams` the two maps, with
`keeps` the pending entries that still have their channel; a call times out and its answer comes late. ptyd is
abstract here: it serves or goes. A daemon that is asked to go and does not in time, or a service that does not start, is
an error of `connect()`, and the loop backs off and tries again (`ConnectFails`).

**`ChatRelay`** (`commands/chat.rs`). One stream per chat, from one seq; `op` holds the lock's holder and `queue` who
waits for it; a connection breaks and the reconnect attaches again. The refinement maps `LogView`'s log to `entries`,
its open views to the channels that watch or ask to, and what a view was shown to `last`; every step of the relay is a
step of the view or none. What a channel shows starts where it asked and goes on without a gap or a repeat. That is of
windows that detach before they go (`WindowsClose` FALSE in `daemon_live`; `components` has it TRUE). With `WindowsClose`
TLC refutes `ImplementsLogView`: the last window is found gone by `Relay::send`, and before `detach_if_unwatched` has
stopped the stream another one attaches, finds the chat unwatched (`commands/chat.rs:159`) and so does not stop the
stream; it is sent an entry of the old stream and then drops the replay of the earlier ones as seen. The comment on
`attach` promises the order only to a channel that joins a watched chat.

**`Voice`** and **`Dictation`** (`voice.rs`, `native/voice`). Two helpers on two pipes, which die, are started again
and answer late. Each dictation helper numbers its pieces from 1 (`Controller.swift:41`, `:350`), and the app answers a
transcript to the helper that is in the slot (`voice.rs:698`), also one of a helper that was switched off since
(`strays`): the new helper then types those words for its own piece of that id. `TypedAsSaid` says that this is the only
way to words in another's place: pieces with their own words are in the order they were said, other words are of strays.
`InsertsAreTheirs`, as the comment at `Controller.swift:39` has it, is refuted by it and is in no run. The `voice` part of `components` has `Voice`'s `Racing` on (a start in two steps, recordings in use
deleted or switched off) and checks its type invariant; `TapeIsShown`, which fails between a start's two steps, and the
ends of meetings are of `app_live`, without it. Not in the runs: a third change of who holds the microphone (`CallNotCutOff`: a timer set for one call
stops the next recording, `voice.rs:279`); a dictation begun while the last one is busy, whose failing piece takes the
count below zero (`Dictation`'s `Racing`: `BusyEnds`, `Controller.swift:377`) or whose words land in the other's entry
(`PiecesTogether`, `voice.rs:796`). By reading: the feature switched off while it records or listens, or after a
crash that the supervisor has not seen yet, leaves the phase (`voice.rs:638`);
deleting the current recording leaves Saving; a call that comes while Saving is not recorded; `recover` may transcribe
a folder that is just being saved.

**`Files`** (`fs.rs`, `history.rs`, `commands/files.rs`). A content is the number of its write. `Racing`: an agent
writes between a save's check and its write (`fs.rs:195`), `EditNotLost`. Of two watches under one id the one that is
ready last wins, which need not be the one asked for last. **`Stores`** (`settings.rs`, `secrets.rs`, `history.rs`,
`voice.rs`): `Serial` FALSE lets two saves share the file they write aside: `StoreWhole`. **`Checkout`** (`git.rs`): a
status is several git processes. `Racing`: a branch that is still at the base and gets its first commit while the
status is read can look merged (`FreshIsNotMerged`). A file whose deletion is staged is not brought back by a discard
(`DiscardRestoresAll`, `git.rs:1192`).

**`Browser`** (`browser/mod.rs`, `tools.rs`). With `Racing`, an error can be shown for another address than the one it
is of. By reading: a pane closed and opened again within the poll's 300 ms has two pollers; a refused open leaves an
unannounced pane. **`Mcp`** (`commands/mcp.rs`, `mcp.rs`): a start
may fail, and its token and port may each not be saved (`mcp.rs:85`, `:115`); `unsaved` are the addresses of such starts,
which "need setting up again". `AgentsReach` is of all other addresses agents were ever given: their token is that of
every later server, and so is their port in the part where no other program takes it. In part `ports_taken` others take
ports while the server is down; agents that run are then not reached under their port until they start again. Two
switches or restarts (`MaxSteps`) reach a saved address, a failed start and the server after it. **`Awake`** (`keep_awake.rs`, `tray.rs`): `Racing` (a change while another is applied) refutes both properties;
a crash leaves lid sleep off (part `crashing` checks the other one).

**`Usage`** (`agents/usage.rs`): a growing transcript, a rollout that is archived, scans that share a cache. `Larger`:
a codex total that starts over above the last one is counted from it (`usage.rs:256`), `AnswerInRange`. **`Limits`**
(`agents/limits.rs`, `commands/agents.rs`): `Racing` lets an older answer overtake the watcher's
(`commands/agents.rs:270`), `PageCatchesUp`; a reading without a reset time (the desktop app's) can overstate and
`NeverOverstated` is of the others. **`Ports`** (`agents/ports.rs`, `commands/agents.rs`): a process tree whose pids
come back; `Racing` lets it change during a kill (`commands/agents.rs:360`), `KilledIsOurs`.

**`Lsp`** (`lsp.rs`): `ExitIsLast` is of a server that ended by itself; of one that was stopped, messages may follow
the exit (`ExitIsAlwaysLast`, where the comment at `lsp.rs:34` has "its messages, then its exit"). The task
writes within an arm of its select, so while the pipe of a server that does not read is full (`MaxPipe` bodies, 1) it sees
neither a stop nor the reader's end; and it waits for a server that closed its output without a kill. `StopKills` is of
all other servers: it excepts behaviours in which the task waits like that for good (`TaskDeaf`). Without
the exception (`StopAlwaysKills`, in no run) TLC refutes it: a server is stopped while the task awaits its full pipe, and
runs for ever, though `lsp_stop` says "Kills a server" (`lsp.rs:112`).
**`ModuleGraph`** (`graph/mod.rs`): on every import graph of four files the groups of the iterative Tarjan search are
the classes of mutual reachability, and the cycle shown is a shortest one.

## 7. Findings

- `stream_gap`: output printed while nobody is attached is not queued, but a batch is labelled by its first chunk. Leave
  and come back with output queued, and the bytes that follow the snapshot are not the ones that follow in the output.
- `runs_later_pr`: a run cancelled while its pull request is being opened forgets it; the next run opens another.

Four more come from the code alone, without a switch or with one that is on in a run, and are bounded by a property that
allows them and nothing else: a `Restart` whose `start()` fails leaves its session listed as running (`ListAgrees`), a
snapshot that is being written outlives its session (`LateSnapshotsOnly`), a language server that does not read its
input is not killed by `lsp_stop` (`StopKills`), and a helper that was switched off lends its
words to the next (`TypedAsSaid`).

The switches of sections 4, 5 and 6 name the other places where an order of steps the code allows breaks what it means
to keep; they are off in the passing runs because each needs a window of a few instructions, a second client or a
setting most installations do not have. Turning one on in the cfg or the MC module shows the steps.

## 8. Proofs

Each theorem holds for every value of the constants that satisfies the module's named assumption, the timing switches
included unless its own hypotheses say otherwise. A switch that a theorem needs FALSE is one whose TRUE TLC refutes the
property with (sections 4 to 6): the hypothesis is the promise's precise condition, and the steps that break it without
are listed there. The components that MC modules INSTANCE carry their assumptions on constants in the theorems.

- `PtyStreamProofs`. `TypeCorrect` is inductive with the lemmas on what `Flush` sends (`SentType`, `SentBound`).
  `FlowBounded`: a flush adds to a viewer at or below the mark only, and at most the frame that passes it; all other
  steps lower `unacked`. `NoLostWakeup` is not inductive: a resync clears `lagging` without a wakeup, which is harmless
  only because a viewer that is being resynced is not the stuck one. `ResyncingIsFresh` says so and needs `~SlowResync`,
  the theorem's hypothesis; `WakeupInv` is the conjunction.
  `NoByteSentTwice`, `ViewFaithful` and `NobodyStranded` need no hypotheses. `NoByteSentTwice` follows the order of offsets through the pipeline (`OrderInv`):
  queue and outbox are in order and behind the screen, an exit is the last thing queued, and what a viewer was sent is
  not ahead of its `from` or else of the first byte that is still queued (`NotAhead`). `ViewFaithful` adds, while
  `hole` is FALSE, that the queue is gapless and that each frame carries what its label says and follows what came before
  it (`Contiguous`, `UpToDate`, `FramesTrue`). `NobodyStranded`: what a viewer still has to ack, on the way or
  rendered, covers what it is counted as owing (`Covered`), and a lagging viewer owes more than the low mark
  (`OverLow`); so its acks bring it down to where the resync starts. The bytes under way are counted as the cardinality
  of the set of their places, not by a fold over the queue, because a fold's value would need induction.
- `SessionLifeProofs`. `OwnershipInvariant`, then `LifeTypeCorrect` and `NoForeignKill`. A foreign process can only die of
  a hangup, a SIGKILL timer or `kill_orphan`. So the invariant follows the identity of processes through memory and disk:
  `ProcessOwned` (what `Session.process` holds is a process of that session), `RecordOwned` (so is the start time in
  `state.json`, whatever has its pid by now), `WatchedOwned` (watched processes and timers are of sessions), `IdsUsed`,
  and `PidsApart`: two processes that hold their pids have different ones, so that a signal by pid to a process that is
  not reaped reaches it alone. `NoForeignKill` therefore names its one exception exactly.
  The others stand on that invariant:
  - `OnlyLateSnapshotsStay`, late writes included: a session that was removed and is not in `state.json` is out of the
    map, a write in the pool's queue for it was there when it was removed, and an insert that is under way is of a session
    never seen (`CreatesFresh`, `SnapInv`).
  - `OneProcessEach` (`Spec /\ []RestartsApart`): a process the daemon waits for is the one its session holds, and what is
    about to be started has none (`WatchedIsHeld`, `NoneToStart`, `OwnersUsed`). `RestartsApart` says that no two
    connections are between check and spawn (`server.rs:517`) for one session at once. Nothing in the daemon ensures it;
    one client, whose requests are served in order, does. With it the theorem shows that this race is the only way to two
    processes.
  - `CrashesReported` (`~LateWrites`, `~RacingRestart`): `clean_shutdown` in the file means that no one serves and that the
    last image stopped (`CleanMeansClean`), nothing is written behind a stop's back (`NothingBehind`), and what is started
    again is no longer listed as restored or crashed (`StartedAlright`, `HandedAlright`).
  - `ListsAgree` (`~FastExit`, `~RacingRestart`, `[]RestartsApart`; late writes are allowed): a held process makes a
    session running with that pid (`HeldIsRunning`), a running session holds one or its exit is being told
    (`RunningIsHeld`, `ExitingFirst`), and this survives an exec (`StartsTold`, `HandedIsHeld`). Starts fail at any point;
    the sessions whose last one broke off behind the child are excepted, and are whole again once a start succeeds
    (`WatchedWhole`).
- `RoutineRunsProofs`. `EngineInvariant`, then `RunsTypeCorrect`, `QueuedSurvives`, and the action property
  `EndedForGood`. Files lag behind memory by the writes that are left, so `QueuedHasHit` needs all four combinations of
  runs and hits: `MemoryHit`, `FileHit`, and the crossed `MemoryFileHit` and `FileMemoryHit`, each weakened by the write
  that would restore it; they are what fixes the order engine-then-runs on enqueue and runs-then-engine on a start.
  `DroppingEnded` (a hit is dropped only for a run that ended, in memory and on disk), `SameRun` (file and memory agree
  on a run's routine and on ends), `RoutinesDrawn` and `RoutinesWritten` (a routine's id does not come back)
  close the induction; `WriteShape` lists the write sequences there are.
  The others stand on that invariant:
  - `RunningAttended` and `SlotsHold`, without hypotheses. Of the runs a pump starts the newest was
    reached while the running ones and the older ones it starts left a slot (`StartedFit`); every other step only takes
    runs away from the running ones.
  - `ClientsKnow` (`~LateNews`): what clients were told last of a listed routine's run is its status (`Known`). The proof
    needs `QueuedHasHit`: only then does no pump cancel such a run without an event.
  - `AgentsAttended` (`~Racing`, `~Upgrades`, `KeepRuns >= MaxRuns`): a session that is not closed is of a started run in
    the list, which runs, or was hung up, or has its start task at its last step (`LiveAttended`, `StartsTaken`,
    `DeliversDone`, `RemovedWait`). The code keeps 1000 runs; the last hypothesis says no more than that are fired.
- `AppProofs` is about the app's side. `DaemonLink`, for every finite set of calls and every number of daemons that die:
  `LinkTyped`, `SnapshotComesFirst`, `RelayAttached`, `PendingAnswered`, all from `LinkInvariant`. `CallInv` ties the four places a call
  is known at (its caller, `pending`, the relay, ptyd) to the messages under way; its core is `AnswerFirst` (the answer
  of an entry that is there comes before its output), which with `resolve()`'s order gives snapshot before output.
  `Between` says what a lost connection leaves.
  - `HeldWhenAsked` (`~ChangesRace`), for any number of watches, saved settings, crashes and refusals. The hold, the
    pages and the tray are set one after the other by a reader that holds what it read before, so the invariant says who
    still owes what: one reader works at a time (`OneInv`), what it holds is still so, and all that is not its to put
    right is right (`OwedInv`). `ApplyIs` is what `apply` leaves whichever prompt or hold is refused.
  - `LidSleepsAgain` (`~ChangesRace`, `~Crashing`) adds `LidInv`: as long as nothing was refused the machine's switch is
    what Treeix believes, is off only if the settings ask for it, and is back before the process ends. A crash is what
    the hypothesis leaves out: nothing in the code restores the switch then.
  - `TypedInOrder` needs no switch, from `OrderInv`: pieces go in the order of their numbers from the transcriber's work
    (`WorkInv`) to the lines on the two pipes, those of pieces no longer awaited aside (`LinesInv`), and all of them are
    later than what is typed (`TypedInv`). The ids of a helper match its pieces, and lines of one that was switched off are
    strays, as no piece of the helper that runs is (`KeysInv`).
  - `PhaseIsShown` (`~DictationRaces`), from `PhaseInv`: the last phase among the lines that are not read, or else the
    shown one, is the helper's. The hypothesis leaves out the feature switched off during a dictation.
  - `OneEntryEach` (`~DictationRaces`), for a history of any positive length (the code keeps 50): entries and
    their pieces are in order (`EntriesInv`), an unread piece that continues a dictation will find it newest (`UnreadInv`),
    and so will one still to be said (`SpokenInv`).
  - `MeetingsHaveShape` needs no switch. `CallsInv` bounds the timers: each is of a call that ended, and so is each report
    of one that is not read or still to be made.
  - `NobodyUnseen` (`~RecordingRaces`), from `TapeInv`: the helper records only into the current folder; of the lines it
    has not read at most one is an order to record, into that folder and behind no recording that goes on; and if the app
    does not show the recording, a stop is on its way. Failed starts, crashes and restarts are among the steps.
  - `BarsTell`: the bar is set apart from the webview, so it is right because a navigation that waits is the only one of
    its pane, which is not loading (`NavsInv`), webviews are never shared (`PanesInv`, `MadeInv`), and every step that
    ends a page or starts one sets the bar with it (`BarInv`). The property speaks of runs in which loads and
    navigations of one pane do not overlap; `MaxViews` is only assumed to be a number.
- `ChatRelayProofs`, for every set of channels, log length and number of losses: `RelayTyped` and `SeqsNeverRepeat` from
  `RelayInvariant` (who has the lock and what it has asked for, `LockInv`, `WireInv`; the relay's seq of a channel is the
  one the channel lacks, `SeqsAgree`). `WatchedChatsStream` adds `FollowInv`: after the last answer nothing is left out of
  the stream, and what was left out before it is asked for again. `RelayImplementsView` (`~WindowsClose`) is the
  refinement: `StreamInvariant` says that nothing at all is left out between what a channel has got and what is under
  way, so that an entry which is read is the next one of every channel it is sent to, and each step maps to a step of
  `LogView` or to none.
- `ChatProofs`, for all finite sets of prompts and setters and every bound on cards, entries and restarts.
  `ChatInvariant` needs no hypothesis about switches: types (`TypesInv`), the generations that starts, stops and closes
  take (`TokensInv`), what is empty before the chat is created (`NothingYet`), and who has the agent that works
  (`AgentsInv`). From it follow `ChatTyped`, `OneAgentEach` (an agent at work is the one in `live` or of the one task
  that is connecting, and while one connects `live` is empty) and `SeqsOnce`.
  - `ClosedForGood` (`~Racing`): of a closed chat no file is left or about to be written, and a task that is still
    connecting holds a generation that has passed (`ClosedInv`).
  - `StatusTold` and `AsksAttended` (`~Racing`), from `ServedInv`: a connection that is handed over is one of a process
    (`HandedInv`), a turn is a prompt's (`TurnsInv`), and while the chat is listed and not stopping each status has what
    it stands for, cards included (`StatusInv`).
- `TriggersProofs`, for every set of schedules, events and hooks. What a tick fires is the least or the greatest minute
  of the schedule in the window since the last one (`DueIs`, over the minimum and maximum of a finite set, `EndsOf`).
  `NothingFiresTwice` needs `~SetBack` (the clock is not turned back): what fired is behind the last tick or was seen
  (`FiredInv`). `MinutesAnswered` holds with a clock that is turned back as well. `HushedStayQuiet` needs `~Quiet`: what
  was found while nothing was to fire is seen before anything fires (`HushInv`).

- `ComponentProofs`, for all sets of callers, stores, keys, targets, folders and every bound.
  - `StoresSafe` (`Serial`): a caller that is past its load has a store to itself, and will write what the acknowledged
    updates and its own make (`StoresInv`). `Serial` is what the code does not ensure; without it two updates that overlap
    lose one.
  - `FilesTyped` counts the history by the times of its snapshots: they differ (`SnapsApart`), so that dropping the oldest
    brings the number back to `MAX_ENTRIES` (`FewKept`). `BurstsKept` (`~Racing`) needs that what is held is what
    was expected from the check to the write, and that from the snapshot on the newest one is of it or of its
    burst (`SavingInv`). `UnwatchesStop` holds by itself.
  - `WorktreesTyped` and `OneCreationEach` need no switch: `ADDING` names, for each process and target, the one call that
    creates, and a call that joined knows it (`CallsInv`); a worktree that is there is on a branch that exists
    (`TreesInv`). `AnswersHold` adds what each step of a call has found or made (`AnswerInv`) and that one call works at a
    time. Its property speaks of runs in which nothing else touches the repository during a call.
  - `StatusTyped` needs no switch. `DoneAfterWork` (`~StartPrompts`): while the session has not worked, nothing that would
    tell of work is in the agent, its file, on its screen or in what the watcher has read of them (`WorkedInv`). What the
    hypothesis leaves out is an agent that asks before its first turn, as for trust in a folder.
  - `EnvsAreServers` from `ServerInv`: between the start of an ensure and its end the environment may lag, at no other
    time. `AddressKeeps` from `AddressInv`: an address that was saved stays the one the app has kept, its token in
    any case, its port while no other program may take it (`Lasting`); one that could not be saved is in `unsaved`.
    Failed starts and saves that fail are among its steps.
  - `ExitsComeLast` from `LspInv`, which counts what the server wrote, what was read and what is on the channel.
  - `ResetsAhead` and `NothingOverstated`, for windows of any length but 0, from `PlanInv`: a reading that
    names a reset is of a window that is over, or of the plan's and says no more than it has used. The desktop app's
    readings name none.
  - `CacheCounts`: an entry is as long as its log or shorter, and counts the log when it is as long (`Counts`). Logs
    only grow, so what was counted stays right or becomes too short to pass (`CountsStay`), in the file and in every scan
    that will write it (`ScanInv`); of a rollout's two paths only one passes at a time.

`CallsRace`, `CallsLate`, `ChangesRace`, `LoadsRace`, `DictationRaces`, `RecordingRaces` and `Late` are the names these two
modules give the `Racing` of `Worktrees`, `Limits`, `Awake`, `Browser`, `Dictation`, `Voice` and `AgentStatus`.

Only model-checked:

- all liveness, and `LogView`'s refinement when windows close: fairness and ENABLED are out of the prover's reach, and the
  latter does not hold;
- what recursive definitions and folds compute (`ModuleGraph`'s search, `Osc`'s scanner, the sum that is `Usage`'s answer,
  the list of a pane's entries): that is induction over data;
- `Chat`'s action property on titles, and `Mcp`'s property on its config file;
- `Conversations`, `Checkout` and `Files`' `EditNotLost`: with nothing between a look and its answer, or a check and its
  write, they hold by their guards, and with something between they do not, so a theorem would add nothing to the runs;
- `Ports` (which processes are below which is the closure of a tree, again induction over data).

## 9. Not modelled

Within the core: the terminal's contents, the formatting of titles, prompts and branches; `Resize`, `Input` and
renames (no control depends on them); a write of `state.json` or a snapshot that fails (it is logged and the state goes on in memory); a restart by
hand of an ended run's session; the run history's record; a change of `maxParallel` in the settings; the few
instructions between `signal()` reading a pid and sending (`session.rs:724`).

Within the other components: what messages, cards, pages, transcripts and config files say beyond what control depends
on; audio and models; screenshots, scripts and cookies of the browser; git's own behaviour beyond what it refuses; the
backoff and ETags of the poller; ports that are taken for the webhook listener; the main checkout as a branch's
worktree; children of a language server that keep its stderr open, which delays the report of its exit.

Not at all, with the reasons in `PROJECT.json`: screen encoding, phone access, the protocol crate, the bench client,
the app's shell services, pull requests and tickets, the user interface. They are I/O and parsing, or rendering.

Deadlock is not checked: with the counters at their bounds the models come to rest, and a daemon nobody uses rests as
well.
