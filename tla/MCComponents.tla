---------------------------- MODULE MCComponents ----------------------------
(* The components of ptyd and of the app that keep no state in common, one   *)
(* per behaviour: the initial state picks the part, whose steps are the only *)
(* ones that follow.  Chat runs twice: with a task that sets an option, its  *)
(* handlers one after the other, and over a restart, its handlers            *)
(* overlapping where they hold no lock.  In "set_back" the wall clock of     *)
(* Triggers is set back.                                                     *)
(* Mcp, Usage and Awake run twice: "ports_taken" is Mcp next to other        *)
(* programs, "turns" is Usage with longer logs and one scan, "crashing" is   *)
(* Awake in an app that may crash.                                           *)
EXTENDS Integers, Sequences

CONSTANT Parts  \* the components whose behaviours are checked

VARIABLES
  part,   \* the component this behaviour is of
  chatUp, chat, gen, tasks, agents, chat_saves, saved, chat_seen,
  wall, gap, triggers_clock, last_tick, due, runs, first, passed, again, active,
  triggers_on, listed, triggers_seen, primed, poller_json, hits, hushed, listening,
  triggers_hook, stops, switches,
  trees, heads, fetch_head, ADDING, wcalls, asks, worktrees_fails, wrong,
  launched, front, kind, status_status, live, status_agent, everWorked, status_hook,
  screen, seq, poll, status_seen, fore, status_told, sending, usage, usage_seen,
  conversation, moves,
  state, payload, found, osc_output,
  rollouts, codex, look,
  socket, link, hello, writer, wired, link_call, pending, keeps, streams, link_page,
  got, attached, out, in, losses,
  entries, closed, viewing, conn, req, inbox, viewers, next_seq, open, last, twice,
  op, queue, breaks,
  enabled, voice_helper, phase, folder, voice_begun, meeting, voice_saves, mic,
  watched, timers, voice_process, voice_stdin, voice_stdout, tape, jobs, voice_call,
  heard, voice_downs, calls,
  dictation_helper, ctl, dictation_stdin, dictation_stdout, late, shown, starting,
  history, typed, strays, dictation_begun, pieces, dictation_downs,
  held, writes, expected, saving, forced, snaps, files_clock, agents_lost, slot,
  opening, wanted, asked,
  disk, aside, doing, acked, ops,
  commits, gone, checkout_status, torn, file,
  panes, views, pollers, drains, navs, up, made, browser_begun, drained_n,
  mcp_on, server, env, ensuring, port_json, secret, fresh, taken, handed, unsaved, installed,
  config, steps,
  logs, archived, spent, cache, scan,
  settings, awake_agent, watch, save, inner, awake_told, tray, lid_stays_on, app,
  changes, awake_fails,
  lsp_process, lsp_stdout, said, reader, input, inputs, unread, sends, task, lsp_page,
  lsp_output, stopped,
  edges, index, low, on_stack, stack, groups, graph_next, work, left, search, cycles,
  parent, listens, shell, kill, forks, hit

\* Codex's config.toml: lines of our table, its keys, other tables, blank lines;
\* our table is there once at most
Lines == {"ours", "key", "other", "blank"}
OneTable == {c \in UNION {[1 .. n -> Lines] : n \in 0 .. 3} :
               \A i, j \in DOMAIN c : c[i] = "ours" /\ c[j] = "ours" => i = j}

C == INSTANCE Chat WITH
  Prompts <- {"prompt"}, Setters <- {"setter"}, MaxAsks <- 1, MaxLives <- 1,
  MaxSeq <- 1, LogLimit <- 1, Racing <- FALSE, saves <- chat_saves, seen <- chat_seen
CR == INSTANCE Chat WITH
  Prompts <- {"prompt"}, Setters <- {}, MaxAsks <- 1, MaxLives <- 2, MaxSeq <- 1,
  LogLimit <- 1, Racing <- TRUE, saves <- chat_saves, seen <- chat_seen
T == INSTANCE Triggers WITH
  Cron <- {1, 2}, Events <- {"event"}, MaxTime <- 2, MaxStops <- 1, MaxSwitches <- 3,
  Hooks <- {"hook"}, SetBack <- FALSE, Quiet <- FALSE, clock <- triggers_clock,
  on <- triggers_on, seen <- triggers_seen, hook <- triggers_hook
TB == INSTANCE Triggers WITH
  Cron <- {1, 2}, Events <- {}, MaxTime <- 2, MaxStops <- 0, MaxSwitches <- 0,
  Hooks <- {}, SetBack <- TRUE, Quiet <- FALSE, clock <- triggers_clock,
  on <- triggers_on, seen <- triggers_seen, hook <- triggers_hook
W == INSTANCE Worktrees WITH
  AppCallers <- {"app1", "app2"}, DaemonCallers <- {"daemon1"},
  Branches <- {"branch"}, Prs <- {}, MaxCalls <- 2, MaxFails <- 1, Racing <- TRUE,
  fails <- worktrees_fails
H == INSTANCE AgentStatus WITH
  MaxMoves <- 3, StartPrompts <- FALSE, Racing <- TRUE, status <- status_status,
  agent <- status_agent, hook <- status_hook, seen <- status_seen, told <- status_told
E == INSTANCE Osc WITH
  MAX_PAYLOAD <- 1, MaxBytes <- 5, MaxRead <- 3, output <- osc_output
X == INSTANCE Conversations WITH
  Sessions <- {"s1", "s2"}, CODEX_LOOKS <- 2, Racing <- FALSE
L == INSTANCE DaemonLink WITH
  Calls <- {"c1", "c2"}, MaxLosses <- 1, call <- link_call, page <- link_page
R == INSTANCE ChatRelay WITH
  Channels <- {"c1", "c2"}, MaxEntries <- 2, MaxBreaks <- 1, WindowsClose <- TRUE
V == INSTANCE Voice WITH
  MaxMeetings <- 1, MaxDowns <- 2, MaxCalls <- 2, Racing <- TRUE,
  helper <- voice_helper, begun <- voice_begun, saves <- voice_saves,
  process <- voice_process, stdin <- voice_stdin, stdout <- voice_stdout,
  call <- voice_call, downs <- voice_downs
D == INSTANCE Dictation WITH
  HISTORY_LIMIT <- 2, MaxDictations <- 2, MaxPieces <- 2, MaxDowns <- 1,
  Racing <- TRUE, helper <- dictation_helper, stdin <- dictation_stdin,
  stdout <- dictation_stdout, begun <- dictation_begun, downs <- dictation_downs
F == INSTANCE Files WITH
  MIN_GAP_MS <- 2, MAX_ENTRIES <- 2, MaxWrites <- 3, MaxClock <- 5,
  Roots <- {"r1", "r2"}, MaxWatches <- 3, Racing <- FALSE, clock <- files_clock
S == INSTANCE Stores WITH
  Names <- {"settings", "secrets", "sessions", "dictations"}, Callers <- {"c1", "c2"},
  Keys <- {"k1", "k2"}, MaxOps <- 3, Serial <- TRUE
K == INSTANCE Checkout WITH
  MaxCommits <- 3, Racing <- FALSE, status <- checkout_status
B == INSTANCE Browser WITH
  Panes <- {"p1"}, Local <- {"local"}, Remote <- {"remote"}, ENTRY_LIMIT <- 2,
  Ids <- {1, 2, 3}, MaxViews <- 2, MaxNavs <- 2, MaxDrains <- 1, Racing <- FALSE,
  begun <- browser_begun
M == INSTANCE Mcp WITH
  Ports <- {1, 2}, MaxSteps <- 2, Foreign <- FALSE, Configs <- OneTable, on <- mcp_on
MF == INSTANCE Mcp WITH
  Ports <- {1, 2}, MaxSteps <- 2, Foreign <- TRUE, Configs <- OneTable, on <- mcp_on
U == INSTANCE Usage WITH
  Scans <- {"u1", "u2"}, Replies <- {1}, MaxLines <- 1, MaxTurn <- 1, Larger <- FALSE
UT == INSTANCE Usage WITH
  Scans <- {"u1"}, Replies <- {1, 2}, MaxLines <- 2, MaxTurn <- 2, Larger <- FALSE
A == INSTANCE Awake WITH
  Watchers <- {"w1", "w2"}, Savers <- {"v1", "v2"}, MaxChanges <- 4, MaxFails <- 1,
  Crashing <- FALSE, Racing <- FALSE, agent <- awake_agent, told <- awake_told,
  fails <- awake_fails
AC == INSTANCE Awake WITH
  Watchers <- {"w1", "w2"}, Savers <- {"v1", "v2"}, MaxChanges <- 4, MaxFails <- 1,
  Crashing <- TRUE, Racing <- FALSE, agent <- awake_agent, told <- awake_told,
  fails <- awake_fails
Q == INSTANCE Lsp WITH
  MaxMessages <- 2, MaxPipe <- 1, process <- lsp_process, stdout <- lsp_stdout,
  page <- lsp_page, output <- lsp_output
G == INSTANCE ModuleGraph WITH
  Count <- 4, next <- graph_next
O == INSTANCE Ports WITH
  Pids <- {2, 3, 4}, Sessions <- {"s1", "s2"}, TcpPorts <- {8, 9}, MaxForks <- 3,
  Racing <- FALSE

chatVars == <<chatUp, chat, gen, tasks, agents, chat_saves, saved, chat_seen>>
triggersVars == <<wall, gap, triggers_clock, last_tick, due, runs, first, passed,
                  again, active, triggers_on, listed, triggers_seen, primed,
                  poller_json, hits, hushed, listening, triggers_hook, stops, switches>>
worktreesVars == <<trees, heads, fetch_head, ADDING, wcalls, asks, worktrees_fails,
                   wrong>>
statusVars == <<launched, front, kind, status_status, live, status_agent, everWorked,
                status_hook, screen, seq, poll, status_seen, fore, status_told,
                sending, usage, usage_seen, conversation, moves>>
oscVars == <<state, payload, found, osc_output>>
rolloutsVars == <<rollouts, codex, look>>
linkVars == <<socket, link, hello, writer, wired, link_call, pending, keeps, streams,
              link_page, got, attached, out, in, losses>>
relayVars == <<entries, closed, viewing, conn, req, inbox, viewers, next_seq, open,
               last, twice, op, queue, breaks>>
voiceVars == <<enabled, voice_helper, phase, folder, voice_begun, meeting,
               voice_saves, mic, watched, timers, voice_process, voice_stdin,
               voice_stdout, tape, jobs, voice_call, heard, voice_downs, calls>>
dictationVars == <<dictation_helper, ctl, dictation_stdin, dictation_stdout, late,
                   shown, starting, history, typed, strays, dictation_begun,
                   pieces, dictation_downs>>
filesVars == <<held, writes, expected, saving, forced, snaps, files_clock,
               agents_lost, slot, opening, wanted, asked>>
storesVars == <<disk, aside, doing, acked, ops>>
checkoutVars == <<commits, gone, checkout_status, torn, file>>
browserVars == <<panes, views, pollers, drains, navs, up, made, browser_begun,
                 drained_n>>
mcpVars == <<mcp_on, server, env, ensuring, port_json, secret, fresh, taken, handed, unsaved,
             installed, config, steps>>
usageVars == <<logs, archived, spent, cache, scan>>
awakeVars == <<settings, awake_agent, watch, save, inner, awake_told, tray,
               lid_stays_on, app, changes, awake_fails>>
lspVars == <<lsp_process, lsp_stdout, said, reader, input, inputs, unread, sends,
             task, lsp_page, lsp_output, stopped>>
graphVars == <<edges, index, low, on_stack, stack, groups, graph_next, work, left,
               search, cycles>>
portsVars == <<parent, listens, shell, kill, forks, hit>>
vars == <<part, chatVars, triggersVars, worktreesVars, statusVars, oscVars, rolloutsVars,
          linkVars, relayVars, voiceVars, dictationVars, filesVars, storesVars,
          checkoutVars, browserVars, mcpVars, usageVars, awakeVars, lspVars,
          graphVars, portsVars>>

Init ==
  /\ part \in Parts
  /\ IF part = "racing" THEN CR!ChatInit ELSE C!ChatInit
  /\ IF part = "set_back" THEN TB!TriggersInit ELSE T!TriggersInit
  /\ W!WorktreesInit
  /\ H!AgentStatusInit /\ (part # "status" => launched = "claude")
  /\ E!OscInit
  /\ X!ConvInit
  /\ L!LinkInit /\ (part # "link" => socket = "none")
  /\ R!RelayInit
  /\ V!VoiceInit
  /\ D!DictationInit
  /\ F!FilesInit
  /\ S!StoresInit
  /\ K!CheckoutInit /\ (part # "checkout" => file.work = 0)
  /\ B!BrowserInit /\ (part # "browser" => up = {})
  /\ M!McpInit /\ (part \notin {"mcp", "ports_taken"} => ~mcp_on /\ config = <<>>)
  /\ IF part = "turns" THEN UT!UsageInit ELSE U!UsageInit
  /\ A!AwakeInit
  /\ Q!LspInit
  /\ IF part = "graph" THEN G!GraphInit ELSE G!GraphOf({})
  /\ O!PortsInit

Next ==
  /\ UNCHANGED part
  /\ \/ /\ part = "chat" /\ C!ChatNext
        /\ UNCHANGED <<triggersVars, worktreesVars, statusVars, oscVars, rolloutsVars,
                       linkVars, relayVars, voiceVars, dictationVars, filesVars,
                       storesVars, checkoutVars, browserVars, mcpVars, usageVars,
                       awakeVars, lspVars, graphVars, portsVars>>
     \/ /\ part = "racing" /\ CR!ChatNext
        /\ UNCHANGED <<triggersVars, worktreesVars, statusVars, oscVars, rolloutsVars,
                       linkVars, relayVars, voiceVars, dictationVars, filesVars,
                       storesVars, checkoutVars, browserVars, mcpVars, usageVars,
                       awakeVars, lspVars, graphVars, portsVars>>
     \/ /\ part = "triggers" /\ T!TriggersNext
        /\ UNCHANGED <<chatVars, worktreesVars, statusVars, oscVars, rolloutsVars,
                       linkVars, relayVars, voiceVars, dictationVars, filesVars,
                       storesVars, checkoutVars, browserVars, mcpVars, usageVars,
                       awakeVars, lspVars, graphVars, portsVars>>
     \/ /\ part = "set_back" /\ TB!TriggersNext
        /\ UNCHANGED <<chatVars, worktreesVars, statusVars, oscVars, rolloutsVars,
                       linkVars, relayVars, voiceVars, dictationVars, filesVars,
                       storesVars, checkoutVars, browserVars, mcpVars, usageVars,
                       awakeVars, lspVars, graphVars, portsVars>>
     \/ /\ part = "worktrees" /\ W!WorktreesNext
        /\ UNCHANGED <<chatVars, triggersVars, statusVars, oscVars, rolloutsVars,
                       linkVars, relayVars, voiceVars, dictationVars, filesVars,
                       storesVars, checkoutVars, browserVars, mcpVars, usageVars,
                       awakeVars, lspVars, graphVars, portsVars>>
     \/ /\ part = "status" /\ H!AgentStatusNext
        /\ UNCHANGED <<chatVars, triggersVars, worktreesVars, oscVars, rolloutsVars,
                       linkVars, relayVars, voiceVars, dictationVars, filesVars,
                       storesVars, checkoutVars, browserVars, mcpVars, usageVars,
                       awakeVars, lspVars, graphVars, portsVars>>
     \/ /\ part = "osc" /\ E!OscNext
        /\ UNCHANGED <<chatVars, triggersVars, worktreesVars, statusVars,
                       rolloutsVars, linkVars, relayVars, voiceVars, dictationVars,
                       filesVars, storesVars, checkoutVars, browserVars, mcpVars,
                       usageVars, awakeVars, lspVars, graphVars, portsVars>>
     \/ /\ part = "rollouts" /\ X!ConvNext
        /\ UNCHANGED <<chatVars, triggersVars, worktreesVars, statusVars, oscVars,
                       linkVars, relayVars, voiceVars, dictationVars, filesVars,
                       storesVars, checkoutVars, browserVars, mcpVars, usageVars,
                       awakeVars, lspVars, graphVars, portsVars>>
     \/ /\ part = "link" /\ L!LinkNext
        /\ UNCHANGED <<chatVars, triggersVars, worktreesVars, statusVars, oscVars,
                       rolloutsVars, relayVars, voiceVars, dictationVars, filesVars,
                       storesVars, checkoutVars, browserVars, mcpVars, usageVars,
                       awakeVars, lspVars, graphVars, portsVars>>
     \/ /\ part = "relay" /\ R!RelayNext
        /\ UNCHANGED <<chatVars, triggersVars, worktreesVars, statusVars, oscVars,
                       rolloutsVars, linkVars, voiceVars, dictationVars, filesVars,
                       storesVars, checkoutVars, browserVars, mcpVars, usageVars,
                       awakeVars, lspVars, graphVars, portsVars>>
     \/ /\ part = "voice" /\ V!VoiceNext
        /\ UNCHANGED <<chatVars, triggersVars, worktreesVars, statusVars, oscVars,
                       rolloutsVars, linkVars, relayVars, dictationVars, filesVars,
                       storesVars, checkoutVars, browserVars, mcpVars, usageVars,
                       awakeVars, lspVars, graphVars, portsVars>>
     \/ /\ part = "dictation" /\ D!DictationNext
        /\ UNCHANGED <<chatVars, triggersVars, worktreesVars, statusVars, oscVars,
                       rolloutsVars, linkVars, relayVars, voiceVars, filesVars,
                       storesVars, checkoutVars, browserVars, mcpVars, usageVars,
                       awakeVars, lspVars, graphVars, portsVars>>
     \/ /\ part = "files" /\ F!FilesNext
        /\ UNCHANGED <<chatVars, triggersVars, worktreesVars, statusVars, oscVars,
                       rolloutsVars, linkVars, relayVars, voiceVars, dictationVars,
                       storesVars, checkoutVars, browserVars, mcpVars, usageVars,
                       awakeVars, lspVars, graphVars, portsVars>>
     \/ /\ part = "stores" /\ S!StoresNext
        /\ UNCHANGED <<chatVars, triggersVars, worktreesVars, statusVars, oscVars,
                       rolloutsVars, linkVars, relayVars, voiceVars, dictationVars,
                       filesVars, checkoutVars, browserVars, mcpVars, usageVars,
                       awakeVars, lspVars, graphVars, portsVars>>
     \/ /\ part = "checkout" /\ K!CheckoutNext
        /\ UNCHANGED <<chatVars, triggersVars, worktreesVars, statusVars, oscVars,
                       rolloutsVars, linkVars, relayVars, voiceVars, dictationVars,
                       filesVars, storesVars, browserVars, mcpVars, usageVars,
                       awakeVars, lspVars, graphVars, portsVars>>
     \/ /\ part = "browser" /\ B!BrowserNext
        /\ UNCHANGED <<chatVars, triggersVars, worktreesVars, statusVars, oscVars,
                       rolloutsVars, linkVars, relayVars, voiceVars, dictationVars,
                       filesVars, storesVars, checkoutVars, mcpVars, usageVars,
                       awakeVars, lspVars, graphVars, portsVars>>
     \/ /\ part = "mcp" /\ M!McpNext
        /\ UNCHANGED <<chatVars, triggersVars, worktreesVars, statusVars, oscVars,
                       rolloutsVars, linkVars, relayVars, voiceVars, dictationVars,
                       filesVars, storesVars, checkoutVars, browserVars, usageVars,
                       awakeVars, lspVars, graphVars, portsVars>>
     \/ /\ part = "ports_taken" /\ MF!McpNext
        /\ UNCHANGED <<chatVars, triggersVars, worktreesVars, statusVars, oscVars,
                       rolloutsVars, linkVars, relayVars, voiceVars, dictationVars,
                       filesVars, storesVars, checkoutVars, browserVars, usageVars,
                       awakeVars, lspVars, graphVars, portsVars>>
     \/ /\ part = "usage" /\ U!UsageNext
        /\ UNCHANGED <<chatVars, triggersVars, worktreesVars, statusVars, oscVars,
                       rolloutsVars, linkVars, relayVars, voiceVars, dictationVars,
                       filesVars, storesVars, checkoutVars, browserVars, mcpVars,
                       awakeVars, lspVars, graphVars, portsVars>>
     \/ /\ part = "turns" /\ UT!UsageNext
        /\ UNCHANGED <<chatVars, triggersVars, worktreesVars, statusVars, oscVars,
                       rolloutsVars, linkVars, relayVars, voiceVars, dictationVars,
                       filesVars, storesVars, checkoutVars, browserVars, mcpVars,
                       awakeVars, lspVars, graphVars, portsVars>>
     \/ /\ part = "awake" /\ A!AwakeNext
        /\ UNCHANGED <<chatVars, triggersVars, worktreesVars, statusVars, oscVars,
                       rolloutsVars, linkVars, relayVars, voiceVars, dictationVars,
                       filesVars, storesVars, checkoutVars, browserVars, mcpVars,
                       usageVars, lspVars, graphVars, portsVars>>
     \/ /\ part = "crashing" /\ AC!AwakeNext
        /\ UNCHANGED <<chatVars, triggersVars, worktreesVars, statusVars, oscVars,
                       rolloutsVars, linkVars, relayVars, voiceVars, dictationVars,
                       filesVars, storesVars, checkoutVars, browserVars, mcpVars,
                       usageVars, lspVars, graphVars, portsVars>>
     \/ /\ part = "lsp" /\ Q!LspNext
        /\ UNCHANGED <<chatVars, triggersVars, worktreesVars, statusVars, oscVars,
                       rolloutsVars, linkVars, relayVars, voiceVars, dictationVars,
                       filesVars, storesVars, checkoutVars, browserVars, mcpVars,
                       usageVars, awakeVars, graphVars, portsVars>>
     \/ /\ part = "graph" /\ G!GraphNext
        /\ UNCHANGED <<chatVars, triggersVars, worktreesVars, statusVars, oscVars,
                       rolloutsVars, linkVars, relayVars, voiceVars, dictationVars,
                       filesVars, storesVars, checkoutVars, browserVars, mcpVars,
                       usageVars, awakeVars, lspVars, portsVars>>
     \/ /\ part = "ports" /\ O!PortsNext
        /\ UNCHANGED <<chatVars, triggersVars, worktreesVars, statusVars, oscVars,
                       rolloutsVars, linkVars, relayVars, voiceVars, dictationVars,
                       filesVars, storesVars, checkoutVars, browserVars, mcpVars,
                       usageVars, awakeVars, lspVars, graphVars>>

Spec == Init /\ [][Next]_vars
-----------------------------------------------------------------------------
\* A chat, over overlapping requests, closes, crashes and restarts
ChatHolds ==
  \* connection() never has two agents at work on one chat, though requests,
  \* closes and failing handshakes overlap
  /\ part = "chat" => C!OneAgent
  /\ part = "racing" => CR!OneAgent
  \* Chats::load gives out no seq a client has seen, after a crash as after a
  \* stop
  /\ part = "chat" => C!SeqNeverReused
  /\ part = "racing" => CR!SeqNeverReused
  \* Neither files nor an agent of a closed chat come back through a task that
  \* still holds it (State::closed)
  /\ part = "chat" => C!ClosedKeepsNothing
  \* The status of a chat says what its agent, turns and cards are
  /\ part = "chat" => C!StatusTrue
  \* ended() leaves no permission card waiting for an agent that is gone
  /\ part = "chat" => C!AsksHaveAgent
  \* The fields of a chat are of their types and its log keeps LOG_LIMIT
  \* entries at most
  /\ part = "chat" => C!ChatTypeOK
  /\ part = "racing" => CR!ChatTypeOK

\* What fires routines, over sleep, a clock set back and deaths of ptyd
FiringsExact ==
  \* No minute of a schedule and no event fires twice (tick, Poller), though
  \* ptyd dies between its saves and its fires
  /\ part = "triggers" => T!NothingTwice
  \* tick skips no minute of a schedule over sleeps, busy machines and a wall
  \* clock set back
  /\ part = "triggers" => T!EveryMinuteAnswered
  /\ part = "set_back" => TB!EveryMinuteAnswered
  \* What the poller found while nothing was to fire does not fire later
  /\ part = "triggers" => T!HushedNeverFire
  \* A webhook run exists exactly when its caller was told so
  /\ part = "triggers" => T!TriggersTypeOK
  /\ part = "set_back" => TB!TriggersTypeOK

\* What ptyd and the app take to be so of a session is so
SessionsTrue ==
  \* A session that never worked is not Done, though both polls of it overlap
  \* (hooks.rs, poll_foreground)
  /\ part = "status" => H!DoneWasWork
  \* Two open codex sessions of a folder are never told the same conversation
  /\ part = "rollouts" => X!OneSessionEach
  \* The scanner finds every complete OSC sequence once, wherever reads cut it
  /\ part = "osc" => E!FoundExactly
  \* What the scanner holds between reads stays within MAX_PAYLOAD
  /\ part = "osc" => E!HeldIsBounded
  \* Statuses and what the polls have seen are of their types
  /\ part = "status" => H!AgentStatusTypeOK

\* The connection to ptyd and the chat windows behind it, over late answers,
\* losses and reloads
LinkHolds ==
  \* A terminal gets its snapshot before any output (Pending::stream), also
  \* when the attach was answered after its timeout
  /\ part = "link" => L!SnapshotFirst
  \* A channel of the relay is attached in ptyd on this connection: run()
  \* empties it between two
  /\ part = "link" => L!RelayIsAttached
  \* An entry of pending that nobody waits for has its answer coming
  /\ part = "link" => L!NoDeadPending
  \* No window is sent an entry of a chat twice, though the stream is replayed
  \* for another one or after a lost connection
  /\ part = "relay" => R!NoEntryTwice
  \* A chat some window watches is streamed, from where the window is, once
  \* nothing is under way (chat_attach, chat_detach)
  /\ part = "relay" => R!WatchedIsStreamed
  \* A whole connection is one to a daemon of our build
  /\ part = "link" => L!LinkTypeOK
  \* Viewers and the one operation under the lock are of their types
  /\ part = "relay" => R!RelayTypeOK

\* What files, stores, branches and worktrees hold when agents, windows,
\* failures and kills come between
FilesKept ==
  \* save_file never writes over an edit of an agent the editor has not loaded
  /\ part = "files" => F!EditNotLost
  \* After an unwatch nothing is watched, though watches were still starting
  /\ part = "files" => F!UnwatchStops
  \* A store that is renamed into place is whole whenever the app may be killed
  /\ part = "stores" => S!StoreWhole
  \* What a command reported as saved stays saved through later updates
  /\ part = "stores" => S!SavedStays
  \* git_status calls a branch merged only when the base has its commits
  /\ part = "checkout" => K!MergedIsInBase
  \* add_worktree creates the worktree of a target once per process, however
  \* its calls overlap
  /\ part = "worktrees" => W!OneCreation
  \* A file keeps MAX_ENTRIES snapshots at most
  /\ part = "files" => F!FilesTypeOK
  \* ADDING lists only calls that still create
  /\ part = "worktrees" => W!WorktreesTypeOK

\* What is computed from logs, imports and processes that change meanwhile
ReportsTrue ==
  \* An entry of the usage cache that passes for a log counts that log exactly,
  \* though logs grow while they are read and two scans write one cache
  /\ part \in {"usage", "turns"} => U!CacheIsTrue
  \* A usage scan counts nothing twice and leaves nothing out
  /\ part = "usage" => U!AnswerInRange
  /\ part = "turns" => UT!AnswerInRange
  \* The groups of strongly_connected are the classes of files that reach each
  \* other
  /\ part = "graph" => G!GroupsAreClasses
  \* Each group has one cycle, a shortest one through its first file
  \* (shortest_cycle)
  /\ part = "graph" => G!ShortestCycles
  \* attribute_ports gives each listener to the session above it, once per port
  /\ part = "ports" => O!PortsExact
  \* kill_port signals only a process under a session that listens on the port
  /\ part = "ports" => O!KilledIsOurs

\* The services of the app, over crashes, switches and late answers
ServicesHold ==
  \* Pieces are typed in the order they were said, though answers come after
  \* their timeout; other words for a piece are only those of a helper that was
  \* switched off
  /\ part = "dictation" => D!TypedAsSaid
  \* A bar of the built-in browser that says loading has a page under way
  /\ part = "browser" => B!LoadingIsReal
  \* An error the pane shows is of the address it shows
  /\ part = "browser" => B!ErrorAtRest
  \* agent_env hands out the MCP server that runs, or none, also after a start
  \* that failed
  /\ part \in {"mcp", "ports_taken"} => M!EnvIsServer
  \* Agents and the installed entry keep the MCP server's token, and its port
  \* while no other program takes it, over switches, failed starts and app
  \* restarts, unless their start could not save them
  /\ part = "mcp" => M!AgentsReach
  /\ part = "ports_taken" => MF!AgentsReach
  \* The machine is held awake when settings and agents ask for it, and pages
  \* and tray say so
  /\ part \in {"awake", "crashing"} => A!AwakeWhenAsked
  \* Lid sleep is back once Treeix has quit, and never left off by settings
  \* that do not ask for it
  /\ part = "awake" => A!LidRestored
  \* A language server's messages all come before its exit, though its reader
  \* and its task end apart
  /\ part = "lsp" => Q!ExitIsLast
  \* A folder is current exactly while a recording is shown, whatever crashes
  \* or comes late
  /\ part = "voice" => V!VoiceTypeOK
  \* A pane keeps the newest ENTRY_LIMIT entries of its console
  /\ part = "browser" => B!BrowserTypeOK

\* What a write may never take away
WritesKeep ==
  [][
    \* What a save writes over can be had back from the history, or is part of a
    \* burst that can (snapshot_before_save)
    /\ F!KeepsBurst
    \* discard_changes takes a file of the index back to HEAD, staged or not
    /\ K!RestoresHead
    \* An install leaves one table of ours in Codex's config and the others as
    \* they were
    /\ M!KeepsOthers
  ]_vars
=============================================================================
