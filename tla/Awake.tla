------------------------------- MODULE Awake -------------------------------
(* Keep awake and the tray (keep_awake.rs, tray.rs, commands/system.rs): the *)
(* hold on idle sleep and the lid switch follow the settings and whether an  *)
(* agent runs. Session events and saved settings each bring their own reader *)
(* with its own snapshot; quitting restores what was changed.                *)
EXTENDS Integers, FiniteSets

CONSTANTS
  Watchers,    \* watch_sessions under way at once
  Savers,      \* update_settings under way at once
  MaxChanges,  \* changes of agent and settings
  MaxFails,    \* prompts the user cancels and holds the system refuses
  Crashing,    \* TRUE: the app may crash
  Racing       \* TRUE: a change may come while another is being applied

VARIABLES
  settings,     \* on disk: [mode, lid_closed]
  agent,        \* the daemon's session: idle, running or needs
  watch,        \* watch_sessions: [at, running, needs, saved]
  save,         \* update_settings: [at, saved]
  inner,        \* KeepAwake's state: [agents_running, hold, lid_sleep_off, last]
  told,         \* the KeepAwakeState the pages have
  tray,         \* the needs the tray shows
  lid_stays_on, \* the machine does not sleep with its lid closed (pmset)
  app,          \* up, restored (quitting) or down
  changes, fails

avars == <<settings, agent, watch, save, inner, told, tray, lid_stays_on, app,
           changes, fails>>

Modes == {"off", "on", "untilAgentsFinish"}
AnyOf == [on |-> FALSE, active |-> FALSE]
NoWatch == [at |-> "idle", running |-> FALSE, needs |-> FALSE,
            saved |-> [mode |-> "off", lid_closed |-> FALSE], news |-> AnyOf]
NoSave == [at |-> "idle", saved |-> NoWatch.saved, news |-> AnyOf]
NoInner == [agents_running |-> FALSE, hold |-> FALSE, lid_sleep_off |-> FALSE,
            last |-> AnyOf]

AwakeInit ==
  /\ settings = [mode |-> "untilAgentsFinish", lid_closed |-> FALSE]
  /\ agent = "idle"
  /\ watch = [w \in Watchers |-> NoWatch]
  /\ save = [s \in Savers |-> NoSave]
  /\ inner = [NoInner EXCEPT !.last = [on |-> TRUE, active |-> FALSE]]
  /\ told = [on |-> TRUE, active |-> FALSE]
  /\ tray = FALSE /\ lid_stays_on = FALSE /\ app = "up"
  /\ changes = 0 /\ fails = 0

Idle ==
  /\ \A w \in Watchers : watch[w].at = "idle"
  /\ \A s \in Savers : save[s].at = "idle"
Calm == Racing \/ Idle

\* Whether the assertion should be held
wanted(saved, running) ==
  saved.mode = "on" \/ (saved.mode = "untilAgentsFinish" /\ running)

\* A prompt or a hold that may be refused, while refusals are left
Refused(r) == r => fails < MaxFails

\* The hold is never let go
apply_holding(saved, running) ==
  LET want == wanted(saved, running)
      lid_off == saved.lid_closed /\ (want \/ inner.lid_sleep_off)
  IN \E no_hold, no_lid \in BOOLEAN :
       /\ Refused(no_hold) /\ Refused(no_lid)
       /\ no_hold => want /\ ~inner.hold
       /\ no_lid => lid_off # inner.lid_sleep_off
       /\ fails' = fails + (IF no_hold \/ no_lid THEN 1 ELSE 0)
       /\ LET hold == inner.hold \/ (want /\ ~no_hold)
              news == [on |-> saved.mode # "off", active |-> hold]
          IN inner' = [agents_running |-> running, hold |-> hold, last |-> news,
                       lid_sleep_off |-> IF no_lid THEN inner.lid_sleep_off ELSE lid_off]
       /\ lid_stays_on' = IF ~no_lid /\ lid_off # inner.lid_sleep_off
                          THEN lid_off ELSE lid_stays_on

\* KeepAwake::apply up to its unlock: the hold, the lid, and the state to emit
apply(saved, running) ==
  LET want == wanted(saved, running)
      lid_off == saved.lid_closed /\ (want \/ inner.lid_sleep_off)
  IN \E no_hold, no_lid \in BOOLEAN :
       /\ Refused(no_hold) /\ Refused(no_lid)
       /\ no_hold => want /\ ~inner.hold
       /\ no_lid => lid_off # inner.lid_sleep_off
       /\ fails' = fails + (IF no_hold \/ no_lid THEN 1 ELSE 0)
       /\ LET hold == want /\ (inner.hold \/ ~no_hold)
              news == [on |-> saved.mode # "off", active |-> hold]
          IN inner' = [agents_running |-> running, hold |-> hold, last |-> news,
                       lid_sleep_off |-> IF no_lid THEN inner.lid_sleep_off ELSE lid_off]
       /\ lid_stays_on' = IF ~no_lid /\ lid_off # inner.lid_sleep_off
                          THEN lid_off ELSE lid_stays_on

Alive == app \in {"up", "restored"}
StartWatch(w) == watch' = [watch EXCEPT ![w] = [NoWatch EXCEPT !.at = "list"]]

\* The daemon's session changes; its event starts a watch
AgentMoves(w) ==
  /\ app = "up" /\ changes < MaxChanges /\ Calm /\ watch[w].at = "idle"
  /\ \E a \in {"idle", "running", "needs"} \ {agent} : agent' = a
  /\ changes' = changes + 1
  /\ StartWatch(w)
  /\ UNCHANGED <<settings, save, inner, told, tray, lid_stays_on, app, fails>>

\* watch_sessions asks the daemon, then loads the settings
WatchLists(w) ==
  /\ Alive /\ watch[w].at = "list"
  /\ watch' = [watch EXCEPT ![w].at = "load", ![w].running = agent = "running",
                            ![w].needs = agent = "needs"]
  /\ UNCHANGED <<settings, agent, save, inner, told, tray, lid_stays_on, app,
                 changes, fails>>

WatchLoads(w) ==
  /\ Alive /\ watch[w].at = "load"
  /\ watch' = [watch EXCEPT ![w].at = "apply", ![w].saved = settings]
  /\ UNCHANGED <<settings, agent, save, inner, told, tray, lid_stays_on, app,
                 changes, fails>>

\* apply with what was read; a changed state goes out after the unlock
WatchApplies(w) ==
  /\ Alive /\ watch[w].at = "apply"
  /\ apply(watch[w].saved, watch[w].running)
  /\ watch' = [watch EXCEPT ![w].at = IF inner'.last # inner.last THEN "emit" ELSE "tray",
                            ![w].news = inner'.last]
  /\ UNCHANGED <<settings, agent, save, told, tray, app, changes>>

WatchEmits(w) ==
  /\ Alive /\ watch[w].at = "emit"
  /\ told' = watch[w].news
  /\ watch' = [watch EXCEPT ![w].at = "tray"]
  /\ UNCHANGED <<settings, agent, save, inner, tray, lid_stays_on, app, changes, fails>>

\* Tray::set_needs
WatchRenders(w) ==
  /\ Alive /\ watch[w].at = "tray"
  /\ tray' = watch[w].needs
  /\ watch' = [watch EXCEPT ![w] = NoWatch]
  /\ UNCHANGED <<settings, agent, save, inner, told, lid_stays_on, app, changes, fails>>

\* update_settings saves, then its event applies what it saved
SaveSettings(s) ==
  /\ app = "up" /\ changes < MaxChanges /\ Calm /\ save[s].at = "idle"
  /\ \E v \in [mode : Modes, lid_closed : BOOLEAN] \ {settings} :
       /\ settings' = v
       /\ save' = [save EXCEPT ![s] = [NoSave EXCEPT !.at = "saved", !.saved = v]]
  /\ changes' = changes + 1
  /\ UNCHANGED <<agent, watch, inner, told, tray, lid_stays_on, app, fails>>

SaveApplies(s) ==
  /\ Alive /\ save[s].at = "saved"
  /\ apply(save[s].saved, inner.agents_running)
  /\ save' = [save EXCEPT ![s] =
       IF inner'.last # inner.last
       THEN [NoSave EXCEPT !.at = "emit", !.news = inner'.last] ELSE NoSave]
  /\ UNCHANGED <<settings, agent, watch, told, tray, app, changes>>

SaveEmits(s) ==
  /\ Alive /\ save[s].at = "emit"
  /\ told' = save[s].news
  /\ save' = [save EXCEPT ![s] = NoSave]
  /\ UNCHANGED <<settings, agent, watch, inner, tray, lid_stays_on, app, changes, fails>>

\* A restore that only drops the hold
RestoreHold ==
  /\ app = "up" /\ Calm
  /\ app' = "restored"
  /\ inner' = [inner EXCEPT !.hold = FALSE]
  /\ UNCHANGED <<lid_stays_on, fails, settings, agent, watch, save, told, tray, changes>>

\* On quit: the hold goes, and lid sleep comes back if Treeix turned it off,
\* unless the prompt is cancelled
Restore ==
  /\ app = "up" /\ Calm
  /\ app' = "restored"
  /\ \/ /\ inner' = [inner EXCEPT !.hold = FALSE, !.lid_sleep_off = FALSE]
        /\ lid_stays_on' = (lid_stays_on /\ ~inner.lid_sleep_off)
        /\ fails' = fails
     \/ /\ inner.lid_sleep_off /\ fails < MaxFails
        /\ inner' = [inner EXCEPT !.hold = FALSE]
        /\ fails' = fails + 1
        /\ UNCHANGED lid_stays_on
  /\ UNCHANGED <<settings, agent, watch, save, told, tray, changes>>

Ended ==
  /\ app' = "down" /\ inner' = NoInner
  /\ watch' = [w \in Watchers |-> NoWatch] /\ save' = [s \in Savers |-> NoSave]
  /\ UNCHANGED <<settings, agent, told, tray, lid_stays_on, changes, fails>>

\* The process ends, with the hold and everything under way
Exit == app = "restored" /\ Ended

\* It ends without a quit
Crash == Crashing /\ app = "up" /\ Ended

\* The next start: setup applies the settings, and the connection to the daemon
\* starts a watch
Launch(w) ==
  /\ app = "down" /\ app' = "up"
  /\ apply(settings, FALSE)
  /\ told' = inner'.last /\ tray' = FALSE
  /\ StartWatch(w)
  /\ UNCHANGED <<settings, agent, save, changes>>

AwakeNext ==
  \/ \E w \in Watchers :
       \/ AgentMoves(w) \/ WatchLists(w) \/ WatchLoads(w) \/ WatchApplies(w)
       \/ WatchEmits(w) \/ WatchRenders(w) \/ Launch(w)
  \/ \E s \in Savers : SaveSettings(s) \/ SaveApplies(s) \/ SaveEmits(s)
  \/ Restore \/ Exit \/ Crash
AwakeSpec == AwakeInit /\ [][AwakeNext]_avars

\* When nothing is being applied, the machine is held awake exactly when the
\* settings and the agent ask for it, and the pages and the tray say so
\* (a hold the system refused apart)
AwakeWhenAsked ==
  app = "up" /\ Idle =>
    /\ inner.hold => wanted(settings, agent = "running")
    /\ fails = 0 => (inner.hold <=> wanted(settings, agent = "running"))
    /\ told = [on |-> settings.mode # "off", active |-> inner.hold]
    /\ tray = (agent = "needs")

\* "A Mac stuck awake in a bag is worse than a prompt": once Treeix has quit, lid
\* sleep is back, unless a prompt was cancelled; and it is never left off by
\* settings that do not ask for it
LidRestored ==
  /\ app = "down" /\ fails = 0 => ~lid_stays_on
  /\ app = "up" /\ Idle /\ fails = 0 /\ ~settings.lid_closed => ~lid_stays_on
============================================================================
