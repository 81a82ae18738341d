------------------------------ MODULE Triggers -------------------------------
(***************************************************************************)
(* What fires routines (crates/ptyd/src/routines: schedule.rs, triggers.rs *)
(* and the timers of mod.rs): the minute tick of a schedule, through sleep,*)
(* restarts and a clock set back; the poller of events; the webhook        *)
(* listener.  One routine of each kind; time is in ticks' minutes, and a   *)
(* run is what it stands for: a fire time, an event or a request.          *)
(***************************************************************************)
EXTENDS Integers, FiniteSets, FiniteSetsExt

CONSTANTS
    Cron,           \* the minutes the schedule fires at
    Events,         \* what gh or acli may list
    MaxTime,        \* bound: the wall clock
    MaxStops,       \* bound: times ptyd dies
    MaxSwitches,    \* bound: changes of what is on
    Hooks,          \* webhook requests
    SetBack,        \* whether the wall clock may be set back
    Quiet           \* whether ptyd may die after a poll round that was not to fire

VARIABLES
    wall,       \* the wall clock
    gap,        \* minutes it ran ahead of the monotonic one since the last tick
    clock,      \* State::clock, its wall time; None after a start
    last_tick,  \* saved.last_tick
    due,        \* what tick() returned and fire() has not had yet
    runs,       \* the runs enqueued, with the window of minutes each answers for
    first,      \* ghost: the time of the first tick
    passed,     \* ghost: windows nothing fired in: inactive, or ptyd died with them in hand
    again,      \* ghost: fire times or events that fired a second time
    active,     \* active(): the feature is on, and an app or background runs
    on,         \* the event routine and the webhook routine are enabled
    listed,     \* the events gh lists now
    seen, primed,   \* the Poller
    poller_json,    \* its file
    hits,       \* what poll() returned and fire() has not had yet
    hushed,     \* ghost: events a round that fires nothing found
    listening,  \* the webhook listener
    hook,       \* each request: "none", "sent", then its status
    stops, switches

scheduleVars == <<wall, gap, clock, last_tick, due, runs, first, passed>>
pollerVars == <<listed, seen, primed, poller_json, hits, hushed>>
hookVars == <<listening, hook>>
triggerVars == <<scheduleVars, pollerVars, hookVars, again, active, on, stops, switches>>

None == MaxTime + 1
Window(a, b, at, how) == [from |-> a, to |-> b, at |-> at, how |-> how]

TriggersInit ==
    /\ wall = 0 /\ gap = 0 /\ clock = None /\ last_tick = None
    /\ due = {} /\ runs = {} /\ passed = {} /\ again = {} /\ first = None
    /\ active = TRUE /\ on = TRUE
    /\ listed = {} /\ seen = {} /\ primed = FALSE
    /\ poller_json = [seen |-> {}, primed |-> FALSE] /\ hits = {} /\ hushed = {}
    /\ listening = FALSE /\ hook = [h \in Hooks |-> "none"]
    /\ stops = 0 /\ switches = 0

-----------------------------------------------------------------------------
Passes(n, asleep) ==
    /\ wall + n <= MaxTime /\ wall' = wall + n /\ gap' = IF asleep THEN gap + n ELSE gap
    /\ UNCHANGED <<clock, last_tick, due, runs, first, passed>>

TimePasses ==
    /\ \/ Passes(1, FALSE)
       \/ Passes(2, TRUE)    \* the computer sleeps
       \/ /\ SetBack /\ wall > 1 /\ gap >= 0    \* bound: set back once per tick
          /\ wall' = wall - 2 /\ gap' = gap - 2 /\ UNCHANGED <<clock, last_tick, due, runs, first, passed>>
    /\ UNCHANGED pollerVars /\ UNCHANGED hookVars /\ UNCHANGED <<again, active, on, stops, switches>>

(* next_fire over and over from `a`, up to `b` included                    *)
Fires(a, b) == {t \in Cron : a < t /\ t <= b}

Pick(ts, a, b, asleep, skips) ==
    IF ts = {} THEN {}
    ELSE {Window(a, b, IF asleep THEN Max(ts) ELSE Min(ts),
                 IF ~asleep THEN "schedule" ELSE IF skips THEN "skipped" ELSE "catchUp")}

DueFrom(a, b, asleep, skips) == Pick({t \in Cron : a <= t /\ t <= b}, a, b, asleep, skips)

DueBefore(a, b, asleep, skips) == Pick({t \in Cron : a < t /\ t < b}, a, b, asleep, skips)

(* due(): one run however many fire times passed (the first, or the last   *)
(* when the window was slept through: CatchUp, or Skipped by the routine)  *)
Due(a, b, asleep, skips) == Pick(Fires(a, b), a, b, asleep, skips)

(* tick(), then the listener's turn.  The time is saved before anything    *)
(* fires; a start or a sleep counts the gap as asleep.                     *)
Tick ==
    LET from == IF clock # None THEN clock ELSE IF last_tick # None THEN last_tick ELSE wall
        asleep == IF clock # None THEN gap > 1 ELSE last_tick # None
    IN  /\ due = {} /\ clock' = wall /\ gap' = 0 /\ last_tick' = wall
        /\ \E skips \in BOOLEAN : due' = IF active /\ wall > from THEN Due(from, wall, asleep, skips) ELSE {}
        /\ passed' = IF active THEN passed ELSE passed \cup {Window(from, wall, None, "quiet")}
        /\ first' = (IF first = None THEN wall ELSE first) /\ UNCHANGED <<wall, runs>>
        /\ listening' = (active /\ on)
        /\ UNCHANGED hook /\ UNCHANGED pollerVars /\ UNCHANGED <<again, active, on, stops, switches>>

(* fire() of what the tick returned                                        *)
FireDue(w) ==
    /\ w \in due /\ due' = due \ {w} /\ runs' = runs \cup {w}
    /\ again' = again \cup {t \in Cron : t = w.at /\ \E r \in runs : t = r.at}
    /\ UNCHANGED <<wall, gap, clock, last_tick, first, passed>>
    /\ UNCHANGED pollerVars /\ UNCHANGED hookVars /\ UNCHANGED <<active, on, stops, switches>>

-----------------------------------------------------------------------------
Happens(e) ==   \* on GitHub or Jira; also a review asked for again
    /\ listed' = (IF e \in listed THEN listed \ {e} ELSE listed \cup {e}) /\ hushed' = hushed \ {e}
    /\ switches < MaxSwitches /\ switches' = switches + 1
    /\ UNCHANGED <<seen, primed, poller_json, hits>>
    /\ UNCHANGED scheduleVars /\ UNCHANGED hookVars /\ UNCHANGED <<again, active, on, stops>>

pollEnds(s, p, h, quiet) ==
    /\ seen' = s /\ primed' = p /\ hits' = h /\ hushed' = hushed \cup quiet
    /\ UNCHANGED listed /\ UNCHANGED scheduleVars /\ UNCHANGED hookVars
    /\ UNCHANGED <<again, active, on, stops, switches>>

(* fetch(): the events listed now, from gh's reply or the one cached for   *)
(* its ETag, or an error of any of the calls it takes                      *)
Fetched == {[ok |-> TRUE, found |-> listed], [ok |-> FALSE, found |-> {}]}

FreshUnprimed(found) == found \ seen

(* fresh(): the events not seen before; a kind's first round fires nothing *)
Fresh(found) == IF primed THEN found \ seen ELSE {}

(* hits(): an event is for the routine when its repo, or a checkout, is    *)
(* the event's                                                             *)
Hits(found) == {{}, found}

(* An active round, saved before anything fires; a fetch that fails leaves *)
(* the kind as it was, and a kind no routine wants is forgotten            *)
Poll ==
    /\ hits = {} /\ active
    /\ \/ \E f \in Fetched : \E h \in Hits(Fresh(f.found)) :
            on /\ pollEnds(seen \cup f.found, primed \/ f.ok, h, {})
       \/ ~on /\ pollEnds(seen, FALSE, {}, listed \ seen)
    /\ poller_json' = [seen |-> seen', primed |-> primed']

(* An inactive one, which is not saved                                     *)
PollInactive ==
    /\ hits = {} /\ ~active
    /\ pollEnds(seen, FALSE, {}, listed \ seen) /\ UNCHANGED poller_json

FireHit(e) ==
    /\ e \in hits /\ hits' = hits \ {e}
    /\ runs' = runs \cup {Window(None, None, None, e)}
    /\ again' = IF Window(None, None, None, e) \in runs THEN again \cup {e} ELSE again
    /\ UNCHANGED <<listed, seen, primed, poller_json, hushed>>
    /\ UNCHANGED <<wall, gap, clock, last_tick, due, first, passed>> /\ UNCHANGED hookVars
    /\ UNCHANGED <<active, on, stops, switches>>

-----------------------------------------------------------------------------
(* The webhook listener: a POST, its reading with a timeout, and fire()    *)
Post(h) ==
    /\ hook[h] = "none" /\ listening /\ hook' = [hook EXCEPT ![h] = "sent"]
    /\ UNCHANGED listening /\ UNCHANGED scheduleVars /\ UNCHANGED pollerVars
    /\ UNCHANGED <<again, active, on, stops, switches>>

ServeUnchecked(h) ==
    /\ hook[h] = "sent"
    /\ hook' = [hook EXCEPT ![h] = "accepted"]
    /\ runs' = IF active /\ on THEN runs \cup {Window(None, None, None, h)} ELSE runs
    /\ UNCHANGED <<wall, gap, clock, last_tick, due, first, passed, listening>> /\ UNCHANGED pollerVars
    /\ UNCHANGED <<again, active, on, stops, switches>>

Serve(h) ==
    /\ hook[h] = "sent"
    /\ IF active /\ on
       THEN hook' = [hook EXCEPT ![h] = "accepted"] /\ runs' = runs \cup {Window(None, None, None, h)}
       ELSE hook' = [hook EXCEPT ![h] = "refused"] /\ UNCHANGED runs
    /\ UNCHANGED <<wall, gap, clock, last_tick, due, first, passed, listening>> /\ UNCHANGED pollerVars
    /\ UNCHANGED <<again, active, on, stops, switches>>

ReadFails(h) ==   \* a bad request, too large, or READ_TIMEOUT
    /\ hook[h] = "sent" /\ hook' = [hook EXCEPT ![h] = "refused"]
    /\ UNCHANGED listening /\ UNCHANGED scheduleVars /\ UNCHANGED pollerVars
    /\ UNCHANGED <<again, active, on, stops, switches>>

(* put() sees to the listener, active() is only looked at                  *)
Switch ==
    /\ switches < MaxSwitches /\ switches' = switches + 1
    /\ \/ active' = ~active /\ UNCHANGED <<on, listening>>
       \/ on' = ~on /\ listening' = (active /\ on') /\ UNCHANGED active
    /\ UNCHANGED hook /\ UNCHANGED scheduleVars /\ UNCHANGED pollerVars /\ UNCHANGED <<again, stops>>

(* ptyd dies and starts: engine.json and poller.json are what it has       *)
Dies ==
    /\ stops < MaxStops /\ stops' = stops + 1
    /\ Quiet \/ primed = poller_json.primed
    /\ clock' = None /\ gap' = 0 /\ due' = {} /\ passed' = passed \cup due
    /\ seen' = poller_json.seen /\ primed' = poller_json.primed /\ hits' = {}
    /\ listening' = FALSE
    /\ hook' = [h \in Hooks |-> IF hook[h] = "sent" THEN "refused" ELSE hook[h]]
    /\ UNCHANGED <<wall, last_tick, runs, first, listed, poller_json, hushed, again, active, on, switches>>

TriggersNext ==
    \/ TimePasses \/ Tick \/ (\E w \in due : FireDue(w))
    \/ (\E e \in Events : Happens(e) \/ FireHit(e)) \/ Poll \/ PollInactive
    \/ (\E h \in Hooks : Post(h) \/ Serve(h) \/ ReadFails(h))
    \/ Switch \/ Dies

TriggersSpec == TriggersInit /\ [][TriggersNext]_triggerVars

-----------------------------------------------------------------------------
(* The state's shape; whatever a request was answered, the runs agree: a   *)
(* webhook's run exists exactly when its caller was told 202 (fire_hook,   *)
(* serve_webhooks).                                                        *)
TriggersTypeOK ==
    /\ wall \in 0 .. MaxTime /\ clock \in 0 .. None /\ last_tick \in 0 .. None
    /\ Cardinality(due) <= 1 /\ hits \subseteq Events /\ seen \subseteq Events
    /\ \A h \in Hooks : hook[h] = "accepted" <=> Window(None, None, None, h) \in runs

(* Nothing fires twice: no minute of a schedule and no event, through      *)
(* sleep, a busy machine, and ptyd dying between its saves and its fires   *)
(* (tick saves last_tick, the poller `seen`, before anything fires).       *)
NothingTwice == again = {}

(* No minute of a schedule is skipped over: each one up to the last tick   *)
(* belongs to a run, to one about to be made, or to a window that was not  *)
(* to fire or that ptyd died with (due, tick).                             *)
EveryMinuteAnswered ==
    last_tick # None =>
        \A t \in {t \in Cron : first < t /\ t <= last_tick} :
            \E w \in runs \cup due \cup passed : w.from < t /\ t <= w.to

(* Events found while a kind was not wanted, or while nothing was to fire, *)
(* do not fire later (spawn's poll loop, Poller::primed).                  *)
HushedNeverFire == hits \cap hushed = {}
=============================================================================
