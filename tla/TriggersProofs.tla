--------------------------- MODULE TriggersProofs ---------------------------
(***************************************************************************)
(* What Triggers guarantees for every schedule, every set of events and    *)
(* requests, and any number of deaths of ptyd and changes of what is on:   *)
(* nothing fires twice, no minute is skipped over, what was found while    *)
(* nothing was to fire stays quiet, and a request's answer says whether    *)
(* its run is there.                                                       *)
(***************************************************************************)
EXTENDS Triggers, FiniteSetTheorems, WellFoundedInduction, TLAPS

-----------------------------------------------------------------------------
(* What the instance is assumed to be: times are minutes, and a request is *)
(* not an event                                                            *)

TriggersBounds ==
  /\ Cron \in SUBSET Nat /\ MaxTime \in Nat
  /\ Events \cap Hooks = {}

-----------------------------------------------------------------------------
(* The invariant *)

\* A start and every tick leave the time of the last one
TimesInv ==
  /\ wall \in 0..MaxTime /\ gap \in Int
  /\ clock \in 0..None /\ last_tick \in 0..None /\ first \in 0..None
  /\ clock # None => clock = last_tick
  /\ first = None <=> last_tick = None

\* What tick() returns: one window, and the minute of the schedule it is for
WindowsInv ==
  /\ \E u : due \subseteq {u}
  /\ \A w \in due : last_tick # None /\ w.at \in Cron /\ w.at <= last_tick

\* The run of an event or of a request
RunOf(x) == Window(None, None, None, x)

HooksInv ==
  /\ hook \in [Hooks -> {"none", "sent", "accepted", "refused"}]
  /\ \A h \in Hooks : hook[h] = "accepted" <=> RunOf(h) \in runs

PollerInv ==
  /\ listed \subseteq Events /\ seen \subseteq Events
  /\ hits \subseteq seen /\ poller_json.seen = seen

TriggersInv == TimesInv /\ WindowsInv /\ HooksInv /\ PollerInv

\* What fired is behind the last tick, or was seen
FiredInv ==
  /\ again = {}
  /\ last_tick # None => last_tick <= wall
  /\ \A r \in runs : r.at = None \/ (last_tick # None /\ r.at \in Cron /\ r.at <= last_tick)
  /\ \A w \in due : \A r \in runs : r.at # w.at
  /\ \A e \in Events : RunOf(e) \in runs => e \in seen /\ e \notin hits

\* What was found while nothing was to fire is listed still, and seen before
\* anything fires
HushInv ==
  /\ hushed \subseteq listed
  /\ primed => hushed \subseteq seen
  /\ hits \cap hushed = {}

-----------------------------------------------------------------------------
(* What the helpers do *)

LEMMA LeastOf ==
  ASSUME NEW S \in SUBSET Nat, S # {}
  PROVE  \E m \in S : \A n \in S : m <= n
  <1>1. PICK m \in S : \A n \in S : ~(<<n, m>> \in OpToRel(<, Nat))
    BY NatLessThanWellFounded, WFMin
  <1>2. \A n \in S : ~(n < m)
    BY <1>1 DEF OpToRel
  <1>3. QED
    BY <1>2

\* Min and Max of the fire times of a window
LEMMA EndsOf ==
  ASSUME NEW S \in SUBSET Nat, S # {}, NEW b \in Nat, \A t \in S : t <= b
  PROVE  Min(S) \in S /\ Max(S) \in S
  <1>1. Min(S) \in S
    BY LeastOf DEF Min
  <1>2. PICK m \in {b - t : t \in S} : \A n \in {b - t : t \in S} : m <= n
    <2>1. {b - t : t \in S} \in SUBSET Nat /\ {b - t : t \in S} # {}
      <3>1. \A t \in S : b - t \in Nat
        OBVIOUS
      <3>2. QED
        BY <3>1
    <2> DEFINE D == {b - t : t \in S}
    <2>2. D \in SUBSET Nat /\ D # {}
      BY <2>1
    <2> HIDE DEF D
    <2>3. \E m \in D : \A n \in D : m <= n
      BY <2>2, LeastOf
    <2>4. QED
      BY <2>3 DEF D
  <1>3. PICK x \in S : m = b - x
    BY <1>2
  <1>4. \A t \in S : b - x <= b - t
    BY <1>2, <1>3
  <1>5. \A t \in S : x >= t
    BY <1>4
  <1>6. Max(S) \in S
    BY <1>5 DEF Max
  <1>7. QED
    BY <1>1, <1>6

LEMMA WindowsAre ==
  ASSUME NEW a, NEW b, NEW t, NEW how, NEW x, NEW y
  PROVE  /\ Window(a, b, t, how).from = a /\ Window(a, b, t, how).to = b /\ Window(a, b, t, how).at = t
         /\ RunOf(x).at = None
         /\ RunOf(x) = RunOf(y) => x = y
  <1>1. RunOf(x).how = x /\ RunOf(y).how = y
    BY DEF RunOf, Window
  <1>2. QED
    BY <1>1 DEF RunOf, Window

LEMMA TimesAre ==
  ASSUME TriggersBounds
  PROVE  /\ MaxTime \in Nat /\ None \in Nat /\ None = MaxTime + 1
         /\ 0..MaxTime \subseteq 0..None
         /\ \A t \in 0..MaxTime : t # None
  BY DEF TriggersBounds, None

\* due(): a window with one of its minutes, when there is one
LEMMA DueIs ==
  ASSUME TriggersBounds, NEW a \in 0..MaxTime, NEW b \in 0..MaxTime, NEW asleep, NEW skips
  PROVE  /\ Fires(a, b) = {} => Due(a, b, asleep, skips) = {}
         /\ Fires(a, b) # {} =>
              \E w : /\ Due(a, b, asleep, skips) = {w} /\ w.from = a /\ w.to = b
                     /\ w.at \in Cron /\ a < w.at /\ w.at <= b
  <1>1. CASE Fires(a, b) = {}
    BY <1>1 DEF Due, Pick
  <1>2. CASE Fires(a, b) # {}
    <2>1. Fires(a, b) \in SUBSET Nat /\ \A t \in Fires(a, b) : t \in Cron /\ a < t /\ t <= b
      BY DEF Fires, TriggersBounds
    <2>2. b \in Nat
      BY DEF TriggersBounds
    <2>3. Min(Fires(a, b)) \in Fires(a, b) /\ Max(Fires(a, b)) \in Fires(a, b)
      BY <1>2, <2>1, <2>2, EndsOf
    <2> DEFINE at == IF asleep THEN Max(Fires(a, b)) ELSE Min(Fires(a, b))
               how == IF ~asleep THEN "schedule" ELSE IF skips THEN "skipped" ELSE "catchUp"
               w == Window(a, b, at, how)
    <2>4. Due(a, b, asleep, skips) = {w}
      BY <1>2 DEF Due, Pick
    <2>5. at \in Fires(a, b)
      BY <2>3
    <2> HIDE DEF at, how
    <2>6. w.from = a /\ w.to = b /\ w.at = at
      BY WindowsAre
    <2>7. QED
      BY <1>2, <2>1, <2>4, <2>5, <2>6
  <1>3. QED
    BY <1>1, <1>2

\* Where a window begins: at the last tick
Since == IF last_tick = None THEN wall ELSE last_tick

LEMMA TickIs ==
  ASSUME TriggersBounds, TimesInv, Tick
  PROVE  /\ Since \in 0..MaxTime /\ due = {}
         /\ clock' = wall /\ gap' = 0 /\ last_tick' = wall
         /\ first' = (IF first = None THEN wall ELSE first)
         /\ UNCHANGED <<wall, runs, hook, again, active, on, stops, switches>> /\ UNCHANGED pollerVars
         /\ active => passed' = passed
         /\ ~active => passed' = passed \cup {Window(Since, wall, None, "quiet")}
         /\ \/ due' = {} /\ (active => wall <= Since \/ Fires(Since, wall) = {})
            \/ \E w : /\ due' = {w} /\ w.from = Since /\ w.to = wall
                      /\ w.at \in Cron /\ Since < w.at /\ w.at <= wall
  <1>1. wall \in 0..MaxTime /\ wall # None
    BY TimesAre DEF TimesInv
  <1>2. Since \in 0..MaxTime
    BY <1>1 DEF Since, TimesInv, TriggersBounds, None
  <1>3. Since = IF clock # None THEN clock ELSE IF last_tick # None THEN last_tick ELSE wall
    BY DEF Since, TimesInv
  <1> DEFINE asleep == IF clock # None THEN gap > 1 ELSE last_tick # None
  <1>4. /\ due = {} /\ clock' = wall /\ gap' = 0 /\ last_tick' = wall
        /\ first' = (IF first = None THEN wall ELSE first)
        /\ UNCHANGED <<wall, runs, hook, again, active, on, stops, switches>> /\ UNCHANGED pollerVars
        /\ passed' = IF active THEN passed ELSE passed \cup {Window(Since, wall, None, "quiet")}
        /\ \E skips \in BOOLEAN :
             due' = IF active /\ wall > Since THEN Due(Since, wall, asleep, skips) ELSE {}
    BY <1>3 DEF Tick
  <1> HIDE DEF asleep
  <1>5. PICK skips \in BOOLEAN : due' = IF active /\ wall > Since THEN Due(Since, wall, asleep, skips) ELSE {}
    BY <1>4
  <1>6. CASE active /\ wall > Since
    BY <1>1, <1>2, <1>4, <1>5, <1>6, DueIs
  <1>7. CASE ~(active /\ wall > Since)
    <2>1. active => wall <= Since
      BY <1>1, <1>2, <1>7 DEF TriggersBounds
    <2>2. QED
      BY <1>2, <1>4, <1>5, <1>7, <2>1
  <1>8. QED
    BY <1>6, <1>7

-----------------------------------------------------------------------------
(* TriggersInv is inductive *)

TriggersStep ==
  \/ TimePasses \/ Tick \/ (\E w \in due : FireDue(w))
  \/ (\E e \in Events : Happens(e) \/ FireHit(e)) \/ Poll \/ PollInactive
  \/ (\E h \in Hooks : Post(h) \/ Serve(h) \/ ReadFails(h))
  \/ Switch \/ Dies
  \/ UNCHANGED triggerVars

LEMMA TriggersStepsAre == [TriggersNext]_triggerVars => TriggersStep
  BY DEF TriggersNext, TriggersStep

\* A step that fires nothing and leaves times alone
LEMMA NoFiring ==
  ASSUME TriggersInv, UNCHANGED <<wall, gap, clock, last_tick, due, runs, first>>
  PROVE  TimesInv' /\ WindowsInv'
  BY DEF TriggersInv, TimesInv, WindowsInv

LEMMA PollIs ==
  ASSUME TriggersInv, Poll \/ PollInactive
  PROVE  /\ UNCHANGED <<listed, again, active, on, stops, switches, scheduleVars, hookVars>>
         /\ hits = {} /\ seen \subseteq seen' /\ seen' \subseteq seen \cup listed
         /\ hits' \subseteq seen' \ seen /\ poller_json'.seen = seen'
         /\ hushed' \subseteq hushed \cup (listed \ seen)
         /\ hits' # {} => primed /\ hushed' = hushed
         /\ primed' => ((seen' = seen /\ primed) \/ listed \subseteq seen') /\ hushed' = hushed
  <1>1. poller_json.seen = seen
    BY DEF TriggersInv, PollerInv
  <1>2. CASE PollInactive
    BY <1>1, <1>2 DEF PollInactive, pollEnds
  <1>3. CASE Poll
    <2>1. CASE /\ ~on /\ pollEnds(seen, FALSE, {}, listed \ seen)
      BY <1>1, <1>3, <2>1 DEF Poll, pollEnds
    <2>2. ASSUME NEW f \in Fetched, NEW h \in Hits(Fresh(f.found)),
                 pollEnds(seen \cup f.found, primed \/ f.ok, h, {})
          PROVE  /\ UNCHANGED <<listed, again, active, on, stops, switches, scheduleVars, hookVars>>
                 /\ seen \subseteq seen' /\ seen' \subseteq seen \cup listed
                 /\ hits' \subseteq seen' \ seen
                 /\ hushed' = hushed
                 /\ hits' # {} => primed
                 /\ primed' => (seen' = seen /\ primed) \/ listed \subseteq seen'
      <3>1. h \subseteq Fresh(f.found)
        BY DEF Hits
      <3>2. h \subseteq f.found \ seen /\ (h # {} => primed)
        BY <3>1 DEF Fresh
      <3>3. f.found = listed \/ (f.found = {} /\ f.ok = FALSE)
        BY DEF Fetched
      <3>4. QED
        BY <2>2, <3>2, <3>3 DEF pollEnds
    <2>3. poller_json'.seen = seen' /\ hits = {}
      BY <1>3 DEF Poll
    <2>4. QED
      BY <1>3, <2>1, <2>2, <2>3 DEF Poll
  <1>4. QED
    BY <1>2, <1>3

LEMMA TriggersInvKept ==
  ASSUME TriggersBounds, TriggersInv, TriggersStep
  PROVE  TriggersInv'
  <1>1. TimesInv /\ WindowsInv /\ HooksInv /\ PollerInv
    BY DEF TriggersInv
  <1>2. ASSUME UNCHANGED <<hook, runs>> PROVE HooksInv'
    BY <1>1, <1>2 DEF HooksInv, RunOf
  <1>3. ASSUME UNCHANGED <<listed, seen, hits, poller_json>> PROVE PollerInv'
    BY <1>1, <1>3 DEF PollerInv
  <1>4. CASE TimePasses
    <2>1. wall' \in 0..MaxTime /\ gap' \in Int
      BY <1>1, <1>4 DEF TimePasses, Passes, TimesInv, TriggersBounds
    <2>2. UNCHANGED <<clock, last_tick, due, runs, first, passed>>
      BY <1>4 DEF TimePasses, Passes
    <2>3. UNCHANGED <<listed, seen, hits, poller_json, hook>>
      BY <1>4 DEF TimePasses, pollerVars, hookVars
    <2>4. QED
      BY <1>1, <1>2, <1>3, <2>1, <2>2, <2>3 DEF TriggersInv, TimesInv, WindowsInv
  <1>5. CASE Tick
    <2>1. /\ clock' = wall /\ gap' = 0 /\ last_tick' = wall
          /\ first' = (IF first = None THEN wall ELSE first)
          /\ UNCHANGED <<wall, runs, hook>> /\ UNCHANGED pollerVars
          /\ \/ due' = {}
             \/ \E w : due' = {w} /\ w.at \in Cron /\ w.at <= wall
      BY <1>1, <1>5, TickIs
    <2>2. wall \in 0..MaxTime /\ wall \in 0..None /\ wall # None
      BY <1>1, TimesAre DEF TimesInv
    <2>3. TimesInv'
      BY <1>1, <2>1, <2>2 DEF TimesInv
    <2>4. WindowsInv'
      BY <2>1, <2>2 DEF WindowsInv
    <2>5. QED
      BY <1>2, <1>3, <2>1, <2>3, <2>4 DEF TriggersInv, pollerVars
  <1>6. ASSUME NEW w \in due, FireDue(w) PROVE TriggersInv'
    <2>1. /\ due' = due \ {w} /\ runs' = runs \cup {w}
          /\ UNCHANGED <<wall, gap, clock, last_tick, first, listed, seen, hits, poller_json, hook>>
      BY <1>6 DEF FireDue, pollerVars, hookVars
    <2>2. \A h \in Hooks : RunOf(h) # w
      <3>1. w.at \in Nat /\ w.at <= last_tick /\ last_tick # None /\ last_tick \in 0..None
        BY <1>1 DEF WindowsInv, TriggersBounds, TimesInv
      <3>2. w.at # None
        BY <3>1 DEF TriggersBounds, None
      <3>3. QED
        BY <3>2, WindowsAre
    <2>3. HooksInv'
      BY <1>1, <2>1, <2>2 DEF HooksInv, RunOf
    <2>4. TimesInv' /\ WindowsInv'
      BY <1>1, <2>1 DEF TimesInv, WindowsInv
    <2>5. QED
      BY <1>3, <2>1, <2>3, <2>4 DEF TriggersInv
  <1>7. ASSUME NEW e \in Events, Happens(e) PROVE TriggersInv'
    <2>1. /\ listed' \subseteq listed \cup {e} /\ UNCHANGED <<seen, hits, poller_json, scheduleVars, hookVars>>
      BY <1>7 DEF Happens
    <2>2. PollerInv'
      BY <1>1, <2>1 DEF PollerInv
    <2>3. QED
      BY <1>2, <2>1, <2>2, NoFiring DEF TriggersInv, scheduleVars, hookVars
  <1>8. ASSUME NEW e \in Events, FireHit(e) PROVE TriggersInv'
    <2>1. /\ hits' = hits \ {e} /\ runs' = runs \cup {RunOf(e)} /\ UNCHANGED hook
          /\ UNCHANGED <<wall, gap, clock, last_tick, due, first, listed, seen, poller_json>>
      BY <1>8 DEF FireHit, hookVars, RunOf
    <2>2. \A h \in Hooks : RunOf(h) # RunOf(e)
      BY WindowsAre DEF TriggersBounds
    <2>3. HooksInv'
      BY <1>1, <2>1, <2>2 DEF HooksInv, RunOf
    <2>4. TimesInv' /\ WindowsInv' /\ PollerInv'
      BY <1>1, <2>1 DEF TimesInv, WindowsInv, PollerInv
    <2>5. QED
      BY <2>3, <2>4 DEF TriggersInv
  <1>9. CASE Poll \/ PollInactive
    <2>1. /\ UNCHANGED <<listed, scheduleVars, hookVars>>
          /\ hits = {} /\ seen \subseteq seen' /\ seen' \subseteq seen \cup listed
          /\ hits' \subseteq seen' \ seen /\ poller_json'.seen = seen'
      BY <1>9, PollIs
    <2>2. PollerInv'
      BY <1>1, <2>1 DEF PollerInv
    <2>3. QED
      BY <1>2, <2>1, <2>2, NoFiring DEF TriggersInv, scheduleVars, hookVars
  <1>10. ASSUME NEW h \in Hooks, Post(h) \/ ReadFails(h) PROVE TriggersInv'
    <2>1. /\ hook[h] # "accepted" /\ \E a \in {"sent", "refused"} : hook' = [hook EXCEPT ![h] = a]
          /\ UNCHANGED <<scheduleVars, pollerVars>>
      BY <1>10 DEF Post, ReadFails
    <2>2. HooksInv'
      BY <1>1, <2>1 DEF HooksInv, scheduleVars, RunOf
    <2>3. QED
      BY <1>3, <2>1, <2>2, NoFiring DEF TriggersInv, scheduleVars, pollerVars
  <1>11. ASSUME NEW h \in Hooks, Serve(h) PROVE TriggersInv'
    <2>1. /\ UNCHANGED <<wall, gap, clock, last_tick, due, first, pollerVars>>
          /\ hook[h] = "sent"
          /\ \/ hook' = [hook EXCEPT ![h] = "accepted"] /\ runs' = runs \cup {RunOf(h)}
             \/ hook' = [hook EXCEPT ![h] = "refused"] /\ UNCHANGED runs
      BY <1>11 DEF Serve, RunOf
    <2>2. \A g \in Hooks : RunOf(g) = RunOf(h) => g = h
      BY WindowsAre
    <2>3. HooksInv'
      BY <1>1, <2>1, <2>2 DEF HooksInv, RunOf
    <2>4. TimesInv' /\ WindowsInv'
      BY <1>1, <2>1 DEF TimesInv, WindowsInv
    <2>5. QED
      BY <1>3, <2>1, <2>3, <2>4 DEF TriggersInv, pollerVars
  <1>12. CASE Switch
    <2>1. UNCHANGED <<hook, scheduleVars, pollerVars>>
      BY <1>12 DEF Switch
    <2>2. QED
      BY <1>2, <1>3, <2>1, NoFiring DEF TriggersInv, scheduleVars, pollerVars
  <1>13. CASE Dies
    <2>1. /\ clock' = None /\ gap' = 0 /\ due' = {} /\ UNCHANGED <<wall, last_tick, runs, first, listed, poller_json>>
          /\ seen' = poller_json.seen /\ hits' = {}
          /\ hook' = [h \in Hooks |-> IF hook[h] = "sent" THEN "refused" ELSE hook[h]]
      BY <1>13 DEF Dies
    <2>2. TimesInv'
      BY <1>1, <2>1, TimesAre DEF TimesInv
    <2>3. WindowsInv' /\ PollerInv'
      BY <1>1, <2>1 DEF WindowsInv, PollerInv
    <2>4. HooksInv'
      BY <1>1, <2>1 DEF HooksInv, RunOf
    <2>5. QED
      BY <2>2, <2>3, <2>4 DEF TriggersInv
  <1>14. CASE UNCHANGED triggerVars
    BY <1>2, <1>3, <1>14, NoFiring DEF TriggersInv, triggerVars, scheduleVars, pollerVars, hookVars
  <1>15. QED
    BY <1>4, <1>5, <1>6, <1>7, <1>8, <1>9, <1>10, <1>11, <1>12, <1>13, <1>14 DEF TriggersStep

LEMMA TriggersInitially ==
  ASSUME TriggersBounds
  PROVE  TriggersInit => TriggersInv /\ FiredInv /\ HushInv /\ EveryMinuteAnswered
  <1> SUFFICES ASSUME TriggersInit PROVE TriggersInv /\ FiredInv /\ HushInv /\ EveryMinuteAnswered
    OBVIOUS
  <1>1. TimesInv
    BY TimesAre DEF TriggersInit, TimesInv, TriggersBounds
  <1>2. WindowsInv /\ PollerInv /\ HooksInv
    BY DEF TriggersInit, WindowsInv, PollerInv, HooksInv
  <1>3. FiredInv /\ HushInv /\ EveryMinuteAnswered
    BY DEF TriggersInit, FiredInv, HushInv, EveryMinuteAnswered
  <1>4. QED
    BY <1>1, <1>2, <1>3 DEF TriggersInv

\* Times, windows, the poller and the requests fit together, whatever the wall clock does (tick, Poller, serve_webhooks)
THEOREM TriggersInvariant ==
  ASSUME TriggersBounds
  PROVE  TriggersSpec => []TriggersInv
  <1>1. TriggersInit => TriggersInv
    BY TriggersInitially
  <1>2. TriggersInv /\ [TriggersNext]_triggerVars => TriggersInv'
    BY TriggersInvKept, TriggersStepsAre
  <1>3. QED
    BY <1>1, <1>2, PTL DEF TriggersSpec

\* A webhook's run exists exactly when its caller was told 202, and tick() leaves one window at most (fire_hook, serve_webhooks)
THEOREM TriggersTyped ==
  ASSUME TriggersBounds
  PROVE  TriggersSpec => []TriggersTypeOK
  <1>1. TriggersInv => TriggersTypeOK
    <2> SUFFICES ASSUME TriggersInv PROVE TriggersTypeOK
      OBVIOUS
    <2>1. Cardinality(due) <= 1
      <3>1. PICK u : due \subseteq {u}
        BY DEF TriggersInv, WindowsInv
      <3>2. IsFiniteSet({u}) /\ Cardinality({u}) = 1
        BY FS_Singleton
      <3>3. Cardinality(due) <= Cardinality({u})
        BY <3>1, <3>2, FS_Subset
      <3>4. QED
        BY <3>2, <3>3
    <2>2. hits \subseteq Events /\ seen \subseteq Events
      BY DEF TriggersInv, PollerInv
    <2>3. QED
      BY <2>1, <2>2 DEF TriggersInv, TimesInv, HooksInv, RunOf, TriggersTypeOK
  <1>2. QED
    BY <1>1, TriggersInvariant, PTL

-----------------------------------------------------------------------------
(* What fires *)

LEMMA FiredKept ==
  ASSUME TriggersBounds, ~SetBack, TriggersInv, FiredInv, TriggersStep
  PROVE  FiredInv'
  <1>1. TimesInv /\ WindowsInv /\ HooksInv /\ PollerInv
    BY DEF TriggersInv
  <1>2. CASE TimePasses
    <2>1. wall' \in Int /\ wall' >= wall
      BY <1>1, <1>2 DEF TimePasses, Passes, TimesInv, TriggersBounds
    <2>2. UNCHANGED <<last_tick, due, runs, again, seen, hits>>
      BY <1>2 DEF TimePasses, Passes, pollerVars
    <2>3. last_tick # None => last_tick <= wall'
      BY <1>1, <2>1 DEF FiredInv, TimesInv, TriggersBounds, None
    <2>4. QED
      BY <2>2, <2>3 DEF FiredInv, RunOf
  <1>3. CASE Tick
    <2>1. /\ last_tick' = wall /\ UNCHANGED <<wall, runs, again>> /\ UNCHANGED pollerVars
          /\ \/ due' = {}
             \/ \E w : due' = {w} /\ w.at \in Cron /\ Since < w.at /\ w.at <= wall
      BY <1>1, <1>3, TickIs
    <2>2. wall \in 0..MaxTime /\ wall # None /\ Since \in Nat
      BY <1>1, <1>3, TimesAre, TickIs DEF TimesInv
    <2>3. \A r \in runs : r.at = None \/ (last_tick # None /\ r.at \in Nat /\ r.at <= Since)
      BY DEF FiredInv, Since, TriggersBounds
    <2>4. \A r \in runs : r.at = None \/ (r.at \in Cron /\ r.at <= wall)
      <3>1. \A r \in runs : r.at = None \/ (r.at \in Cron /\ r.at \in Nat /\ r.at <= last_tick /\ last_tick <= wall)
        BY DEF FiredInv, TriggersBounds
      <3>2. last_tick \in Nat /\ wall \in Nat
        BY <1>1, <2>2 DEF TimesInv
      <3>3. QED
        BY <3>1, <3>2
    <2>5. \A w \in due' : \A r \in runs : r.at # w.at
      <3>1. ASSUME NEW w, w.at \in Cron, Since < w.at, w.at <= wall, NEW r \in runs
            PROVE  r.at # w.at
        <4>1. w.at \in Nat
          BY <3>1 DEF TriggersBounds
        <4>2. MaxTime \in Nat /\ None = MaxTime + 1
          BY TimesAre
        <4>3. w.at # None
          BY <2>2, <3>1, <4>1, <4>2
        <4>4. QED
          BY <2>2, <2>3, <3>1, <4>1, <4>3
      <3>2. QED
        BY <2>1, <3>1
    <2>6. QED
      BY <2>1, <2>2, <2>4, <2>5 DEF FiredInv, RunOf, pollerVars
  <1>4. ASSUME NEW w \in due, FireDue(w) PROVE FiredInv'
    <2>1. /\ due' = due \ {w} /\ runs' = runs \cup {w} /\ UNCHANGED <<wall, last_tick, pollerVars>>
          /\ again' = again \cup {t \in Cron : t = w.at /\ \E r \in runs : t = r.at}
      BY <1>4 DEF FireDue
    <2>2. again' = {}
      BY <2>1 DEF FiredInv
    <2>3. \A v \in due' : v # w /\ FALSE
      BY <1>1, <2>1 DEF WindowsInv
    <2>4. w.at \in Cron /\ w.at <= last_tick /\ last_tick # None /\ last_tick \in 0..None
      BY <1>1 DEF WindowsInv, TimesInv
    <2>5. w.at # None
      BY <2>4 DEF TriggersBounds, None
    <2>6. \A e \in Events : RunOf(e) # w
      BY <2>5, WindowsAre
    <2>7. QED
      BY <2>1, <2>2, <2>3, <2>4, <2>6 DEF FiredInv, pollerVars, RunOf
  <1>5. ASSUME NEW e \in Events, FireHit(e) PROVE FiredInv'
    <2>1. /\ e \in hits /\ hits' = hits \ {e} /\ runs' = runs \cup {RunOf(e)}
          /\ again' = (IF RunOf(e) \in runs THEN again \cup {e} ELSE again)
          /\ UNCHANGED <<wall, last_tick, due, seen>>
      BY <1>5 DEF FireHit, RunOf
    <2>2. RunOf(e) \notin runs /\ e \in seen
      BY <1>1, <2>1 DEF FiredInv, PollerInv
    <2>3. RunOf(e).at = None /\ \A f \in Events : RunOf(f) = RunOf(e) => f = e
      BY WindowsAre
    <2>4. \A v \in due : v.at # None
      <3>1. \A v \in due : v.at \in Nat /\ v.at <= last_tick /\ last_tick # None /\ last_tick \in 0..None
        BY <1>1 DEF WindowsInv, TimesInv, TriggersBounds
      <3>2. QED
        BY <3>1 DEF TriggersBounds, None
    <2>5. QED
      BY <2>1, <2>2, <2>3, <2>4 DEF FiredInv, RunOf
  <1>6. CASE Poll \/ PollInactive
    <2>1. /\ UNCHANGED <<again, scheduleVars>> /\ seen \subseteq seen' /\ hits' \subseteq seen' \ seen
      BY <1>6, PollIs DEF TriggersInv
    <2>2. QED
      BY <2>1 DEF FiredInv, scheduleVars, RunOf
  <1>7. ASSUME NEW h \in Hooks, Serve(h) PROVE FiredInv'
    <2>1. /\ runs' \subseteq runs \cup {RunOf(h)} /\ UNCHANGED <<wall, last_tick, due, pollerVars, again>>
      BY <1>7 DEF Serve, RunOf
    <2>2. \A e \in Events : RunOf(e) # RunOf(h)
      BY WindowsAre DEF TriggersBounds
    <2>3. RunOf(h).at = None
      BY WindowsAre
    <2>4. \A v \in due : v.at # None
      <3>1. \A v \in due : v.at \in Nat /\ v.at <= last_tick /\ last_tick # None /\ last_tick \in 0..None
        BY <1>1 DEF WindowsInv, TimesInv, TriggersBounds
      <3>2. QED
        BY <3>1 DEF TriggersBounds, None
    <2>5. QED
      BY <2>1, <2>2, <2>3, <2>4 DEF FiredInv, RunOf, pollerVars
  <1>8. ASSUME \/ \E e \in Events : Happens(e)
               \/ \E h \in Hooks : Post(h) \/ ReadFails(h)
               \/ Switch \/ UNCHANGED triggerVars
        PROVE  FiredInv'
    <2>1. UNCHANGED <<wall, last_tick, due, runs, again, seen, hits>>
      BY <1>8 DEF Happens, Post, ReadFails, Switch, triggerVars, scheduleVars, pollerVars
    <2>2. QED
      BY <2>1 DEF FiredInv, RunOf
  <1>9. CASE Dies
    <2>1. due' = {} /\ hits' = {} /\ seen' = poller_json.seen /\ UNCHANGED <<wall, last_tick, runs, again>>
      BY <1>9 DEF Dies
    <2>2. QED
      BY <1>1, <2>1 DEF FiredInv, PollerInv, RunOf
  <1>10. QED
    BY <1>2, <1>3, <1>4, <1>5, <1>6, <1>7, <1>8, <1>9 DEF TriggersStep

\* No minute of a schedule and no event fires twice, through sleep and the death of ptyd between a save and a fire
\* (tick saves last_tick, the poller seen, before anything fires), as long as the wall clock is not set back
THEOREM NothingFiresTwice ==
  ASSUME TriggersBounds, ~SetBack
  PROVE  TriggersSpec => []NothingTwice
  <1>1. TriggersInit => FiredInv
    BY TriggersInitially
  <1>2. TriggersInv /\ FiredInv /\ [TriggersNext]_triggerVars => FiredInv'
    BY FiredKept, TriggersStepsAre
  <1>3. FiredInv => NothingTwice
    BY DEF FiredInv, NothingTwice
  <1>4. QED
    BY <1>1, <1>2, <1>3, TriggersInvariant, PTL DEF TriggersSpec

-----------------------------------------------------------------------------
(* What is skipped over *)

\* A minute is answered for by a window it is in
Answers(W, t) == \E w \in W : w.from < t /\ t <= w.to

LEMMA MinutesKept ==
  ASSUME TriggersBounds, TriggersInv, EveryMinuteAnswered, TriggersStep
  PROVE  EveryMinuteAnswered'
  <1>1. TimesInv /\ WindowsInv
    BY DEF TriggersInv
  <1>2. last_tick # None => \A t \in Cron : first < t /\ t <= last_tick => Answers(runs \cup due \cup passed, t)
    BY DEF EveryMinuteAnswered, Answers
  <1>3. ASSUME last_tick' # None => \A t \in Cron : first' < t /\ t <= last_tick' => Answers(runs \cup due \cup passed, t)',
               TRUE
        PROVE  EveryMinuteAnswered'
    BY <1>3 DEF EveryMinuteAnswered, Answers
  <1>4. ASSUME UNCHANGED <<last_tick, first>>, runs \cup due \cup passed \subseteq (runs \cup due \cup passed)'
        PROVE  EveryMinuteAnswered'
    BY <1>2, <1>3, <1>4 DEF Answers
  <1>5. CASE Tick
    <2>1. /\ Since \in 0..MaxTime /\ due = {} /\ last_tick' = wall /\ UNCHANGED runs
          /\ first' = (IF first = None THEN wall ELSE first)
          /\ active => passed' = passed
          /\ ~active => passed' = passed \cup {Window(Since, wall, None, "quiet")}
          /\ \/ due' = {} /\ (active => wall <= Since \/ Fires(Since, wall) = {})
             \/ \E w : due' = {w} /\ w.from = Since /\ w.to = wall
      BY <1>1, <1>5, TickIs
    <2>2. wall \in Nat /\ Since \in Nat
      BY <1>1, <2>1 DEF TimesInv
    <2>3. ASSUME NEW t \in Cron, first' < t, t <= wall
          PROVE  Answers(runs \cup due \cup passed, t)'
      <3>1. t \in Nat
        BY DEF TriggersBounds
      <3>2. last_tick # None /\ first' = first
        <4>1. CASE last_tick = None
          <5>1. first' = wall
            BY <1>1, <2>1, <4>1 DEF TimesInv
          <5>2. QED
            BY <2>2, <2>3, <3>1, <5>1
        <4>2. CASE last_tick # None
          BY <1>1, <2>1, <4>2 DEF TimesInv
        <4>3. QED
          BY <4>1, <4>2
      <3>3. Since = last_tick
        BY <3>2 DEF Since
      <3>4. CASE t <= Since
        <4>1. Answers(runs \cup due \cup passed, t)
          BY <1>2, <2>3, <3>2, <3>3, <3>4
        <4>2. runs \cup due \cup passed \subseteq (runs \cup due \cup passed)'
          BY <2>1
        <4>3. QED
          BY <4>1, <4>2 DEF Answers
      <3>5. CASE Since < t
        <4>1. CASE ~active
          <5>1. Window(Since, wall, None, "quiet") \in passed'
            BY <2>1, <4>1
          <5>2. QED
            BY <2>3, <3>5, <5>1, WindowsAre DEF Answers
        <4>2. CASE active
          <5>1. t \in Fires(Since, wall) /\ ~(wall <= Since)
            BY <2>2, <2>3, <3>1, <3>5 DEF Fires
          <5>2. \E w : due' = {w} /\ w.from = Since /\ w.to = wall
            BY <2>1, <4>2, <5>1
          <5>3. QED
            BY <2>3, <3>5, <5>2 DEF Answers
        <4>3. QED
          BY <4>1, <4>2
      <3>6. QED
        BY <2>2, <3>1, <3>4, <3>5
    <2>4. QED
      BY <1>3, <2>1, <2>3
  <1>6. ASSUME NEW w \in due, FireDue(w) PROVE EveryMinuteAnswered'
    BY <1>4, <1>6 DEF FireDue
  <1>7. CASE Dies
    BY <1>4, <1>7 DEF Dies
  <1>8. CASE Poll \/ PollInactive
    <2>1. UNCHANGED scheduleVars
      BY <1>8, PollIs
    <2>2. QED
      BY <1>4, <2>1 DEF scheduleVars
  <1>9. ASSUME \/ TimePasses \/ \E e \in Events : Happens(e) \/ FireHit(e)
               \/ \E h \in Hooks : Post(h) \/ ReadFails(h) \/ Serve(h)
               \/ Switch \/ UNCHANGED triggerVars
        PROVE  EveryMinuteAnswered'
    <2>1. UNCHANGED <<last_tick, first, due, passed>> /\ runs \subseteq runs'
      BY <1>9 DEF TimePasses, Passes, Happens, FireHit, Post, ReadFails, Serve, Switch, triggerVars, scheduleVars
    <2>2. QED
      BY <1>4, <2>1
  <1>10. QED
    BY <1>5, <1>6, <1>7, <1>8, <1>9 DEF TriggersStep

\* Each minute of a schedule up to the last tick belongs to a run, to one about to be made, or to a window that was not to
\* fire or that ptyd died with (due, tick); also when the wall clock is set back
THEOREM MinutesAnswered ==
  ASSUME TriggersBounds
  PROVE  TriggersSpec => []EveryMinuteAnswered
  <1>1. TriggersInit => EveryMinuteAnswered
    BY TriggersInitially
  <1>2. TriggersInv /\ EveryMinuteAnswered /\ [TriggersNext]_triggerVars => EveryMinuteAnswered'
    BY MinutesKept, TriggersStepsAre
  <1>3. QED
    BY <1>1, <1>2, TriggersInvariant, PTL DEF TriggersSpec

-----------------------------------------------------------------------------
(* What stays quiet *)

LEMMA HushKept ==
  ASSUME TriggersBounds, ~Quiet, TriggersInv, HushInv, TriggersStep
  PROVE  HushInv'
  <1>1. PollerInv
    BY DEF TriggersInv
  <1>2. ASSUME NEW e \in Events, Happens(e) PROVE HushInv'
    <2>1. /\ listed' = (IF e \in listed THEN listed \ {e} ELSE listed \cup {e}) /\ hushed' = hushed \ {e}
          /\ UNCHANGED <<seen, primed, hits>>
      BY <1>2 DEF Happens
    <2>2. QED
      BY <2>1 DEF HushInv
  <1>3. CASE Poll \/ PollInactive
    <2>1. /\ UNCHANGED listed /\ seen \subseteq seen'
          /\ hits' \subseteq seen' \ seen
          /\ hushed' \subseteq hushed \cup (listed \ seen)
          /\ hits' # {} => primed /\ hushed' = hushed
          /\ primed' => ((seen' = seen /\ primed) \/ listed \subseteq seen') /\ hushed' = hushed
      BY <1>3, PollIs
    <2>2. primed' => hushed' \subseteq seen'
      BY <2>1 DEF HushInv
    <2>3. hits' \cap hushed' = {}
      BY <2>1 DEF HushInv
    <2>4. QED
      BY <2>1, <2>2, <2>3 DEF HushInv
  <1>4. CASE Dies
    <2>1. /\ seen' = seen /\ primed' = primed /\ hits' = {} /\ UNCHANGED <<listed, hushed>>
      BY <1>1, <1>4 DEF Dies, PollerInv
    <2>2. QED
      BY <2>1 DEF HushInv
  <1>5. ASSUME \/ TimePasses \/ Tick \/ \E w \in due : FireDue(w)
               \/ \E e \in Events : FireHit(e)
               \/ \E h \in Hooks : Post(h) \/ ReadFails(h) \/ Serve(h)
               \/ Switch \/ UNCHANGED triggerVars
        PROVE  HushInv'
    <2>1. UNCHANGED <<listed, seen, primed, hushed>> /\ hits' \subseteq hits
      BY <1>5 DEF TimePasses, Tick, FireDue, FireHit, Post, ReadFails, Serve, Switch, triggerVars, pollerVars
    <2>2. QED
      BY <2>1 DEF HushInv
  <1>6. QED
    BY <1>2, <1>3, <1>4, <1>5 DEF TriggersStep

\* What the poller found while a kind was not wanted, or nothing was to fire, does not fire later (Poller::primed), when
\* ptyd does not die between such a round and the next one that is saved
THEOREM HushedStayQuiet ==
  ASSUME TriggersBounds, ~Quiet
  PROVE  TriggersSpec => []HushedNeverFire
  <1>1. TriggersInit => HushInv
    BY TriggersInitially
  <1>2. TriggersInv /\ HushInv /\ [TriggersNext]_triggerVars => HushInv'
    BY HushKept, TriggersStepsAre
  <1>3. HushInv => HushedNeverFire
    BY DEF HushInv, HushedNeverFire
  <1>4. QED
    BY <1>1, <1>2, <1>3, TriggersInvariant, PTL DEF TriggersSpec

=============================================================================
