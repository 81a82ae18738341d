-------------------------------- MODULE Files --------------------------------
(***************************************************************************)
(* Files of a place (crates/core/src/fs.rs, history.rs and the commands in *)
(* commands/files.rs): an editor saves one file that agents write too, a   *)
(* snapshot goes to the local history first, and a watch is kept under an  *)
(* id.  A content is the number of the write that made it.                 *)
(***************************************************************************)
EXTENDS Naturals, FiniteSets, FiniteSetsExt

CONSTANTS
    MIN_GAP_MS, MAX_ENTRIES,    \* of history.rs
    MaxWrites, MaxClock,        \* bounds: contents of the file, ticks
    Roots, MaxWatches,          \* what may be watched; bound: watch and unwatch calls
    Racing                      \* whether agents write between a save's steps

VARIABLES
    held,       \* what the file holds; 0 is no file
    writes,     \* contents so far
    expected,   \* what the editor loaded; 0 is nothing
    saving,     \* the save_file command: "none", "checked", "kept"
    forced,     \* it came without `expected`
    snaps,      \* the snapshots: their ids (the time) and contents
    clock,
    agents_lost,    \* ghost: contents of agents a save with `expected` wrote over unread
    slot,       \* watches[id]: "absent", "starting" (None), or the root watched
    opening,    \* watch calls that have not got their Watch yet, oldest first, by root
    wanted,     \* ghost: the root last asked for; "absent" after unwatch
    asked

fileVars == <<held, writes, expected, saving, forced, snaps, clock, agents_lost>>
watchVars == <<slot, opening, wanted, asked>>
filesVars == <<fileVars, watchVars>>

FilesInit ==
    /\ held = 1 /\ writes = 1 /\ expected = 0 /\ saving = "none" /\ forced = FALSE
    /\ snaps = {} /\ clock = MIN_GAP_MS /\ agents_lost = {}
    /\ slot = "absent" /\ opening = {} /\ wanted = "absent" /\ asked = 0

-----------------------------------------------------------------------------
AgentWrites ==
    /\ Racing \/ saving = "none"
    /\ writes < MaxWrites /\ writes' = writes + 1 /\ held' = writes + 1
    /\ UNCHANGED <<expected, saving, forced, snaps, clock, agents_lost>> /\ UNCHANGED watchVars

Trashed ==   \* trash_path, or an agent removes it
    /\ held # 0 /\ (Racing \/ saving = "none") /\ held' = 0
    /\ UNCHANGED <<writes, expected, saving, forced, snaps, clock, agents_lost>> /\ UNCHANGED watchVars

Loads ==   \* read_file
    /\ saving = "none" /\ held # 0 /\ expected' = held
    /\ UNCHANGED <<held, writes, saving, forced, snaps, clock, agents_lost>> /\ UNCHANGED watchVars

CheckUnread(f) ==
    /\ saving = "none" /\ expected # 0
    /\ saving' = "checked" /\ forced' = f
    /\ UNCHANGED <<held, writes, expected, snaps, clock, agents_lost>> /\ UNCHANGED watchVars

(* save_file up to its check; a conflict is an error and changes nothing   *)
SaveChecks(f) ==
    /\ saving = "none" /\ expected # 0 /\ (f \/ held = expected)
    /\ saving' = "checked" /\ forced' = f
    /\ UNCHANGED <<held, writes, expected, snaps, clock, agents_lost>> /\ UNCHANGED watchVars

Latest == Max({s.id : s \in snaps})
Stale(n) == {s \in snaps : Cardinality({t \in snaps : t.id > s.id}) >= n}

KeepEveryGap ==
    /\ saving = "checked" /\ saving' = "kept"
    /\ snaps' = IF held = 0 \/ (snaps # {} /\ clock - Latest <= MIN_GAP_MS) THEN snaps
                ELSE (snaps \ Stale(MAX_ENTRIES - 1)) \cup {[id |-> clock, of |-> held]}
    /\ UNCHANGED <<held, writes, expected, forced, clock, agents_lost>> /\ UNCHANGED watchVars

KeepOneMore ==
    /\ saving = "checked" /\ saving' = "kept"
    /\ snaps' = IF held = 0 \/ (snaps # {} /\ clock - Latest < MIN_GAP_MS) THEN snaps
                ELSE (snaps \ Stale(MAX_ENTRIES)) \cup {[id |-> clock, of |-> held]}
    /\ UNCHANGED <<held, writes, expected, forced, clock, agents_lost>> /\ UNCHANGED watchVars

(* snapshot_before_save: one per burst, and none of what the latest holds; *)
(* `now` is never before the latest id, so saturating_sub subtracts        *)
SaveKeeps ==
    /\ saving = "checked" /\ saving' = "kept"
    /\ snaps' = IF \/ held = 0
                   \/ snaps # {} /\ (clock - Latest < MIN_GAP_MS \/ \E s \in snaps : s.id = Latest /\ s.of = held)
                THEN snaps
                ELSE (snaps \ Stale(MAX_ENTRIES - 1)) \cup {[id |-> clock, of |-> held]}
    /\ UNCHANGED <<held, writes, expected, forced, clock, agents_lost>> /\ UNCHANGED watchVars

SaveWrites ==
    /\ saving = "kept" /\ saving' = "none" /\ writes < MaxWrites
    /\ writes' = writes + 1 /\ held' = writes + 1 /\ expected' = writes + 1
    /\ agents_lost' = IF forced \/ held \in {0, expected} THEN agents_lost ELSE agents_lost \cup {held}
    /\ UNCHANGED <<forced, snaps, clock>> /\ UNCHANGED watchVars

Ticks ==
    /\ saving = "none" /\ clock < MaxClock /\ clock' = clock + 1
    /\ UNCHANGED <<held, writes, expected, saving, forced, snaps, agents_lost>> /\ UNCHANGED watchVars

-----------------------------------------------------------------------------
(* watch: the id is taken before the watch is there                        *)
Watch(r) ==
    /\ asked < MaxWatches /\ asked' = asked + 1 /\ r \notin opening
    /\ slot' = "starting" /\ opening' = opening \cup {r} /\ wanted' = r
    /\ UNCHANGED fileVars

WatchReadyAlways(r) ==
    /\ r \in opening /\ opening' = opening \ {r}
    /\ slot' = r
    /\ UNCHANGED <<wanted, asked>> /\ UNCHANGED fileVars

(* It fills its id's place, or is dropped when that is gone                *)
WatchReady(r) ==
    /\ r \in opening /\ opening' = opening \ {r}
    /\ slot' = IF slot = "absent" THEN slot ELSE r
    /\ UNCHANGED <<wanted, asked>> /\ UNCHANGED fileVars

WatchFails(r) ==   \* the root is gone, or the system has no more watches
    /\ r \in opening /\ opening' = opening \ {r}
    /\ UNCHANGED <<slot, wanted, asked>> /\ UNCHANGED fileVars

Unwatch ==
    /\ asked < MaxWatches /\ asked' = asked + 1
    /\ slot' = "absent" /\ wanted' = "absent"
    /\ UNCHANGED opening /\ UNCHANGED fileVars

FilesNext ==
    \/ AgentWrites \/ Trashed \/ Loads \/ SaveKeeps \/ SaveWrites \/ Ticks
    \/ (\E f \in BOOLEAN : SaveChecks(f))
    \/ (\E r \in Roots : Watch(r) \/ WatchReady(r) \/ WatchFails(r)) \/ Unwatch

FilesFairness == \A r \in Roots : WF_filesVars(WatchReady(r))
FilesSpec == FilesInit /\ [][FilesNext]_filesVars /\ FilesFairness

-----------------------------------------------------------------------------
(* The state's shape; the history of a file never holds more than          *)
(* MAX_ENTRIES snapshots (snapshot_before_save drops the oldest ones).     *)
FilesTypeOK ==
    /\ held \in 0 .. MaxWrites /\ expected \in 0 .. MaxWrites
    /\ saving \in {"none", "checked", "kept"} /\ Cardinality(snaps) <= MAX_ENTRIES
    /\ slot \in {"absent", "starting"} \cup Roots /\ opening \subseteq Roots

(* save_file's promise that an agent's edit is never silently overwritten: *)
(* what a save with `expected` wrote over is what the editor had loaded.   *)
EditNotLost == agents_lost = {}

(* What a save writes over can be had back: it is the newest snapshot, or  *)
(* one less than MIN_GAP_MS old holds the start of the same burst of edits *)
(* (snapshot_before_save).                                                 *)
KeepsBurst ==
    saving = "kept" /\ saving' = "none" /\ held # 0
       => \E s \in snaps : s.id = Latest /\ (s.of = held \/ clock - s.id < MIN_GAP_MS)
BurstKept == [][KeepsBurst]_filesVars

(* An unwatch while a watch is starting stops it instead of missing it     *)
(* (watches()): after the last unwatch nothing is watched, however the     *)
(* calls before it ended.                                                  *)
UnwatchStops == wanted = "absent" => slot = "absent"

(* Same id again replaces the watch: with no call under way, a watched id  *)
(* shows changes of the root last asked for (watch).                       *)
LastWatchWins == opening = {} /\ slot \in Roots => slot = wanted
=============================================================================
