--------------------------- MODULE ComponentProofs ---------------------------
(***************************************************************************)
(* What the smaller components guarantee, each by itself, for any number   *)
(* of callers, targets, contents and failures: the JSON stores (Stores), a *)
(* file with its history and its watch (Files), worktrees (Worktrees), the *)
(* status of an agent (AgentStatus), the MCP server's address (Mcp), a     *)
(* language server's channel (Lsp), the limits and the usage shown         *)
(* (Limits, Usage).                                                        *)
(***************************************************************************)
EXTENDS Files, Integers, Sequences, FiniteSets, FiniteSetTheorems, WellFoundedInduction, TLAPS

CONSTANTS Names, Commands, Keys, MaxOps, Serial
VARIABLES disk, aside, doing, acked, ops

S == INSTANCE Stores WITH Callers <- Commands

CONSTANTS AppCallers, DaemonCallers, Branches, Prs, MaxCalls, MaxFails, CallsRace
VARIABLES trees, heads, fetch_head, ADDING, wcalls, asks, fails, wrong

W == INSTANCE Worktrees WITH Racing <- CallsRace

-----------------------------------------------------------------------------
(* The stores.  A key is not a mark of the file's state                    *)

StoresBounds == Keys \cap {"torn", "none"} = {}

Doings == [at : {"idle", "loaded", "open", "written"}, store : Names \cup {"settings"}, key : SUBSET Keys,
           put : BOOLEAN, data : SUBSET Keys, into : {"aside", "file", "nowhere"}]

\* What a caller will write is what the file should hold, with its change
Merges(d) == d.data = IF d.put THEN acked[d.store] \cup d.key ELSE acked[d.store] \ d.key

StoreTypesInv ==
  /\ disk \in [Names -> (SUBSET Keys) \cup {S!Torn}]
  /\ aside \in [Names -> (SUBSET Keys) \cup {S!Torn, S!NoFile}]
  /\ acked \in [Names -> SUBSET Keys]
  /\ doing \in [Commands -> Doings]
  /\ \A c \in Commands : doing[c].at # "idle" => doing[c].store \in Names
  /\ \A c \in Commands : doing[c].at = "written" => doing[c].store \notin S!InPlace

StoresInv ==
  /\ StoreTypesInv
  /\ \A c, d \in Commands :
       doing[c].at # "idle" /\ doing[d].at # "idle" /\ doing[c].store = doing[d].store => c = d
  /\ \A c \in Commands : doing[c].at # "idle" /\ doing[c].store \notin S!InPlace =>
       /\ Merges(doing[c])
       /\ doing[c].at = "open" => doing[c].into = "aside"
       /\ doing[c].at = "written" => aside[doing[c].store] = doing[c].data
  /\ \A s \in Names \ S!InPlace : disk[s] = acked[s]

LEMMA MarksDiffer ==
  ASSUME StoresBounds
  PROVE  S!Torn \notin SUBSET Keys /\ S!NoFile \notin SUBSET Keys /\ S!Torn # S!NoFile
  BY DEF StoresBounds, S!Torn, S!NoFile

LEMMA LoadIs ==
  ASSUME StoreTypesInv, NEW s \in Names
  PROVE  S!load(s) \in SUBSET Keys
  <1>1. disk[s] \in SUBSET Keys \/ disk[s] = S!Torn
    BY DEF StoreTypesInv
  <1>2. {} \in SUBSET Keys
    OBVIOUS
  <1>3. QED
    BY <1>1, <1>2 DEF S!load

LEMMA StoresInitially ==
  ASSUME StoresBounds PROVE S!StoresInit => StoresInv
  <1>1. S!Idle \in Doings /\ S!Idle.at = "idle"
    BY DEF S!Idle, Doings
  <1>2. ASSUME S!StoresInit PROVE StoreTypesInv
    BY <1>1, <1>2 DEF S!StoresInit, StoreTypesInv
  <1>3. ASSUME S!StoresInit PROVE StoresInv
    BY <1>1, <1>2, <1>3 DEF S!StoresInit, StoresInv
  <1>4. QED
    BY <1>3

\* The steps of one caller leave the types as they are
LEMMA CallerTypes ==
  ASSUME StoreTypesInv, NEW c \in Commands, NEW n \in Doings, doing' = [doing EXCEPT ![c] = n],
         n.at # "idle" => n.store \in Names, n.at = "written" => n.store \notin S!InPlace,
         disk' \in [Names -> (SUBSET Keys) \cup {S!Torn}],
         aside' \in [Names -> (SUBSET Keys) \cup {S!Torn, S!NoFile}],
         acked' \in [Names -> SUBSET Keys]
  PROVE  StoreTypesInv' /\ doing'[c] = n /\ \A d \in Commands : d # c => doing'[d] = doing[d]
  BY DEF StoreTypesInv

\* A caller of one store moves, and no other store is touched
LEMMA CallerMoves ==
  ASSUME StoresInv, StoreTypesInv', NEW c \in Commands, NEW s \in Names,
         \A d \in Commands : d # c => doing'[d] = doing[d],
         \A d \in Commands : d # c /\ doing[d].at # "idle" => doing[d].store # s,
         doing'[c].at # "idle" => doing'[c].store = s,
         \A t \in Names : t # s => disk'[t] = disk[t] /\ aside'[t] = aside[t] /\ acked'[t] = acked[t],
         s \notin S!InPlace => disk'[s] = acked'[s],
         s \notin S!InPlace /\ doing'[c].at # "idle" =>
           /\ doing'[c].data = IF doing'[c].put THEN acked'[s] \cup doing'[c].key ELSE acked'[s] \ doing'[c].key
           /\ doing'[c].at = "open" => doing'[c].into = "aside"
           /\ doing'[c].at = "written" => aside'[s] = doing'[c].data
  PROVE  StoresInv'
  <1>1. StoreTypesInv
    BY DEF StoresInv
  <1>6. \A d, e \in Commands :
          doing'[d].at # "idle" /\ doing'[e].at # "idle" /\ doing'[d].store = doing'[e].store => d = e
    BY DEF StoresInv
  <1>7. \A t \in Names \ S!InPlace : disk'[t] = acked'[t]
    BY DEF StoresInv
  <1>8. ASSUME NEW d \in Commands, doing'[d].at # "idle", doing'[d].store \notin S!InPlace
        PROVE  /\ doing'[d].data = IF doing'[d].put THEN acked'[doing'[d].store] \cup doing'[d].key
                                   ELSE acked'[doing'[d].store] \ doing'[d].key
               /\ doing'[d].at = "open" => doing'[d].into = "aside"
               /\ doing'[d].at = "written" => aside'[doing'[d].store] = doing'[d].data
    <2>1. CASE d = c
      BY <1>8, <2>1
    <2>2. CASE d # c
      <3>1. doing'[d] = doing[d] /\ doing[d].store \in Names /\ doing[d].store # s
        BY <1>1, <1>8, <2>2 DEF StoreTypesInv
      <3>2. acked'[doing[d].store] = acked[doing[d].store] /\ aside'[doing[d].store] = aside[doing[d].store]
        BY <3>1
      <3>3. QED
        BY <1>8, <3>1, <3>2 DEF StoresInv, Merges
    <2>3. QED
      BY <2>1, <2>2
  <1>9. QED
    BY <1>6, <1>7, <1>8 DEF StoresInv, Merges

LEMMA StoresKept ==
  ASSUME StoresBounds, Serial, StoresInv, [S!StoresNext]_(S!storeVars)
  PROVE  StoresInv'
  <1> USE MarksDiffer
  <1>1. StoreTypesInv
    BY DEF StoresInv
  <1>2. S!Idle \in Doings /\ S!Idle.at = "idle"
    BY DEF S!Idle, Doings
  <1>3. ASSUME NEW c \in Commands, NEW s \in Names, NEW k \in Keys, NEW put \in BOOLEAN, S!Load(c, s, k, put)
        PROVE  StoresInv'
    <2> DEFINE new == [at |-> "loaded", store |-> s, key |-> {k}, put |-> put, into |-> "aside",
                       data |-> IF put THEN S!load(s) \cup {k} ELSE S!load(s) \ {k}]
    <2>1. doing' = [doing EXCEPT ![c] = new] /\ UNCHANGED <<disk, aside, acked>> /\ doing[c].at = "idle"
      BY <1>3 DEF S!Load
    <2>2. \A d \in Commands : doing[d].at # "idle" => doing[d].store # s
      BY <1>3 DEF S!Load, S!Busy
    <2>3. s \notin S!InPlace => S!load(s) = acked[s]
      BY <1>1 DEF S!load, StoresInv, StoreTypesInv
    <2>4. S!load(s) \in SUBSET Keys
      BY LoadIs, <1>1
    <2>5. new \in Doings /\ new.at = "loaded" /\ new.store = s
      BY <2>4 DEF Doings
    <2>6. s \notin S!InPlace => new.data = IF new.put THEN acked[s] \cup new.key ELSE acked[s] \ new.key
      BY <2>3
    <2>7. s \notin S!InPlace => disk[s] = acked[s]
      BY DEF StoresInv
    <2> HIDE DEF new
    <2>8. StoreTypesInv' /\ doing'[c] = new /\ \A d \in Commands : d # c => doing'[d] = doing[d]
      <3>1. UNCHANGED <<disk, aside, acked>> /\ new.at # "written" /\ new.store \in Names
        BY <2>1, <2>5
      <3>2. QED
        BY <1>1, <2>1, <2>5, <3>1, CallerTypes DEF StoreTypesInv
    <2>9. QED
      BY <2>1, <2>2, <2>5, <2>6, <2>7, <2>8, CallerMoves
  <1>4. ASSUME NEW c \in Commands, doing[c].at # "idle"
        PROVE  /\ doing[c].store \in Names /\ doing[c] \in Doings
               /\ \A d \in Commands : d # c /\ doing[d].at # "idle" => doing[d].store # doing[c].store
               /\ doing[c].store \notin S!InPlace => disk[doing[c].store] = acked[doing[c].store] /\ Merges(doing[c])
    BY <1>1, <1>4 DEF StoresInv, StoreTypesInv
  <1>5. ASSUME NEW c \in Commands, S!Open(c) PROVE StoresInv'
    <2> DEFINE s == doing[c].store
               in == s \in S!InPlace
               n == [doing[c] EXCEPT !.at = "open", !.into = IF in THEN "file" ELSE "aside"]
    <2>1. doing[c].at = "loaded"
      BY <1>5 DEF S!Open
    <2>2. doing' = [doing EXCEPT ![c] = n]
      BY <1>1, <1>4, <1>5, <2>1 DEF S!Open, StoreTypesInv
    <2>3. /\ UNCHANGED acked
          /\ in => (disk' = [disk EXCEPT ![s] = S!Torn] /\ UNCHANGED aside)
          /\ ~in => (aside' = [aside EXCEPT ![s] = S!Torn] /\ UNCHANGED disk)
      BY <1>5 DEF S!Open
    <2>4. /\ n \in Doings /\ n.at = "open" /\ n.store = s /\ n.put = doing[c].put /\ n.key = doing[c].key
          /\ n.data = doing[c].data /\ (~in => n.into = "aside")
      BY <1>4, <2>1 DEF Doings
    <2>5. ~in => (disk[s] = acked[s] /\ n.data = IF n.put THEN acked[s] \cup n.key ELSE acked[s] \ n.key)
      BY <1>4, <2>1, <2>4 DEF Merges
    <2>6. s \in Names /\ \A d \in Commands : d # c /\ doing[d].at # "idle" => doing[d].store # s
      BY <1>4, <2>1
    <2> HIDE DEF n
    <2>7. /\ disk' \in [Names -> (SUBSET Keys) \cup {S!Torn}]
          /\ aside' \in [Names -> (SUBSET Keys) \cup {S!Torn, S!NoFile}]
          /\ acked' \in [Names -> SUBSET Keys]
          /\ \A t \in Names : t # s => disk'[t] = disk[t] /\ aside'[t] = aside[t] /\ acked'[t] = acked[t]
          /\ ~in => disk'[s] = disk[s] /\ acked'[s] = acked[s]
      BY <1>1, <2>3, <2>6 DEF StoreTypesInv
    <2>8. StoreTypesInv' /\ doing'[c] = n /\ \A d \in Commands : d # c => doing'[d] = doing[d]
      BY <1>1, <2>2, <2>4, <2>6, <2>7, CallerTypes
    <2> HIDE DEF s, n
    <2>9. ~in =>
            /\ disk'[s] = acked'[s]
            /\ doing'[c].data = IF doing'[c].put THEN acked'[s] \cup doing'[c].key ELSE acked'[s] \ doing'[c].key
            /\ doing'[c].into = "aside"
      BY <2>4, <2>5, <2>7, <2>8
    <2>10. doing'[c].at = "open" /\ doing'[c].store = s
      BY <2>4, <2>8
    <2>11. QED
      BY <2>6, <2>7, <2>8, <2>9, <2>10, CallerMoves
  <1>6. ASSUME NEW c \in Commands, S!Write(c) PROVE StoresInv'
    <2> DEFINE s == doing[c].store
    <2>1. doing[c].at = "open"
      BY <1>6 DEF S!Write
    <2>2. s \in Names /\ doing[c] \in Doings
          /\ \A d \in Commands : d # c /\ doing[d].at # "idle" => doing[d].store # s
      BY <1>4, <2>1
    <2>3. doing[c].data \in SUBSET Keys /\ doing[c].key \in SUBSET Keys
      BY <2>2 DEF Doings
    <2>4. CASE s \in S!InPlace
      <3>1. /\ disk' = disk \/ disk' = [disk EXCEPT ![s] = doing[c].data]
            /\ aside' = aside \/ aside' = [aside EXCEPT ![s] = doing[c].data]
            /\ doing' = [doing EXCEPT ![c] = S!Idle] /\ S!Acked(doing[c])
        BY <1>6, <2>4 DEF S!Write
      <3>2. PICK h \in SUBSET Keys : acked' = [acked EXCEPT ![s] = h]
        <4>1. acked[s] \cup doing[c].key \in SUBSET Keys /\ acked[s] \ doing[c].key \in SUBSET Keys
          BY <1>1, <2>2, <2>3 DEF StoreTypesInv
        <4>2. acked' = [acked EXCEPT ![s] = IF doing[c].put THEN acked[s] \cup doing[c].key ELSE acked[s] \ doing[c].key]
          BY <1>1, <2>2, <3>1 DEF S!Acked, StoreTypesInv
        <4>3. QED
          BY <4>1, <4>2
      <3>3. /\ disk' \in [Names -> (SUBSET Keys) \cup {S!Torn}]
            /\ aside' \in [Names -> (SUBSET Keys) \cup {S!Torn, S!NoFile}]
            /\ acked' \in [Names -> SUBSET Keys]
            /\ \A t \in Names : t # s => disk'[t] = disk[t] /\ aside'[t] = aside[t] /\ acked'[t] = acked[t]
        BY <1>1, <2>2, <2>3, <3>1, <3>2 DEF StoreTypesInv
      <3>4. StoreTypesInv' /\ doing'[c] = S!Idle /\ \A d \in Commands : d # c => doing'[d] = doing[d]
        BY <1>1, <1>2, <3>1, <3>3, CallerTypes
      <3> HIDE DEF s
      <3>5. QED
        BY <1>2, <2>2, <2>4, <3>3, <3>4, CallerMoves
    <2>5. CASE s \notin S!InPlace
      <3> DEFINE n == [doing[c] EXCEPT !.at = "written"]
      <3>1. /\ UNCHANGED <<disk, acked>> /\ aside' = [aside EXCEPT ![s] = doing[c].data]
            /\ doing' = [doing EXCEPT ![c] = n]
        BY <1>6, <2>1, <2>5 DEF S!Write, StoresInv
      <3>2. /\ n \in Doings /\ n.at = "written" /\ n.store = s /\ n.put = doing[c].put /\ n.key = doing[c].key
            /\ n.data = doing[c].data
        BY <2>2 DEF Doings
      <3>3. disk[s] = acked[s] /\ n.data = IF n.put THEN acked[s] \cup n.key ELSE acked[s] \ n.key
        BY <1>4, <2>1, <2>5, <3>2 DEF Merges
      <3> HIDE DEF n
      <3>4. /\ aside' \in [Names -> (SUBSET Keys) \cup {S!Torn, S!NoFile}] /\ aside'[s] = doing[c].data
            /\ \A t \in Names : t # s => disk'[t] = disk[t] /\ aside'[t] = aside[t] /\ acked'[t] = acked[t]
        BY <1>1, <2>2, <2>3, <3>1 DEF StoreTypesInv
      <3>5. StoreTypesInv' /\ doing'[c] = n /\ \A d \in Commands : d # c => doing'[d] = doing[d]
        <4>1. disk' \in [Names -> (SUBSET Keys) \cup {S!Torn}] /\ acked' \in [Names -> SUBSET Keys]
          BY <1>1, <3>1 DEF StoreTypesInv
        <4>2. QED
          BY <1>1, <2>2, <2>5, <3>1, <3>2, <3>4, <4>1, CallerTypes
      <3> HIDE DEF s, n
      <3>6. /\ disk'[s] = acked'[s]
            /\ doing'[c].data = IF doing'[c].put THEN acked'[s] \cup doing'[c].key ELSE acked'[s] \ doing'[c].key
            /\ doing'[c].at = "written" /\ doing'[c].store = s /\ aside'[s] = doing'[c].data
        BY <3>1, <3>2, <3>3, <3>4, <3>5
      <3>7. QED
        BY <2>2, <2>5, <3>4, <3>5, <3>6, CallerMoves
    <2>6. QED
      BY <2>4, <2>5
  <1>7. ASSUME NEW c \in Commands, S!Rename(c) PROVE StoresInv'
    <2> DEFINE s == doing[c].store
    <2>1. doing[c].at = "written" /\ s \notin S!InPlace
      BY <1>1, <1>7 DEF S!Rename, StoreTypesInv
    <2>2. s \in Names /\ doing[c] \in Doings
          /\ \A d \in Commands : d # c /\ doing[d].at # "idle" => doing[d].store # s
      BY <1>4, <2>1
    <2>3. aside[s] = doing[c].data /\ doing[c].data \in SUBSET Keys /\ Merges(doing[c])
      BY <2>1, <2>2 DEF StoresInv, Doings
    <2>4. /\ disk' = [disk EXCEPT ![s] = doing[c].data] /\ aside' = [aside EXCEPT ![s] = S!NoFile]
          /\ S!Acked(doing[c])
      BY <1>7, <2>3 DEF S!Rename
    <2>5. doing' = [doing EXCEPT ![c] = S!Idle]
      BY <1>1, <1>7, <2>2, <2>3 DEF S!Rename, StoreTypesInv
    <2>6. acked' = [acked EXCEPT ![s] = doing[c].data]
      BY <1>1, <2>2, <2>3, <2>4 DEF S!Acked, Merges, StoreTypesInv
    <2>7. /\ disk' \in [Names -> (SUBSET Keys) \cup {S!Torn}]
          /\ aside' \in [Names -> (SUBSET Keys) \cup {S!Torn, S!NoFile}]
          /\ acked' \in [Names -> SUBSET Keys] /\ disk'[s] = acked'[s]
          /\ \A t \in Names : t # s => disk'[t] = disk[t] /\ aside'[t] = aside[t] /\ acked'[t] = acked[t]
      BY <1>1, <2>2, <2>3, <2>4, <2>6 DEF StoreTypesInv
    <2>8. StoreTypesInv' /\ doing'[c] = S!Idle /\ \A d \in Commands : d # c => doing'[d] = doing[d]
      BY <1>1, <1>2, <2>5, <2>7, CallerTypes
    <2> HIDE DEF s
    <2>9. QED
      BY <1>2, <2>2, <2>7, <2>8, CallerMoves
  <1>8. ASSUME NEW k \in Keys, S!Append(k) PROVE StoresInv'
    <2>1. /\ "sessions" \in Names /\ UNCHANGED <<aside, doing>>
          /\ disk' = [disk EXCEPT !["sessions"] = S!load("sessions") \cup {k}]
          /\ acked' = [acked EXCEPT !["sessions"] = @ \cup {k}]
          /\ \A d \in Commands : doing[d].at # "idle" => doing[d].store # "sessions"
      BY <1>8 DEF S!Append, S!Busy
    <2>2. S!load("sessions") = acked["sessions"]
      BY <1>1, <2>1 DEF S!load, StoresInv, StoreTypesInv, S!InPlace
    <2>3. StoreTypesInv'
      <3>1. acked["sessions"] \cup {k} \in SUBSET Keys
        BY <1>1, <2>1 DEF StoreTypesInv
      <3>2. QED
        BY <1>1, <2>1, <2>2, <3>1 DEF StoreTypesInv
    <2>4. QED
      BY <1>1, <2>1, <2>2, <2>3 DEF StoresInv, StoreTypesInv, Merges
  <1>9. CASE S!Killed
    <2>1. doing' = [c \in Commands |-> S!Idle] /\ UNCHANGED <<disk, aside, acked>>
      BY <1>9 DEF S!Killed
    <2>2. QED
      BY <1>1, <1>2, <2>1 DEF StoresInv, StoreTypesInv
  <1>10. CASE UNCHANGED S!storeVars
    BY <1>10 DEF S!storeVars, StoresInv, StoreTypesInv, Merges
  <1>11. QED
    BY <1>3, <1>5, <1>6, <1>7, <1>8, <1>9, <1>10 DEF S!StoresNext

\* A file that is renamed into place is whole at every moment, and holds exactly what the updates that were reported as
\* saved left, wherever the app is killed (settings::update, set_account, forget_session, record_session), when a store's
\* updates come one after the other
THEOREM StoresSafe ==
  ASSUME StoresBounds, Serial
  PROVE  S!StoresInit /\ [][S!StoresNext]_(S!storeVars) => [](S!StoreWhole /\ S!SavedStays)
  <1>1. S!StoresInit => StoresInv
    BY StoresInitially
  <1>2. StoresInv /\ [S!StoresNext]_(S!storeVars) => StoresInv'
    BY StoresKept
  <1>3. StoresInv => S!StoreWhole /\ S!SavedStays
    BY MarksDiffer DEF StoresInv, StoreTypesInv, S!StoreWhole, S!SavedStays
  <1>4. QED
    BY <1>1, <1>2, <1>3, PTL

-----------------------------------------------------------------------------
(* A file, its history and its watch.  The root's names are no states of a *)
(* watch; of history.rs, the gap and the number of snapshots are not 0     *)

FilesBounds ==
  /\ MIN_GAP_MS \in Nat \ {0} /\ MAX_ENTRIES \in Nat \ {0} /\ MaxWrites \in Nat \ {0}
  /\ Roots \cap {"absent", "starting"} = {}

FileTypesInv ==
  /\ writes \in 1..MaxWrites /\ held \in 0..MaxWrites /\ expected \in 0..MaxWrites
  /\ saving \in {"none", "checked", "kept"} /\ clock \in Nat
  /\ slot \in {"absent", "starting"} \cup Roots /\ opening \subseteq Roots

\* The snapshots have times of their own
SnapsApart(T) ==
  /\ IsFiniteSet(T)
  /\ \A s \in T : s.id \in Nat
  /\ \A s, t \in T : s.id = t.id => s = t

SnapsInv ==
  /\ SnapsApart(snaps) /\ Cardinality(snaps) <= MAX_ENTRIES
  /\ \A s \in snaps : s.id <= clock

HistoryInv == FileTypesInv /\ SnapsInv

\* The newest of some times
LEMMA NewestOf ==
  ASSUME NEW T \in SUBSET Nat, T # {}, NEW b \in Nat, \A t \in T : t <= b
  PROVE  \E m \in T : \A t \in T : t <= m
  <1> DEFINE D == {b - t : t \in T}
  <1>1. D \in SUBSET Nat /\ D # {}
    <2>1. \A t \in T : b - t \in Nat
      OBVIOUS
    <2>2. QED
      BY <2>1
  <1> HIDE DEF D
  <1>2. PICK d \in D : \A e \in D : ~(<<e, d>> \in OpToRel(<, Nat))
    BY <1>1, NatLessThanWellFounded, WFMin
  <1>3. \A e \in D : d <= e
    <2>1. \A e \in D : ~(e < d)
      BY <1>1, <1>2 DEF OpToRel
    <2>2. QED
      BY <1>1, <2>1
  <1>4. PICK m \in T : d = b - m
    BY DEF D
  <1>5. \A t \in T : b - m <= b - t
    BY <1>3, <1>4 DEF D
  <1>6. QED
    BY <1>5

\* The newest snapshot
LEMMA LatestIs ==
  ASSUME NEW T, T # {}, NEW b \in Nat, \A s \in T : s.id \in Nat /\ s.id <= b
  PROVE  \E s \in T : s.id = Max({t.id : t \in T}) /\ \A t \in T : t.id <= s.id
  <1> DEFINE N == {t.id : t \in T}
  <1>1. N \in SUBSET Nat /\ N # {} /\ \A n \in N : n <= b
    OBVIOUS
  <1> HIDE DEF N
  <1>2. PICK m \in N : \A n \in N : n <= m
    BY <1>1, NewestOf
  <1>3. Max(N) \in N /\ \A n \in N : Max(N) >= n
    BY <1>1, <1>2 DEF Max
  <1>4. \A n \in N : n <= Max(N)
    BY <1>1, <1>3
  <1>5. QED
    BY <1>3, <1>4 DEF N

LEMMA LatestBounds ==
  ASSUME HistoryInv, snaps # {}
  PROVE  /\ \E s \in snaps : s.id = Latest
         /\ Latest \in Nat /\ Latest <= clock
         /\ \A s \in snaps : s.id \in Nat /\ s.id <= Latest
  <1>1. clock \in Nat /\ \A s \in snaps : s.id \in Nat /\ s.id <= clock
    BY DEF HistoryInv, FileTypesInv, SnapsInv, SnapsApart
  <1>2. PICK s \in snaps : s.id = Latest /\ \A t \in snaps : t.id <= s.id
    BY <1>1, LatestIs DEF Latest
  <1>3. QED
    BY <1>1, <1>2

\* Of snapshots with times of their own, those with less than n newer ones are n at most
LEMMA FewKept ==
  ASSUME NEW T, SnapsApart(T), NEW b \in Nat, \A s \in T : s.id <= b, NEW n \in Nat,
         NEW K \in SUBSET T, \A s \in K : Cardinality({t \in T : t.id > s.id}) < n
  PROVE  Cardinality(K) <= n
  <1>1. IsFiniteSet(K) /\ IsFiniteSet(T)
    BY FS_Subset DEF SnapsApart
  <1>2. CASE K = {}
    BY <1>2, FS_EmptySet
  <1>3. CASE K # {}
    <2> DEFINE N == {s.id : s \in K}
    <2>1. N \in SUBSET Nat /\ N # {}
      BY <1>3 DEF SnapsApart
    <2> HIDE DEF N
    <2>2. PICK m \in N : \A k \in N : ~(<<k, m>> \in OpToRel(<, Nat))
      BY <2>1, NatLessThanWellFounded, WFMin
    <2>3. \A k \in N : m <= k
      <3>1. \A k \in N : ~(k < m)
        BY <2>1, <2>2 DEF OpToRel
      <3>2. QED
        BY <2>1, <3>1
    <2>4. PICK o \in K : m = o.id
      BY DEF N
    <2>5. \A s \in K : o.id <= s.id /\ s.id \in Nat
      BY <2>3, <2>4 DEF N, SnapsApart
    <2> DEFINE Newer == {t \in T : t.id > o.id}
    <2>6. K \ {o} \subseteq Newer
      <3>1. ASSUME NEW s \in K \ {o} PROVE s.id > o.id
        <4>1. s.id # o.id
          BY DEF SnapsApart
        <4>2. QED
          BY <2>5, <4>1
      <3>2. QED
        BY <3>1
    <2>7. IsFiniteSet(Newer) /\ Cardinality(Newer) < n
      BY <1>1, FS_Subset
    <2> HIDE DEF Newer
    <2>8. Cardinality(K \ {o}) <= Cardinality(Newer) /\ Cardinality(K \ {o}) = Cardinality(K) - 1
      BY <1>1, <2>6, <2>7, FS_Subset, FS_RemoveElement
    <2>9. Cardinality(K) \in Nat /\ Cardinality(Newer) \in Nat
      BY <1>1, <2>7, FS_CardinalityType
    <2>10. QED
      BY <2>7, <2>8, <2>9
  <1>4. QED
    BY <1>2, <1>3

\* snapshot_before_save's last step: the oldest ones go, one of now comes
LEMMA SnapAdded ==
  ASSUME FilesBounds, SnapsInv, clock \in Nat, \A s \in snaps : s.id < clock, NEW w,
         snaps' = (snaps \ Stale(MAX_ENTRIES - 1)) \cup {[id |-> clock, of |-> w]}, clock' = clock
  PROVE  SnapsInv' /\ Latest' = clock
  <1> DEFINE K == snaps \ Stale(MAX_ENTRIES - 1)
             now == [id |-> clock, of |-> w]
  <1>1. MAX_ENTRIES - 1 \in Nat /\ now.id = clock
    BY DEF FilesBounds
  <1>2. \A s \in K : Cardinality({t \in snaps : t.id > s.id}) < MAX_ENTRIES - 1
    <2> SUFFICES ASSUME NEW s \in K PROVE Cardinality({t \in snaps : t.id > s.id}) < MAX_ENTRIES - 1
      OBVIOUS
    <2>1. Cardinality({t \in snaps : t.id > s.id}) \in Nat
      BY FS_Subset, FS_CardinalityType DEF SnapsInv, SnapsApart
    <2>2. ~(Cardinality({t \in snaps : t.id > s.id}) >= MAX_ENTRIES - 1)
      <3>1. s \in snaps /\ s \notin Stale(MAX_ENTRIES - 1)
        OBVIOUS
      <3>2. QED
        BY <3>1 DEF Stale
    <2>3. QED
      BY <1>1, <2>1, <2>2
  <1>3. K \in SUBSET snaps
    OBVIOUS
  <1>4. snaps' = K \cup {now}
    OBVIOUS
  <1> HIDE DEF K, now
  <1>5. IsFiniteSet(K) /\ Cardinality(K) <= MAX_ENTRIES - 1
    BY <1>1, <1>2, <1>3, FewKept, FS_Subset DEF SnapsInv, SnapsApart
  <1>6. IsFiniteSet(K \cup {now}) /\ Cardinality(K \cup {now}) <= Cardinality(K) + 1
    BY <1>5, FS_AddElement, FS_CardinalityType
  <1>7. Cardinality(K \cup {now}) <= MAX_ENTRIES
    <2>1. Cardinality(K) \in Nat /\ Cardinality(K \cup {now}) \in Nat
      BY <1>5, <1>6, FS_CardinalityType
    <2>2. QED
      BY <1>1, <1>5, <1>6, <2>1 DEF FilesBounds
  <1>8. SnapsApart(K \cup {now})
    <2>1. \A s \in K : s.id \in Nat /\ s.id < clock
      BY <1>3 DEF SnapsInv, SnapsApart
    <2>2. \A s, t \in K : s.id = t.id => s = t
      BY <1>3 DEF SnapsInv, SnapsApart
    <2>3. \A s, t \in K \cup {now} : s.id = t.id => s = t
      BY <1>1, <2>1, <2>2
    <2>4. QED
      BY <1>1, <1>6, <2>1, <2>3 DEF SnapsApart
  <1>9. \A s \in K \cup {now} : s.id \in Nat /\ s.id <= clock
    BY <1>1, <1>3 DEF SnapsInv, SnapsApart
  <1>10. SnapsInv'
    <2>1. SnapsApart(snaps')
      BY <1>4, <1>8
    <2>2. SnapsApart(snaps)'
      BY <2>1 DEF SnapsApart
    <2>3. QED
      BY <1>4, <1>7, <1>9, <2>2 DEF SnapsInv
  <1>11. PICK s \in snaps' : s.id = Max({t.id : t \in snaps'}) /\ \A t \in snaps' : t.id <= s.id
    BY <1>4, <1>9, LatestIs
  <1>12. clock <= s.id /\ s.id <= clock /\ s.id \in Nat
    BY <1>1, <1>4, <1>9, <1>11
  <1>13. QED
    BY <1>10, <1>11, <1>12 DEF Latest

LEMMA HistoryKept ==
  ASSUME FilesBounds, HistoryInv, [FilesNext]_filesVars
  PROVE  HistoryInv'
  <1> USE DEF HistoryInv
  <1>1. ASSUME UNCHANGED <<snaps, clock>> PROVE SnapsInv'
    BY <1>1 DEF SnapsInv, SnapsApart
  <1>2. CASE AgentWrites
    BY <1>1, <1>2 DEF AgentWrites, FileTypesInv, FilesBounds, watchVars
  <1>3. CASE Trashed
    BY <1>1, <1>3 DEF Trashed, FileTypesInv, FilesBounds, watchVars
  <1>4. CASE Loads
    BY <1>1, <1>4 DEF Loads, FileTypesInv, watchVars
  <1>5. CASE SaveKeeps
    <2>1. saving' = "kept" /\ UNCHANGED <<held, writes, expected, forced, clock, agents_lost, slot,
                                              opening, wanted, asked>>
      BY <1>5 DEF SaveKeeps, watchVars
    <2>2. FileTypesInv'
      BY <2>1 DEF FileTypesInv
    <2>3. CASE snaps' = snaps
      BY <1>1, <2>1, <2>2, <2>3
    <2>4. CASE snaps' # snaps
      <3>1. /\ snaps' = (snaps \ Stale(MAX_ENTRIES - 1)) \cup {[id |-> clock, of |-> held]}
            /\ snaps = {} \/ ~(clock - Latest < MIN_GAP_MS)
        BY <1>5, <2>4 DEF SaveKeeps
      <3>2. \A s \in snaps : s.id < clock
        BY <3>1, LatestBounds DEF FileTypesInv, FilesBounds
      <3>3. QED
        BY <2>1, <2>2, <3>1, <3>2, SnapAdded DEF FileTypesInv
    <2>5. QED
      BY <2>3, <2>4
  <1>6. CASE SaveWrites
    BY <1>1, <1>6 DEF SaveWrites, FileTypesInv, FilesBounds, watchVars
  <1>7. CASE Ticks
    <2>1. clock' = clock + 1 /\ UNCHANGED <<held, writes, expected, saving, snaps, slot, opening>>
      BY <1>7 DEF Ticks, watchVars
    <2>2. QED
      BY <2>1 DEF FileTypesInv, SnapsInv, SnapsApart
  <1>8. ASSUME NEW f \in BOOLEAN, SaveChecks(f) PROVE HistoryInv'
    BY <1>1, <1>8 DEF SaveChecks, FileTypesInv, watchVars
  <1>9. ASSUME NEW r \in Roots, Watch(r) \/ WatchReady(r) \/ WatchFails(r) PROVE HistoryInv'
    BY <1>1, <1>9 DEF Watch, WatchReady, WatchFails, FileTypesInv, fileVars
  <1>10. CASE Unwatch
    BY <1>1, <1>10 DEF Unwatch, FileTypesInv, fileVars
  <1>11. CASE UNCHANGED filesVars
    BY <1>1, <1>11 DEF filesVars, fileVars, watchVars, FileTypesInv
  <1>12. QED
    BY <1>2, <1>3, <1>4, <1>5, <1>6, <1>7, <1>8, <1>9, <1>10, <1>11 DEF FilesNext

\* A history of a file has MAX_ENTRIES snapshots at most, each of a time of its own (snapshot_before_save)
THEOREM FilesTyped ==
  ASSUME FilesBounds
  PROVE  FilesSpec => []FilesTypeOK
  <1>1. FilesInit => HistoryInv
    BY FS_EmptySet DEF FilesInit, FilesBounds, HistoryInv, FileTypesInv, SnapsInv, SnapsApart
  <1>2. HistoryInv /\ [FilesNext]_filesVars => HistoryInv'
    BY HistoryKept
  <1>3. HistoryInv => FilesTypeOK
    BY DEF HistoryInv, FileTypesInv, SnapsInv, FilesTypeOK
  <1>4. QED
    BY <1>1, <1>2, <1>3, PTL DEF FilesSpec

\* After the last unwatch nothing is watched, however the watch calls before it end (watches())
THEOREM UnwatchesStop ==
  ASSUME FilesBounds
  PROVE  FilesSpec => []UnwatchStops
  <1>1. FilesInit => UnwatchStops
    BY DEF FilesInit, UnwatchStops
  <1>2. UnwatchStops /\ [FilesNext]_filesVars => UnwatchStops'
    <2> SUFFICES ASSUME UnwatchStops, [FilesNext]_filesVars PROVE UnwatchStops'
      OBVIOUS
    <2>1. ASSUME UNCHANGED watchVars PROVE UnwatchStops'
      BY <2>1 DEF watchVars, UnwatchStops
    <2>2. ASSUME NEW r \in Roots, Watch(r) PROVE UnwatchStops'
      BY <2>2 DEF Watch, UnwatchStops, FilesBounds
    <2>3. ASSUME NEW r \in Roots, WatchReady(r) \/ WatchFails(r) PROVE UnwatchStops'
      BY <2>3 DEF WatchReady, WatchFails, UnwatchStops
    <2>4. CASE Unwatch
      BY <2>4 DEF Unwatch, UnwatchStops
    <2>5. QED
      BY <2>1, <2>2, <2>3, <2>4 DEF FilesNext, filesVars, AgentWrites, Trashed, Loads, SaveKeeps, SaveWrites, Ticks,
         SaveChecks
  <1>3. QED
    BY <1>1, <1>2, PTL DEF FilesSpec

\* A save that was checked has the file the editor loaded still, and in the history what it is about to write over
SavingInv ==
  /\ saving # "none" /\ ~forced => held = expected
  /\ saving = "kept" /\ held # 0 =>
       \E s \in snaps : s.id = Latest /\ (s.of = held \/ clock - s.id < MIN_GAP_MS)

LEMMA SavingKept ==
  ASSUME FilesBounds, ~Racing, HistoryInv, SavingInv, [FilesNext]_filesVars
  PROVE  SavingInv'
  <1>1. CASE AgentWrites \/ Trashed \/ Loads \/ Ticks
    <2>1. saving = "none" /\ saving' = "none" /\ agents_lost' = agents_lost
      BY <1>1 DEF AgentWrites, Trashed, Loads, Ticks
    <2>2. QED
      BY <2>1 DEF SavingInv
  <1>2. CASE SaveKeeps
    <2>1. saving = "checked" /\ saving' = "kept" /\ UNCHANGED <<held, expected, forced, clock, agents_lost>>
      BY <1>2 DEF SaveKeeps
    <2>2. ASSUME held # 0
          PROVE  \E s \in snaps' : s.id = Latest' /\ (s.of = held \/ clock - s.id < MIN_GAP_MS)
      <3>1. CASE snaps' # snaps \/ snaps = {}
        <4>1. /\ snaps' = (snaps \ Stale(MAX_ENTRIES - 1)) \cup {[id |-> clock, of |-> held]}
              /\ snaps = {} \/ ~(clock - Latest < MIN_GAP_MS)
          BY <1>2, <2>2, <3>1 DEF SaveKeeps
        <4>2. \A s \in snaps : s.id < clock
          BY <4>1, LatestBounds DEF HistoryInv, FileTypesInv, FilesBounds
        <4>3. Latest' = clock
          BY <2>1, <4>1, <4>2, SnapAdded DEF HistoryInv, FileTypesInv
        <4>4. [id |-> clock, of |-> held] \in snaps'
          BY <4>1
        <4>5. QED
          BY <4>3, <4>4
      <3>2. CASE snaps' = snaps /\ snaps # {}
        <4>1. clock - Latest < MIN_GAP_MS \/ (\E s \in snaps : s.id = Latest /\ s.of = held)
              \/ [id |-> clock, of |-> held] \in snaps
          BY <1>2, <2>2, <3>2 DEF SaveKeeps
        <4>2. Latest' = Latest
          BY <3>2 DEF Latest
        <4>3. PICK s \in snaps : s.id = Latest
          BY <3>2, LatestBounds
        <4>4. ASSUME [id |-> clock, of |-> held] \in snaps
              PROVE  Latest = clock
          <5>1. Latest >= clock
            BY <4>4, LatestBounds
          <5>2. QED
            BY <5>1, <4>3 DEF HistoryInv, SnapsInv, SnapsApart, FileTypesInv
        <4>5. QED
          BY <3>2, <4>1, <4>2, <4>3, <4>4
      <3>3. QED
        BY <3>1, <3>2
    <2>3. QED
      BY <2>1, <2>2 DEF SavingInv
  <1>3. CASE SaveWrites
    BY <1>3 DEF SaveWrites, SavingInv
  <1>4. ASSUME NEW f \in BOOLEAN, SaveChecks(f) PROVE SavingInv'
    BY <1>4 DEF SaveChecks, SavingInv
  <1>5. CASE UNCHANGED fileVars
    BY <1>5 DEF fileVars, SavingInv, Latest
  <1>6. QED
    BY <1>1, <1>2, <1>3, <1>4, <1>5 DEF FilesNext, filesVars, Watch, WatchReady, WatchFails, Unwatch

LEMMA SavesAlways ==
  ASSUME FilesBounds, ~Racing
  PROVE  FilesSpec => [](HistoryInv /\ SavingInv)
  <1>1. FilesInit => HistoryInv /\ SavingInv
    BY FS_EmptySet DEF FilesInit, FilesBounds, HistoryInv, FileTypesInv, SnapsInv, SnapsApart, SavingInv
  <1>2. HistoryInv /\ SavingInv /\ [FilesNext]_filesVars => HistoryInv' /\ SavingInv'
    BY HistoryKept, SavingKept
  <1>3. QED
    BY <1>1, <1>2, PTL DEF FilesSpec

\* What a save writes over can be had back: it is the newest snapshot, or of a burst whose start is
\* (snapshot_before_save), when no agent writes between the snapshot and the write
THEOREM BurstsKept ==
  ASSUME FilesBounds, ~Racing
  PROVE  FilesSpec => BurstKept
  <1>1. HistoryInv /\ SavingInv /\ [FilesNext]_filesVars => [KeepsBurst]_filesVars
    BY DEF SavingInv, KeepsBurst
  <1>2. QED
    BY <1>1, SavesAlways, PTL DEF BurstKept, FilesSpec

-----------------------------------------------------------------------------
(* The worktrees.  Calls are of one process, targets are a branch's or a   *)
(* PR's, and neither is a mark of the model                                *)

WorktreesBounds ==
  /\ AppCallers \cap DaemonCallers = {} /\ "none" \notin W!Callers
  /\ Branches \cap Prs = {} /\ W!Targets \cap {"none", "branches"} = {}
  /\ MaxCalls \in Nat /\ MaxFails \in Nat

Creating == {"look", "fetch", "add", "setup", "set", "unlist"}
Adds == [pc : Creating \cup {"join"}, t : W!Targets, setup : BOOLEAN, path : W!Targets \cup {"none"},
         ok : BOOLEAN, of : W!Callers \cup {"none"}]
Removes == [pc : {"remove", "delete"}, t : W!Targets, force : BOOLEAN, branch : Branches \cup {"none"}]
Processes == {"app", "ptyd"}

\* ADDING lists exactly the calls that create, and calls that joined one know it
CallsInv ==
  /\ wcalls \in [W!Callers -> {W!Idle} \cup Adds \cup Removes]
  /\ ADDING \in [Processes -> [W!Targets -> W!Callers \cup {"none"}]]
  /\ \A c \in W!Callers : wcalls[c].pc \in Creating => W!Listed(c, wcalls[c].t) = c
  /\ \A p \in Processes, t \in W!Targets : ADDING[p][t] # "none" =>
       /\ W!Process(ADDING[p][t]) = p
       /\ wcalls[ADDING[p][t]].pc \in Creating /\ wcalls[ADDING[p][t]].t = t
  /\ \A c \in W!Callers : wcalls[c].pc = "join" =>
       W!Listed(c, wcalls[c].t) = wcalls[c].of /\ wcalls[c].of # "none"

Heads == Branches \cup Prs \cup {"none", "branches"}
Trees == [there : {TRUE}, on : Heads, gone : BOOLEAN, dirty : BOOLEAN, ready : BOOLEAN]

TreesInv ==
  /\ trees \in [W!Targets -> {W!Absent} \cup Trees]
  /\ heads \subseteq Branches /\ fetch_head \in Prs \cup {"none", "branches"}
  /\ \A d \in W!Targets : trees[d].there /\ trees[d].on \in Branches => trees[d].on \in heads

CountsInv ==
  /\ asks \in 0..MaxCalls /\ fails \in 0..MaxFails
  /\ wrong \subseteq {"folder", "branch", "setup", "joined", "head"}

WorktreesInv == CallsInv /\ TreesInv /\ CountsInv

LEMMA ProcessIs ==
  ASSUME NEW c \in W!Callers
  PROVE  W!Process(c) \in Processes
  BY DEF W!Process, Processes

\* What a call is, by where it is
LEMMA CallIs ==
  ASSUME CallsInv, NEW c \in W!Callers
  PROVE  /\ wcalls[c].pc = "idle" => wcalls[c] = W!Idle
         /\ wcalls[c].pc \in Creating \cup {"join"} => wcalls[c] \in Adds
         /\ wcalls[c].pc \in {"remove", "delete"} => wcalls[c] \in Removes
         /\ wcalls[c].pc \in {"idle", "join", "remove", "delete"} \cup Creating
  <1>1. W!Idle.pc = "idle"
    BY DEF W!Idle
  <1>2. \A a \in Adds : a.pc \in Creating \cup {"join"}
    BY DEF Adds
  <1>3. \A r \in Removes : r.pc \in {"remove", "delete"}
    BY DEF Removes
  <1>4. wcalls[c] \in {W!Idle} \cup Adds \cup Removes
    BY DEF CallsInv
  <1>5. QED
    BY <1>1, <1>2, <1>3, <1>4 DEF Creating

\* A step of a call that creates
LEMMA CreatorMoves ==
  ASSUME CallsInv, NEW c \in W!Callers, wcalls[c].pc \in Creating,
         NEW n \in Adds, n.pc \in Creating, n.t = wcalls[c].t,
         wcalls' = [wcalls EXCEPT ![c] = n], ADDING' = ADDING
  PROVE  CallsInv'
  <1>1. wcalls' \in [W!Callers -> {W!Idle} \cup Adds \cup Removes]
    BY DEF CallsInv
  <1>2. wcalls'[c] = n /\ \A d \in W!Callers : d # c => wcalls'[d] = wcalls[d]
    BY DEF CallsInv
  <1>3. \A d \in W!Callers : wcalls'[d].pc \in Creating => ADDING'[W!Process(d)][wcalls'[d].t] = d
    BY <1>2 DEF CallsInv, W!Listed
  <1>4. \A p \in Processes, t \in W!Targets : ADDING'[p][t] # "none" =>
          /\ W!Process(ADDING'[p][t]) = p
          /\ wcalls'[ADDING'[p][t]].pc \in Creating /\ wcalls'[ADDING'[p][t]].t = t
    <2>1. \A p \in Processes, t \in W!Targets : ADDING[p][t] # "none" => ADDING[p][t] \in W!Callers
      BY DEF CallsInv
    <2>2. QED
      BY <1>2, <2>1 DEF CallsInv
  <1>5. \A d \in W!Callers : wcalls'[d].pc = "join" =>
          ADDING'[W!Process(d)][wcalls'[d].t] = wcalls'[d].of /\ wcalls'[d].of # "none"
    BY <1>2 DEF CallsInv, W!Listed, Creating
  <1>6. QED
    BY <1>1, <1>3, <1>4, <1>5 DEF CallsInv, W!Listed

\* The steps of a call, by the process that takes it
LEMMA CreationSteps ==
  ASSUME WorktreesInv, NEW c \in W!Callers,
         W!Look(c) \/ W!Fetch(c) \/ W!SkipFetch(c) \/ W!Add(c) \/ W!Setup(c) \/ W!StepFails(c)
  PROVE  CallsInv'
  <1>1. CallsInv
    BY DEF WorktreesInv
  <1> DEFINE a == wcalls[c]
  <1>2. a.pc \in Creating /\ ADDING' = ADDING
    BY DEF W!Look, W!Fetch, W!SkipFetch, W!Add, W!Setup, W!StepFails, Creating
  <1>3. a \in Adds /\ a.t \in W!Targets /\ a.path \in W!Targets \cup {"none"}
    BY <1>1, <1>2, CallIs DEF Adds
  <1>4. ASSUME NEW pc \in Creating, NEW path \in W!Targets \cup {"none"}, NEW ok \in BOOLEAN,
               \/ wcalls' = [wcalls EXCEPT ![c].pc = pc]
               \/ wcalls' = [wcalls EXCEPT ![c].pc = pc, ![c].path = path]
               \/ wcalls' = [wcalls EXCEPT ![c].pc = pc, ![c].ok = ok]
        PROVE  CallsInv'
    <2>1. \/ wcalls' = [wcalls EXCEPT ![c] = [a EXCEPT !.pc = pc]]
          \/ wcalls' = [wcalls EXCEPT ![c] = [a EXCEPT !.pc = pc, !.path = path]]
          \/ wcalls' = [wcalls EXCEPT ![c] = [a EXCEPT !.pc = pc, !.ok = ok]]
      BY <1>1, <1>4 DEF CallsInv
    <2> HIDE DEF a
    <2>2. PICK b \in Adds : b.pc \in Creating /\ b.t = a.t /\ wcalls' = [wcalls EXCEPT ![c] = b]
      <3>1. CASE wcalls' = [wcalls EXCEPT ![c] = [a EXCEPT !.pc = pc]]
        <4>1. LET n == [a EXCEPT !.pc = pc] IN n \in Adds /\ n.pc = pc /\ n.t = a.t
          BY <1>3 DEF Adds
        <4>2. QED
          BY <3>1, <4>1
      <3>2. CASE wcalls' = [wcalls EXCEPT ![c] = [a EXCEPT !.pc = pc, !.path = path]]
        <4>1. LET n == [a EXCEPT !.pc = pc, !.path = path] IN n \in Adds /\ n.pc = pc /\ n.t = a.t
          BY <1>3 DEF Adds
        <4>2. QED
          BY <3>2, <4>1
      <3>3. CASE wcalls' = [wcalls EXCEPT ![c] = [a EXCEPT !.pc = pc, !.ok = ok]]
        <4>1. LET n == [a EXCEPT !.pc = pc, !.ok = ok] IN n \in Adds /\ n.pc = pc /\ n.t = a.t
          BY <1>3 DEF Adds
        <4>2. QED
          BY <3>3, <4>1
      <3>4. QED
        BY <2>1, <3>1, <3>2, <3>3
    <2>3. QED
      BY <1>1, <1>2, <2>2, CreatorMoves DEF a
  <1>5. CASE W!Look(c)
    <2>1. \/ W!To(c, "fetch")
          \/ \E d \in W!Targets : wcalls' = [wcalls EXCEPT ![c].pc = "add", ![c].path = d]
      BY <1>5 DEF W!Look, W!Existing
    <2>2. QED
      BY <1>4, <2>1 DEF W!To, Creating
  <1>6. CASE W!Fetch(c) \/ W!SkipFetch(c) \/ W!StepFails(c)
    BY <1>4, <1>6 DEF W!Fetch, W!SkipFetch, W!StepFails, W!To, Creating
  <1>7. CASE W!Add(c)
    BY <1>3, <1>4, <1>7 DEF W!Add, W!To, Creating
  <1>8. CASE W!Setup(c)
    BY <1>4, <1>8 DEF W!Setup, W!To, Creating
  <1>9. QED
    BY <1>5, <1>6, <1>7, <1>8

LEMMA AskKeeps ==
  ASSUME WorktreesBounds, CallsInv, NEW c \in W!Callers, NEW t \in W!Targets, NEW setup \in BOOLEAN, W!Ask(c, t, setup)
  PROVE  CallsInv'
  <1> DEFINE first == W!Listed(c, t)
             call == [pc |-> "look", t |-> t, setup |-> setup, path |-> "none", ok |-> FALSE, of |-> first]
             joins == [call EXCEPT !.pc = "join"]
             p == W!Process(c)
  <1>1. p \in Processes /\ wcalls[c].pc = "idle"
    BY ProcessIs DEF W!Ask
  <1>2. first \in W!Callers \cup {"none"}
    BY <1>1 DEF CallsInv, W!Listed
  <1>3. call \in Adds /\ call.pc = "look" /\ call.t = t /\ joins \in Adds /\ joins.pc = "join" /\ joins.t = t
        /\ joins.of = first
    BY <1>2 DEF Adds, Creating
  <1>4. CASE first = "none"
    <2>1. wcalls' = [wcalls EXCEPT ![c] = call] /\ ADDING' = [ADDING EXCEPT ![p][t] = c]
      BY <1>4 DEF W!Ask
    <2> HIDE DEF call, joins
    <2>2. /\ ADDING'[p][t] = c
          /\ \A q \in Processes, u \in W!Targets : q # p \/ u # t => ADDING'[q][u] = ADDING[q][u]
          /\ ADDING' \in [Processes -> [W!Targets -> W!Callers \cup {"none"}]]
      BY <1>1, <2>1 DEF CallsInv
    <2>3. /\ wcalls'[c] = call /\ \A d \in W!Callers : d # c => wcalls'[d] = wcalls[d]
          /\ wcalls' \in [W!Callers -> {W!Idle} \cup Adds \cup Removes]
      BY <1>3, <2>1 DEF CallsInv
    <2>4. ADDING[p][t] = "none"
      BY <1>4 DEF W!Listed
    <2>5. \A d \in W!Callers : wcalls[d].pc \in Creating \cup {"join"} => wcalls[d].t \in W!Targets
      BY CallIs DEF Adds
    <2>6. \A d \in W!Callers : d # c /\ wcalls[d].pc \in Creating => ~(W!Process(d) = p /\ wcalls[d].t = t)
      BY <2>4 DEF CallsInv, W!Listed, WorktreesBounds
    <2>7. \A d \in W!Callers : wcalls'[d].pc \in Creating => ADDING'[W!Process(d)][wcalls'[d].t] = d
      BY <1>3, <2>2, <2>3, <2>5, <2>6, ProcessIs DEF CallsInv, W!Listed
    <2>8. \A q \in Processes, u \in W!Targets : ADDING'[q][u] # "none" =>
            /\ W!Process(ADDING'[q][u]) = q
            /\ wcalls'[ADDING'[q][u]].pc \in Creating /\ wcalls'[ADDING'[q][u]].t = u
      <3> SUFFICES ASSUME NEW q \in Processes, NEW u \in W!Targets, ADDING'[q][u] # "none"
                   PROVE  /\ W!Process(ADDING'[q][u]) = q
                          /\ wcalls'[ADDING'[q][u]].pc \in Creating /\ wcalls'[ADDING'[q][u]].t = u
        OBVIOUS
      <3>1. CASE q = p /\ u = t
        BY <1>3, <2>2, <2>3, <3>1 DEF Creating
      <3>2. CASE q # p \/ u # t
        <4>1. ADDING'[q][u] = ADDING[q][u] /\ ADDING[q][u] \in W!Callers
          BY <2>2, <3>2 DEF CallsInv
        <4>2. wcalls[ADDING[q][u]].pc \in Creating
          BY <4>1 DEF CallsInv
        <4>3. ADDING[q][u] # c
          BY <1>1, <4>2 DEF Creating
        <4>4. QED
          BY <2>3, <4>1, <4>3 DEF CallsInv
      <3>3. QED
        BY <3>1, <3>2
    <2>9. \A d \in W!Callers : wcalls'[d].pc = "join" =>
            ADDING'[W!Process(d)][wcalls'[d].t] = wcalls'[d].of /\ wcalls'[d].of # "none"
      <3> SUFFICES ASSUME NEW d \in W!Callers, wcalls'[d].pc = "join"
                   PROVE  ADDING'[W!Process(d)][wcalls'[d].t] = wcalls'[d].of /\ wcalls'[d].of # "none"
        OBVIOUS
      <3>1. d # c /\ wcalls'[d] = wcalls[d]
        BY <1>3, <2>3
      <3>2. wcalls[d].t \in W!Targets /\ W!Process(d) \in Processes
        BY <2>5, <3>1, ProcessIs
      <3>3. CASE W!Process(d) = p /\ wcalls[d].t = t
        BY <2>4, <3>1, <3>3 DEF CallsInv, W!Listed
      <3>4. CASE W!Process(d) # p \/ wcalls[d].t # t
        BY <2>2, <3>1, <3>2, <3>4 DEF CallsInv, W!Listed
      <3>5. QED
        BY <3>3, <3>4
    <2>10. QED
      BY <2>2, <2>3, <2>7, <2>8, <2>9 DEF CallsInv, W!Listed
  <1>5. CASE first # "none"
    <2>1. wcalls' = [wcalls EXCEPT ![c] = joins] /\ ADDING' = ADDING
      BY <1>5 DEF W!Ask
    <2>2. first = ADDING[p][t]
      BY DEF W!Listed
    <2> HIDE DEF call, joins, first
    <2>3. /\ wcalls'[c] = joins /\ \A d \in W!Callers : d # c => wcalls'[d] = wcalls[d]
          /\ wcalls' \in [W!Callers -> {W!Idle} \cup Adds \cup Removes]
      BY <1>3, <2>1 DEF CallsInv
    <2>4. \A d \in W!Callers : wcalls'[d].pc \in Creating => ADDING'[W!Process(d)][wcalls'[d].t] = d
      BY <1>3, <2>1, <2>3 DEF CallsInv, W!Listed, Creating
    <2>5. \A q \in Processes, u \in W!Targets : ADDING[q][u] # "none" => ADDING[q][u] \in W!Callers /\ ADDING[q][u] # c
      BY <1>1 DEF CallsInv, Creating
    <2>6. \A q \in Processes, u \in W!Targets : ADDING'[q][u] # "none" =>
            /\ W!Process(ADDING'[q][u]) = q
            /\ wcalls'[ADDING'[q][u]].pc \in Creating /\ wcalls'[ADDING'[q][u]].t = u
      BY <2>1, <2>3, <2>5 DEF CallsInv
    <2>7. \A d \in W!Callers : wcalls'[d].pc = "join" =>
            ADDING'[W!Process(d)][wcalls'[d].t] = wcalls'[d].of /\ wcalls'[d].of # "none"
      BY <1>3, <1>5, <2>1, <2>2, <2>3 DEF CallsInv, W!Listed
    <2>8. QED
      BY <2>1, <2>3, <2>4, <2>6, <2>7 DEF CallsInv, W!Listed
  <1>6. QED
    BY <1>4, <1>5

\* Who joined a call, and what a call that is listed nowhere can become
LEMMA OtherMoves ==
  ASSUME CallsInv, NEW c \in W!Callers, wcalls[c].pc \notin Creating, NEW n \in {W!Idle} \cup Removes,
         wcalls' = [wcalls EXCEPT ![c] = n], ADDING' = ADDING
  PROVE  CallsInv'
  <1>1. n.pc \in {"idle", "remove", "delete"}
    BY DEF W!Idle, Removes
  <1>2. /\ wcalls'[c] = n /\ \A d \in W!Callers : d # c => wcalls'[d] = wcalls[d]
        /\ wcalls' \in [W!Callers -> {W!Idle} \cup Adds \cup Removes]
    BY DEF CallsInv
  <1>3. \A q \in Processes, u \in W!Targets : ADDING[q][u] # "none" => ADDING[q][u] \in W!Callers /\ ADDING[q][u] # c
    BY DEF CallsInv
  <1>4. \A d \in W!Callers : wcalls'[d].pc \in Creating => ADDING'[W!Process(d)][wcalls'[d].t] = d
    BY <1>1, <1>2 DEF CallsInv, W!Listed, Creating
  <1>5. \A q \in Processes, u \in W!Targets : ADDING'[q][u] # "none" =>
          /\ W!Process(ADDING'[q][u]) = q
          /\ wcalls'[ADDING'[q][u]].pc \in Creating /\ wcalls'[ADDING'[q][u]].t = u
    BY <1>2, <1>3 DEF CallsInv
  <1>6. \A d \in W!Callers : wcalls'[d].pc = "join" =>
          ADDING'[W!Process(d)][wcalls'[d].t] = wcalls'[d].of /\ wcalls'[d].of # "none"
    BY <1>1, <1>2 DEF CallsInv, W!Listed
  <1>7. QED
    BY <1>2, <1>4, <1>5, <1>6 DEF CallsInv, W!Listed

LEMMA SetKeeps ==
  ASSUME CallsInv, NEW c \in W!Callers, W!Set(c)
  PROVE  CallsInv'
  <1> DEFINE n == [wcalls[c] EXCEPT !.pc = "unlist"]
  <1>1. wcalls[c].pc = "set" /\ ADDING' = ADDING
    BY DEF W!Set
  <1>2. wcalls[c] \in Adds
    BY <1>1, CallIs DEF Creating
  <1>3. n \in Adds /\ n.pc = "unlist" /\ n.t = wcalls[c].t
    BY <1>2 DEF Adds, Creating
  <1>4. c \notin W!Joined(c)
    BY <1>1 DEF W!Joined
  <1>5. wcalls' = [d \in W!Callers |-> IF d \in W!Joined(c) THEN W!Idle ELSE IF d = c THEN n ELSE wcalls[d]]
    BY DEF W!Set
  <1> HIDE DEF n
  <1>6. /\ wcalls'[c] = n
        /\ \A d \in W!Callers : d # c => wcalls'[d] = IF d \in W!Joined(c) THEN W!Idle ELSE wcalls[d]
    BY <1>4, <1>5
  <1>7. \A d \in W!Callers : wcalls[d] \in {W!Idle} \cup Adds \cup Removes
    BY DEF CallsInv
  <1>8. wcalls' \in [W!Callers -> {W!Idle} \cup Adds \cup Removes]
    BY <1>3, <1>5, <1>7
  <1>9. W!Idle.pc = "idle"
    BY DEF W!Idle
  <1>10. \A d \in W!Callers : d # c /\ wcalls'[d].pc # "idle" => wcalls'[d] = wcalls[d]
    BY <1>6, <1>9
  <1>11. \A d \in W!Callers : d # c /\ wcalls[d].pc \in Creating => wcalls'[d] = wcalls[d]
    BY <1>6 DEF W!Joined, Creating
  <1>12. \A d \in W!Callers : wcalls'[d].pc \in Creating => ADDING'[W!Process(d)][wcalls'[d].t] = d
    BY <1>1, <1>3, <1>6, <1>10 DEF CallsInv, W!Listed, Creating
  <1>13. \A q \in Processes, u \in W!Targets : ADDING[q][u] # "none" => ADDING[q][u] \in W!Callers
    BY DEF CallsInv
  <1>14. \A q \in Processes, u \in W!Targets : ADDING'[q][u] # "none" =>
          /\ W!Process(ADDING'[q][u]) = q
          /\ wcalls'[ADDING'[q][u]].pc \in Creating /\ wcalls'[ADDING'[q][u]].t = u
    <2>1. n.pc \in Creating
      BY <1>3 DEF Creating
    <2>2. QED
      BY <1>1, <1>3, <1>6, <1>11, <1>13, <2>1 DEF CallsInv
  <1>15. \A d \in W!Callers : wcalls'[d].pc = "join" =>
          ADDING'[W!Process(d)][wcalls'[d].t] = wcalls'[d].of /\ wcalls'[d].of # "none"
    BY <1>1, <1>3, <1>6, <1>10 DEF CallsInv, W!Listed
  <1>16. QED
    BY <1>1, <1>8, <1>12, <1>14, <1>15 DEF CallsInv, W!Listed

LEMMA UnlistKeeps ==
  ASSUME WorktreesBounds, CallsInv, NEW c \in W!Callers, W!Unlist(c)
  PROVE  CallsInv'
  <1> DEFINE p == W!Process(c)
             t == wcalls[c].t
  <1>1. wcalls[c].pc = "unlist" /\ ADDING' = [ADDING EXCEPT ![p][t] = "none"]
    BY DEF W!Unlist
  <1>2. p \in Processes /\ t \in W!Targets
    BY <1>1, CallIs, ProcessIs DEF Adds, Creating
  <1>3. ADDING[p][t] = c
    BY <1>1 DEF CallsInv, W!Listed, Creating
  <1> HIDE DEF p, t
  <1>4. /\ ADDING' \in [Processes -> [W!Targets -> W!Callers \cup {"none"}]] /\ ADDING'[p][t] = "none"
        /\ \A q \in Processes, u \in W!Targets : q # p \/ u # t => ADDING'[q][u] = ADDING[q][u]
    BY <1>1, <1>2 DEF CallsInv
  <1>5. wcalls' = [d \in W!Callers |-> IF d = c \/ d \in W!Joined(c) THEN W!Idle ELSE wcalls[d]]
    BY DEF W!Unlist
  <1>6. W!Idle.pc = "idle"
    BY DEF W!Idle
  <1>7. \A d \in W!Callers : wcalls[d] \in {W!Idle} \cup Adds \cup Removes
    BY DEF CallsInv
  <1>8. wcalls' \in [W!Callers -> {W!Idle} \cup Adds \cup Removes]
    BY <1>5, <1>7
  <1>9. \A d \in W!Callers : wcalls'[d].pc # "idle" => d # c /\ d \notin W!Joined(c) /\ wcalls'[d] = wcalls[d]
    BY <1>5, <1>6
  <1>10. \A d \in W!Callers : d # c /\ wcalls[d].pc \in Creating => wcalls'[d] = wcalls[d]
    BY <1>5 DEF W!Joined, Creating
  <1>11. \A d \in W!Callers : wcalls[d].pc \in Creating \cup {"join"} =>
           wcalls[d].t \in W!Targets /\ W!Process(d) \in Processes
    BY CallIs, ProcessIs DEF Adds
  <1>12. \A d \in W!Callers : wcalls'[d].pc \in Creating => ADDING'[W!Process(d)][wcalls'[d].t] = d
    <2> SUFFICES ASSUME NEW d \in W!Callers, wcalls'[d].pc \in Creating
                 PROVE  ADDING'[W!Process(d)][wcalls'[d].t] = d
      OBVIOUS
    <2>1. d # c /\ wcalls'[d] = wcalls[d] /\ wcalls[d].pc \in Creating
      BY <1>9 DEF Creating
    <2>2. ADDING[W!Process(d)][wcalls[d].t] = d
      BY <2>1 DEF CallsInv, W!Listed
    <2>3. QED
      BY <1>3, <1>4, <1>11, <2>1, <2>2
  <1>13. \A q \in Processes, u \in W!Targets : ADDING'[q][u] # "none" =>
          /\ W!Process(ADDING'[q][u]) = q
          /\ wcalls'[ADDING'[q][u]].pc \in Creating /\ wcalls'[ADDING'[q][u]].t = u
    <2> SUFFICES ASSUME NEW q \in Processes, NEW u \in W!Targets, ADDING'[q][u] # "none"
                 PROVE  /\ W!Process(ADDING'[q][u]) = q
                        /\ wcalls'[ADDING'[q][u]].pc \in Creating /\ wcalls'[ADDING'[q][u]].t = u
      OBVIOUS
    <2>1. (q # p \/ u # t) /\ ADDING'[q][u] = ADDING[q][u] /\ ADDING[q][u] \in W!Callers
      BY <1>4 DEF CallsInv
    <2>2. W!Process(ADDING[q][u]) = q /\ wcalls[ADDING[q][u]].pc \in Creating /\ wcalls[ADDING[q][u]].t = u
      BY <2>1 DEF CallsInv
    <2>3. ADDING[q][u] # c
      BY <2>1, <2>2 DEF p, t
    <2>4. QED
      BY <1>10, <2>1, <2>2, <2>3
  <1>14. \A d \in W!Callers : wcalls'[d].pc = "join" =>
          ADDING'[W!Process(d)][wcalls'[d].t] = wcalls'[d].of /\ wcalls'[d].of # "none"
    <2> SUFFICES ASSUME NEW d \in W!Callers, wcalls'[d].pc = "join"
                 PROVE  ADDING'[W!Process(d)][wcalls'[d].t] = wcalls'[d].of /\ wcalls'[d].of # "none"
      OBVIOUS
    <2>1. d \notin W!Joined(c) /\ wcalls'[d] = wcalls[d] /\ wcalls[d].pc = "join"
      BY <1>9
    <2>2. ADDING[W!Process(d)][wcalls[d].t] = wcalls[d].of /\ wcalls[d].of # "none" /\ wcalls[d].of # c
      BY <2>1 DEF CallsInv, W!Listed, W!Joined
    <2>3. QED
      BY <1>3, <1>4, <1>11, <2>1, <2>2
  <1>15. QED
    BY <1>4, <1>8, <1>12, <1>13, <1>14 DEF CallsInv, W!Listed

LEMMA RemovalSteps ==
  ASSUME CallsInv, TreesInv, NEW c \in W!Callers, 
         \/ \E d \in W!Targets, force, delete \in BOOLEAN : W!RemoveBegins(c, d, force, delete)
         \/ W!Remove(c) \/ W!DeleteBranch(c)
  PROVE  CallsInv'
  <1>1. CASE \E d \in W!Targets, force, delete \in BOOLEAN : W!RemoveBegins(c, d, force, delete)
    <2>1. PICK d \in W!Targets, force \in BOOLEAN, delete \in BOOLEAN : W!RemoveBegins(c, d, force, delete)
      BY <1>1
    <2> DEFINE n == [pc |-> "remove", t |-> d, force |-> force,
                     branch |-> IF delete /\ trees[d].on \in Branches THEN trees[d].on ELSE "none"]
    <2>2. n \in Removes
      BY DEF Removes
    <2>3. wcalls' = [wcalls EXCEPT ![c] = n] /\ ADDING' = ADDING /\ wcalls[c].pc = "idle"
      BY <2>1 DEF W!RemoveBegins
    <2> HIDE DEF n
    <2>4. QED
      BY <2>2, <2>3, OtherMoves DEF Creating
  <1>2. CASE W!Remove(c)
    <2> DEFINE n == [wcalls[c] EXCEPT !.pc = "delete"]
    <2>1. wcalls[c].pc = "remove" /\ ADDING' = ADDING
      BY <1>2 DEF W!Remove
    <2>2. n \in Removes
      BY <2>1, CallIs DEF Removes
    <2>3. wcalls' = [wcalls EXCEPT ![c] = W!Idle] \/ wcalls' = [wcalls EXCEPT ![c] = n]
      BY <1>2 DEF W!Remove, W!To, CallsInv
    <2> HIDE DEF n
    <2>4. QED
      BY <2>1, <2>2, <2>3, OtherMoves DEF Creating
  <1>3. CASE W!DeleteBranch(c)
    <2>1. wcalls[c].pc = "delete" /\ ADDING' = ADDING /\ wcalls' = [wcalls EXCEPT ![c] = W!Idle]
      BY <1>3 DEF W!DeleteBranch
    <2>2. QED
      BY <2>1, OtherMoves DEF Creating
  <1>4. QED
    BY <1>1, <1>2, <1>3

LEMMA CallsKept ==
  ASSUME WorktreesBounds, WorktreesInv, [W!WorktreesNext]_(W!worktreesVars)
  PROVE  CallsInv'
  <1>1. CallsInv /\ TreesInv
    BY DEF WorktreesInv
  <1>2. ASSUME UNCHANGED <<wcalls, ADDING>> PROVE CallsInv'
    BY <1>1, <1>2 DEF CallsInv, W!Listed
  <1>3. CASE W!Prune \/ (\E d \in W!Targets : W!Meddle(d)) \/ (\E b \in Branches : W!BranchMade(b) \/ W!BranchDeleted(b))
             \/ UNCHANGED W!worktreesVars
    BY <1>2, <1>3 DEF W!Prune, W!Meddle, W!BranchMade, W!BranchDeleted, W!worktreesVars
  <1>4. ASSUME NEW c \in W!Callers,
               \/ W!CallStep(c) \/ W!SkipFetch(c) \/ W!StepFails(c)
               \/ \E t \in W!Targets, setup \in BOOLEAN : W!Ask(c, t, setup)
               \/ \E d \in W!Targets, force, delete \in BOOLEAN : W!RemoveBegins(c, d, force, delete)
        PROVE  CallsInv'
    BY <1>1, <1>4, CreationSteps, AskKeeps, SetKeeps, UnlistKeeps, RemovalSteps DEF W!CallStep
  <1>5. QED
    BY <1>3, <1>4 DEF W!WorktreesNext

\* A worktree is as `git worktree add` leaves it
LEMMA TreeIs ==
  ASSUME TreesInv, NEW d \in W!Targets
  PROVE  /\ trees[d].there \in BOOLEAN
         /\ trees[d].there => trees[d] \in Trees
         /\ ~trees[d].there => trees[d] = W!Absent
  <1>1. trees[d] \in {W!Absent} \cup Trees
    BY DEF TreesInv
  <1>2. W!Absent.there = FALSE
    BY DEF W!Absent
  <1>3. \A tree \in Trees : tree.there = TRUE
    BY DEF Trees
  <1>4. QED
    BY <1>1, <1>2, <1>3

\* One worktree changes
LEMMA TreeMoves ==
  ASSUME TreesInv, NEW d \in W!Targets, NEW n \in {W!Absent} \cup Trees, trees' = [trees EXCEPT ![d] = n],
         heads' \subseteq Branches, heads \subseteq heads', UNCHANGED fetch_head,
         n.there /\ n.on \in Branches => n.on \in heads'
  PROVE  TreesInv'
  BY DEF TreesInv

LEMMA TreesKept ==
  ASSUME WorktreesBounds, WorktreesInv, [W!WorktreesNext]_(W!worktreesVars)
  PROVE  TreesInv'
  <1>1. CallsInv /\ TreesInv
    BY DEF WorktreesInv
  <1>2. ASSUME UNCHANGED <<trees, heads, fetch_head>> PROVE TreesInv'
    BY <1>1, <1>2 DEF TreesInv
  <1>3. ASSUME NEW c \in W!Callers, W!Fetch(c) PROVE TreesInv'
    <2>1. wcalls[c] \in Adds
      BY <1>1, <1>3, CallIs DEF W!Fetch, Creating
    <2>2. UNCHANGED <<trees, heads>> /\ fetch_head' \in Prs \cup {"none", "branches"}
      BY <1>3, <2>1 DEF W!Fetch
    <2>3. QED
      BY <1>1, <2>2 DEF TreesInv
  <1>4. ASSUME NEW c \in W!Callers, W!Add(c) PROVE TreesInv'
    <2> DEFINE t == wcalls[c].t
               on == IF t \in Prs THEN fetch_head ELSE t
    <2>1. wcalls[c] \in Adds /\ t \in W!Targets
      BY <1>1, <1>4, CallIs DEF W!Add, Creating, Adds
    <2>2. CASE UNCHANGED <<trees, heads>>
      BY <1>2, <1>4, <2>2 DEF W!Add
    <2>3. CASE trees' = [trees EXCEPT ![t] = W!Tree(on)] /\ heads' = heads \cup ({t} \cap Branches)
      <3>1. fetch_head \in Prs \cup {"none", "branches"} /\ heads \subseteq Branches
        BY <1>1 DEF TreesInv
      <3>2. t \in Branches \/ t \in Prs
        BY <2>1 DEF W!Targets
      <3>3. on \in Heads /\ (on \in Branches => on = t)
        BY <3>1, <3>2 DEF Heads, WorktreesBounds, W!Targets
      <3>4. W!Tree(on) \in Trees /\ W!Tree(on).on = on
        BY <3>3 DEF W!Tree, Trees
      <3>5. heads' \subseteq Branches /\ heads \subseteq heads' /\ (on \in Branches => on \in heads')
        BY <2>3, <3>1, <3>3
      <3>6. UNCHANGED fetch_head
        BY <1>4 DEF W!Add
      <3> HIDE DEF on, t
      <3>7. QED
        BY <1>1, <2>1, <2>3, <3>4, <3>5, <3>6, TreeMoves
    <2>4. QED
      BY <1>4, <2>2, <2>3 DEF W!Add
  <1>5. ASSUME NEW c \in W!Callers, W!Setup(c) PROVE TreesInv'
    <2> DEFINE d == wcalls[c].path
               n == [trees[d] EXCEPT !.ready = TRUE]
    <2>1. UNCHANGED <<heads, fetch_head>>
      BY <1>5 DEF W!Setup
    <2>2. CASE UNCHANGED trees
      BY <1>2, <2>1, <2>2
    <2>3. CASE d \notin W!Targets /\ trees' = [trees EXCEPT ![d].ready = TRUE]
      BY <1>1, <1>2, <2>1, <2>3 DEF TreesInv
    <2>4. CASE d \in W!Targets /\ trees[d].there /\ trees' = [trees EXCEPT ![d].ready = TRUE]
      <3>1. trees[d] \in Trees
        BY <1>1, <2>4, TreeIs
      <3>2. n \in Trees /\ n.on = trees[d].on
        BY <3>1 DEF Trees
      <3>3. trees' = [trees EXCEPT ![d] = n]
        BY <1>1, <2>4 DEF TreesInv
      <3>4. trees[d].on \in Branches => trees[d].on \in heads
        BY <1>1, <2>4 DEF TreesInv
      <3>5. heads \subseteq Branches
        BY <1>1 DEF TreesInv
      <3> HIDE DEF n
      <3>6. QED
        BY <1>1, <2>1, <2>4, <3>2, <3>3, <3>4, <3>5, TreeMoves
    <2>5. QED
      BY <1>5, <2>2, <2>3, <2>4 DEF W!Setup
  <1>6. ASSUME NEW c \in W!Callers, W!Remove(c) PROVE TreesInv'
    <2>1. wcalls[c].t \in W!Targets
      BY <1>1, <1>6, CallIs DEF W!Remove, Removes
    <2>2. ~W!Absent.there
      BY DEF W!Absent
    <2>3. trees' = trees \/ trees' = [trees EXCEPT ![wcalls[c].t] = W!Absent]
      BY <1>6 DEF W!Remove
    <2>4. UNCHANGED <<heads, fetch_head>> /\ heads \subseteq Branches
      BY <1>1, <1>6 DEF W!Remove, TreesInv
    <2>5. QED
      BY <1>1, <1>2, <2>1, <2>2, <2>3, <2>4, TreeMoves
  <1>7. ASSUME NEW b, ~W!CheckedOut(b), heads' = heads \ {b}, UNCHANGED <<trees, fetch_head>> PROVE TreesInv'
    BY <1>1, <1>7 DEF TreesInv, W!CheckedOut
  <1>8. ASSUME NEW c \in W!Callers, W!DeleteBranch(c) PROVE TreesInv'
    BY <1>2, <1>7, <1>8 DEF W!DeleteBranch
  <1>9. CASE W!Prune
    <2>1. trees' = [d \in W!Targets |-> IF trees[d].there /\ trees[d].gone THEN W!Absent ELSE trees[d]]
          /\ UNCHANGED <<heads, fetch_head>>
      BY <1>9 DEF W!Prune
    <2>2. ~W!Absent.there
      BY DEF W!Absent
    <2>3. QED
      BY <1>1, <2>1, <2>2 DEF TreesInv
  <1>10. ASSUME NEW d \in W!Targets, W!Meddle(d) PROVE TreesInv'
    <2>1. trees[d] \in Trees /\ UNCHANGED <<heads, fetch_head>>
      BY <1>1, <1>10, TreeIs DEF W!Meddle
    <2>2. heads \subseteq Branches /\ (trees[d].on \in Branches => trees[d].on \in heads)
      BY <1>1, <1>10 DEF TreesInv, W!Meddle
    <2>3. PICK n \in Trees : trees' = [trees EXCEPT ![d] = n] /\ (n.on \in Branches => n.on \in heads)
      <3>1. CASE trees' = [trees EXCEPT ![d].dirty = ~@]
        <4> DEFINE n == [trees[d] EXCEPT !.dirty = ~@]
        <4>1. n \in Trees /\ n.on = trees[d].on
          BY <2>1 DEF Trees
        <4>2. trees' = [trees EXCEPT ![d] = n]
          BY <1>1, <3>1 DEF TreesInv
        <4> HIDE DEF n
        <4>3. QED
          BY <2>2, <4>1, <4>2
      <3>2. ASSUME NEW b \in heads, trees' = [trees EXCEPT ![d].on = b]
            PROVE  \E n \in Trees : trees' = [trees EXCEPT ![d] = n] /\ (n.on \in Branches => n.on \in heads)
        <4> DEFINE n == [trees[d] EXCEPT !.on = b]
        <4>1. n \in Trees /\ n.on = b
          BY <2>1, <2>2 DEF Trees, Heads
        <4>2. trees' = [trees EXCEPT ![d] = n]
          BY <1>1, <3>2 DEF TreesInv
        <4> HIDE DEF n
        <4>3. QED
          BY <4>1, <4>2
      <3>3. CASE trees' = [trees EXCEPT ![d].gone = TRUE]
        <4> DEFINE n == [trees[d] EXCEPT !.gone = TRUE]
        <4>1. n \in Trees /\ n.on = trees[d].on
          BY <2>1 DEF Trees
        <4>2. trees' = [trees EXCEPT ![d] = n]
          BY <1>1, <3>3 DEF TreesInv
        <4> HIDE DEF n
        <4>3. QED
          BY <2>2, <4>1, <4>2
      <3>4. QED
        BY <1>10, <3>1, <3>2, <3>3 DEF W!Meddle
    <2>4. QED
      BY <1>1, <2>1, <2>2, <2>3, TreeMoves
  <1>11. ASSUME NEW b \in Branches, W!BranchMade(b) \/ W!BranchDeleted(b) PROVE TreesInv'
    <2>1. CASE W!BranchMade(b)
      BY <1>1, <2>1 DEF W!BranchMade, TreesInv
    <2>2. CASE W!BranchDeleted(b)
      BY <1>7, <2>2 DEF W!BranchDeleted
    <2>3. QED
      BY <1>11, <2>1, <2>2
  <1>12. ASSUME NEW c \in W!Callers,
                \/ W!Look(c) \/ W!SkipFetch(c) \/ W!StepFails(c) \/ W!Set(c) \/ W!Unlist(c)
                \/ \E t \in W!Targets, setup \in BOOLEAN : W!Ask(c, t, setup)
                \/ \E d \in W!Targets, force, delete \in BOOLEAN : W!RemoveBegins(c, d, force, delete)
         PROVE  TreesInv'
    BY <1>2, <1>12 DEF W!Look, W!SkipFetch, W!StepFails, W!Set, W!Unlist, W!Ask, W!RemoveBegins
  <1>13. CASE UNCHANGED W!worktreesVars
    BY <1>2, <1>13 DEF W!worktreesVars
  <1>14. QED
    BY <1>3, <1>4, <1>5, <1>6, <1>8, <1>9, <1>10, <1>11, <1>12, <1>13 DEF W!WorktreesNext, W!CallStep

LEMMA CountsKept ==
  ASSUME WorktreesBounds, WorktreesInv, [W!WorktreesNext]_(W!worktreesVars)
  PROVE  CountsInv'
  <1> DEFINE All == {"folder", "branch", "setup", "joined", "head"}
  <1>1. CountsInv
    BY DEF WorktreesInv
  <1>2. \A c \in W!Callers, who \in SUBSET W!Callers : W!Delivered(c, who) \subseteq All
    BY DEF W!Delivered, W!Missing, W!Unready
  <1>3. ASSUME asks' = asks \/ (asks < MaxCalls /\ asks' = asks + 1),
               fails' = fails \/ (fails < MaxFails /\ fails' = fails + 1),
               wrong' \subseteq wrong \cup All
        PROVE  CountsInv'
    BY <1>1, <1>3 DEF CountsInv, WorktreesBounds
  <1>4. ASSUME NEW c \in W!Callers, W!Set(c) \/ W!Unlist(c) PROVE CountsInv'
    <2>1. W!Joined(c) \in SUBSET W!Callers
      BY DEF W!Joined
    <2>2. W!Delivered(c, W!Joined(c)) \subseteq All /\ W!Delivered(c, W!Joined(c) \cup {c}) \subseteq All
      BY <1>2, <2>1
    <2>3. QED
      BY <1>3, <1>4, <2>2 DEF W!Set, W!Unlist
  <1>5. ASSUME NEW c \in W!Callers, W!Add(c) PROVE CountsInv'
    BY <1>3, <1>5 DEF W!Add
  <1>6. ASSUME NEW c \in W!Callers,
               \/ W!Look(c) \/ W!Fetch(c) \/ W!Setup(c) \/ W!Remove(c) \/ W!DeleteBranch(c) \/ W!SkipFetch(c)
               \/ W!StepFails(c)
               \/ \E t \in W!Targets, setup \in BOOLEAN : W!Ask(c, t, setup)
               \/ \E d \in W!Targets, force, delete \in BOOLEAN : W!RemoveBegins(c, d, force, delete)
        PROVE  CountsInv'
    BY <1>3, <1>6 DEF W!Look, W!Fetch, W!Setup, W!Remove, W!DeleteBranch, W!SkipFetch, W!StepFails, W!Ask, W!RemoveBegins
  <1>7. CASE W!Prune \/ (\E d \in W!Targets : W!Meddle(d)) \/ (\E b \in Branches : W!BranchMade(b) \/ W!BranchDeleted(b))
             \/ UNCHANGED W!worktreesVars
    BY <1>3, <1>7 DEF W!Prune, W!Meddle, W!BranchMade, W!BranchDeleted, W!worktreesVars
  <1>8. QED
    BY <1>4, <1>5, <1>6, <1>7 DEF W!WorktreesNext, W!CallStep

LEMMA WorktreesInitially ==
  ASSUME WorktreesBounds PROVE W!WorktreesInit => WorktreesInv
  <1>1. W!Idle.pc = "idle" /\ ~W!Absent.there
    BY DEF W!Idle, W!Absent
  <1>2. ASSUME W!WorktreesInit PROVE CallsInv
    BY <1>1, <1>2 DEF W!WorktreesInit, CallsInv, Creating, Processes
  <1>3. ASSUME W!WorktreesInit PROVE TreesInv /\ CountsInv
    BY <1>1, <1>3 DEF W!WorktreesInit, TreesInv, CountsInv, WorktreesBounds
  <1>4. QED
    BY <1>2, <1>3 DEF WorktreesInv

\* ADDING, the calls and the worktrees fit together, whatever agents, users and the other process do (add_worktree)
THEOREM WorktreesInvariant ==
  ASSUME WorktreesBounds
  PROVE  W!WorktreesSpec => []WorktreesInv
  <1>1. W!WorktreesInit => WorktreesInv
    BY WorktreesInitially
  <1>2. WorktreesInv /\ [W!WorktreesNext]_(W!worktreesVars) => WorktreesInv'
    BY CallsKept, TreesKept, CountsKept DEF WorktreesInv
  <1>3. QED
    BY <1>1, <1>2, PTL DEF W!WorktreesSpec

\* ADDING lists only calls that create, of its process and for its target, and a call that joined one knows it; a worktree
\* that has a branch checked out keeps that branch from being deleted (add_worktree, delete_branch)
THEOREM WorktreesTyped ==
  ASSUME WorktreesBounds
  PROVE  W!WorktreesSpec => []W!WorktreesTypeOK
  <1>1. WorktreesInv => W!WorktreesTypeOK
    BY DEF WorktreesInv, CallsInv, TreesInv, CountsInv, W!WorktreesTypeOK, Processes, Creating
  <1>2. QED
    BY <1>1, WorktreesInvariant, PTL

\* In one process no two calls create the worktree of one target at once, however calls overlap and fail (add_worktree)
THEOREM OneCreationEach ==
  ASSUME WorktreesBounds
  PROVE  W!WorktreesSpec => []W!OneCreation
  <1>1. WorktreesInv => W!OneCreation
    <2> SUFFICES ASSUME WorktreesInv, NEW c \in W!Callers, NEW d \in W!Callers, W!Process(c) = W!Process(d),
                        wcalls[c].pc \in Creating, wcalls[d].pc \in Creating, wcalls[c].t = wcalls[d].t
                 PROVE  c = d
      BY DEF W!OneCreation, Creating
    <2>1. QED
      BY DEF WorktreesInv, CallsInv, W!Listed
  <1>2. QED
    BY <1>1, WorktreesInvariant, PTL

\* What the answer of a call is about
Whole(t, path) ==
  /\ path \in W!Targets /\ trees[path].there /\ ~trees[path].gone
  /\ t \in Branches => trees[path].on = t

Working(c) == wcalls[c].pc \in Creating \cup {"remove", "delete"}

\* One call works at a time, and has found or made what it will answer with
AnswerInv ==
  /\ \A c, d \in W!Callers : Working(c) /\ Working(d) => c = d
  /\ \A c \in W!Callers : wcalls[c].pc \in Creating =>
       /\ wcalls[c].pc \in {"look", "fetch"} => wcalls[c].path = "none"
       /\ wcalls[c].pc = "add" /\ wcalls[c].path = "none" /\ wcalls[c].t \in Prs => fetch_head = wcalls[c].t
       /\ \/ wcalls[c].pc = "add" /\ wcalls[c].path # "none"
          \/ wcalls[c].pc = "setup"
          \/ wcalls[c].ok
          => Whole(wcalls[c].t, wcalls[c].path)
       /\ wcalls[c].ok =>
            /\ wcalls[c].pc \in {"set", "unlist"}
            /\ wcalls[c].setup => trees[wcalls[c].path].ready
  /\ wrong \subseteq {"joined"}

\* A step that one call takes while it works
LEMMA AnswerMoves ==
  ASSUME AnswerInv, NEW c \in W!Callers, Working(c),
         \A d \in W!Callers : d # c => wcalls'[d] = wcalls[d] \/ wcalls'[d].pc = "idle",
         wcalls'[c].pc \in Creating =>
           /\ wcalls'[c].pc \in {"look", "fetch"} => wcalls'[c].path = "none"
           /\ wcalls'[c].pc = "add" /\ wcalls'[c].path = "none" /\ wcalls'[c].t \in Prs => fetch_head' = wcalls'[c].t
           /\ \/ wcalls'[c].pc = "add" /\ wcalls'[c].path # "none"
              \/ wcalls'[c].pc = "setup"
              \/ wcalls'[c].ok
              => /\ wcalls'[c].path \in W!Targets
                 /\ trees'[wcalls'[c].path].there /\ ~trees'[wcalls'[c].path].gone
                 /\ wcalls'[c].t \in Branches => trees'[wcalls'[c].path].on = wcalls'[c].t
           /\ wcalls'[c].ok =>
                /\ wcalls'[c].pc \in {"set", "unlist"}
                /\ wcalls'[c].setup => trees'[wcalls'[c].path].ready,
         wrong' \subseteq {"joined"}
  PROVE  AnswerInv'
  <1>1. \A d \in W!Callers : d # c => wcalls'[d].pc \notin Creating \cup {"remove", "delete"}
    BY DEF AnswerInv, Working, Creating
  <1>2. QED
    BY <1>1 DEF AnswerInv, Working, Whole

LEMMA AnswerKept ==
  ASSUME WorktreesBounds, ~CallsRace, WorktreesInv, AnswerInv, [W!WorktreesNext]_(W!worktreesVars)
  PROVE  AnswerInv'
  <1>1. CallsInv /\ TreesInv
    BY DEF WorktreesInv
  <1>2. ASSUME UNCHANGED <<wcalls, trees, fetch_head, wrong>> PROVE AnswerInv'
    BY <1>2 DEF AnswerInv, Working, Whole
  <1>3. ASSUME W!Quiet, UNCHANGED <<wcalls, wrong>> PROVE AnswerInv'
    BY <1>3 DEF W!Quiet, AnswerInv, Working, Creating
  <1>4. CASE W!Prune \/ (\E d \in W!Targets : W!Meddle(d)) \/ (\E b \in Branches : W!BranchMade(b) \/ W!BranchDeleted(b))
             \/ UNCHANGED W!worktreesVars
    BY <1>2, <1>3, <1>4 DEF W!Prune, W!Meddle, W!BranchMade, W!BranchDeleted, W!worktreesVars
  <1>5. ASSUME NEW c \in W!Callers, wcalls[c].pc \in Creating
        PROVE  /\ wcalls[c] \in Adds /\ wcalls[c].t \in W!Targets /\ wcalls[c].setup \in BOOLEAN
               /\ Working(c)
    BY <1>1, <1>5, CallIs DEF Adds, Working
  <1>6. ASSUME NEW c \in W!Callers, NEW t \in W!Targets, NEW setup \in BOOLEAN, W!Ask(c, t, setup)
        PROVE  AnswerInv'
    <2> DEFINE call == [pc |-> "look", t |-> t, setup |-> setup, path |-> "none", ok |-> FALSE, of |-> W!Listed(c, t)]
    <2>1. UNCHANGED <<trees, fetch_head, wrong>>
      BY <1>6 DEF W!Ask
    <2>2. CASE W!Quiet /\ wcalls' = [wcalls EXCEPT ![c] = call]
      <3>1. \A d \in W!Callers : d # c => wcalls'[d].pc = "idle"
        BY <1>1, <2>2 DEF W!Quiet, CallsInv
      <3>2. wcalls'[c].pc = "look" /\ wcalls'[c].path = "none" /\ ~wcalls'[c].ok
        BY <1>1, <2>2 DEF CallsInv
      <3>3. QED
        BY <2>1, <3>1, <3>2 DEF AnswerInv, Working, Creating
    <2>3. CASE wcalls' = [wcalls EXCEPT ![c] = [call EXCEPT !.pc = "join"]]
      <3>1. wcalls'[c].pc = "join" /\ \A d \in W!Callers : d # c => wcalls'[d] = wcalls[d]
        BY <1>1, <2>3 DEF CallsInv
      <3>2. QED
        BY <2>1, <3>1 DEF AnswerInv, Working, Creating, Whole
    <2>4. QED
      BY <1>6, <2>2, <2>3 DEF W!Ask
  <1>7. ASSUME NEW c \in W!Callers, W!Look(c) PROVE AnswerInv'
    <2>1. wcalls[c].pc = "look" /\ UNCHANGED <<trees, fetch_head, wrong>>
      BY <1>7 DEF W!Look
    <2>2. wcalls[c] \in Adds /\ Working(c) /\ ~wcalls[c].ok /\ wcalls[c].path = "none"
      BY <1>5, <2>1 DEF Creating, AnswerInv
    <2>3. CASE W!To(c, "fetch")
      <3>1. wcalls' = [wcalls EXCEPT ![c].pc = "fetch"]
        BY <2>3 DEF W!To
      <3>2. /\ wcalls'[c].pc = "fetch" /\ wcalls'[c].path = wcalls[c].path /\ ~wcalls'[c].ok
            /\ \A d \in W!Callers : d # c => wcalls'[d] = wcalls[d]
        BY <1>1, <2>2, <3>1 DEF CallsInv, Adds
      <3>3. QED
        BY <2>1, <2>2, <3>2, AnswerMoves DEF AnswerInv
    <2>4. ASSUME NEW d \in W!Existing(wcalls[c].t), wcalls' = [wcalls EXCEPT ![c].pc = "add", ![c].path = d]
          PROVE  AnswerInv'
      <3>1. /\ wcalls'[c].pc = "add" /\ wcalls'[c].path = d /\ wcalls'[c].t = wcalls[c].t /\ ~wcalls'[c].ok
            /\ \A e \in W!Callers : e # c => wcalls'[e] = wcalls[e]
        BY <1>1, <2>2, <2>4 DEF CallsInv, Adds
      <3>2. /\ d \in W!Targets /\ trees[d].there /\ ~trees[d].gone
            /\ wcalls[c].t \in Branches => trees[d].on = wcalls[c].t
        BY <2>4 DEF W!Existing
      <3>3. d # "none"
        BY <3>2 DEF WorktreesBounds
      <3>4. QED
        BY <2>1, <2>2, <3>1, <3>2, <3>3, AnswerMoves DEF AnswerInv
    <2>5. QED
      BY <1>7, <2>3, <2>4 DEF W!Look
  <1>8. ASSUME NEW c \in W!Callers, W!Fetch(c) \/ W!SkipFetch(c) PROVE AnswerInv'
    <2>1. wcalls[c].pc = "fetch" /\ W!To(c, "add") /\ UNCHANGED <<trees, wrong>>
      BY <1>8 DEF W!Fetch, W!SkipFetch
    <2>2. wcalls[c] \in Adds /\ Working(c) /\ ~wcalls[c].ok
      BY <1>5, <2>1 DEF Creating, AnswerInv
    <2>3. /\ wcalls'[c].pc = "add" /\ wcalls'[c].path = wcalls[c].path /\ wcalls'[c].t = wcalls[c].t /\ ~wcalls'[c].ok
          /\ \A e \in W!Callers : e # c => wcalls'[e] = wcalls[e]
      BY <1>1, <2>1, <2>2 DEF CallsInv, Adds, W!To
    <2>4. wcalls[c].t \in Prs => fetch_head' = wcalls[c].t
      BY <1>8 DEF W!Fetch, W!SkipFetch, WorktreesBounds
    <2>5. wcalls[c].path = "none"
      BY <2>1 DEF AnswerInv, Creating
    <2>6. QED
      BY <2>1, <2>2, <2>3, <2>4, <2>5, AnswerMoves DEF AnswerInv
  <1>9. ASSUME NEW c \in W!Callers, W!Add(c) PROVE AnswerInv'
    <2> DEFINE t == wcalls[c].t
               on == IF t \in Prs THEN fetch_head ELSE t
    <2>1. wcalls[c].pc = "add" /\ UNCHANGED fetch_head
      BY <1>9 DEF W!Add
    <2>2. wcalls[c] \in Adds /\ Working(c) /\ ~wcalls[c].ok /\ t \in W!Targets
      BY <1>5, <2>1 DEF Creating, AnswerInv
    <2>3. wcalls[c].path # "none" => Whole(t, wcalls[c].path)
      BY <2>1 DEF AnswerInv, Creating
    <2>4. wcalls[c].path = "none" /\ t \in Prs => fetch_head = t
      BY <2>1 DEF AnswerInv, Creating
    <2>5. CASE wcalls[c].path # "none" /\ W!To(c, "setup") /\ UNCHANGED <<trees, wrong>>
      <3>1. /\ wcalls'[c].pc = "setup" /\ wcalls'[c].path = wcalls[c].path /\ wcalls'[c].t = t /\ ~wcalls'[c].ok
            /\ \A e \in W!Callers : e # c => wcalls'[e] = wcalls[e]
        BY <1>1, <2>2, <2>5 DEF CallsInv, Adds, W!To
      <3>2. QED
        BY <2>2, <2>3, <2>5, <3>1, AnswerMoves DEF AnswerInv, Whole
    <2>6. CASE /\ wcalls[c].path = "none" /\ trees' = [trees EXCEPT ![t] = W!Tree(on)]
               /\ wrong' = wrong \cup (IF on # t THEN {"head"} ELSE {})
               /\ wcalls' = [wcalls EXCEPT ![c].pc = "setup", ![c].path = t]
      <3>1. on = t
        BY <2>4, <2>6
      <3>2. /\ wcalls'[c].pc = "setup" /\ wcalls'[c].path = t /\ wcalls'[c].t = t /\ ~wcalls'[c].ok
            /\ \A e \in W!Callers : e # c => wcalls'[e] = wcalls[e]
        BY <1>1, <2>2, <2>6 DEF CallsInv, Adds
      <3>3. trees'[t] = W!Tree(t)
        BY <1>1, <2>2, <2>6, <3>1 DEF TreesInv
      <3>4. trees'[t].there /\ ~trees'[t].gone /\ trees'[t].on = t
        BY <3>3 DEF W!Tree
      <3>5. wrong' \subseteq {"joined"}
        BY <2>6, <3>1 DEF AnswerInv
      <3>6. QED
        BY <2>2, <3>2, <3>4, <3>5, AnswerMoves
    <2>7. CASE W!To(c, "set") /\ UNCHANGED <<trees, wrong>>
      <3>1. wcalls'[c].pc = "set" /\ ~wcalls'[c].ok /\ \A e \in W!Callers : e # c => wcalls'[e] = wcalls[e]
        BY <1>1, <2>2, <2>7 DEF CallsInv, Adds, W!To
      <3>2. QED
        BY <2>2, <2>7, <3>1, AnswerMoves DEF AnswerInv
    <2>8. QED
      BY <1>9, <2>5, <2>6, <2>7 DEF W!Add
  <1>10. ASSUME NEW c \in W!Callers, W!Setup(c) PROVE AnswerInv'
    <2> DEFINE d == wcalls[c].path
    <2>1. wcalls[c].pc = "setup" /\ UNCHANGED <<fetch_head, wrong>>
      BY <1>10 DEF W!Setup
    <2>2. wcalls[c] \in Adds /\ Working(c) /\ wcalls[c].setup \in BOOLEAN
      BY <1>5, <2>1 DEF Creating
    <2>3. Whole(wcalls[c].t, d)
      BY <2>1 DEF AnswerInv, Creating
    <2>4. trees[d] \in Trees
      BY <1>1, <2>3, TreeIs DEF Whole
    <2>5. /\ wcalls' = [wcalls EXCEPT ![c].pc = "set", ![c].ok = TRUE]
          /\ wcalls[c].setup => trees' = [trees EXCEPT ![d].ready = TRUE]
          /\ ~wcalls[c].setup => trees' = trees
      BY <1>10, <2>3 DEF W!Setup, Whole
    <2>6. /\ wcalls'[c].pc = "set" /\ wcalls'[c].path = d /\ wcalls'[c].t = wcalls[c].t
          /\ wcalls'[c].setup = wcalls[c].setup
          /\ \A e \in W!Callers : e # c => wcalls'[e] = wcalls[e]
      BY <1>1, <2>2, <2>5 DEF CallsInv, Adds
    <2>7. /\ trees'[d].there = trees[d].there /\ trees'[d].gone = trees[d].gone /\ trees'[d].on = trees[d].on
          /\ wcalls[c].setup => trees'[d].ready
      BY <1>1, <2>2, <2>3, <2>4, <2>5 DEF TreesInv, Whole, Trees
    <2> HIDE DEF d
    <2>8. QED
      BY <2>1, <2>2, <2>3, <2>6, <2>7, AnswerMoves DEF AnswerInv, Whole
  <1>11. ASSUME NEW c \in W!Callers, W!StepFails(c) PROVE AnswerInv'
    <2>1. wcalls[c].pc \in {"look", "fetch", "add", "setup"} /\ W!To(c, "set") /\ UNCHANGED <<trees, fetch_head, wrong>>
      BY <1>11 DEF W!StepFails
    <2>2. wcalls[c] \in Adds /\ Working(c) /\ ~wcalls[c].ok
      BY <1>5, <2>1 DEF Creating, AnswerInv
    <2>3. wcalls'[c].pc = "set" /\ ~wcalls'[c].ok /\ \A e \in W!Callers : e # c => wcalls'[e] = wcalls[e]
      BY <1>1, <2>1, <2>2 DEF CallsInv, Adds, W!To
    <2>4. QED
      BY <2>1, <2>2, <2>3, AnswerMoves DEF AnswerInv
  <1>12. ASSUME NEW c \in W!Callers, wcalls[c].pc \in {"set", "unlist"}, NEW who \in SUBSET W!Callers
         PROVE  W!Delivered(c, who) \subseteq {"joined"}
    <2>1. CASE ~wcalls[c].ok
      BY <2>1 DEF W!Delivered
    <2>2. CASE wcalls[c].ok
      <3>1. Whole(wcalls[c].t, wcalls[c].path) /\ (wcalls[c].setup => trees[wcalls[c].path].ready)
        BY <1>12, <2>2 DEF AnswerInv, Creating
      <3>2. W!Missing(wcalls[c].t, wcalls[c].path) = {}
        BY <3>1 DEF W!Missing, Whole
      <3>3. \A d \in W!Callers : W!Unready(c, d) \subseteq {"joined"}
        BY <3>1 DEF W!Unready
      <3>4. QED
        BY <3>2, <3>3 DEF W!Delivered
    <2>3. QED
      BY <2>1, <2>2
  <1>13. ASSUME NEW c \in W!Callers, W!Set(c) PROVE AnswerInv'
    <2> DEFINE n == [wcalls[c] EXCEPT !.pc = "unlist"]
    <2>1. wcalls[c].pc = "set" /\ UNCHANGED <<trees, fetch_head>>
      BY <1>13 DEF W!Set
    <2>2. wcalls[c] \in Adds /\ Working(c) /\ (wcalls[c].ok => Whole(wcalls[c].t, wcalls[c].path)
            /\ (wcalls[c].setup => trees[wcalls[c].path].ready))
      BY <1>5, <2>1 DEF Creating, AnswerInv
    <2>3. n.pc = "unlist" /\ n.t = wcalls[c].t /\ n.path = wcalls[c].path /\ n.ok = wcalls[c].ok
          /\ n.setup = wcalls[c].setup
      BY <2>2 DEF Adds
    <2>4. W!Joined(c) \in SUBSET W!Callers /\ c \notin W!Joined(c)
      BY <2>1 DEF W!Joined
    <2>5. wrong' = wrong \cup W!Delivered(c, W!Joined(c) \cup {c})
          /\ wcalls' = [d \in W!Callers |-> IF d \in W!Joined(c) THEN W!Idle ELSE IF d = c THEN n ELSE wcalls[d]]
      BY <1>13 DEF W!Set
    <2>6. wrong' \subseteq {"joined"}
      BY <1>12, <2>1, <2>4, <2>5 DEF AnswerInv
    <2> HIDE DEF n
    <2>7. W!Idle.pc = "idle"
      BY DEF W!Idle
    <2>8. wcalls'[c] = n /\ \A d \in W!Callers : d # c => wcalls'[d] = wcalls[d] \/ wcalls'[d].pc = "idle"
      BY <2>4, <2>5, <2>7
    <2>9. QED
      BY <2>1, <2>2, <2>3, <2>6, <2>8, AnswerMoves DEF Whole
  <1>14. ASSUME NEW c \in W!Callers, W!Unlist(c) PROVE AnswerInv'
    <2>1. wcalls[c].pc = "unlist" /\ W!Joined(c) \in SUBSET W!Callers
      BY <1>14 DEF W!Unlist, W!Joined
    <2>2. wrong' \subseteq {"joined"}
      BY <1>12, <1>14, <2>1 DEF W!Unlist, AnswerInv
    <2>3. W!Idle.pc = "idle"
      BY DEF W!Idle
    <2>4. wcalls'[c].pc = "idle" /\ \A d \in W!Callers : d # c => wcalls'[d] = wcalls[d] \/ wcalls'[d].pc = "idle"
      BY <1>14, <2>3 DEF W!Unlist
    <2>5. Working(c)
      BY <1>5, <2>1 DEF Creating
    <2>6. QED
      BY <2>2, <2>4, <2>5, AnswerMoves DEF Creating
  <1>15. ASSUME NEW c \in W!Callers, NEW d \in W!Targets, NEW force \in BOOLEAN, NEW delete \in BOOLEAN,
                W!RemoveBegins(c, d, force, delete)
         PROVE  AnswerInv'
    <2>1. W!Quiet /\ UNCHANGED wrong /\ wcalls'[c].pc = "remove"
          /\ \A e \in W!Callers : e # c => wcalls'[e] = wcalls[e]
      BY <1>1, <1>15 DEF W!RemoveBegins, CallsInv
    <2>2. QED
      BY <2>1 DEF W!Quiet, AnswerInv, Working, Creating
  <1>16. ASSUME NEW c \in W!Callers, W!Remove(c) \/ W!DeleteBranch(c) PROVE AnswerInv'
    <2>1. wcalls[c].pc \in {"remove", "delete"} /\ UNCHANGED wrong
      BY <1>16 DEF W!Remove, W!DeleteBranch
    <2>2. wcalls[c] \in Removes
      BY <1>1, <2>1, CallIs
    <2>3. W!Idle.pc = "idle"
      BY DEF W!Idle
    <2>4. wcalls' = [wcalls EXCEPT ![c] = W!Idle] \/ wcalls' = [wcalls EXCEPT ![c].pc = "delete"]
      BY <1>16 DEF W!Remove, W!DeleteBranch, W!To
    <2>5. wcalls'[c].pc \in {"idle", "delete"} /\ \A d \in W!Callers : d # c => wcalls'[d] = wcalls[d]
      BY <1>1, <2>2, <2>3, <2>4 DEF CallsInv, Removes
    <2>6. QED
      BY <2>1, <2>5, AnswerMoves DEF Creating, Working, AnswerInv
  <1>17. QED
    BY <1>4, <1>6, <1>7, <1>8, <1>9, <1>10, <1>11, <1>13, <1>14, <1>15, <1>16 DEF W!WorktreesNext, W!CallStep

\* When nothing else touches the repository during a call, its Ok names a folder that is there, has the branch checked
\* out and ran the setup the call asked for, and a new PR worktree is at that PR's head: after failures, removals,
\* deleted folders and branches that were switched (add_worktree).  Only a call that joined another may lack its setup
THEOREM AnswersHold ==
  ASSUME WorktreesBounds
  PROVE  W!WorktreesSpec => []W!AnswerHolds
  <1>1. CASE CallsRace
    BY <1>1, PTL DEF W!AnswerHolds
  <1>2. CASE ~CallsRace
    <2>1. W!WorktreesInit => AnswerInv
      <3>1. W!Idle.pc = "idle"
        BY DEF W!Idle
      <3>2. QED
        BY <3>1 DEF W!WorktreesInit, AnswerInv, Working, Creating
    <2>2. WorktreesInv /\ AnswerInv /\ [W!WorktreesNext]_(W!worktreesVars) => AnswerInv'
      BY <1>2, AnswerKept
    <2>3. AnswerInv => W!AnswerHolds
      BY DEF AnswerInv, W!AnswerHolds
    <2>4. QED
      BY <2>1, <2>2, <2>3, WorktreesInvariant, PTL DEF W!WorktreesSpec
  <1>3. QED
    BY <1>1, <1>2

-----------------------------------------------------------------------------
(* The status of an agent                                                  *)

CONSTANTS MaxMoves, StartPrompts, Late
VARIABLES launched, front, kind, agent_status, live, agent, everWorked, agent_hook, screen, seq, poll, agent_seen, fore,
          agent_told, sending, usage, usage_seen, conversation, moves

A == INSTANCE AgentStatus WITH status <- agent_status, hook <- agent_hook, seen <- agent_seen, told <- agent_told,
                               Racing <- Late

Kinds == {"claude", "codex", "shell"}
HookWords == {"none", "working", "input", "done"}
Agents == {"fresh", "turn", "asks", "background", "after"}

\* What the watcher has read at its step
PollInv ==
  \/ poll = A!Sleeping
  \/ poll \in [pc : {"modified", "usage", "hook"}, kind : Kinds]
  \/ poll \in [pc : {"seq", "screen"}, kind : Kinds, hook : HookWords]
  \/ poll \in [pc : {"set"}, kind : Kinds, status : A!LiveStatuses]

AgentTypesInv ==
  /\ launched \in Kinds /\ front \in Kinds /\ (launched # "shell" => front = launched)
  /\ live \in BOOLEAN /\ agent \in Agents /\ agent_hook \in HookWords
  /\ seq \in Nat /\ moves \in Nat
  /\ agent_seen \in [hook : HookWords, seq : Nat, worked : BOOLEAN]
  /\ PollInv
  /\ A!AgentStatusTypeOK

\* Every trace of work, in the agent, its file, on the screen and in what the watcher has read, comes from a turn
Traces == {"turn", "asks", "background", "after"}

WorkedInv ==
  ~everWorked =>
    /\ agent \notin Traces /\ screen \notin Traces
    /\ agent_hook = "none" /\ ~agent_seen.worked
    /\ poll.pc \in {"seq", "screen"} => poll.hook = "none"
    /\ poll.pc = "set" => poll.status = "Idle"
    /\ agent_status # "Done"

LEMMA PollIs ==
  ASSUME PollInv
  PROVE  /\ poll.pc \in {"sleep", "modified", "usage", "hook", "seq", "screen", "set"}
         /\ poll.pc = "sleep" => poll = A!Sleeping
         /\ poll.pc \in {"modified", "usage", "hook"} => poll \in [pc : {"modified", "usage", "hook"}, kind : Kinds]
         /\ poll.pc \in {"seq", "screen"} => poll \in [pc : {"seq", "screen"}, kind : Kinds, hook : HookWords]
         /\ poll.pc = "set" => poll \in [pc : {"set"}, kind : Kinds, status : A!LiveStatuses]
  BY DEF PollInv, A!Sleeping

\* A status that a task sets is one of a live session's
LEMMA SetIs ==
  ASSUME NEW s \in A!LiveStatuses, NEW k, A!set_live_status(s, k)
  PROVE  agent_status' = agent_status \/ (agent_status' = s /\ live)
  BY DEF A!set_live_status

LEMMA StateIs ==
  /\ A!agent_state \in {"Input", "Running", "Watching", "Idle"}
  /\ \A s \in {"Input", "Running", "Watching", "Idle"} : A!agent_status(s) \in A!LiveStatuses
  <1>1. A!agent_state \in {"Input", "Running", "Watching", "Idle"}
    <2>1. (CASE screen = "asks" -> "Input" [] screen = "turn" -> "Running" [] OTHER -> "Idle")
            \in {"Input", "Running", "Watching", "Idle"}
      OBVIOUS
    <2>2. QED
      BY <2>1 DEF A!agent_state, A!ScreenMatters
  <1>2. ASSUME NEW s \in {"Input", "Running", "Watching", "Idle"} PROVE A!agent_status(s) \in A!LiveStatuses
    BY DEF A!agent_status, A!LiveStatuses
  <1>3. QED
    BY <1>1, <1>2

LEMMA AgentTypesKept ==
  ASSUME MaxMoves \in Nat, AgentTypesInv, [A!AgentStatusNext]_(A!agentStatusVars)
  PROVE  AgentTypesInv'
  <1> USE DEF AgentTypesInv, A!AgentStatusTypeOK
  <1> USE DEF A!agentVars, A!pollVars, A!infoVars
  <1>1. ASSUME NEW a \in Agents, A!AgentMoves(a) PROVE AgentTypesInv'
    <2>1. A!HookOf(a) \in HookWords
      BY DEF A!HookOf, HookWords, Agents
    <2>2. agent_hook' \in HookWords
      BY <1>1, <2>1 DEF A!AgentMoves
    <2>3. /\ moves < MaxMoves /\ moves' = moves + 1 /\ agent' = a
          /\ UNCHANGED <<launched, front, screen, seq, A!pollVars, A!infoVars>>
      BY <1>1 DEF A!AgentMoves
    <2>4. QED
      BY <2>2, <2>3 DEF PollInv
  <1>2. CASE A!Draws
    BY <1>2 DEF A!Draws, PollInv
  <1>3. CASE A!StatusLine
    <2>1. /\ moves' = moves \/ (moves < MaxMoves /\ moves' = moves + 1)
          /\ UNCHANGED <<launched, front, agent, agent_hook, screen, seq, A!pollVars, A!infoVars>>
      BY <1>3 DEF A!StatusLine
    <2>2. QED
      BY <2>1 DEF PollInv
  <1>4. CASE A!ShellRuns
    <2>1. /\ moves < MaxMoves /\ moves' = moves + 1 /\ launched = "shell" /\ front' \in Kinds /\ agent' = "fresh"
          /\ UNCHANGED <<launched, agent_hook, screen, seq, A!pollVars, A!infoVars>>
      BY <1>4 DEF A!ShellRuns, Kinds
    <2>2. QED
      BY <2>1 DEF PollInv, Agents
  <1>5. CASE A!Exits
    BY <1>5 DEF A!Exits, PollInv
  <1>6. CASE A!ForegroundKind
    BY <1>6 DEF A!ForegroundKind, PollInv, Kinds
  <1>7. CASE A!ForegroundStatus
    <2>1. A!set_live_status("Idle", "shell") /\ "Idle" \in A!LiveStatuses
      BY <1>7 DEF A!ForegroundStatus, A!LiveStatuses
    <2>2. agent_status' = agent_status \/ (agent_status' = "Idle" /\ live)
      BY <2>1, SetIs
    <2>3. UNCHANGED <<launched, A!agentVars, screen, seq, A!pollVars, kind, live>>
      BY <1>7 DEF A!ForegroundStatus
    <2>4. QED
      BY <2>1, <2>2, <2>3 DEF PollInv
  <1>8. CASE A!WatchTick
    <2>1. /\ UNCHANGED <<launched, A!agentVars, screen, seq, A!infoVars>>
          /\ \/ poll' = [pc |-> IF A!Hooked THEN "modified" ELSE "hook", kind |-> kind] /\ UNCHANGED agent_seen
             \/ agent_seen' = A!Unseen /\ UNCHANGED poll
      BY <1>8 DEF A!WatchTick
    <2>2. A!Unseen \in [hook : HookWords, seq : Nat, worked : BOOLEAN] /\ A!Unseen.seq = 0
      BY DEF A!Unseen, HookWords
    <2>3. PollInv'
      BY <2>1 DEF PollInv, Kinds, A!Sleeping
    <2>4. QED
      BY <2>1, <2>2, <2>3
  <1>9. CASE A!PollModified \/ A!PollUsage
    <2>1. /\ UNCHANGED <<launched, A!agentVars, screen, seq, A!infoVars, agent_seen>>
          /\ poll.pc \in {"modified", "usage"} /\ \E p \in {"usage", "hook"} : poll' = [poll EXCEPT !.pc = p]
      BY <1>9 DEF A!PollModified, A!PollUsage
    <2>2. poll \in [pc : {"modified", "usage", "hook"}, kind : Kinds]
      BY <2>1, PollIs
    <2>3. PollInv'
      BY <2>1, <2>2 DEF PollInv
    <2>4. QED
      BY <2>1, <2>3
  <1>10. CASE A!PollHook
    <2>1. /\ UNCHANGED <<launched, A!agentVars, screen, seq, A!infoVars, agent_seen>> /\ poll.pc = "hook"
          /\ poll' = [pc |-> "seq", kind |-> poll.kind, hook |-> IF A!Hooked THEN agent_hook ELSE "none"]
      BY <1>10 DEF A!PollHook
    <2>2. poll.kind \in Kinds
      BY <2>1, PollIs
    <2>3. PollInv'
      BY <2>1, <2>2 DEF PollInv, HookWords
    <2>4. QED
      BY <2>1, <2>3
  <1>11. CASE A!PollSeq
    <2>1. /\ UNCHANGED <<launched, A!agentVars, screen, seq, A!infoVars>> /\ poll.pc = "seq"
          /\ \/ poll' = A!Sleeping /\ UNCHANGED agent_seen
             \/ /\ agent_seen' = [agent_seen EXCEPT !.hook = poll.hook, !.seq = seq]
                /\ poll' = [poll EXCEPT !.pc = "screen"]
      BY <1>11 DEF A!PollSeq
    <2>2. poll \in [pc : {"seq", "screen"}, kind : Kinds, hook : HookWords]
      BY <2>1, PollIs
    <2>3. PollInv'
      BY <2>1, <2>2 DEF PollInv
    <2>4. agent_seen' \in [hook : HookWords, seq : Nat, worked : BOOLEAN] /\ agent_seen'.seq <= seq
      <3>1. ASSUME agent_seen' = [agent_seen EXCEPT !.hook = poll.hook, !.seq = seq]
            PROVE  agent_seen' \in [hook : HookWords, seq : Nat, worked : BOOLEAN] /\ agent_seen'.seq = seq
        <4> DEFINE h == [agent_seen EXCEPT !.hook = poll.hook]
        <4>1. h \in [hook : HookWords, seq : Nat, worked : BOOLEAN]
          BY <2>2
        <4>2. agent_seen' = [h EXCEPT !.seq = seq]
          BY <3>1
        <4> HIDE DEF h
        <4>3. QED
          BY <4>1, <4>2
      <3>2. QED
        BY <2>1, <3>1
    <2>5. QED
      BY <2>1, <2>3, <2>4
  <1>12. CASE A!PollScreen
    <2>1. /\ UNCHANGED <<launched, A!agentVars, screen, seq, A!infoVars>> /\ poll.pc = "screen"
          /\ poll' = [pc |-> "set", kind |-> poll.kind, status |-> A!agent_status(A!agent_state)]
          /\ \/ agent_seen' = agent_seen
             \/ agent_seen' = [agent_seen EXCEPT !.worked = A!agent_state \in {"Running", "Input"}]
      BY <1>12 DEF A!PollScreen
    <2>2. A!agent_status(A!agent_state) \in A!LiveStatuses
      BY StateIs
    <2>4. agent_seen' \in [hook : HookWords, seq : Nat, worked : BOOLEAN] /\ agent_seen'.seq = agent_seen.seq
      <3> DEFINE b == A!agent_state \in {"Running", "Input"}
      <3>1. b \in BOOLEAN /\ (agent_seen' = agent_seen \/ agent_seen' = [agent_seen EXCEPT !.worked = b])
        BY <2>1
      <3> HIDE DEF b
      <3>2. QED
        BY <3>1
    <2>5. PollInv'
      <3>1. poll.kind \in Kinds
        BY <2>1, PollIs
      <3>2. A!LiveStatuses' = A!LiveStatuses
        BY DEF A!LiveStatuses
      <3>3. QED
        BY <2>1, <2>2, <3>1, <3>2 DEF PollInv
    <2>6. QED
      BY <2>1, <2>4, <2>5
  <1>13. CASE A!PollSets
    <2>1. /\ UNCHANGED <<launched, A!agentVars, screen, seq, kind, live, agent_seen>>
          /\ poll.pc = "set" /\ poll' = A!Sleeping /\ A!set_live_status(poll.status, poll.kind)
      BY <1>13 DEF A!PollSets
    <2>2. poll.status \in A!LiveStatuses
      BY <2>1, PollIs
    <2>3. agent_status' = agent_status \/ (agent_status' \in A!LiveStatuses /\ live)
      BY <2>1, <2>2, SetIs
    <2>4. PollInv'
      BY <2>1 DEF PollInv, A!Sleeping
    <2>5. QED
      BY <2>1, <2>3, <2>4
  <1>14. CASE (\E s \in sending : A!Broadcast(s)) \/ UNCHANGED A!agentStatusVars
    BY <1>14 DEF A!Broadcast, A!agentStatusVars, PollInv
  <1>15. QED
    BY <1>1, <1>2, <1>3, <1>4, <1>5, <1>6, <1>7, <1>8, <1>9, <1>10, <1>11, <1>12, <1>13, <1>14
       DEF A!AgentStatusNext, A!Watch, A!Foreground, Agents

LEMMA AgentInitially ==
  ASSUME MaxMoves \in Nat, A!AgentStatusInit
  PROVE  AgentTypesInv /\ WorkedInv
  <1>1. A!Unseen \in [hook : HookWords, seq : Nat, worked : BOOLEAN] /\ A!Unseen.seq = 0 /\ ~A!Unseen.worked
    BY DEF A!Unseen, HookWords
  <1>2. A!Sleeping.pc = "sleep"
    BY DEF A!Sleeping
  <1>3. AgentTypesInv
    <2>1. /\ launched \in Kinds /\ front = launched /\ kind = launched /\ agent_status = "Running" /\ live = TRUE
          /\ agent = "fresh" /\ agent_hook = "none" /\ seq = 0 /\ moves = 0 /\ poll = A!Sleeping /\ agent_seen = A!Unseen
      BY DEF A!AgentStatusInit, Kinds
    <2>2. A!AgentStatusTypeOK
      BY <1>1, <2>1 DEF A!AgentStatusTypeOK, A!LiveStatuses, Kinds
    <2>3. QED
      BY <1>1, <2>1, <2>2 DEF AgentTypesInv, PollInv, HookWords, Agents
  <1>4. WorkedInv
    BY <1>1, <1>2 DEF A!AgentStatusInit, WorkedInv, Traces
  <1>5. QED
    BY <1>3, <1>4

LEMMA WorkedKept ==
  ASSUME ~StartPrompts, AgentTypesInv, WorkedInv, [A!AgentStatusNext]_(A!agentStatusVars)
  PROVE  WorkedInv'
  <1> USE DEF WorkedInv, A!agentVars, A!pollVars, A!infoVars
  <1>1. ASSUME NEW a \in Agents, A!AgentMoves(a) PROVE WorkedInv'
    <2>1. /\ a \in A!Turns(agent) /\ (everWorked' <=> everWorked \/ a = "turn")
          /\ UNCHANGED <<screen, poll, agent_seen, agent_status>>
      BY <1>1 DEF A!AgentMoves
    <2>2. ~everWorked => agent = "fresh"
      BY DEF AgentTypesInv, Agents, Traces
    <2>3. agent = "fresh" => A!Turns(agent) = {"turn"}
      BY DEF A!Turns
    <2>4. everWorked'
      BY <2>1, <2>2, <2>3
    <2>5. QED
      BY <2>4
  <1>2. CASE A!Draws \/ A!StatusLine \/ A!ShellRuns
    BY <1>2 DEF A!Draws, A!StatusLine, A!ShellRuns, Traces
  <1>3. CASE A!Exits \/ A!ForegroundKind
    BY <1>3 DEF A!Exits, A!ForegroundKind
  <1>4. CASE A!ForegroundStatus
    <2>1. "Idle" \in A!LiveStatuses /\ A!set_live_status("Idle", "shell")
      BY <1>4 DEF A!ForegroundStatus, A!LiveStatuses
    <2>2. agent_status' \in {agent_status, "Idle"}
      BY <2>1, SetIs
    <2>3. QED
      BY <1>4, <2>2 DEF A!ForegroundStatus
  <1>5. CASE A!WatchTick
    <2>1. /\ UNCHANGED <<A!agentVars, screen, A!infoVars>>
          /\ \/ poll' = [pc |-> IF A!Hooked THEN "modified" ELSE "hook", kind |-> kind] /\ UNCHANGED agent_seen
             \/ agent_seen' = A!Unseen /\ UNCHANGED poll
      BY <1>5 DEF A!WatchTick
    <2>2. ~A!Unseen.worked
      BY DEF A!Unseen
    <2>3. poll' = [pc |-> IF A!Hooked THEN "modified" ELSE "hook", kind |-> kind] => poll'.pc \in {"modified", "hook"}
      OBVIOUS
    <2>4. QED
      BY <2>1, <2>2, <2>3
  <1>6. CASE A!PollModified \/ A!PollUsage
    <2>1. /\ UNCHANGED <<A!agentVars, screen, A!infoVars, agent_seen>>
          /\ poll.pc \in {"modified", "usage"} /\ \E p \in {"usage", "hook"} : poll' = [poll EXCEPT !.pc = p]
      BY <1>6 DEF A!PollModified, A!PollUsage
    <2>2. poll'.pc \in {"usage", "hook"}
      BY <2>1, PollIs DEF AgentTypesInv
    <2>3. QED
      BY <2>1, <2>2
  <1>7. CASE A!PollHook
    BY <1>7 DEF A!PollHook
  <1>8. CASE A!PollSeq
    <2>1. /\ UNCHANGED <<A!agentVars, screen, A!infoVars>> /\ poll.pc = "seq"
          /\ \/ poll' = A!Sleeping /\ UNCHANGED agent_seen
             \/ /\ agent_seen' = [agent_seen EXCEPT !.hook = poll.hook, !.seq = seq]
                /\ poll' = [poll EXCEPT !.pc = "screen"]
      BY <1>8 DEF A!PollSeq
    <2>2. agent_seen \in [hook : HookWords, seq : Nat, worked : BOOLEAN]
      BY DEF AgentTypesInv
    <2>3. agent_seen'.worked = agent_seen.worked
      BY <2>1, <2>2
    <2>4. poll \in [pc : {"seq", "screen"}, kind : Kinds, hook : HookWords]
      BY <2>1, PollIs DEF AgentTypesInv
    <2>5. poll'.pc # "set" /\ (poll'.pc \in {"seq", "screen"} => poll'.hook = poll.hook)
      BY <2>1, <2>4 DEF A!Sleeping
    <2>6. QED
      BY <2>1, <2>3, <2>5
  <1>9. CASE A!PollScreen
    <2>1. /\ UNCHANGED <<A!agentVars, screen, A!infoVars>> /\ poll.pc = "screen"
          /\ poll' = [pc |-> "set", kind |-> poll.kind, status |-> A!agent_status(A!agent_state)]
          /\ \/ agent_seen' = agent_seen
             \/ agent_seen' = [agent_seen EXCEPT !.worked = A!agent_state \in {"Running", "Input"}]
      BY <1>9 DEF A!PollScreen
    <2>2. ASSUME ~everWorked
          PROVE  A!agent_state = "Idle" /\ A!agent_status(A!agent_state) = "Idle"
      <3>1. poll.hook = "none" /\ screen \notin Traces /\ ~agent_seen.worked /\ agent_status # "Done"
        BY <2>1, <2>2
      <3>2. A!agent_state = "Idle"
        BY <3>1 DEF A!agent_state, A!ScreenMatters, Traces
      <3>3. A!agent_status("Idle") = "Idle"
        BY <3>1 DEF A!agent_status, A!finished
      <3>4. QED
        BY <3>2, <3>3
    <2>3. agent_seen \in [hook : HookWords, seq : Nat, worked : BOOLEAN]
      BY DEF AgentTypesInv
    <2>4. ~everWorked => ~agent_seen'.worked
      BY <2>1, <2>2, <2>3
    <2>5. poll'.pc = "set" /\ poll'.status = A!agent_status(A!agent_state)
      BY <2>1
    <2>6. QED
      BY <2>1, <2>2, <2>4, <2>5
  <1>10. CASE A!PollSets
    <2>1. /\ UNCHANGED <<A!agentVars, screen, agent_seen>> /\ poll.pc = "set" /\ poll'.pc = "sleep"
          /\ A!set_live_status(poll.status, poll.kind)
      BY <1>10 DEF A!PollSets, A!Sleeping
    <2>2. ~everWorked => agent_status' \in {agent_status, "Idle"}
      BY <2>1 DEF A!set_live_status
    <2>3. QED
      BY <2>1, <2>2
  <1>11. CASE (\E s \in sending : A!Broadcast(s)) \/ UNCHANGED A!agentStatusVars
    BY <1>11 DEF A!Broadcast, A!agentStatusVars
  <1>12. QED
    BY <1>1, <1>2, <1>3, <1>4, <1>5, <1>6, <1>7, <1>8, <1>9, <1>10, <1>11
       DEF A!AgentStatusNext, A!Watch, A!Foreground, Agents

\* No late status overwrites an exit, and the status that is set is one of the kind the session has, whatever overlaps
\* and whatever the watcher read before (set_live_status, poll_foreground)
THEOREM StatusTyped ==
  ASSUME MaxMoves \in Nat
  PROVE  A!AgentStatusSpec => []A!AgentStatusTypeOK
  <1>1. AgentTypesInv => A!AgentStatusTypeOK
    BY DEF AgentTypesInv
  <1>2. QED
    BY <1>1, AgentInitially, AgentTypesKept, PTL DEF A!AgentStatusSpec

\* A session that never worked is not Done, however the watcher's reads of hook file and screen fall between the agent's
\* writes and drawings, when an agent asks nothing before its first turn (agent_status)
THEOREM DoneAfterWork ==
  ASSUME MaxMoves \in Nat, ~StartPrompts
  PROVE  A!AgentStatusSpec => []A!DoneWasWork
  <1>1. WorkedInv => A!DoneWasWork
    BY DEF WorkedInv, A!DoneWasWork
  <1>2. QED
    BY <1>1, AgentInitially, AgentTypesKept, WorkedKept, PTL DEF A!AgentStatusSpec

-----------------------------------------------------------------------------
(* The address of the MCP server                                           *)

CONSTANTS Ports, MaxSteps, Foreign, Configs
VARIABLES on, server, env, ensuring, port_json, secret, fresh, taken, handed, unsaved, installed, config, steps

M == INSTANCE Mcp

Addresses == [up : {TRUE}, port : Ports, token : Nat]

TokensInv == secret \in Nat /\ fresh \in Nat

\* While the server is being started nothing is handed out, and at all other times what is handed out is the server
ServerInv ==
  /\ on \in BOOLEAN /\ ensuring \in {"no", "start", "env"}
  /\ server \in {M!NoServer} \cup Addresses
  /\ ensuring = "start" => server = M!NoServer
  /\ ensuring \in {"no", "start"} => env = server

\* Addresses of starts that could save all they had to
Lasting(addresses) == {a \in addresses \ unsaved : a.up}

\* The stored token is the running server's, and so is the stored port where nobody takes it; every address that was
\* saved has both
AddressInv ==
  /\ server.up => secret \in {0, server.token} /\ (Foreign \/ (port_json \in Ports \ {0} => port_json = server.port))
  /\ \A a \in Lasting(handed \cup {server, env, installed}) :
        secret # 0 /\ a.token = secret /\ (Foreign \/ (port_json \in Ports \ {0} /\ a.port = port_json))
  /\ Foreign \/ taken = {}

LEMMA ServersDiffer == ~M!NoServer.up /\ \A a \in Addresses : a.up
  BY DEF M!NoServer, Addresses

LEMMA TokensKept ==
  ASSUME TokensInv, [M!McpNext]_(M!mcpVars)
  PROVE  TokensInv'
  <1>1. CASE M!EnsureStarts
    <2>1. M!token(fresh + 1) \in Nat
      BY DEF M!token, TokensInv
    <2>2. secret' \in {secret, M!token(fresh + 1)} /\ fresh' \in {fresh, M!token(fresh + 1)}
      BY <1>1 DEF M!EnsureStarts
    <2>3. QED
      BY <2>1, <2>2 DEF TokensInv
  <1>2. CASE ~M!EnsureStarts
    BY <1>2 DEF M!McpNext, M!EnsureBegins, M!EnsureEnds, M!AppRestarts, M!Switch, M!AgentStarts, M!PortTaken,
           M!mcp_install, M!mcpVars, TokensInv
  <1>3. QED
    BY <1>1, <1>2

LEMMA ServerKept ==
  ASSUME TokensInv, ServerInv, [M!McpNext]_(M!mcpVars)
  PROVE  ServerInv'
  <1> USE ServersDiffer
  <1>1. CASE M!EnsureBegins
    BY <1>1 DEF M!EnsureBegins, ServerInv
  <1>2. CASE M!EnsureStarts
    <2>1. ensuring = "start" /\ UNCHANGED <<env, on>>
      BY <1>2 DEF M!EnsureStarts
    <2>2. CASE ensuring' = "no" /\ UNCHANGED server
      BY <2>1, <2>2 DEF ServerInv
    <2>3. ASSUME NEW p \in Ports, server' = [up |-> TRUE, port |-> p, token |-> M!token(fresh + 1)], ensuring' = "env"
          PROVE  ServerInv'
      <3>1. M!token(fresh + 1) \in Nat
        BY DEF M!token, TokensInv
      <3>2. QED
        BY <2>1, <2>3, <3>1 DEF ServerInv, Addresses
    <2>4. QED
      <3>1. M!Binds \subseteq Ports
        BY DEF M!Binds
      <3>2. QED
        BY <1>2, <2>2, <2>3, <3>1 DEF M!EnsureStarts
  <1>3. CASE M!EnsureEnds
    BY <1>3 DEF M!EnsureEnds, ServerInv
  <1>4. CASE M!AppRestarts
    BY <1>4 DEF M!AppRestarts, ServerInv
  <1>5. CASE M!Switch \/ M!AgentStarts \/ (\E p \in Ports : M!PortTaken(p)) \/ M!mcp_install \/ UNCHANGED M!mcpVars
    BY <1>5 DEF M!Switch, M!AgentStarts, M!PortTaken, M!mcp_install, M!mcpVars, ServerInv
  <1>6. QED
    BY <1>1, <1>2, <1>3, <1>4, <1>5 DEF M!McpNext

LEMMA AddressKept ==
  ASSUME TokensInv, ServerInv, AddressInv, [M!McpNext]_(M!mcpVars)
  PROVE  AddressInv'
  <1> USE ServersDiffer DEF AddressInv, Lasting
  <1>1. CASE M!EnsureBegins
    BY <1>1 DEF M!EnsureBegins
  <1>2. CASE M!EnsureStarts
    <2> DEFINE t == M!token(fresh + 1)
    <2>1. /\ ensuring = "start" /\ UNCHANGED <<env, taken, handed, installed>>
          /\ server = M!NoServer /\ env = M!NoServer
      BY <1>2 DEF M!EnsureStarts, ServerInv
    <2>2. t # 0 /\ (secret # 0 => t = secret)
      BY DEF M!token, TokensInv
    <2>3. ASSUME NEW p \in M!Binds,
                 server' = [up |-> TRUE, port |-> p, token |-> t], secret' \in {secret, t},
                 port_json' \in (IF p = port_json THEN {p} ELSE {p, port_json, 0}),
                 unsaved' = IF port_json' = p /\ secret' = t THEN unsaved \ {server'} ELSE unsaved \cup {server'}
          PROVE  AddressInv'
      <3>1. /\ p \in Ports \ {0} /\ (Foreign \/ (port_json \in Ports \ {0} => p = port_json))
            /\ server'.up /\ server'.port = p /\ server'.token = t
        BY <2>3 DEF M!Binds
      <3>2. secret' \in {0, t} /\ (Foreign \/ (port_json' \in Ports \ {0} => port_json' = p))
        BY <2>2, <2>3, <3>1
      <3>3. ASSUME NEW a \in Lasting(handed \cup {server, env, installed})'
            PROVE  secret' # 0 /\ a.token = secret' /\ (Foreign \/ (port_json' \in Ports \ {0} /\ a.port = port_json'))
        <4>1. CASE a = server'
          BY <2>2, <2>3, <3>1, <3>3, <4>1
        <4>2. CASE a # server'
          <5>1. a \in Lasting(handed \cup {server, env, installed})
            BY <2>1, <2>3, <3>3, <4>2
          <5>2. secret' = secret /\ (Foreign \/ port_json' = port_json)
            BY <2>2, <2>3, <3>1, <5>1
          <5>3. QED
            BY <5>1, <5>2
        <4>3. QED
          BY <4>1, <4>2
      <3>4. QED
        BY <2>1, <3>1, <3>2, <3>3
    <2>4. CASE UNCHANGED <<server, port_json, unsaved>> /\ secret' \in {secret, t}
      BY <2>1, <2>2, <2>4
    <2>5. QED
      BY <1>2, <2>3, <2>4 DEF M!EnsureStarts
  <1>3. CASE M!EnsureEnds
    BY <1>3 DEF M!EnsureEnds
  <1>4. CASE M!AppRestarts
    BY <1>4 DEF M!AppRestarts
  <1>5. CASE M!AgentStarts
    BY <1>5 DEF M!AgentStarts
  <1>6. CASE M!mcp_install
    BY <1>6 DEF M!mcp_install
  <1>7. CASE M!Switch \/ (\E p \in Ports : M!PortTaken(p)) \/ UNCHANGED M!mcpVars
    BY <1>7 DEF M!Switch, M!PortTaken, M!mcpVars
  <1>8. QED
    BY <1>1, <1>2, <1>3, <1>4, <1>5, <1>6, <1>7 DEF M!McpNext

LEMMA McpInitially ==
  ASSUME M!McpInit
  PROVE  TokensInv /\ ServerInv /\ AddressInv
  BY ServersDiffer DEF M!McpInit, TokensInv, ServerInv, AddressInv, Lasting

\* Whenever no ensure is at work the environment of agents names the server that runs, or none: also after a start
\* that failed, after switches and restarts, and though other programs take its port (ensure, agent_env)
THEOREM EnvsAreServers == M!McpSpec => []M!EnvIsServer
  <1>1. ServerInv => M!EnvIsServer
    BY DEF ServerInv, M!EnvIsServer
  <1>2. QED
    BY <1>1, McpInitially, TokensKept, ServerKept, PTL DEF M!McpSpec

\* Agents keep what they were given: unless that start could not save its token or port, every agent ever started and
\* the entry that was installed have the token of each later server, and its port while no other program takes it,
\* over switches, failed starts and runs of the app (token, saved_port)
THEOREM AddressKeeps == M!McpSpec => []M!AgentsReach
  <1>1. AddressInv => M!AgentsReach
    BY DEF AddressInv, Lasting, M!AgentsReach
  <1>2. QED
    BY <1>1, McpInitially, TokensKept, ServerKept, AddressKept, PTL DEF M!McpSpec

-----------------------------------------------------------------------------
(* The channel of a language server                                        *)

CONSTANTS MaxMessages, MaxPipe
VARIABLES process, stdout, said, reader, input, inputs, unread, sends, task, page, output, stopped

Q == INSTANCE Lsp

\* How the server's end reaches the channel: nothing is said by a server whose reader is at the end, and unless it was
\* stopped the task is past its loop only then
LspInv ==
  /\ process \in {"run", "mute", "dead"} /\ reader \in {"run", "eof", "refused"}
  /\ task \in {"loop", "write", "kill", "wait", "tail", "done"}
  /\ stdout \in Nat /\ said \in Nat /\ output \in Seq({"message", "exit"})
  /\ reader = "eof" => stdout = 0 /\ process # "run"
  /\ reader = "refused" => ~page
  /\ ~stopped /\ task \in {"loop", "write"} => input
  /\ ~stopped /\ task \notin {"loop", "write"} => reader # "run"
  /\ page => Len(output) + stdout = said + IF task = "done" THEN 1 ELSE 0
  /\ task # "done" => \A i \in DOMAIN output : output[i] # "exit"
  /\ Q!ExitIsLast

LEMMA LspKept ==
  ASSUME LspInv, [Q!LspNext]_(Q!svars)
  PROVE  LspInv'
  <1> USE DEF LspInv, Q!ExitIsLast
  <1>1. CASE Q!ServerSays
    BY <1>1 DEF Q!ServerSays
  <1>2. CASE Q!ServerEnds \/ Q!ServerReads
    BY <1>2 DEF Q!ServerEnds, Q!ServerReads
  <1>3. CASE Q!ReaderSends
    <2>1. CASE page
      <3>1. /\ output' = Append(output, "message") /\ stdout' = stdout - 1 /\ stdout > 0 /\ reader = "run"
            /\ UNCHANGED <<process, said, reader, input, task, page, stopped>>
        BY <1>3, <2>1 DEF Q!ReaderSends
      <3>2. /\ output' \in Seq({"message", "exit"}) /\ Len(output') = Len(output) + 1
            /\ DOMAIN output' = 1..(Len(output) + 1) /\ output'[Len(output) + 1] = "message"
            /\ \A i \in DOMAIN output : output'[i] = output[i]
        BY <3>1
      <3>3. task = "done" => stopped
        BY <3>1
      <3>4. QED
        BY <2>1, <3>1, <3>2, <3>3
    <2>2. CASE ~page
      BY <1>3, <2>2 DEF Q!ReaderSends
    <2>3. QED
      BY <2>1, <2>2
  <1>4. CASE Q!ReaderEnds
    BY <1>4 DEF Q!ReaderEnds
  <1>5. CASE Q!lsp_send \/ Q!lsp_stop \/ Q!PageGoes \/ Q!TaskTakes \/ Q!TaskWrites
    BY <1>5 DEF Q!lsp_send, Q!lsp_stop, Q!PageGoes, Q!TaskTakes, Q!TaskWrites
  <1>6. CASE Q!TaskStopped \/ Q!TaskReaderEnds \/ Q!Kill \/ Q!TaskWaited
    BY <1>6 DEF Q!TaskStopped, Q!TaskReaderEnds, Q!Kill, Q!TaskWaited
  <1>7. CASE Q!SendExit
    <2>1. /\ task = "tail" /\ task' = "done"
          /\ UNCHANGED <<process, stdout, said, reader, input, page, stopped>>
      BY <1>7 DEF Q!SendExit
    <2>2. CASE page
      <3>1. output' = Append(output, "exit")
        BY <1>7, <2>2 DEF Q!SendExit
      <3>2. /\ output' \in Seq({"message", "exit"}) /\ Len(output') = Len(output) + 1
            /\ DOMAIN output' = 1..(Len(output) + 1)
            /\ \A i \in DOMAIN output : output'[i] = output[i]
        BY <3>1
      <3>3. ~stopped => stdout = 0
        BY <2>1, <2>2
      <3>4. \A i \in DOMAIN output' : output'[i] = "exit" => i = Len(output')
        BY <2>1, <3>2
      <3>5. QED
        BY <2>1, <2>2, <3>2, <3>3, <3>4
    <2>3. CASE ~page
      BY <1>7, <2>1, <2>3 DEF Q!SendExit
    <2>4. QED
      BY <2>2, <2>3
  <1>8. CASE Q!LspDone \/ UNCHANGED Q!svars
    BY <1>8 DEF Q!LspDone, Q!svars
  <1>9. QED
    BY <1>1, <1>2, <1>3, <1>4, <1>5, <1>6, <1>7, <1>8 DEF Q!LspNext, Q!Tasks

\* All a language server wrote came on the channel before its exit, and nothing after it, unless it was stopped; a
\* server that hangs with its output closed included (read_messages, the writing task)
THEOREM ExitsComeLast == Q!LspSpec => []Q!ExitIsLast
  <1>1. Q!LspInit => LspInv
    BY DEF Q!LspInit, LspInv, Q!ExitIsLast
  <1>2. LspInv => Q!ExitIsLast
    BY DEF LspInv
  <1>3. QED
    BY <1>1, <1>2, LspKept, PTL DEF Q!LspSpec

-----------------------------------------------------------------------------
(* The limits shown                                                        *)

CONSTANTS MaxTime, Window, MaxUsed, Calls, Desktop, CallsLate
VARIABLES now, plan, readings, watched, last, ask, bar, usage_on

N == INSTANCE Limits WITH files <- readings, Racing <- CallsLate

Readings == [used : Int, resets_at : Int, updated_at : Int]

\* A reading of a source with reset times is of the plan's window, or of one that is over
PlanInv ==
  /\ now \in Nat \ {0}
  /\ plan \in [used : Nat, resets_at : Nat] /\ plan.resets_at > now
  /\ readings \in [N!Sources -> Readings]
  /\ \A s \in {"status", "limitbar"} : readings[s] # N!None =>
       /\ readings[s].resets_at # 0
       /\ readings[s].resets_at <= now \/ (readings[s].resets_at = plan.resets_at /\ readings[s].used <= plan.used)
  /\ readings["desktop"].resets_at = 0

LEMMA PlanKept ==
  ASSUME Window \in Nat \ {0}, PlanInv, [N!LimitsNext]_(N!lvars)
  PROVE  PlanInv'
  <1> USE DEF PlanInv
  <1>1. CASE N!Pass
    <2>1. /\ now' = now + 1 /\ UNCHANGED readings
          /\ \A s \in N!Sources : readings[s].resets_at \in Int /\ readings[s].used \in Int
      BY <1>1 DEF N!Pass, Readings
    <2>2. CASE plan.resets_at <= now'
      <3>1. plan' = [used |-> 0, resets_at |-> now' + Window]
        BY <1>1, <2>2 DEF N!Pass
      <3>2. QED
        BY <2>1, <2>2, <3>1 DEF N!Sources
    <2>3. CASE ~(plan.resets_at <= now')
      BY <1>1, <2>1, <2>3 DEF N!Pass, N!Sources
    <2>4. QED
      BY <2>2, <2>3
  <1>2. CASE N!Spend
    <2>1. plan' = [plan EXCEPT !.used = plan.used + 1] /\ UNCHANGED <<now, readings>>
      BY <1>2 DEF N!Spend
    <2>2. plan' \in [used : Nat, resets_at : Nat] /\ plan'.used = plan.used + 1 /\ plan'.resets_at = plan.resets_at
      BY <2>1
    <2>3. QED
      BY <2>1, <2>2 DEF N!Sources, Readings
  <1>3. ASSUME NEW s \in N!Sources, N!Sample(s) PROVE PlanInv'
    <2> DEFINE r == [used |-> plan.used, updated_at |-> now, resets_at |-> IF s = "desktop" THEN 0 ELSE plan.resets_at]
    <2>1. readings' = [readings EXCEPT ![s] = r] /\ UNCHANGED <<now, plan>>
      BY <1>3 DEF N!Sample
    <2>2. /\ r \in Readings /\ r.used = plan.used
          /\ r.resets_at = IF s = "desktop" THEN 0 ELSE plan.resets_at
      BY DEF Readings
    <2> HIDE DEF r
    <2>3. /\ readings' \in [N!Sources -> Readings] /\ readings'[s] = r
          /\ \A t \in N!Sources \ {s} : readings'[t] = readings[t]
      BY <2>1, <2>2
    <2>4. QED
      BY <2>1, <2>2, <2>3 DEF N!Sources
  <1>4. CASE N!Switch \/ N!Watch \/ (\E c \in Calls : N!CallReads(c) \/ N!CallAnswers(c)) \/ UNCHANGED N!lvars
    BY <1>4 DEF N!Switch, N!Watch, N!CallReads, N!CallAnswers, N!lvars
  <1>5. QED
    BY <1>1, <1>2, <1>3, <1>4 DEF N!LimitsNext

LEMMA PlanInitially ==
  ASSUME Window \in Nat \ {0}, N!LimitsInit
  PROVE  PlanInv
  BY DEF N!LimitsInit, PlanInv, N!None, N!Sources, Readings

\* Of some sources one is the newest
LEMMA NewestIs ==
  ASSUME PlanInv, NEW T \in SUBSET N!Sources, T # {}
  PROVE  /\ N!Newest(T) \in T
         /\ \A t \in T : readings[N!Newest(T)].updated_at >= readings[t].updated_at
  <1> DEFINE Above(s) == \A t \in T \ {s} :
               \/ readings[s].updated_at > readings[t].updated_at
               \/ /\ readings[s].updated_at = readings[t].updated_at
                  /\ N!Rank[s] < N!Rank[t]
  <1>1. \A s \in N!Sources : readings[s].updated_at \in Int
    BY DEF PlanInv, Readings
  <1>2. N!Rank["status"] = 1 /\ N!Rank["limitbar"] = 2 /\ N!Rank["desktop"] = 3
    BY DEF N!Rank
  <1>3. \E s \in T : Above(s)
    <2> DEFINE a == readings["status"].updated_at
               b == readings["limitbar"].updated_at
               c == readings["desktop"].updated_at
    <2>1. a \in Int /\ b \in Int /\ c \in Int
      BY <1>1 DEF N!Sources
    <2>2. CASE "status" \in T /\ ("limitbar" \in T => a >= b) /\ ("desktop" \in T => a >= c)
      <3>1. Above("status")
        BY <1>2, <2>1, <2>2 DEF N!Sources
      <3>2. QED
        BY <2>2, <3>1
    <2>3. CASE "limitbar" \in T /\ ("status" \in T => b > a) /\ ("desktop" \in T => b >= c)
      <3>1. Above("limitbar")
        BY <1>2, <2>1, <2>3 DEF N!Sources
      <3>2. QED
        BY <2>3, <3>1
    <2>4. CASE "desktop" \in T /\ ("status" \in T => c > a) /\ ("limitbar" \in T => c > b)
      <3>1. Above("desktop")
        BY <1>2, <2>1, <2>4 DEF N!Sources
      <3>2. QED
        BY <2>4, <3>1
    <2> HIDE DEF a, b, c
    <2>5. "status" \in T \/ "limitbar" \in T \/ "desktop" \in T
      BY DEF N!Sources
    <2>6. QED
      BY <2>1, <2>2, <2>3, <2>4, <2>5
  <1>4. N!Newest(T) \in T /\ Above(N!Newest(T))
    BY <1>3 DEF N!Newest
  <1>5. QED
    BY <1>1, <1>4

LEMMA WindowIs ==
  ASSUME PlanInv, NEW s \in N!Sources
  PROVE  /\ N!to_window(readings[s]) \in Readings
         /\ N!to_window(readings[s]).resets_at = 0 \/ N!to_window(readings[s]).resets_at > now
         /\ N!to_window(readings[s]).updated_at = readings[s].updated_at
         /\ N!to_window(readings[s]) # N!None <=> readings[s] # N!None
         /\ s # "desktop" /\ readings[s] # N!None => N!to_window(readings[s]).used <= plan.used
  <1>1. readings[s] \in Readings /\ now \in Nat \ {0} /\ plan.used \in Nat
    BY DEF PlanInv
  <1>2. CASE readings[s] # N!None /\ readings[s].resets_at # 0 /\ readings[s].resets_at <= now
    <2>1. N!to_window(readings[s]) = [used |-> 0, resets_at |-> 0, updated_at |-> readings[s].updated_at]
      <3> DEFINE r == readings[s]
      <3>1. N!to_window(r) = [r EXCEPT !.used = 0, !.resets_at = 0]
        BY <1>2 DEF N!to_window
      <3> HIDE DEF r
      <3>2. ASSUME r \in Readings
            PROVE  [r EXCEPT !.used = 0, !.resets_at = 0] = [used |-> 0, resets_at |-> 0, updated_at |-> r.updated_at]
        <4>1. r = [used |-> r.used, resets_at |-> r.resets_at, updated_at |-> r.updated_at]
          BY <3>2 DEF Readings
        <4>2. [r EXCEPT !.used = 0] = [used |-> 0, resets_at |-> r.resets_at, updated_at |-> r.updated_at]
          BY <4>1
        <4>3. [r EXCEPT !.used = 0, !.resets_at = 0] = [[r EXCEPT !.used = 0] EXCEPT !.resets_at = 0]
          OBVIOUS
        <4>4. [[used |-> 0, resets_at |-> r.resets_at, updated_at |-> r.updated_at] EXCEPT !.resets_at = 0]
                = [used |-> 0, resets_at |-> 0, updated_at |-> r.updated_at]
          OBVIOUS
        <4>5. QED
          BY <4>2, <4>3, <4>4, Zenon
      <3>3. QED
        BY <1>1, <3>1, <3>2 DEF r
    <2>2. /\ N!to_window(readings[s]) \in Readings /\ N!to_window(readings[s]).used = 0
          /\ N!to_window(readings[s]).resets_at = 0
          /\ N!to_window(readings[s]).updated_at = readings[s].updated_at
      BY <1>1, <2>1 DEF Readings
    <2>3. N!None.used = 0 - 1
      BY DEF N!None
    <2>4. N!to_window(readings[s]) # N!None
      BY <2>2, <2>3
    <2>5. N!to_window(readings[s]).used <= plan.used
      BY <1>1, <2>2
    <2>6. QED
      BY <1>2, <2>2, <2>4, <2>5
  <1>3. CASE ~(readings[s] # N!None /\ readings[s].resets_at # 0 /\ readings[s].resets_at <= now)
    <2>1. N!to_window(readings[s]) = readings[s]
      BY <1>3 DEF N!to_window
    <2>2. readings[s].resets_at \in Int /\ N!None.resets_at = 0
      BY <1>1 DEF Readings, N!None
    <2>3. readings[s].resets_at = 0 \/ readings[s].resets_at > now
      BY <1>1, <1>3, <2>2
    <2>4. s # "desktop" /\ readings[s] # N!None => readings[s].used <= plan.used
      BY <1>1, <1>3, <2>2 DEF PlanInv, N!Sources
    <2>5. QED
      BY <1>1, <2>1, <2>3, <2>4
  <1>4. QED
    BY <1>2, <1>3

\* What is shown is the newest source's reading, and its reset, if it names one, is ahead
LEMMA ShownIs ==
  ASSUME PlanInv, N!newest_limits # N!None
  PROVE  /\ N!newest_limits.resets_at = 0 \/ N!newest_limits.resets_at > now
         /\ \E s \in N!Sources :
              /\ readings[s] # N!None
              /\ N!newest_limits.updated_at = readings[s].updated_at
              /\ N!newest_limits.used = N!to_window(readings[s]).used
  <1> DEFINE read == [s \in N!Sources |-> N!to_window(readings[s])]
             there == {s \in N!Sources : read[s] # N!None}
             ahead == {s \in there : read[s].resets_at > now}
             newest == read[N!Newest(there)]
  <1>1. N!newest_limits = IF there = {} THEN N!None
                          ELSE IF newest.resets_at # 0 \/ ahead = {} THEN newest
                          ELSE [newest EXCEPT !.resets_at = read[N!Newest(ahead)].resets_at]
    BY DEF N!newest_limits
  <1>2. there # {} /\ there \in SUBSET N!Sources /\ ahead \in SUBSET N!Sources
    BY <1>1
  <1>3. N!Newest(there) \in there
    BY <1>2, NewestIs
  <1>4. PICK s \in N!Sources : s = N!Newest(there) /\ read[s] # N!None
    BY <1>3
  <1>5. newest = N!to_window(readings[s])
    BY <1>4
  <1>6. /\ newest \in Readings /\ newest.updated_at = readings[s].updated_at
        /\ newest.resets_at = 0 \/ newest.resets_at > now
        /\ readings[s] # N!None
    BY <1>4, <1>5, WindowIs
  <1>7. CASE newest.resets_at # 0 \/ ahead = {}
    <2>1. N!newest_limits = newest
      BY <1>1, <1>2, <1>7
    <2>2. QED
      BY <1>5, <1>6, <2>1
  <1>8. CASE ~(newest.resets_at # 0 \/ ahead = {})
    <2>1. N!newest_limits = [newest EXCEPT !.resets_at = read[N!Newest(ahead)].resets_at]
      BY <1>1, <1>2, <1>8
    <2>2. N!Newest(ahead) \in ahead
      BY <1>2, <1>8, NewestIs
    <2>3. read[N!Newest(ahead)].resets_at > now
      BY <2>2
    <2> HIDE DEF newest, ahead, read
    <2>4. /\ N!newest_limits.resets_at = read[N!Newest(ahead)].resets_at
          /\ N!newest_limits.updated_at = newest.updated_at /\ N!newest_limits.used = newest.used
      BY <1>6, <2>1 DEF Readings
    <2>5. QED
      BY <1>5, <1>6, <2>3, <2>4
  <1>9. QED
    BY <1>7, <1>8

\* What is said of the plan never names a reset that is behind, whichever of the sources is newest and whoever it
\* borrows one from (newest_limits)
THEOREM ResetsAhead ==
  ASSUME Window \in Nat \ {0}
  PROVE  N!LimitsSpec => []N!NoPastReset
  <1>1. PlanInv => N!NoPastReset
    <2> SUFFICES ASSUME PlanInv, N!newest_limits # N!None PROVE N!newest_limits.resets_at \notin 1..now
      BY DEF N!NoPastReset
    <2>1. now \in Nat
      BY DEF PlanInv
    <2>2. N!newest_limits.resets_at = 0 \/ N!newest_limits.resets_at > now
      BY ShownIs
    <2>3. QED
      BY <2>1, <2>2
  <1>2. QED
    BY <1>1, PlanInitially, PlanKept, PTL DEF N!LimitsSpec

\* A reading of a source that knows reset times never says more than the plan has used, over any number of windows:
\* one that is over counts as nothing used (to_window)
THEOREM NothingOverstated ==
  ASSUME Window \in Nat \ {0}
  PROVE  N!LimitsSpec => []N!NeverOverstated
  <1>1. PlanInv => N!NeverOverstated
    <2> SUFFICES ASSUME PlanInv, N!newest_limits # N!None, readings["desktop"].updated_at < N!newest_limits.updated_at
                 PROVE  N!newest_limits.used <= plan.used
      BY DEF N!NeverOverstated
    <2>1. PICK s \in N!Sources : /\ readings[s] # N!None
                                 /\ N!newest_limits.updated_at = readings[s].updated_at
                                 /\ N!newest_limits.used = N!to_window(readings[s]).used
      BY ShownIs
    <2>2. readings[s].updated_at \in Int
      BY DEF PlanInv, Readings
    <2>3. s # "desktop"
      BY <2>1, <2>2
    <2>4. QED
      BY <2>1, <2>3, WindowIs
  <1>2. QED
    BY <1>1, PlanInitially, PlanKept, PTL DEF N!LimitsSpec

-----------------------------------------------------------------------------
(* The usage cache                                                         *)

CONSTANTS Scans, Replies, MaxLines, MaxTurn, Larger
VARIABLES logs, archived, spent, cache, scan

U == INSTANCE Usage

Paths == {"claude", "sessions", "archived_sessions"}
Totals == [total : Nat, last : Nat]
Logs == [transcript : Seq(Replies), rollout : Seq(Totals)]
ScanFields == {"at", "cached", "todo", "files", "meta", "read", "least", "moved", "answer"}

\* The log is at this path, when its rollout is archived or not
FileAt(p, moved) ==
  p = "claude" \/ (p = "sessions" /\ ~moved) \/ (p = "archived_sessions" /\ moved)

\* Entries as old as the log or older: one as long as the log counts it
Counts(files, ls, moved) ==
  /\ DOMAIN files \subseteq Paths /\ ("archived_sessions" \in DOMAIN files => moved)
  /\ \A p \in DOMAIN files :
       /\ files[p].size \in Nat /\ files[p].size <= Len(ls[U!Log(p)])
       /\ FileAt(p, moved) /\ files[p].size = Len(ls[U!Log(p)])
          => files[p].tokens = U!Tokens(p, ls[U!Log(p)])

ScanInv(c, ls, moved) ==
  /\ DOMAIN c = ScanFields
  /\ Counts(c.cached, ls, moved) /\ Counts(c.files, ls, moved)
  /\ c.todo \subseteq Paths /\ ("archived_sessions" \in c.todo => moved)
  /\ c.at = "read" =>
       /\ c.meta.path \in Paths /\ (c.meta.path = "archived_sessions" => moved)
       /\ c.meta.size \in Nat /\ c.meta.size <= Len(ls[U!Log(c.meta.path)])

UsageInv ==
  /\ logs \in Logs /\ archived \in BOOLEAN /\ Counts(cache.files, logs, archived)
  /\ DOMAIN scan = Scans /\ \A s \in Scans : ScanInv(scan[s], logs, archived)

\* Logs only grow, and a rollout that is archived stays so
Grown(ls, moved, ls1, moved1) ==
  /\ \A l \in {"transcript", "rollout"} :
       /\ Len(ls[l]) \in Nat /\ Len(ls1[l]) \in Nat /\ Len(ls[l]) <= Len(ls1[l])
       /\ Len(ls[l]) = Len(ls1[l]) => ls[l] = ls1[l]
  /\ moved => moved1

LEMMA FilesAre ==
  ASSUME archived \in BOOLEAN, NEW p \in Paths
  PROVE  U!IsFile(p) <=> FileAt(p, archived)
  BY DEF U!IsFile, FileAt, Paths

\* What was counted of a log that grew has another length than the log
LEMMA CountsStay ==
  ASSUME NEW files, NEW ls, NEW moved \in BOOLEAN, NEW ls1, NEW moved1 \in BOOLEAN,
         Counts(files, ls, moved), Grown(ls, moved, ls1, moved1)
  PROVE  Counts(files, ls1, moved1)
  <1>1. SUFFICES ASSUME NEW p \in DOMAIN files
                 PROVE  /\ files[p].size \in Nat /\ files[p].size <= Len(ls1[U!Log(p)])
                        /\ FileAt(p, moved1) /\ files[p].size = Len(ls1[U!Log(p)])
                           => files[p].tokens = U!Tokens(p, ls1[U!Log(p)])
    BY DEF Counts, Grown
  <1> DEFINE l == U!Log(p)
  <1>2. l \in {"transcript", "rollout"}
    BY DEF U!Log
  <1>3. /\ p \in Paths /\ (p = "archived_sessions" => moved) /\ files[p].size \in Nat /\ files[p].size <= Len(ls[l])
        /\ FileAt(p, moved) /\ files[p].size = Len(ls[l]) => files[p].tokens = U!Tokens(p, ls[l])
    BY DEF Counts
  <1> HIDE DEF l
  <1>4. /\ Len(ls[l]) \in Nat /\ Len(ls1[l]) \in Nat /\ Len(ls[l]) <= Len(ls1[l])
        /\ Len(ls[l]) = Len(ls1[l]) => ls[l] = ls1[l]
    BY <1>2 DEF Grown
  <1>5. files[p].size <= Len(ls1[l])
    BY <1>3, <1>4
  <1>6. FileAt(p, moved1) => FileAt(p, moved)
    BY <1>3 DEF FileAt, Paths, Grown
  <1>7. files[p].size = Len(ls1[l]) => files[p].size = Len(ls[l]) /\ ls[l] = ls1[l]
    BY <1>3, <1>4
  <1>8. FileAt(p, moved1) /\ files[p].size = Len(ls1[l]) => files[p].tokens = U!Tokens(p, ls1[l])
    BY <1>3, <1>6, <1>7
  <1>9. QED
    BY <1>3, <1>5, <1>8 DEF l

LEMMA PutCounts ==
  ASSUME NEW files, NEW ls, NEW moved, NEW p \in Paths, NEW rows, Counts(files, ls, moved),
         p = "archived_sessions" => moved, rows.size \in Nat, rows.size <= Len(ls[U!Log(p)]),
         FileAt(p, moved) /\ rows.size = Len(ls[U!Log(p)]) => rows.tokens = U!Tokens(p, ls[U!Log(p)])
  PROVE  Counts(U!Put(files, p, rows), ls, moved)
  <1> DEFINE g == U!Put(files, p, rows)
  <1>1. /\ DOMAIN g = DOMAIN files \cup {p} /\ g[p] = rows
        /\ \A q \in DOMAIN files : q # p => g[q] = files[q]
    BY DEF U!Put
  <1> HIDE DEF g
  <1>2. DOMAIN g \subseteq Paths /\ ("archived_sessions" \in DOMAIN g => moved)
    BY <1>1 DEF Counts
  <1>3. ASSUME NEW q \in DOMAIN g
        PROVE  /\ g[q].size \in Nat /\ g[q].size <= Len(ls[U!Log(q)])
               /\ FileAt(q, moved) /\ g[q].size = Len(ls[U!Log(q)]) => g[q].tokens = U!Tokens(q, ls[U!Log(q)])
    <2>1. CASE q = p
      BY <1>1, <2>1
    <2>2. CASE q # p
      <3>1. q \in DOMAIN files /\ g[q] = files[q]
        BY <1>1, <2>2
      <3>2. QED
        BY <3>1 DEF Counts
    <2>3. QED
      BY <2>1, <2>2
  <1>4. Counts(g, ls, moved)
    BY <1>2, <1>3 DEF Counts
  <1>5. QED
    BY <1>4 DEF g

\* A scan that moves on by itself: the others and the logs stay
LEMMA ScanIs ==
  ASSUME UsageInv, NEW s \in Scans, NEW c, scan' = [scan EXCEPT ![s] = c], ScanInv(c, logs, archived),
         UNCHANGED <<logs, archived>>, Counts(cache'.files, logs, archived)
  PROVE  UsageInv'
  <1>1. DOMAIN scan' = Scans /\ \A t \in Scans : scan'[t] = IF t = s THEN c ELSE scan[t]
    BY DEF UsageInv
  <1>2. \A t \in Scans : ScanInv(scan'[t], logs, archived)
    BY <1>1 DEF UsageInv
  <1>3. QED
    BY <1>1, <1>2 DEF UsageInv

LEMMA NoFilesCount ==
  ASSUME NEW ls, NEW moved
  PROVE  Counts(U!NoFiles, ls, moved)
  BY DEF Counts, U!NoFiles

LEMMA LoadsKept ==
  ASSUME UsageInv, NEW s \in Scans, U!Load(s)
  PROVE  UsageInv'
  <1> DEFINE files == IF cache.whole THEN cache.files ELSE U!NoFiles
             todo == {p \in {"claude", "sessions"} : U!IsFile(p)}
             a == [U!Idle EXCEPT !.at = "list"]
             b == [a EXCEPT !.least = U!Real]
             c == [b EXCEPT !.cached = files]
             d == [c EXCEPT !.todo = todo]
  <1>1. scan' = [scan EXCEPT ![s] = d] /\ UNCHANGED <<logs, archived, cache>>
    BY DEF U!Load, U!Idle
  <1>2. todo \subseteq {"claude", "sessions"} /\ Counts(files, logs, archived)
    BY NoFilesCount DEF UsageInv
  <1> HIDE DEF files, todo
  <1>3. DOMAIN a = ScanFields /\ a.at = "list" /\ a.files = U!NoFiles
    BY DEF U!Idle, ScanFields
  <1> HIDE DEF a
  <1>4. DOMAIN b = ScanFields /\ b.at = "list" /\ b.files = U!NoFiles
    BY <1>3 DEF ScanFields
  <1> HIDE DEF b
  <1>5. DOMAIN c = ScanFields /\ c.at = "list" /\ c.files = U!NoFiles /\ c.cached = files
    BY <1>4 DEF ScanFields
  <1> HIDE DEF c
  <1>6. DOMAIN d = ScanFields /\ d.at = "list" /\ d.files = U!NoFiles /\ d.cached = files /\ d.todo = todo
    BY <1>5 DEF ScanFields
  <1> HIDE DEF d
  <1>7. ScanInv(d, logs, archived)
    BY <1>2, <1>6, NoFilesCount DEF ScanInv, Paths
  <1>8. QED
    BY <1>1, <1>7, ScanIs DEF UsageInv

LEMMA ListsKept ==
  ASSUME UsageInv, NEW s \in Scans, U!ListArchived(s)
  PROVE  UsageInv'
  <1> DEFINE more == {p \in {"archived_sessions"} : U!IsFile(p)}
             r == scan[s]
             a == [r EXCEPT !.at = "stat"]
             b == [a EXCEPT !.todo = r.todo \cup more]
  <1>1. ScanInv(r, logs, archived) /\ DOMAIN scan = Scans /\ archived \in BOOLEAN
    BY DEF UsageInv
  <1>2. /\ scan' = [scan EXCEPT ![s] = [[r EXCEPT !.at = "stat"] EXCEPT !.todo = @ \cup more]]
        /\ UNCHANGED <<logs, archived, cache>>
    BY <1>1 DEF U!ListArchived
  <1>3. more \subseteq {"archived_sessions"} /\ ("archived_sessions" \in more => archived)
    BY DEF U!IsFile
  <1> HIDE DEF more, r
  <1>4. /\ DOMAIN a = ScanFields /\ a.at = "stat" /\ a.files = r.files /\ a.cached = r.cached
        /\ a.todo = r.todo
    BY <1>1 DEF ScanInv, ScanFields
  <1>5. scan' = [scan EXCEPT ![s] = b]
    BY <1>2, <1>4
  <1> HIDE DEF a
  <1>6. /\ DOMAIN b = ScanFields /\ b.at = "stat" /\ b.files = r.files /\ b.cached = r.cached
        /\ b.todo = r.todo \cup more
    BY <1>4 DEF ScanFields
  <1> HIDE DEF b
  <1>7. ScanInv(b, logs, archived)
    BY <1>1, <1>3, <1>6 DEF ScanInv, Paths
  <1>8. QED
    BY <1>2, <1>5, <1>7, ScanIs DEF UsageInv

LEMMA FirstOf ==
  ASSUME NEW todo, todo \subseteq Paths, todo # {}
  PROVE  (CHOOSE q \in todo : \A o \in todo : U!Turn[q] <= U!Turn[o]) \in todo
  <1>1. U!Turn["claude"] = 1 /\ U!Turn["sessions"] = 2 /\ U!Turn["archived_sessions"] = 3
    BY DEF U!Turn
  <1>2. CASE "claude" \in todo
    <2>1. \A o \in todo : U!Turn["claude"] <= U!Turn[o]
      BY <1>1 DEF Paths
    <2>2. QED
      BY <1>2, <2>1
  <1>3. CASE "claude" \notin todo /\ "sessions" \in todo
    <2>1. \A o \in todo : U!Turn["sessions"] <= U!Turn[o]
      BY <1>1, <1>3 DEF Paths
    <2>2. QED
      BY <1>3, <2>1
  <1>4. CASE "claude" \notin todo /\ "sessions" \notin todo
    <2>1. todo = {"archived_sessions"}
      BY <1>4 DEF Paths
    <2>2. \A o \in todo : U!Turn["archived_sessions"] <= U!Turn[o]
      BY <1>1, <2>1
    <2>3. QED
      BY <2>1, <2>2
  <1>5. QED
    BY <1>2, <1>3, <1>4

LEMMA StatsKept ==
  ASSUME UsageInv, NEW s \in Scans, U!Stat(s)
  PROVE  UsageInv'
  <1> DEFINE r == scan[s]
             p == CHOOSE q \in r.todo : \A o \in r.todo : U!Turn[q] <= U!Turn[o]
             c == [r EXCEPT !.todo = @ \ {p}]
             known == p \in DOMAIN c.cached /\ c.cached[p].size = U!Meta(p).size
             m == U!Meta(p)
             a == [c EXCEPT !.meta = m]
             b == [a EXCEPT !.at = "read"]
             f == U!Put(c.files, p, c.cached[p])
             k == [c EXCEPT !.files = f]
  <1>1. /\ r.todo # {} /\ UNCHANGED <<logs, archived, cache>>
        /\ scan' = [scan EXCEPT ![s] =
             IF ~U!IsFile(p) THEN c
             ELSE IF known THEN [c EXCEPT !.files = U!Put(@, p, c.cached[p])]
             ELSE [c EXCEPT !.meta = U!Meta(p), !.at = "read"]]
    BY DEF U!Stat
  <1>2. /\ ScanInv(r, logs, archived) /\ logs \in Logs /\ archived \in BOOLEAN
        /\ Counts(cache.files, logs, archived)
    BY DEF UsageInv
  <1>3. r.todo \subseteq Paths
    BY <1>2 DEF ScanInv
  <1> HIDE DEF r
  <1>4. p \in r.todo
    BY <1>1, <1>3, FirstOf
  <1>5. /\ m.path = p /\ m.size = Len(logs[U!Log(p)])
    BY DEF U!Meta
  <1>6. Len(logs[U!Log(p)]) \in Nat
    BY <1>2 DEF Logs, U!Log
  <1> HIDE DEF m
  <1>7. scan' = [scan EXCEPT ![s] = IF ~U!IsFile(p) THEN c
                                   ELSE IF known THEN [c EXCEPT !.files = U!Put(@, p, c.cached[p])]
                                   ELSE [c EXCEPT !.meta = m, !.at = "read"]]
    BY <1>1 DEF m
  <1>8. p \in Paths /\ (p = "archived_sessions" => archived)
    BY <1>2, <1>4 DEF ScanInv
  <1>9. known => p \in DOMAIN c.cached /\ c.cached[p].size = m.size
    BY DEF m
  <1> HIDE DEF p, known
  <1>10. /\ DOMAIN c = ScanFields /\ c.at = r.at /\ c.files = r.files /\ c.cached = r.cached /\ c.meta = r.meta
         /\ c.todo = r.todo \ {p}
    BY <1>2 DEF ScanInv, ScanFields
  <1>11. ScanInv(c, logs, archived)
    <2> HIDE DEF c
    <2>1. QED
      BY <1>2, <1>10 DEF ScanInv
  <1>12. scan' = [scan EXCEPT ![s] = IF ~U!IsFile(p) THEN c ELSE IF known THEN k ELSE b]
    <2>1. [c EXCEPT !.files = U!Put(@, p, c.cached[p])] = k
      BY <1>10 DEF ScanFields
    <2>2. [c EXCEPT !.meta = m, !.at = "read"] = b
      OBVIOUS
    <2> HIDE DEF c, k, b
    <2>3. QED
      BY <1>7, <2>1, <2>2, Zenon
  <1> HIDE DEF c
  <1>13. CASE known
    <2>1. /\ c.cached[p].size \in Nat /\ c.cached[p].size <= Len(logs[U!Log(p)])
          /\ FileAt(p, archived) /\ c.cached[p].size = Len(logs[U!Log(p)])
             => c.cached[p].tokens = U!Tokens(p, logs[U!Log(p)])
      BY <1>9, <1>11, <1>13 DEF ScanInv, Counts
    <2>2. Counts(f, logs, archived)
      <3>1. Counts(c.files, logs, archived)
        BY <1>11 DEF ScanInv
      <3>2. QED
        BY <1>8, <2>1, <3>1, PutCounts
    <2> HIDE DEF f
    <2>3. /\ DOMAIN k = ScanFields /\ k.at = c.at /\ k.files = f /\ k.cached = c.cached /\ k.meta = c.meta
          /\ k.todo = c.todo
      BY <1>10 DEF ScanFields
    <2> HIDE DEF k
    <2>4. ScanInv(k, logs, archived)
      BY <1>11, <2>2, <2>3 DEF ScanInv
    <2>5. CASE U!IsFile(p)
      <3>1. scan' = [scan EXCEPT ![s] = k]
        BY <1>12, <1>13, <2>5
      <3>2. QED
        BY <1>1, <1>2, <2>4, <3>1, ScanIs
    <2>6. CASE ~U!IsFile(p)
      <3>1. scan' = [scan EXCEPT ![s] = c]
        BY <1>12, <2>6
      <3>2. QED
        BY <1>1, <1>2, <1>11, <3>1, ScanIs
    <2>7. QED
      BY <2>5, <2>6
  <1>14. CASE ~known
    <2>1. DOMAIN a = ScanFields /\ a.files = c.files /\ a.cached = c.cached /\ a.meta = m /\ a.todo = c.todo
      BY <1>10 DEF ScanFields
    <2> HIDE DEF a
    <2>2. /\ DOMAIN b = ScanFields /\ b.files = c.files /\ b.cached = c.cached /\ b.meta = m /\ b.todo = c.todo
      BY <2>1 DEF ScanFields
    <2> HIDE DEF b
    <2>3. ScanInv(b, logs, archived)
      BY <1>5, <1>6, <1>8, <1>11, <2>2 DEF ScanInv
    <2>4. CASE U!IsFile(p)
      <3>1. scan' = [scan EXCEPT ![s] = b]
        BY <1>12, <1>14, <2>4
      <3>2. QED
        BY <1>1, <1>2, <2>3, <3>1, ScanIs
    <2>5. CASE ~U!IsFile(p)
      <3>1. scan' = [scan EXCEPT ![s] = c]
        BY <1>12, <2>5
      <3>2. QED
        BY <1>1, <1>2, <1>11, <3>1, ScanIs
    <2>6. QED
      BY <2>4, <2>5
  <1>15. QED
    BY <1>13, <1>14

\* The lines that are read are those of the log as it is, under the size seen before
LEMMA ReadsKept ==
  ASSUME UsageInv, NEW s \in Scans, U!ReadLines(s)
  PROVE  UsageInv'
  <1> DEFINE r == scan[s]
             m == r.meta
             lines == IF U!IsFile(m.path) THEN logs[U!Log(m.path)] ELSE <<>>
             rows == [size |-> m.size, tokens |-> U!Tokens(m.path, lines)]
             f == U!Put(r.files, m.path, rows)
             a == [r EXCEPT !.at = "stat"]
             b == [a EXCEPT !.read = TRUE]
             c == [b EXCEPT !.files = f]
  <1>1. /\ r.at = "read" /\ UNCHANGED <<logs, archived, cache>> /\ DOMAIN scan = Scans
        /\ scan' = [scan EXCEPT ![s].at = "stat", ![s].read = TRUE, ![s].files = U!Put(@, m.path, rows)]
    BY DEF U!ReadLines, UsageInv
  <1>2. /\ ScanInv(r, logs, archived) /\ logs \in Logs /\ archived \in BOOLEAN
        /\ Counts(cache.files, logs, archived)
    BY DEF UsageInv
  <1>3. /\ m.path \in Paths /\ (m.path = "archived_sessions" => archived)
        /\ m.size \in Nat /\ m.size <= Len(logs[U!Log(m.path)])
    BY <1>1, <1>2 DEF ScanInv
  <1>4. FileAt(m.path, archived) => lines = logs[U!Log(m.path)]
    BY <1>2, <1>3, FilesAre
  <1>5. rows.size = m.size /\ rows.tokens = U!Tokens(m.path, lines)
    OBVIOUS
  <1> HIDE DEF lines
  <1> HIDE DEF rows
  <1>6. Counts(f, logs, archived)
    <2> HIDE DEF m, r
    <2>1. Counts(r.files, logs, archived)
      BY <1>2 DEF ScanInv
    <2>2. QED
      BY <1>3, <1>4, <1>5, <2>1, PutCounts
  <1>7. scan' = [scan EXCEPT ![s] = [[[r EXCEPT !.at = "stat"] EXCEPT !.read = TRUE]
                                       EXCEPT !.files = U!Put(@, m.path, rows)]]
    BY <1>1
  <1> HIDE DEF m, r
  <1>8. DOMAIN a = ScanFields /\ a.at = "stat" /\ a.files = r.files /\ a.cached = r.cached /\ a.todo = r.todo
    BY <1>2 DEF ScanInv, ScanFields
  <1>9. DOMAIN b = ScanFields /\ b.at = "stat" /\ b.files = r.files /\ b.cached = r.cached /\ b.todo = r.todo
    <2> HIDE DEF a
    <2>1. QED
      BY <1>8 DEF ScanFields
  <1>10. scan' = [scan EXCEPT ![s] = c]
    <2>1. scan' = [scan EXCEPT ![s] = [b EXCEPT !.files = U!Put(@, m.path, rows)]]
      BY <1>7
    <2> HIDE DEF b
    <2>2. [b EXCEPT !.files = U!Put(@, m.path, rows)] = c
      BY <1>9 DEF ScanFields
    <2>3. QED
      BY <2>1, <2>2, Zenon
  <1> HIDE DEF b, f
  <1>11. DOMAIN c = ScanFields /\ c.at = "stat" /\ c.files = f /\ c.cached = r.cached /\ c.todo = r.todo
    BY <1>9 DEF ScanFields
  <1> HIDE DEF c
  <1>12. ScanInv(c, logs, archived)
    BY <1>2, <1>6, <1>11 DEF ScanInv
  <1>13. QED
    BY <1>1, <1>2, <1>10, <1>12, ScanIs

\* A scan that ends, by the cache file as it was or written anew
LEMMA EndsScanKept ==
  ASSUME UsageInv, NEW s \in Scans, U!Unchanged(s) \/ U!TruncateCache(s) \/ U!WriteCache(s)
  PROVE  UsageInv'
  <1> DEFINE r == scan[s]
             a == [r EXCEPT !.at = "done"]
             b == [a EXCEPT !.answer = U!Counted(r.files)]
             w == [r EXCEPT !.at = "write"]
  <1>1. /\ ScanInv(r, logs, archived) /\ Counts(cache.files, logs, archived) /\ DOMAIN scan = Scans
        /\ Counts(r.files, logs, archived)
    BY DEF UsageInv, ScanInv
  <1>2. UNCHANGED <<logs, archived>>
    BY DEF U!Unchanged, U!TruncateCache, U!WriteCache
  <1>3. Counts(cache'.files, logs, archived)
    <2>1. \/ cache' = cache \/ cache' = [whole |-> FALSE, files |-> U!NoFiles]
          \/ cache' = [whole |-> TRUE, files |-> r.files]
      BY DEF U!Unchanged, U!TruncateCache, U!WriteCache
    <2> HIDE DEF r
    <2>2. cache' = cache \/ cache'.files = U!NoFiles \/ cache'.files = r.files
      BY <2>1
    <2>3. QED
      BY <1>1, <2>2, NoFilesCount
  <1>4. \/ scan' = [scan EXCEPT ![s] = b]
        \/ scan' = [scan EXCEPT ![s] = w]
    <2>1. CASE U!TruncateCache(s)
      BY <1>1, <2>1 DEF U!TruncateCache
    <2>2. CASE U!Unchanged(s) \/ U!WriteCache(s)
      <3>1. scan' = [scan EXCEPT ![s].at = "done", ![s].answer = U!Counted(r.files)]
        BY <2>2 DEF U!Unchanged, U!WriteCache
      <3>2. QED
        BY <1>1, <3>1
    <2>3. QED
      BY <2>1, <2>2
  <1> HIDE DEF r
  <1>5. ScanInv(w, logs, archived)
    <2>1. DOMAIN w = ScanFields /\ w.at = "write" /\ w.files = r.files /\ w.cached = r.cached /\ w.todo = r.todo
      BY <1>1 DEF ScanInv, ScanFields
    <2> HIDE DEF w
    <2>2. QED
      BY <1>1, <2>1 DEF ScanInv
  <1>6. ScanInv(b, logs, archived)
    <2>1. DOMAIN a = ScanFields /\ a.at = "done" /\ a.files = r.files /\ a.cached = r.cached /\ a.todo = r.todo
      BY <1>1 DEF ScanInv, ScanFields
    <2> HIDE DEF a
    <2>2. DOMAIN b = ScanFields /\ b.at = "done" /\ b.files = r.files /\ b.cached = r.cached /\ b.todo = r.todo
      BY <2>1 DEF ScanFields
    <2> HIDE DEF b
    <2>3. QED
      BY <1>1, <2>2 DEF ScanInv
  <1> HIDE DEF a, b, w
  <1>7. QED
    BY <1>2, <1>3, <1>4, <1>5, <1>6, ScanIs

LEMMA GrownKept ==
  ASSUME UsageInv, logs' \in Logs, archived' \in BOOLEAN, Grown(logs, archived, logs', archived'),
         cache' = cache, DOMAIN scan' = Scans,
         \A s \in Scans : \/ scan'[s] = scan[s]
                          \/ scan'[s] = [scan[s] EXCEPT !.moved = TRUE]
  PROVE  UsageInv'
  <1>1. Counts(cache'.files, logs', archived')
    BY CountsStay DEF UsageInv
  <1>2. ASSUME NEW s \in Scans
        PROVE  ScanInv(scan'[s], logs', archived')
    <2> DEFINE r == scan[s]
               n == scan'[s]
    <2>1. ScanInv(r, logs, archived) /\ archived \in BOOLEAN
      BY DEF UsageInv
    <2>2. n = r \/ n = [r EXCEPT !.moved = TRUE]
      OBVIOUS
    <2> HIDE DEF r, n
    <2>3. /\ DOMAIN n = ScanFields /\ n.at = r.at /\ n.files = r.files /\ n.cached = r.cached /\ n.todo = r.todo
          /\ n.meta = r.meta
      BY <2>1, <2>2 DEF ScanInv, ScanFields
    <2>4. Counts(n.files, logs', archived') /\ Counts(n.cached, logs', archived')
      BY <2>1, <2>3, CountsStay DEF ScanInv
    <2>5. n.todo \subseteq Paths /\ ("archived_sessions" \in n.todo => archived')
      BY <2>1, <2>3 DEF ScanInv, Grown
    <2>6. ASSUME n.at = "read"
          PROVE  /\ n.meta.path \in Paths /\ (n.meta.path = "archived_sessions" => archived')
                 /\ n.meta.size \in Nat /\ n.meta.size <= Len(logs'[U!Log(n.meta.path)])
      <3> DEFINE l == U!Log(n.meta.path)
      <3>1. /\ n.meta.path \in Paths /\ (n.meta.path = "archived_sessions" => archived)
            /\ n.meta.size \in Nat /\ n.meta.size <= Len(logs[l])
        BY <2>1, <2>3, <2>6 DEF ScanInv
      <3>2. l \in {"transcript", "rollout"}
        BY DEF U!Log
      <3> HIDE DEF l
      <3>3. /\ Len(logs[l]) \in Nat /\ Len(logs'[l]) \in Nat /\ Len(logs[l]) <= Len(logs'[l])
            /\ (archived => archived')
        BY <3>2 DEF Grown
      <3>4. n.meta.size <= Len(logs'[l])
        BY <3>1, <3>3
      <3>5. QED
        BY <3>1, <3>3, <3>4 DEF l
    <2>7. ScanInv(n, logs', archived')
      BY <2>3, <2>4, <2>5, <2>6 DEF ScanInv
    <2>8. QED
      BY <2>7 DEF n
  <1>3. QED
    BY <1>1, <1>2 DEF UsageInv

\* A line more in a log
LEMMA WrittenKept ==
  ASSUME UsageInv, NEW l \in {"transcript", "rollout"}, NEW line,
         l = "transcript" => line \in Replies, l = "rollout" => line \in Totals, U!Written(l, line)
  PROVE  UsageInv'
  <1>1. /\ logs \in Logs /\ archived \in BOOLEAN /\ DOMAIN scan = Scans
        /\ logs' = [logs EXCEPT ![l] = Append(logs[l], line)] /\ UNCHANGED <<archived, cache, scan>>
    BY DEF UsageInv, U!Written, Logs
  <1>2. logs' \in Logs
    <2>1. logs.transcript \in Seq(Replies) /\ logs.rollout \in Seq(Totals)
      BY <1>1 DEF Logs
    <2>2. CASE l = "transcript"
      <3>1. Append(logs.transcript, line) \in Seq(Replies)
        BY <2>1, <2>2
      <3>2. QED
        BY <1>1, <2>1, <2>2, <3>1 DEF Logs
    <2>3. CASE l = "rollout"
      <3>1. Append(logs.rollout, line) \in Seq(Totals)
        BY <2>1, <2>3
      <3>2. QED
        BY <1>1, <2>1, <2>3, <3>1 DEF Logs
    <2>4. QED
      BY <2>2, <2>3
  <1>3. Grown(logs, archived, logs', archived')
    <2>1. \A k \in {"transcript", "rollout"} : Len(logs[k]) \in Nat
      BY <1>1 DEF Logs
    <2>2. Len(logs'[l]) = Len(logs[l]) + 1
      <3>1. logs'[l] = Append(logs[l], line)
        BY <1>1 DEF Logs
      <3>2. logs[l] \in Seq(Replies) \/ logs[l] \in Seq(Totals)
        BY <1>1 DEF Logs
      <3>3. CASE l = "transcript"
        BY <1>1, <3>1, <3>3 DEF Logs
      <3>4. CASE l = "rollout"
        BY <1>1, <3>1, <3>4 DEF Logs
      <3>5. QED
        BY <3>3, <3>4
    <2>3. \A k \in {"transcript", "rollout"} : k # l => logs'[k] = logs[k]
      BY <1>1 DEF Logs
    <2>4. QED
      BY <1>1, <2>1, <2>2, <2>3 DEF Grown
  <1>4. QED
    BY <1>1, <1>2, <1>3, GrownKept

LEMMA WritesKept ==
  ASSUME UsageInv, MaxTurn \in Nat, U!ClaudeWrites \/ U!CodexTurn \/ U!CodexRepeats
  PROVE  UsageInv'
  <1>1. CASE U!ClaudeWrites
    BY <1>1, WrittenKept DEF U!ClaudeWrites
  <1>2. logs.rollout \in Seq(Totals)
    BY DEF UsageInv, Logs
  <1>3. CASE U!CodexTurn
    <2>1. U!codex_usage(logs.rollout) \in Nat
      <3>1. CASE logs.rollout = <<>>
        BY <3>1 DEF U!codex_usage
      <3>2. CASE logs.rollout # <<>>
        <4>1. U!Last(logs.rollout) \in Totals
          BY <1>2, <3>2 DEF U!Last
        <4>2. U!Last(logs.rollout).total \in Nat
          BY <4>1 DEF Totals
        <4>3. QED
          BY <3>2, <4>2 DEF U!codex_usage
      <3>3. QED
        BY <3>1, <3>2
    <2> DEFINE before == U!codex_usage(logs.rollout)
    <2>2. PICK n \in 1..MaxTurn : \/ U!Written("rollout", [total |-> before + n, last |-> n])
                                  \/ U!Written("rollout", [total |-> n, last |-> n])
      BY <1>3 DEF U!CodexTurn
    <2> HIDE DEF before
    <2>3. [total |-> before + n, last |-> n] \in Totals /\ [total |-> n, last |-> n] \in Totals
      BY <2>1, <2>2 DEF Totals, before
    <2>4. QED
      BY <2>2, <2>3, WrittenKept
  <1>4. CASE U!CodexRepeats
    <2>1. U!Written("rollout", U!Last(logs.rollout)) /\ logs.rollout # <<>>
      BY <1>4 DEF U!CodexRepeats
    <2>2. U!Last(logs.rollout) \in Totals
      BY <1>2, <2>1 DEF U!Last
    <2>3. QED
      BY <2>1, <2>2, WrittenKept
  <1>5. QED
    BY <1>1, <1>3, <1>4

LEMMA ArchiveKept ==
  ASSUME UsageInv, U!Archive
  PROVE  UsageInv'
  <1>1. /\ logs \in Logs /\ UNCHANGED <<logs, cache>> /\ archived' = TRUE
        /\ DOMAIN scan' = Scans
        /\ \A s \in Scans : scan'[s] = scan[s] \/ scan'[s] = [scan[s] EXCEPT !.moved = TRUE]
    BY DEF U!Archive, UsageInv
  <1>2. Grown(logs, archived, logs', archived')
    BY <1>1 DEF Grown, Logs
  <1>3. QED
    BY <1>1, <1>2, GrownKept

LEMMA UsageInitially ==
  ASSUME U!UsageInit
  PROVE  UsageInv
  <1>1. /\ logs = [transcript |-> <<>>, rollout |-> <<>>] /\ archived = FALSE
        /\ cache.files = U!NoFiles /\ scan = [s \in Scans |-> U!Idle]
    BY DEF U!UsageInit
  <1>2. logs \in Logs
    BY <1>1 DEF Logs
  <1>3. ScanInv(U!Idle, logs, archived)
    <2>1. /\ DOMAIN U!Idle = ScanFields /\ U!Idle.at = "idle" /\ U!Idle.cached = U!NoFiles
          /\ U!Idle.files = U!NoFiles /\ U!Idle.todo = {}
      BY DEF U!Idle, ScanFields
    <2>2. QED
      BY <2>1, NoFilesCount DEF ScanInv
  <1>4. QED
    BY <1>1, <1>2, <1>3, NoFilesCount DEF UsageInv

LEMMA UsageKept ==
  ASSUME UsageInv, MaxTurn \in Nat, [U!UsageNext]_(U!uvars)
  PROVE  UsageInv'
  <1>1. CASE UNCHANGED U!uvars
    BY <1>1 DEF U!uvars, UsageInv
  <1>2. CASE U!ClaudeWrites \/ U!CodexTurn \/ U!CodexRepeats \/ U!Archive
    BY <1>2, WritesKept, ArchiveKept
  <1>3. ASSUME NEW s \in Scans, U!Load(s) \/ U!ListArchived(s) \/ U!Stat(s) \/ U!ReadLines(s)
        PROVE  UsageInv'
    BY <1>3, LoadsKept, ListsKept, StatsKept, ReadsKept
  <1>4. ASSUME NEW s \in Scans, U!Unchanged(s) \/ U!TruncateCache(s) \/ U!WriteCache(s)
        PROVE  UsageInv'
    BY <1>4, EndsScanKept
  <1>5. QED
    BY <1>1, <1>2, <1>3, <1>4 DEF U!UsageNext, U!UsageDone

(* "Logs are read again only when their size or time changed": an entry of  *)
(* the cache file that passes for the log as it is counts that log exactly, *)
(* for any number of scans that share the file, though logs grow and move   *)
(* while they are read.                                                      *)
THEOREM CacheCounts ==
  ASSUME MaxTurn \in Nat
  PROVE  U!UsageSpec => []U!CacheIsTrue
  <1>1. UsageInv => U!CacheIsTrue
    <2>1. SUFFICES ASSUME UsageInv, NEW p \in DOMAIN cache.files, U!IsFile(p),
                          cache.files[p].size = U!Meta(p).size
                   PROVE  cache.files[p].tokens = U!Tokens(p, logs[U!Log(p)])
      BY DEF U!CacheIsTrue
    <2>2. Counts(cache.files, logs, archived) /\ archived \in BOOLEAN
      BY <2>1 DEF UsageInv
    <2>3. p \in Paths /\ FileAt(p, archived)
      BY <2>1, <2>2, FilesAre DEF Counts
    <2>4. QED
      BY <2>1, <2>2, <2>3 DEF Counts, U!Meta
  <1>2. QED
    BY <1>1, UsageInitially, UsageKept, PTL DEF U!UsageSpec

=============================================================================
