--------------------------- MODULE PtyStreamProofs ---------------------------
(***************************************************************************)
(* What PtyStream guarantees for every set of viewers, every pair of water *)
(* marks, every frame size and any number of restarts: what one viewer has *)
(* unacked, when the reader waits, and what a viewer is shown. No byte     *)
(* reaches it twice, what it shows is the output as long as no output was  *)
(* left out between queued chunks, and its acks bring it back when it      *)
(* lags.                                                                   *)
(***************************************************************************)
EXTENDS PtyStream, SequenceTheorems, FunctionTheorems, FiniteSetTheorems, TLAPS

-----------------------------------------------------------------------------
(* The operators of flush *)

\* What flush sends a viewer is a number of bytes it was not shown yet
LEMMA SentType ==
  ASSUME TypeOK, NEW v \in Viewers
  PROVE  /\ Skip(v) \in Nat
         /\ Room(v) \in Nat
         /\ Sent(v) \in Nat
         /\ Sent(v) # 0 => Skip(v) + Sent(v) <= Len(pbytes)
         /\ Sent(v) <= Room(v)
  <1>1. /\ pseq \in Nat /\ pbytes \in Seq(Nat)
        /\ from[v] \in Nat /\ unacked[v] \in Nat
    BY DEF TypeOK
  <1>2. Skip(v) \in Nat
    BY <1>1 DEF Skip
  <1>3. Room(v) \in Nat
    <2> DEFINE d == HighWater - unacked[v]
    <2>1. CASE unacked[v] > HighWater
      BY <2>1 DEF Room
    <2>2. CASE ~(unacked[v] > HighWater)
      <3>1. d \in Nat
        BY <1>1, <2>2, WaterAssumption
      <3>2. (d \div MaxFrame) + 1 \in Nat
        BY <3>1, WaterAssumption
      <3>3. MaxFrame * ((d \div MaxFrame) + 1) \in Nat
        <4> HIDE DEF d
        <4>1. \A a, b \in Nat : a * b \in Nat
          OBVIOUS
        <4>2. QED
          BY <3>2, <4>1, WaterAssumption
      <3>4. QED
        BY <2>2, <3>3 DEF Room
    <2>3. QED
      BY <2>1, <2>2
  <1>4. Len(pbytes) \in Nat
    BY <1>1
  <1>5. QED
    BY <1>2, <1>3, <1>4 DEF Sent, Wants

\* Only a viewer under HIGH_WATER is sent anything, and at most one frame past
LEMMA SentBound ==
  ASSUME TypeOK, NEW v \in Viewers
  PROVE  /\ Sent(v) # 0 => v \in attached
         /\ \/ Sent(v) = 0
            \/ unacked[v] + Sent(v) <= HighWater + MaxFrame
  <1>1. unacked[v] \in Nat
    BY DEF TypeOK
  <1>2. ASSUME unacked[v] <= HighWater
        PROVE  unacked[v] + Room(v) <= HighWater + MaxFrame
    <2> DEFINE d == HighWater - unacked[v]
    <2>1. d \in Nat
      BY <1>1, <1>2, WaterAssumption
    <2>2. MaxFrame * (d \div MaxFrame) <= d
      BY <2>1, WaterAssumption
    <2>3. d \div MaxFrame \in Nat
      BY <2>1, WaterAssumption
    <2>4. MaxFrame * ((d \div MaxFrame) + 1) = MaxFrame * (d \div MaxFrame) + MaxFrame
      BY <2>3, WaterAssumption
    <2>5. Room(v) = MaxFrame * ((d \div MaxFrame) + 1)
      BY <1>1, <1>2, WaterAssumption DEF Room
    <2>6. QED
      BY <2>1, <2>2, <2>3, <2>4, <2>5, <1>1, WaterAssumption
  <1>3. unacked[v] > HighWater => Room(v) = 0
    BY DEF Room
  <1>4. QED
    BY <1>1, <1>2, <1>3, SentType, WaterAssumption DEF Sent, Wants

\* flush keeps the types of what it changes
LEMMA FlushType ==
  ASSUME TypeOK, Flush
  PROVE  /\ pseq' \in Nat
         /\ pbytes' \in Seq(Nat)
         /\ attached' \in SUBSET Viewers
         /\ from' \in [Viewers -> Nat]
         /\ unacked' \in [Viewers -> Nat]
         /\ lagging' \in [Viewers -> BOOLEAN]
         /\ stuck' \in [Viewers -> BOOLEAN]
         /\ resyncing' \in [Viewers -> BOOLEAN]
         /\ outbox' \in [Viewers -> Seq(Messages)]
  <1>1. pseq' \in Nat /\ pbytes' \in Seq(Nat)
    BY DEF Flush, TypeOK
  <1>2. unacked' \in [Viewers -> Nat]
    <2>1. \A v \in Viewers : unacked[v] + Sent(v) \in Nat
      BY SentType DEF TypeOK
    <2>2. QED
      BY <2>1 DEF Flush
  <1>3. /\ lagging' \in [Viewers -> BOOLEAN]
        /\ stuck' \in [Viewers -> BOOLEAN]
    BY DEF Flush, TypeOK, FellBehind
  <1>4. outbox' \in [Viewers -> Seq(Messages)]
    <2>1. ASSUME NEW v \in Viewers
          PROVE  outbox'[v] \in Seq(Messages)
      <3>1. CASE Sent(v) = 0
        BY <3>1 DEF Flush, TypeOK
      <3>2. CASE Sent(v) # 0
        <4> DEFINE b == SubSeq(pbytes, Skip(v) + 1, Skip(v) + Sent(v))
        <4>a. pseq \in Nat
          BY DEF TypeOK
        <4>b. Skip(v) \in Nat
          BY SentType
        <4>1. pseq + Skip(v) \in Nat
          BY <4>a, <4>b
        <4>2. b \in Seq(Nat)
          <5>1. Skip(v) \in Nat /\ Sent(v) \in Nat
            BY SentType
          <5>2. Skip(v) + Sent(v) <= Len(pbytes)
            BY <3>2, SentType
          <5>3. \A i \in 1..Len(pbytes) : pbytes[i] \in Nat
            BY DEF TypeOK
          <5>4. Len(pbytes) \in Nat
            BY DEF TypeOK
          <5>5. \A i \in (Skip(v) + 1)..(Skip(v) + Sent(v)) : pbytes[i] \in Nat
            BY <5>1, <5>2, <5>3, <5>4
          <5>6. QED
            BY <5>1, <5>5, SubSeqProperties
        <4>3. Frames(pseq + Skip(v), b) \in Messages
          BY <4>1, <4>2 DEF Frames, Messages
        <4>4. outbox'[v] = Append(outbox[v], Frames(pseq + Skip(v), b))
          BY <3>2 DEF Flush
        <4>5. QED
          BY <4>3, <4>4 DEF TypeOK
      <3>3. QED
        BY <3>1, <3>2
    <2>2. QED
      BY <2>1 DEF Flush
  <1>5. QED
    BY <1>1, <1>2, <1>3, <1>4 DEF Flush, TypeOK

\* Taking a chunk off the queue keeps the types
LEMMA ChunkType ==
  ASSUME TypeOK, tx # <<>>
  PROVE  /\ Head(tx) \in Chunks
         /\ Tail(tx) \in Seq(Chunks)
         /\ AbsorbedSeq(pseq, pbytes, Head(tx)) \in Nat
         /\ AbsorbedBytes(pbytes, Head(tx)) \in Seq(Nat)
  <1>1. Head(tx) \in Chunks /\ Tail(tx) \in Seq(Chunks)
    BY DEF TypeOK
  <1>2. Head(tx).seq \in Nat /\ Head(tx).len \in Nat
    BY <1>1 DEF Chunks
  <1>3. AbsorbedSeq(pseq, pbytes, Head(tx)) \in Nat
    BY <1>2 DEF AbsorbedSeq, TypeOK
  <1>4. Span(Head(tx).seq, Head(tx).len) \in Seq(Nat)
    BY <1>2 DEF Span
  <1>5. QED
    BY <1>1, <1>3, <1>4 DEF AbsorbedBytes, TypeOK

-----------------------------------------------------------------------------
(* Type correctness *)

LEMMA TypeInit == Init => TypeOK
  <1> SUFFICES ASSUME Init PROVE TypeOK
    OBVIOUS
  <1>1. tx \in Seq(Chunks) /\ pbytes \in Seq(Nat)
    BY DEF Init
  <1>2. outbox \in [Viewers -> Seq(Messages)]
    BY DEF Init
  <1>3. QED
    BY <1>1, <1>2 DEF Init, TypeOK

\* Every step keeps the types
LEMMA TypeStep == TypeOK /\ [Next]_vars => TypeOK'
  <1> SUFFICES ASSUME TypeOK, [Next]_vars PROVE TypeOK'
    OBVIOUS
  <1> USE DEF flowVars, viewVars
  <1>1. CASE WaitForCredit
    BY <1>1 DEF WaitForCredit, TypeOK
  <1>2. ASSUME NEW n \in 1..MaxSeq, Ingest(n) PROVE TypeOK'
    <2>1. Data(seq, n) \in Chunks
      BY WaterAssumption DEF Data, Chunks, TypeOK
    <2>2. tx' \in Seq(Chunks)
      BY <1>2, <2>1 DEF Ingest, Parse, TypeOK
    <2>3. seq' \in Nat
      BY <1>2, WaterAssumption DEF Ingest, Parse, TypeOK
    <2>4. QED
      BY <1>2, <2>2, <2>3 DEF Ingest, Parse, TypeOK
  <1>3. CASE ReadEnd
    <2>1. Exit \in Chunks
      BY DEF Exit, Chunks
    <2>2. tx' \in Seq(Chunks)
      BY <1>3, <2>1 DEF ReadEnd, TypeOK
    <2>3. QED
      BY <1>3, <2>2 DEF ReadEnd, TypeOK
  <1>4. CASE Absorb
    BY <1>4, ChunkType DEF Absorb, TypeOK
  <1>5. CASE Drained
    BY <1>5 DEF Drained, TypeOK
  <1>6. CASE FlushFirst
    BY <1>6, FlushType DEF FlushFirst, TypeOK
  <1>7. CASE AbsorbInWindow
    BY <1>7, ChunkType DEF AbsorbInWindow, TypeOK
  <1>8. CASE WindowEnd
    BY <1>8, FlushType DEF WindowEnd, TypeOK
  <1>9. CASE ExitReceived
    BY <1>9, FlushType, ChunkType DEF ExitReceived, TypeOK
  <1>10. CASE Signal
    BY <1>10 DEF Signal, Notified, TypeOK
  <1>11. CASE Restart
    <2>1. Data(seq, ResetLen) \in Chunks
      BY WaterAssumption DEF Data, Chunks, TypeOK
    <2>2. tx' \in Seq(Chunks)
      BY <1>11, <2>1 DEF Restart, Parse, TypeOK
    <2>3. seq' \in Nat /\ restarts' \in Nat
      BY <1>11, WaterAssumption DEF Restart, Parse, TypeOK
    <2>4. QED
      BY <1>11, <2>2, <2>3 DEF Restart, Parse, TypeOK
  <1>12. ASSUME NEW v \in Viewers, Viewer(v) PROVE TypeOK'
    <2>1. Snapshot(seq) \in Messages
      BY DEF Snapshot, Messages, TypeOK
    <2>2. CASE Attach(v)
      <3>1. outbox' \in [Viewers -> Seq(Messages)]
        BY <2>1, <2>2 DEF Attach, TypeOK
      <3>2. QED
        BY <2>2, <3>1 DEF Attach, Notified, TypeOK
    <2>3. CASE Detach(v)
      BY <2>3 DEF Detach, Forget, Notified, TypeOK
    <2>4. CASE Disconnect(v)
      BY <2>4 DEF Disconnect, Forget, Notified, TypeOK
    <2>5. CASE Resync(v)
      <3>1. outbox' \in [Viewers -> Seq(Messages)]
        BY <2>1, <2>5 DEF Resync, TypeOK
      <3>2. QED
        BY <2>5, <3>1 DEF Resync, TypeOK
    <2>6. CASE StuckTimeout(v)
      BY <2>6 DEF StuckTimeout, TypeOK
    <2>7. CASE Deliver(v)
      <3> DEFINE m == Head(outbox[v])
      <3>1. m \in Messages /\ Tail(outbox[v]) \in Seq(Messages)
        BY <2>7 DEF Deliver, TypeOK
      <3>2. m.seq \in Nat /\ Len(m.bytes) \in Nat
        BY <3>1 DEF Messages
      <3>3. outbox' \in [Viewers -> Seq(Messages)]
        BY <2>7, <3>1 DEF Deliver, TypeOK
      <3>4. /\ base' \in [Viewers -> Nat]
            /\ shown' \in [Viewers -> Nat]
            /\ owed' \in [Viewers -> Nat]
        <4> HIDE DEF m
        <4>1. CASE m.snap
          BY <2>7, <3>2, <4>1 DEF Deliver, TypeOK, m
        <4>2. CASE ~m.snap
          <5>1. /\ base' = base
                /\ shown' = [shown EXCEPT ![v] = m.seq + Len(m.bytes)]
                /\ owed' = [owed EXCEPT ![v] = @ + Len(m.bytes)]
            BY <2>7, <4>2 DEF Deliver, m
          <5>2. PICK k \in Nat, l \in Nat : k = m.seq /\ l = Len(m.bytes)
            BY <3>2
          <5>3. /\ base \in [Viewers -> Nat]
                /\ shown \in [Viewers -> Nat]
                /\ owed \in [Viewers -> Nat]
            BY DEF TypeOK
          <5>4. shown' = [shown EXCEPT ![v] = k + l]
            BY <5>1, <5>2
          <5>5. owed' = [owed EXCEPT ![v] = @ + l]
            BY <5>1, <5>2
          <5>6. QED
            BY <5>1, <5>3, <5>4, <5>5
        <4>3. QED
          BY <4>1, <4>2
      <3>5. garbled' \in [Viewers -> BOOLEAN]
        <4>1. PICK g \in BOOLEAN : garbled' = [garbled EXCEPT ![v] = g]
          BY <2>7, Zenon DEF Deliver
        <4>2. QED
          BY <4>1 DEF TypeOK
      <3>6. QED
        BY <2>7, <3>3, <3>4, <3>5 DEF Deliver, TypeOK
    <2>8. ASSUME NEW n \in 1..owed[v], Ack(v, n) PROVE TypeOK'
      <3>1. Left(v, n) \in Nat
        BY <2>8 DEF Left, TypeOK
      <3>2. Recovers(v, n) \in BOOLEAN
        BY DEF Recovers, TypeOK
      <3>3. owed' \in [Viewers -> Nat]
        BY <2>8 DEF Ack, TypeOK
      <3>4. /\ unacked' \in [Viewers -> Nat]
            /\ stuck' \in [Viewers -> BOOLEAN]
            /\ resyncing' \in [Viewers -> BOOLEAN]
        BY <2>8, <3>1, <3>2, Zenon DEF Ack, TypeOK
      <3>5. reader' \in {"credit", "wait", "read", "done"}
        BY <2>8 DEF Ack, Notified, TypeOK
      <3>6. QED
        BY <2>8, <3>3, <3>4, <3>5 DEF Ack, TypeOK
    <2>9. QED
      BY <1>12, <2>2, <2>3, <2>4, <2>5, <2>6, <2>7, <2>8 DEF Viewer
  <1>13. CASE UNCHANGED vars
    BY <1>13 DEF vars, TypeOK
  <1>14. QED
    BY <1>1, <1>2, <1>3, <1>4, <1>5, <1>6, <1>7, <1>8, <1>9, <1>10, <1>11,
       <1>12, <1>13 DEF Next, Reader, Coalesce

\* The state of PtyStream keeps its types (session.rs: the unsigned unacked and
\* seq counters never go below zero) whatever the constants
THEOREM TypeCorrect == Spec => []TypeOK
  BY TypeInit, TypeStep, PTL DEF Spec

-----------------------------------------------------------------------------
(* The flow control bound *)

LEMMA FlushBound ==
  ASSUME TypeOK, UnackedBounded, Flush
  PROVE  UnackedBounded'
  <1>1. ASSUME NEW v \in Viewers
        PROVE  unacked'[v] <= HighWater + MaxFrame
    <2>1. unacked'[v] = unacked[v] + Sent(v)
      BY DEF Flush
    <2>2. unacked[v] \in Nat /\ Sent(v) \in Nat
      BY SentType DEF TypeOK
    <2>3. QED
      BY <2>1, <2>2, SentBound DEF UnackedBounded
  <1>2. QED
    BY <1>1 DEF UnackedBounded

\* No viewer is ever owed acks for more than HIGH_WATER and one frame
\* (session.rs flush, ack, attach), for every number of viewers, every pair of
\* water marks and every frame size: an ack or an attach only lowers the count,
\* and flush stops before the frame that would pass the bound
THEOREM FlowBounded == Spec => []UnackedBounded
  <1>1. Init => UnackedBounded
    BY WaterAssumption DEF Init, UnackedBounded
  <1>2. TypeOK /\ UnackedBounded /\ [Next]_vars => UnackedBounded'
    <2> SUFFICES ASSUME TypeOK, UnackedBounded, [Next]_vars
                 PROVE  UnackedBounded'
      OBVIOUS
    <2> USE DEF flowVars
    <2>1. CASE FlushFirst \/ WindowEnd \/ ExitReceived
      BY <2>1, FlushBound DEF FlushFirst, WindowEnd, ExitReceived
    <2>2. CASE Reader \/ Absorb \/ Drained \/ AbsorbInWindow \/ Signal
               \/ Restart \/ UNCHANGED vars
      BY <2>2 DEF Reader, WaitForCredit, Ingest, ReadEnd, Absorb, Drained,
                  AbsorbInWindow, Signal, Restart, vars, UnackedBounded
    <2>3. ASSUME NEW v \in Viewers, Viewer(v) PROVE UnackedBounded'
      <3>1. CASE Attach(v) \/ Detach(v) \/ Disconnect(v)
        <4>1. unacked' = [unacked EXCEPT ![v] = 0]
          BY <3>1 DEF Attach, Detach, Disconnect, Forget
        <4>2. QED
          BY <4>1, WaterAssumption DEF UnackedBounded, TypeOK
      <3>2. CASE Resync(v) \/ StuckTimeout(v) \/ Deliver(v)
        BY <3>2 DEF Resync, StuckTimeout, Deliver, UnackedBounded
      <3>3. ASSUME NEW n \in 1..owed[v], Ack(v, n) PROVE UnackedBounded'
        <4>1. Left(v, n) \in Nat /\ Left(v, n) <= unacked[v]
          BY DEF Left, TypeOK
        <4>2. unacked' = unacked \/ unacked' = [unacked EXCEPT ![v] = Left(v, n)]
          BY <3>3 DEF Ack
        <4>3. unacked \in [Viewers -> Nat]
          BY DEF TypeOK
        <4>4. ASSUME NEW w \in Viewers
              PROVE  unacked'[w] <= HighWater + MaxFrame
          <5>1. unacked[w] \in Nat /\ unacked[w] <= HighWater + MaxFrame
            BY <4>3 DEF UnackedBounded
          <5>2. unacked'[w] = unacked[w] \/ (w = v /\ unacked'[w] = Left(v, n))
            BY <4>2, <4>3
          <5>3. QED
            BY <4>1, <5>1, <5>2, WaterAssumption
        <4>5. QED
          BY <4>4 DEF UnackedBounded
      <3>4. QED
        BY <2>3, <3>1, <3>2, <3>3 DEF Viewer
    <2>4. QED
      BY <2>1, <2>2, <2>3 DEF Next, Coalesce
  <1>3. QED
    BY <1>1, <1>2, TypeCorrect, PTL DEF Spec

-----------------------------------------------------------------------------
(* No lost wakeup *)

\* Between the two halves of an ack the viewer is attached and lagging, and it
\* just made progress, so it is not the one the reader waits for
ResyncingIsFresh ==
  \A v \in Viewers : resyncing[v] => v \in attached /\ lagging[v] /\ ~stuck[v]

WakeupInv == TypeOK /\ ResyncingIsFresh /\ WaitsOnlyForStuck

LEMMA FlushKeepsStuck ==
  ASSUME TypeOK, Flush
  PROVE  /\ StuckViewer => StuckViewer'
         /\ ResyncingIsFresh => ResyncingIsFresh'
  <1>1. \A v \in Viewers : lagging[v] => ~FellBehind(v)
    BY DEF FellBehind, Wants
  <1>2. \A v \in Viewers : lagging[v] => lagging'[v] /\ (stuck'[v] = stuck[v])
    BY <1>1 DEF Flush, TypeOK
  <1>3. attached' = attached /\ resyncing' = resyncing /\ attached \subseteq Viewers
    BY DEF Flush, TypeOK
  <1>4. StuckViewer => StuckViewer'
    BY <1>2, <1>3 DEF StuckViewer
  <1>5. ResyncingIsFresh => ResyncingIsFresh'
    BY <1>2, <1>3 DEF ResyncingIsFresh
  <1>6. QED
    BY <1>4, <1>5

LEMMA WakeupStep ==
  ASSUME ~SlowResync
  PROVE  WakeupInv /\ [Next]_vars => WakeupInv'
  <1> SUFFICES ASSUME WakeupInv, [Next]_vars PROVE WakeupInv'
    OBVIOUS
  <1>0. TypeOK /\ TypeOK'
    BY TypeStep DEF WakeupInv
  <1> USE DEF flowVars
  <1> SUFFICES ResyncingIsFresh' /\ WaitsOnlyForStuck'
    BY <1>0 DEF WakeupInv
  <1>a. ResyncingIsFresh /\ WaitsOnlyForStuck
    BY DEF WakeupInv
  <1>1. CASE Reader
    BY <1>1, <1>a DEF Reader, WaitForCredit, Ingest, ReadEnd, ResyncingIsFresh,
                      WaitsOnlyForStuck, StuckViewer
  <1>2. CASE Absorb \/ Drained \/ AbsorbInWindow \/ UNCHANGED vars
    BY <1>2, <1>a DEF Absorb, Drained, AbsorbInWindow, vars, ResyncingIsFresh,
                      WaitsOnlyForStuck, StuckViewer
  <1>3. CASE FlushFirst \/ WindowEnd \/ ExitReceived
    <2>1. Flush /\ reader' = reader /\ closing' = closing
      BY <1>3 DEF FlushFirst, WindowEnd, ExitReceived
    <2>2. QED
      BY <1>0, <1>a, <2>1, FlushKeepsStuck DEF WaitsOnlyForStuck
  <1>4. CASE Signal \/ Restart
    BY <1>0, <1>4, <1>a DEF Signal, Restart, Notified, ResyncingIsFresh,
                            WaitsOnlyForStuck, TypeOK
  <1>5. ASSUME NEW v \in Viewers, Viewer(v)
        PROVE  ResyncingIsFresh' /\ WaitsOnlyForStuck'
    <2>1. CASE Attach(v)
      BY <1>0, <1>a, <2>1 DEF Attach, Notified, ResyncingIsFresh,
                              WaitsOnlyForStuck, TypeOK
    <2>2. CASE Detach(v) \/ Disconnect(v)
      BY <1>0, <1>a, <2>2 DEF Detach, Disconnect, Forget, Notified,
                              ResyncingIsFresh, WaitsOnlyForStuck, TypeOK
    <2>3. CASE Resync(v)
      <3>1. ~stuck[v]
        BY <1>a, <2>3 DEF Resync, ResyncingIsFresh
      <3>2. StuckViewer => StuckViewer'
        BY <1>0, <2>3, <3>1 DEF Resync, StuckViewer, TypeOK
      <3>3. QED
        BY <1>0, <1>a, <2>3, <3>2 DEF Resync, ResyncingIsFresh,
                                      WaitsOnlyForStuck, TypeOK
    <2>4. CASE StuckTimeout(v)
      <3>1. ~resyncing[v]
        BY <2>4 DEF StuckTimeout
      <3>2. StuckViewer => StuckViewer'
        BY <1>0, <2>4 DEF StuckTimeout, StuckViewer, TypeOK
      <3>3. QED
        BY <1>0, <1>a, <2>4, <3>1, <3>2 DEF StuckTimeout, ResyncingIsFresh,
                                            WaitsOnlyForStuck, TypeOK
    <2>5. CASE Deliver(v)
      BY <1>a, <2>5 DEF Deliver, ResyncingIsFresh, WaitsOnlyForStuck,
                        StuckViewer
    <2>6. ASSUME NEW n \in 1..owed[v], Ack(v, n)
          PROVE  ResyncingIsFresh' /\ WaitsOnlyForStuck'
      <3>1. CASE v \in attached
        <4>1. reader' # "wait"
          BY <2>6, <3>1 DEF Ack, Notified
        <4>2. /\ resyncing' = [resyncing EXCEPT ![v] = Recovers(v, n)]
              /\ stuck' = [stuck EXCEPT ![v] = FALSE]
              /\ attached' = attached /\ lagging' = lagging
          BY <2>6, <3>1 DEF Ack
        <4>3. Recovers(v, n) => lagging[v]
          BY DEF Recovers
        <4>4. ResyncingIsFresh'
          BY <1>0, <1>a, <3>1, <4>2, <4>3 DEF ResyncingIsFresh, TypeOK
        <4>5. QED
          BY <4>1, <4>4 DEF WaitsOnlyForStuck
      <3>2. CASE v \notin attached
        BY <1>a, <2>6, <3>2 DEF Ack, ResyncingIsFresh, WaitsOnlyForStuck,
                                StuckViewer
      <3>3. QED
        BY <3>1, <3>2
    <2>7. QED
      BY <1>5, <2>1, <2>2, <2>3, <2>4, <2>5, <2>6 DEF Viewer
  <1>6. QED
    BY <1>1, <1>2, <1>3, <1>4, <1>5 DEF Next, Coalesce

\* The reader thread never sleeps through its wakeup (session.rs
\* wait_for_credit): whenever it is asleep a stuck viewer is attached and the
\* process is not being killed, provided a resync gets the screen lock within
\* STUCK: without that proviso it does not hold
THEOREM NoLostWakeup ==
  ASSUME ~SlowResync
  PROVE  Spec => []WaitsOnlyForStuck
  <1>1. Init => WakeupInv
    BY TypeInit DEF Init, WakeupInv, ResyncingIsFresh, WaitsOnlyForStuck
  <1>2. WakeupInv /\ [Next]_vars => WakeupInv'
    BY WakeupStep
  <1>3. WakeupInv => WaitsOnlyForStuck
    BY DEF WakeupInv
  <1>4. QED
    BY <1>1, <1>2, <1>3, PTL DEF Spec

-----------------------------------------------------------------------------
(* The invariants *)

\* Where a message ends, and where what comes before one on its way to a viewer
\* ends
EndOf(m) == m.seq + Len(m.bytes)
EndBefore(v, i) == IF i = 1 THEN shown[v] ELSE EndOf(outbox[v][i - 1])
Last(v) == EndBefore(v, Len(outbox[v]) + 1)

\* Where a place of the queue begins: an exit is at the end of the output
Start(i) == IF tx[i].data THEN tx[i].seq ELSE seq

\* The first byte queued and not flushed
Front ==
  IF pbytes # <<>> THEN pseq ELSE IF tx # <<>> THEN Start(1) ELSE seq

\* An exit is the last thing queued, and the coalesce task's last
ExitIsLast ==
  /\ \A i \in 1..Len(tx) : ~tx[i].data => i = Len(tx) /\ reader = "done"
  /\ coalescer = "exited" => tx = <<>> /\ pbytes = <<>> /\ reader = "done"

\* Queued output is in order, and none of it is ahead of the screen
InOrder ==
  /\ \A i \in 1..Len(tx) : tx[i].data =>
       /\ tx[i].seq + tx[i].len <= seq
       /\ i < Len(tx) => tx[i].seq + tx[i].len <= Start(i + 1)
  /\ pbytes # <<>> =>
       /\ pseq + Len(pbytes) <= seq
       /\ tx # <<>> => pseq + Len(pbytes) <= Start(1)

\* What is on its way to a viewer is in order, none of it ahead of the screen
OutboxInOrder(v) ==
  /\ base[v] <= shown[v] /\ shown[v] <= seq
  /\ \A i \in 1..Len(outbox[v]) :
       /\ outbox[v][i].snap => outbox[v][i].bytes = <<>>
       /\ ~outbox[v][i].snap => outbox[v][i].seq >= EndBefore(v, i)
       /\ EndOf(outbox[v][i]) <= seq

\* Nothing sent to a viewer is ahead of what it is sent next
NotAhead(v) == Last(v) <= from[v] \/ Last(v) <= Front

OrderInv ==
  /\ ExitIsLast
  /\ InOrder
  /\ \A v \in Viewers : OutboxInOrder(v)
  /\ \A v \in attached : NotAhead(v)

\* No output is missing from the queue
Contiguous ==
  /\ \A i \in 1..Len(tx) : tx[i].data =>
       tx[i].seq + tx[i].len = IF i < Len(tx) THEN Start(i + 1) ELSE seq
  /\ pbytes # <<>> =>
       pseq + Len(pbytes) = IF tx # <<>> THEN Start(1) ELSE seq
  /\ \A i \in 1..Len(pbytes) : pbytes[i] = pseq + i - 1

\* A viewer that keeps up is sent what follows what it has
UpToDate(v) ==
  ~lagging[v] => Last(v) = IF from[v] > Front THEN from[v] ELSE Front

\* A frame carries what its label says, and follows what came before it
FramesTrue(v) ==
  \A i \in 1..Len(outbox[v]) : ~outbox[v][i].snap =>
    /\ outbox[v][i].seq = EndBefore(v, i)
    /\ \A j \in 1..Len(outbox[v][i].bytes) :
         outbox[v][i].bytes[j] = outbox[v][i].seq + j - 1

ViewInv ==
  ~hole =>
    /\ Contiguous
    /\ \A v \in attached : UpToDate(v)
    /\ \A v \in Viewers : FramesTrue(v) /\ ~garbled[v]

-----------------------------------------------------------------------------
(* Sequences *)

LEMMA AppendAt ==
  ASSUME NEW S, NEW s \in Seq(S), NEW e \in S, NEW t, t = Append(s, e)
  PROVE  /\ t # <<>> /\ Len(s) \in Nat /\ Len(t) = Len(s) + 1 /\ t[Len(s) + 1] = e
         /\ \A i \in 1..Len(s) : t[i] = s[i]
  OBVIOUS

LEMMA TailAt ==
  ASSUME NEW S, NEW s \in Seq(S), s # <<>>, NEW t, t = Tail(s)
  PROVE  /\ Len(s) \in Nat \ {0} /\ Len(t) = Len(s) - 1 /\ Head(s) = s[1]
         /\ \A i \in 1..Len(t) : t[i] = s[i + 1]
         /\ t # <<>> <=> Len(s) > 1
  <1>1. Len(s) \in Nat \ {0}
    BY EmptySeq
  <1>2. t \in Seq(S) /\ Len(t) = Len(s) - 1 /\ Head(s) = s[1]
        /\ \A i \in 1..Len(t) : t[i] = s[i + 1]
    BY <1>1
  <1>3. t # <<>> <=> Len(s) > 1
    BY <1>1, <1>2, EmptySeq
  <1>4. QED
    BY <1>1, <1>2, <1>3

LEMMA EmptyIsShort ==
  ASSUME NEW S, NEW s \in Seq(S)
  PROVE  Len(s) \in Nat /\ (s = <<>> <=> Len(s) = 0)
  BY EmptySeq

\* The n bytes of output from offset a on
LEMMA SpanAt ==
  ASSUME NEW a \in Nat, NEW n \in Nat
  PROVE  /\ Span(a, n) \in Seq(Nat) /\ Len(Span(a, n)) = n
         /\ \A i \in 1..n : Span(a, n)[i] = a + i - 1
  BY DEF Span

LEMMA ChunkTypes ==
  ASSUME TypeOK, NEW i \in 1..Len(tx)
  PROVE  tx[i].seq \in Nat /\ tx[i].len \in Nat /\ tx[i].data \in BOOLEAN /\ Start(i) \in Nat
  <1>1. tx[i] \in Chunks /\ seq \in Nat
    BY DEF TypeOK
  <1>2. QED
    BY <1>1 DEF Chunks, Start

-----------------------------------------------------------------------------
(* The queue *)

LEMMA FrontType ==
  ASSUME TypeOK, InOrder
  PROVE  Front \in Nat /\ Front <= seq
  <1>1. seq \in Nat /\ pseq \in Nat /\ Len(pbytes) \in Nat /\ Len(tx) \in Nat
    BY DEF TypeOK
  <1>2. ASSUME pbytes = <<>>, tx # <<>>
        PROVE  Start(1) \in Nat /\ Start(1) <= seq
    <2>1. 1 \in 1..Len(tx)
      BY <1>1, <1>2, EmptyIsShort DEF TypeOK
    <2>2. Start(1) \in Nat /\ tx[1].seq \in Nat /\ tx[1].len \in Nat
      BY <2>1, ChunkTypes
    <2>3. QED
      BY <1>1, <2>1, <2>2 DEF InOrder, Start
  <1>3. QED
    BY <1>1, <1>2 DEF InOrder, Front

\* ingest: the screen moves on, and the queue with it when somebody is attached
LEMMA ParseQueue ==
  ASSUME TypeOK, ExitIsLast, InOrder, NEW n \in Nat \ {0}, Parse(n),
         tx = <<>> \/ reader # "done"
  PROVE  /\ seq' = seq + n
         /\ \A i \in 1..Len(tx') : tx'[i].data
         /\ (pbytes' = pbytes /\ (pseq' = pseq \/ pbytes = <<>>)) =>
              /\ InOrder' /\ Front' \in Nat /\ Front <= Front'
              /\ Contiguous /\ ~hole' => Contiguous'
              /\ attached # {} => Front' = Front
  <1>0. seq \in Nat /\ seq' = seq + n /\ pseq \in Nat /\ Len(pbytes) \in Nat /\ Len(tx) \in Nat
    BY DEF TypeOK, Parse
  <1>1. \A i \in 1..Len(tx) : tx[i].data /\ tx[i].seq \in Nat /\ tx[i].len \in Nat
    BY ChunkTypes, EmptyIsShort DEF ExitIsLast, TypeOK
  <1>2. Front \in Nat /\ Front <= seq
    BY FrontType
  <1>3. CASE attached = {}
    <2>1. tx' = tx /\ (hole' <=> (hole \/ tx # <<>> \/ pbytes # <<>>))
      BY <1>3 DEF Parse
    <2>2. \A i \in 1..Len(tx) : Start(i)' = Start(i)
      BY <1>1, <2>1 DEF Start
    <2>3. tx # <<>> => 1 \in 1..Len(tx)
      BY <1>0, EmptyIsShort DEF TypeOK
    <2>4. \A i \in 1..Len(tx) : i < Len(tx) => i + 1 \in 1..Len(tx)
      BY <1>0
    <2>5. ASSUME pbytes' = pbytes, pseq' = pseq \/ pbytes = <<>>
          PROVE  /\ InOrder' /\ Front' \in Nat /\ Front <= Front'
                 /\ Contiguous /\ ~hole' => Contiguous'
      <3>1. InOrder'
        BY <1>0, <1>1, <2>1, <2>2, <2>3, <2>4, <2>5 DEF InOrder
      <3>2. Front' = Front \/ Front' = seq'
        BY <2>1, <2>2, <2>3, <2>5 DEF Front
      <3>3. ~hole' => Contiguous'
        <4>1. ~hole' => tx' = <<>> /\ pbytes' = <<>>
          BY <2>1, <2>5
        <4>2. ~hole' => Len(tx') = 0 /\ Len(pbytes') = 0
          BY <4>1
        <4>3. QED
          BY <4>1, <4>2 DEF Contiguous
      <3>4. QED
        BY <1>0, <1>2, <3>1, <3>2, <3>3
    <2>6. QED
      BY <1>0, <1>1, <1>3, <2>1, <2>5
  <1>4. CASE attached # {}
    <2>0. PICK k \in Nat : k = Len(tx)
      BY <1>0
    <2>1. Data(seq, n) \in Chunks /\ tx' = Append(tx, Data(seq, n))
      BY <1>0, <1>4 DEF Data, Chunks, Parse
    <2>2. /\ tx' # <<>> /\ Len(tx') = k + 1 /\ tx'[k + 1] = Data(seq, n)
          /\ \A i \in 1..k : tx'[i] = tx[i]
      <3>1. tx \in Seq(Chunks)
        BY DEF TypeOK
      <3>2. QED
        BY <2>0, <2>1, <3>1, AppendAt
    <2>3. tx'[k + 1].data /\ tx'[k + 1].seq = seq /\ tx'[k + 1].len = n
      BY <2>2 DEF Data
    <2>4. /\ \A i \in 1..k : Start(i)' = Start(i)
          /\ Start(k + 1)' = seq
      BY <1>1, <2>0, <2>2, <2>3 DEF Start
    <2>5. k = 0 <=> tx = <<>>
      BY <2>0, EmptyIsShort DEF TypeOK
    <2>6. ASSUME pbytes' = pbytes, pseq' = pseq \/ pbytes = <<>>
          PROVE  /\ InOrder' /\ Front' = Front
                 /\ Contiguous => Contiguous'
      <3>1. Front' = Front
        BY <1>0, <2>2, <2>4, <2>5, <2>6 DEF Front
      <3>2. \A i \in 1..(k + 1) : i = k + 1 \/ (i \in 1..k /\ i < k) \/ (i = k /\ k \in 1..k)
        BY <1>0
      <3>3. Start(1)' = IF tx # <<>> THEN Start(1) ELSE seq
        BY <1>0, <2>4, <2>5
      <3>4. ASSUME NEW i \in 1..(k + 1)
            PROVE  /\ tx'[i].seq + tx'[i].len <= seq'
                   /\ i < k + 1 => tx'[i].seq + tx'[i].len <= Start(i + 1)'
                   /\ Contiguous => tx'[i].seq + tx'[i].len =
                        IF i < k + 1 THEN Start(i + 1)' ELSE seq'
        <4>1. CASE i = k + 1
          BY <1>0, <2>3, <4>1
        <4>2. CASE i = k /\ k \in 1..k
          <5>1. /\ tx'[i].seq + tx'[i].len <= seq
                /\ Contiguous => tx'[i].seq + tx'[i].len = seq
            BY <1>1, <2>0, <2>2, <4>2 DEF InOrder, Contiguous
          <5>2. Start(i + 1)' = seq /\ tx'[i].seq \in Nat /\ tx'[i].len \in Nat
            BY <1>1, <2>0, <2>2, <2>4, <4>2
          <5>3. QED
            BY <1>0, <4>2, <5>1, <5>2
        <4>3. CASE i \in 1..k /\ i < k
          <5>1. i + 1 \in 1..k
            BY <1>0, <4>3
          <5>2. /\ tx'[i].seq + tx'[i].len <= seq
                /\ tx'[i].seq + tx'[i].len <= Start(i + 1)
                /\ Contiguous => tx'[i].seq + tx'[i].len = Start(i + 1)
            BY <1>1, <2>0, <2>2, <4>3 DEF InOrder, Contiguous
          <5>3. Start(i + 1)' = Start(i + 1) /\ tx'[i].seq \in Nat /\ tx'[i].len \in Nat
            BY <1>1, <2>0, <2>2, <2>4, <4>3, <5>1
          <5>4. QED
            BY <1>0, <4>3, <5>2, <5>3
        <4>4. QED
          BY <3>2, <4>1, <4>2, <4>3
      <3>a. /\ pbytes # <<>> => /\ pseq' + Len(pbytes') <= seq'
                                 /\ pseq' + Len(pbytes') <= Start(1)'
            /\ Contiguous /\ pbytes # <<>> => pseq' + Len(pbytes') = Start(1)'
        BY <1>0, <2>6, <3>3 DEF InOrder, Contiguous
      <3>b. Contiguous => \A i \in 1..Len(pbytes') : pbytes'[i] = pseq' + i - 1
        <4>1. pbytes = <<>> => Len(pbytes') = 0
          BY <2>6
        <4>2. QED
          BY <2>6, <4>1 DEF Contiguous
      <3>5. InOrder'
        BY <2>2, <2>6, <3>4, <3>a DEF InOrder
      <3>6. Contiguous => Contiguous'
        BY <2>2, <2>6, <3>4, <3>a, <3>b DEF Contiguous
      <3>7. QED
        BY <3>1, <3>5, <3>6
    <2>7. \A i \in 1..Len(tx') : tx'[i].data
      BY <1>0, <1>1, <2>0, <2>2, <2>3
    <2>8. QED
      BY <1>0, <1>2, <2>6, <2>7
  <1>5. QED
    BY <1>3, <1>4

\* What every step but a flush keeps of the queue
QueueStep ==
  /\ ExitIsLast' /\ InOrder'
  /\ seq <= seq' /\ Front' \in Nat /\ Front <= Front'
  /\ ~hole' => ~hole /\ (Contiguous => Contiguous' /\ (attached # {} => Front' = Front))

LEMMA QueueStill ==
  ASSUME TypeOK, ExitIsLast, InOrder, UNCHANGED <<seq, tx, pseq, pbytes, hole>>,
         reader' = "done" <=> reader = "done", coalescer' = "exited" => coalescer = "exited"
  PROVE  QueueStep /\ Front' = Front /\ (Contiguous => Contiguous')
  <1>1. \A i \in 1..Len(tx) : Start(i)' = Start(i)
    BY DEF Start
  <1>2. Start(1)' = Start(1)
    BY DEF Start
  <1>3. Front' = Front
    BY <1>2 DEF Front
  <1>4. Contiguous => Contiguous'
    BY <1>2 DEF Contiguous, Start
  <1>5. InOrder'
    BY <1>2 DEF InOrder, Start
  <1>6. Front \in Nat /\ seq \in Nat
    BY FrontType DEF TypeOK
  <1>7. QED
    BY <1>3, <1>4, <1>5, <1>6 DEF QueueStep, ExitIsLast

LEMMA IngestQueue ==
  ASSUME TypeOK, ExitIsLast, InOrder,
         Restart \/ \E n \in 1..MaxSeq : Ingest(n)
  PROVE  QueueStep
  <1>1. PICK n \in Nat \ {0} :
          /\ Parse(n)
          /\ tx = <<>> \/ reader # "done"
          /\ pbytes' = pbytes /\ (pseq' = pseq \/ pbytes = <<>>)
          /\ reader' = "credit"
          /\ coalescer' # "exited"
    <2>1. CASE Restart
      BY <2>1, WaterAssumption DEF Restart, ExitIsLast
    <2>2. ASSUME NEW n \in 1..MaxSeq, Ingest(n)
          PROVE  /\ n \in Nat \ {0} /\ Parse(n) /\ reader # "done"
                 /\ pbytes' = pbytes /\ pseq' = pseq
                 /\ reader' = "credit" /\ coalescer' # "exited"
      BY <2>2, WaterAssumption DEF Ingest, ExitIsLast
    <2>3. QED
      BY <2>1, <2>2
  <1>2. /\ seq' = seq + n /\ \A i \in 1..Len(tx') : tx'[i].data
        /\ InOrder' /\ Front' \in Nat /\ Front <= Front'
        /\ Contiguous /\ ~hole' => Contiguous'
        /\ attached # {} => Front' = Front
    BY <1>1, ParseQueue
  <1>3. ExitIsLast'
    BY <1>1, <1>2 DEF ExitIsLast
  <1>4. ~hole' => ~hole
    BY <1>1 DEF Parse
  <1>5. seq <= seq'
    BY <1>2 DEF TypeOK
  <1>6. QED
    BY <1>2, <1>3, <1>4, <1>5 DEF QueueStep

LEMMA ReadEndQueue ==
  ASSUME TypeOK, ExitIsLast, InOrder, ReadEnd
  PROVE  QueueStep
  <1>1. /\ tx' = Append(tx, Exit) /\ reader = "read" /\ reader' = "done"
        /\ UNCHANGED <<seq, pseq, pbytes, coalescer, hole>>
    BY DEF ReadEnd
  <1>2. PICK k \in Nat : k = Len(tx)
    BY DEF TypeOK
  <1>3. /\ tx' # <<>> /\ Len(tx') = k + 1 /\ tx'[k + 1] = Exit
        /\ \A i \in 1..k : tx'[i] = tx[i]
    <2>1. tx \in Seq(Chunks) /\ Exit \in Chunks
      BY DEF TypeOK, Exit, Chunks
    <2>2. QED
      BY <1>1, <1>2, <2>1, AppendAt
  <1>4. ~tx'[k + 1].data
    BY <1>3 DEF Exit
  <1>5. \A i \in 1..k : tx[i].data
    BY <1>1, <1>2 DEF ExitIsLast
  <1>6. /\ \A i \in 1..k : Start(i)' = Start(i)
        /\ Start(k + 1)' = seq
    BY <1>1, <1>3, <1>4, <1>5 DEF Start
  <1>7. k = 0 <=> tx = <<>>
    BY <1>2, EmptyIsShort DEF TypeOK
  <1>8. Start(1)' = IF tx # <<>> THEN Start(1) ELSE seq
    BY <1>2, <1>6, <1>7
  <1>9. Front' = Front
    BY <1>1, <1>3, <1>8 DEF Front
  <1>10. ASSUME NEW i \in 1..(k + 1), tx'[i].data
         PROVE  /\ i \in 1..k /\ tx'[i] = tx[i]
                /\ Start(i + 1)' = IF i < k THEN Start(i + 1) ELSE seq
    <2>1. i \in 1..k /\ tx'[i] = tx[i]
      BY <1>3, <1>4, <1>10
    <2>2. CASE i < k
      <3>1. i + 1 \in 1..k
        BY <2>1, <2>2
      <3>2. QED
        BY <1>6, <2>1, <2>2, <3>1
    <2>3. CASE ~(i < k)
      <3>1. i = k
        BY <2>1, <2>3
      <3>2. QED
        BY <1>6, <2>1, <2>3, <3>1
    <2>4. QED
      BY <2>2, <2>3, <2>1
  <1>11. InOrder'
    BY <1>1, <1>2, <1>3, <1>8, <1>10 DEF InOrder
  <1>12. Contiguous => Contiguous'
    BY <1>1, <1>2, <1>3, <1>8, <1>10 DEF Contiguous
  <1>13. ExitIsLast'
    BY <1>1, <1>2, <1>3, <1>5 DEF ExitIsLast
  <1>14. Front \in Nat /\ seq \in Nat
    BY FrontType DEF TypeOK
  <1>15. QED
    BY <1>1, <1>9, <1>11, <1>12, <1>13, <1>14 DEF QueueStep

\* The first chunk leaves the queue: what is left of it
LEMMA TailQueue ==
  ASSUME TypeOK, ExitIsLast, InOrder, tx # <<>>, tx' = Tail(tx), seq' = seq
  PROVE  /\ Len(tx) \in Nat \ {0} /\ Len(tx') = Len(tx) - 1 /\ Head(tx) = tx[1]
         /\ tx' # <<>> <=> Len(tx) > 1
         /\ \A i \in 1..Len(tx') : tx'[i] = tx[i + 1] /\ i + 1 \in 1..Len(tx)
         /\ \A i \in 1..Len(tx') : Start(i)' = Start(i + 1)
         /\ \A i \in 1..Len(tx') : tx'[i].data =>
              /\ tx'[i].seq + tx'[i].len <= seq
              /\ i < Len(tx') => tx'[i].seq + tx'[i].len <= Start(i + 1)'
              /\ Contiguous => tx'[i].seq + tx'[i].len =
                   IF i < Len(tx') THEN Start(i + 1)' ELSE seq
  <1>1. PICK k \in Nat : k = Len(tx)
    BY DEF TypeOK
  <1>2. /\ k # 0 /\ Len(tx') = k - 1 /\ Head(tx) = tx[1]
        /\ tx' # <<>> <=> k > 1
        /\ \A i \in 1..(k - 1) : tx'[i] = tx[i + 1]
    <2>1. tx \in Seq(Chunks)
      BY DEF TypeOK
    <2>2. QED
      BY <1>1, <2>1, TailAt
  <1>3. \A i \in 1..(k - 1) : i + 1 \in 1..k
    BY <1>2
  <1>4. \A i \in 1..(k - 1) : Start(i)' = Start(i + 1)
    BY <1>2 DEF Start
  <1>5. ASSUME NEW i \in 1..(k - 1), tx'[i].data
        PROVE  /\ tx'[i].seq + tx'[i].len <= seq
               /\ i < k - 1 => tx'[i].seq + tx'[i].len <= Start(i + 1)'
               /\ Contiguous => tx'[i].seq + tx'[i].len =
                    IF i < k - 1 THEN Start(i + 1)' ELSE seq
    <2>1. PICK j \in 1..k : j = i + 1
      BY <1>3
    <2>2. tx'[i] = tx[j] /\ tx[j].data
      BY <1>2, <1>5, <2>1
    <2>3. tx[j].seq + tx[j].len <= seq
      BY <1>1, <2>2 DEF InOrder
    <2>4. j < k => tx[j].seq + tx[j].len <= Start(j + 1)
      BY <1>1, <2>2 DEF InOrder
    <2>5. Contiguous => tx[j].seq + tx[j].len = IF j < k THEN Start(j + 1) ELSE seq
      BY <1>1, <2>2 DEF Contiguous
    <2>6. i < k - 1 => j < k /\ Start(i + 1)' = Start(j + 1)
      <3>1. ASSUME i < k - 1
            PROVE  i + 1 \in 1..(k - 1)
        BY <3>1
      <3>2. QED
        BY <1>4, <2>1, <3>1
    <2>7. ~(i < k - 1) => ~(j < k)
      BY <2>1
    <2>8. QED
      BY <2>2, <2>3, <2>4, <2>5, <2>6, <2>7
  <1>6. QED
    BY <1>1, <1>2, <1>3, <1>4, <1>5

LEMMA AbsorbQueue ==
  ASSUME TypeOK, ExitIsLast, InOrder, Absorb \/ AbsorbInWindow
  PROVE  QueueStep
  <1> DEFINE c == Head(tx)
  <1>1. /\ tx # <<>> /\ c.data /\ tx' = Tail(tx)
        /\ pseq' = AbsorbedSeq(pseq, pbytes, c) /\ pbytes' = AbsorbedBytes(pbytes, c)
        /\ coalescer' # "exited"
        /\ UNCHANGED <<seq, reader, attached, hole>>
    BY DEF Absorb, AbsorbInWindow, flowVars
  <1>2. PICK k \in Nat, a \in Nat, l \in Nat, n \in Nat :
          k = Len(tx) /\ a = c.seq /\ l = c.len /\ n = Len(pbytes)
    <2>1. c \in Chunks
      BY <1>1, ChunkType
    <2>2. Len(tx) \in Nat /\ Len(pbytes) \in Nat
      BY DEF TypeOK
    <2>3. QED
      BY <2>1, <2>2 DEF Chunks
  <1>3. /\ k # 0 /\ Len(tx') = k - 1 /\ c = tx[1]
        /\ tx' # <<>> <=> k > 1
        /\ \A i \in 1..(k - 1) : tx'[i] = tx[i + 1] /\ i + 1 \in 1..k
        /\ \A i \in 1..(k - 1) : Start(i)' = Start(i + 1)
        /\ \A i \in 1..(k - 1) : tx'[i].data =>
             /\ tx'[i].seq + tx'[i].len <= seq
             /\ i < k - 1 => tx'[i].seq + tx'[i].len <= Start(i + 1)'
             /\ Contiguous => tx'[i].seq + tx'[i].len =
                  IF i < k - 1 THEN Start(i + 1)' ELSE seq
    BY <1>1, <1>2, TailQueue
  <1>4. Start(1) = a /\ 1 \in 1..k
    BY <1>1, <1>2, <1>3 DEF Start
  <1>5. /\ a + l <= seq
        /\ k > 1 => a + l <= Start(2)
        /\ Contiguous => a + l = IF k > 1 THEN Start(2) ELSE seq
    <2>1. tx[1].data /\ tx[1].seq = a /\ tx[1].len = l
      BY <1>1, <1>2, <1>3
    <2>2. QED
      BY <1>2, <1>4, <2>1 DEF InOrder, Contiguous
  <1>6. k > 1 => Start(1)' = Start(2)
    BY <1>3
  <1>7. /\ pbytes' \in Seq(Nat) /\ Len(pbytes') = n + l
        /\ \A i \in 1..(n + l) :
             pbytes'[i] = IF i <= n THEN pbytes[i] ELSE a + (i - n) - 1
    <2>1. /\ Span(a, l) \in Seq(Nat) /\ Len(Span(a, l)) = l
          /\ \A i \in 1..l : Span(a, l)[i] = a + i - 1
      BY SpanAt
    <2>2. pbytes \in Seq(Nat) /\ pbytes' = pbytes \o Span(a, l)
      BY <1>1, <1>2 DEF AbsorbedBytes, TypeOK
    <2>3. /\ pbytes' \in Seq(Nat) /\ Len(pbytes') = n + l
          /\ \A i \in 1..(n + l) :
               pbytes'[i] = IF i <= n THEN pbytes[i] ELSE Span(a, l)[i - n]
      BY <1>2, <2>1, <2>2, ConcatProperties
    <2>4. \A i \in 1..(n + l) : ~(i <= n) => i - n \in 1..l
      OBVIOUS
    <2>5. QED
      BY <2>1, <2>3, <2>4
  <1>8. (pbytes = <<>> <=> n = 0) /\ (pbytes' = <<>> <=> n + l = 0)
    BY <1>2, <1>7, EmptyIsShort DEF TypeOK
  <1>9. /\ pseq' = IF n = 0 THEN a ELSE pseq
        /\ pseq \in Nat /\ seq \in Nat
    BY <1>1, <1>2, <1>8 DEF AbsorbedSeq, TypeOK
  <1>10. Front = IF n = 0 THEN a ELSE pseq
    BY <1>1, <1>4, <1>8 DEF Front
  <1>11. n # 0 => pseq + n <= a /\ (Contiguous => pseq + n = a)
    BY <1>1, <1>2, <1>4, <1>8 DEF InOrder, Contiguous
  <1>12. /\ pseq' + (n + l) <= a + l
         /\ Contiguous => pseq' + (n + l) = a + l
    BY <1>9, <1>11
  <1>13. Front' = IF n + l # 0 THEN pseq' ELSE IF k > 1 THEN Start(2) ELSE seq
    BY <1>1, <1>3, <1>6, <1>8 DEF Front
  <1>14. k > 1 => Start(2) \in Nat
    BY <1>2, ChunkTypes
  <1>15. Front' \in Nat /\ Front <= Front' /\ (Contiguous => Front' = Front)
    BY <1>5, <1>9, <1>10, <1>13, <1>14
  <1>16. InOrder'
    <2>1. pseq' \in Nat /\ pseq' + (n + l) <= seq
      BY <1>5, <1>9, <1>12
    <2>2. k > 1 => pseq' + (n + l) <= Start(2)
      BY <1>5, <1>9, <1>12, <1>14
    <2>3. pbytes' # <<>> =>
            /\ pseq' + Len(pbytes') <= seq'
            /\ tx' # <<>> => pseq' + Len(pbytes') <= Start(1)'
      BY <1>1, <1>3, <1>6, <1>7, <2>1, <2>2
    <2>4. QED
      BY <1>1, <1>3, <2>3 DEF InOrder
  <1>17. ASSUME Contiguous
         PROVE  Contiguous'
    <2>1. ASSUME NEW i \in 1..(n + l)
          PROVE  pbytes'[i] = pseq' + i - 1
      <3>1. CASE i <= n
        <4>1. i \in 1..n /\ n # 0
          BY <3>1
        <4>2. pbytes[i] = pseq + i - 1
          BY <1>2, <1>17, <4>1 DEF Contiguous
        <4>3. QED
          BY <1>7, <1>9, <3>1, <4>1, <4>2
      <3>2. CASE ~(i <= n)
        <4>1. pbytes'[i] = a + (i - n) - 1
          BY <1>7, <3>2
        <4>2. a = pseq' + n
          BY <1>9, <1>11, <1>17
        <4>3. pseq' \in Nat
          BY <1>9
        <4>4. QED
          BY <4>1, <4>2, <4>3
      <3>3. QED
        BY <3>1, <3>2
    <2>2. QED
      BY <1>1, <1>3, <1>5, <1>6, <1>7, <1>8, <1>12, <1>17, <2>1 DEF Contiguous
  <1>18. ExitIsLast'
    BY <1>1, <1>2, <1>3 DEF ExitIsLast
  <1>19. QED
    BY <1>1, <1>9, <1>15, <1>16, <1>17, <1>18 DEF QueueStep

\* flush empties Pending; the exit it may have received was the last thing queued
LEMMA FlushQueue ==
  ASSUME TypeOK, ExitIsLast, InOrder, FlushFirst \/ WindowEnd \/ ExitReceived
  PROVE  /\ Flush /\ UNCHANGED <<seq, viewVars, hole>>
         /\ ExitIsLast' /\ InOrder' /\ Front' \in Nat
         /\ pbytes = <<>> => Front' = Front
         /\ pbytes # <<>> => pseq + Len(pbytes) <= Front'
         /\ Contiguous => Contiguous' /\ (pbytes # <<>> => pseq + Len(pbytes) = Front')
  <1>1. /\ Flush /\ UNCHANGED <<seq, viewVars, hole>>
        /\ reader' = reader /\ pbytes' = <<>>
        /\ \/ tx' = tx /\ coalescer' # "exited"
           \/ tx # <<>> /\ ~Head(tx).data /\ tx' = Tail(tx)
    BY DEF FlushFirst, WindowEnd, ExitReceived, Flush, viewVars
  <1>2. seq \in Nat /\ Len(pbytes) \in Nat /\ Len(pbytes') = 0 /\ pseq \in Nat /\ Len(tx) \in Nat
    BY <1>1 DEF TypeOK
  <1>3. CASE tx' = tx /\ coalescer' # "exited"
    <2>1. Start(1)' = Start(1) /\ \A i \in 1..Len(tx) : Start(i)' = Start(i)
      BY <1>1, <1>3 DEF Start
    <2>2. ExitIsLast'
      BY <1>1, <1>3 DEF ExitIsLast
    <2>3. InOrder' /\ (Contiguous => Contiguous')
      BY <1>1, <1>2, <1>3 DEF InOrder, Contiguous, Start
    <2>4. Front' = IF tx # <<>> THEN Start(1) ELSE seq
      BY <1>1, <1>3, <2>1 DEF Front
    <2>5. tx # <<>> => Start(1) \in Nat
      BY <1>2, ChunkTypes, EmptyIsShort DEF TypeOK
    <2>6. Front' \in Nat /\ (pbytes = <<>> => Front' = Front)
      BY <1>2, <2>4, <2>5 DEF Front
    <2>7. pbytes # <<>> =>
            /\ pseq + Len(pbytes) <= Front'
            /\ Contiguous => pseq + Len(pbytes) = Front'
      BY <2>4 DEF InOrder, Contiguous
    <2>8. QED
      BY <1>1, <2>2, <2>3, <2>6, <2>7
  <1>4. CASE tx # <<>> /\ ~Head(tx).data /\ tx' = Tail(tx)
    <2>1. /\ Len(tx) \in Nat \ {0} /\ Len(tx') = Len(tx) - 1 /\ Head(tx) = tx[1]
          /\ tx' # <<>> <=> Len(tx) > 1
      BY <1>1, <1>4, TailQueue, Zenon
    <2>2. 1 \in 1..Len(tx) /\ ~tx[1].data
      BY <1>4, <2>1
    <2>3. Len(tx) = 1 /\ reader = "done"
      BY <2>2 DEF ExitIsLast
    <2>4. tx' = <<>> /\ Len(tx') = 0 /\ Start(1) = seq
      BY <2>1, <2>2, <2>3 DEF Start
    <2>5. ExitIsLast' /\ InOrder' /\ Contiguous'
      <3>1. ExitIsLast'
        BY <1>1, <2>3, <2>4 DEF ExitIsLast
      <3>2. InOrder' /\ Contiguous'
        BY <1>1, <1>2, <2>4 DEF InOrder, Contiguous
      <3>3. QED
        BY <3>1, <3>2
    <2>6. Front' = seq /\ (pbytes = <<>> => Front = seq)
      BY <1>1, <1>4, <2>4 DEF Front
    <2>7. pbytes # <<>> =>
            /\ pseq + Len(pbytes) <= seq
            /\ Contiguous => pseq + Len(pbytes) = seq
      BY <1>4, <2>4 DEF InOrder, Contiguous
    <2>8. Front' \in Nat /\ (pbytes = <<>> => Front' = Front)
      BY <1>2, <2>6
    <2>9. pbytes # <<>> =>
            /\ pseq + Len(pbytes) <= Front'
            /\ Contiguous => pseq + Len(pbytes) = Front'
      BY <2>6, <2>7
    <2>10. QED
      BY <1>1, <2>5, <2>8, <2>9, Zenon
  <1>5. QED
    BY <1>1, <1>3, <1>4

-----------------------------------------------------------------------------
(* What is on its way to a viewer *)

LEMMA MessageTypes ==
  ASSUME TypeOK, NEW v \in Viewers, NEW i \in 1..Len(outbox[v])
  PROVE  /\ outbox[v][i].snap \in BOOLEAN /\ outbox[v][i].seq \in Nat
         /\ outbox[v][i].bytes \in Seq(Nat) /\ Len(outbox[v][i].bytes) \in Nat
         /\ EndOf(outbox[v][i]) \in Nat
  <1>1. outbox[v][i] \in Messages
    BY DEF TypeOK
  <1>2. outbox[v][i].bytes \in Seq(Nat) /\ outbox[v][i].seq \in Nat /\ outbox[v][i].snap \in BOOLEAN
    BY <1>1 DEF Messages
  <1>3. Len(outbox[v][i].bytes) \in Nat
    BY <1>2
  <1>4. QED
    BY <1>2, <1>3 DEF EndOf

LEMMA LastType ==
  ASSUME TypeOK, NEW v \in Viewers, OutboxInOrder(v)
  PROVE  Last(v) \in Nat /\ Last(v) <= seq
  <1>1. PICK k \in Nat : k = Len(outbox[v])
    BY DEF TypeOK
  <1>2. CASE k = 0
    BY <1>1, <1>2 DEF Last, EndBefore, OutboxInOrder, TypeOK
  <1>3. CASE k # 0
    <2>1. k \in 1..Len(outbox[v]) /\ k + 1 # 1 /\ (k + 1) - 1 = k
      BY <1>1, <1>3
    <2>2. Last(v) = EndOf(outbox[v][k])
      BY <1>1, <2>1 DEF Last, EndBefore
    <2>3. QED
      BY <2>1, <2>2, MessageTypes DEF OutboxInOrder
  <1>4. QED
    BY <1>2, <1>3

LEMMA OutboxSame ==
  ASSUME TypeOK, NEW v \in Viewers, OutboxInOrder(v), seq' \in Nat, seq <= seq',
         outbox'[v] = outbox[v], shown'[v] = shown[v], base'[v] = base[v]
  PROVE  /\ OutboxInOrder(v)' /\ Last(v)' = Last(v)
         /\ FramesTrue(v) => FramesTrue(v)'
  <1>1. \A i : EndBefore(v, i)' = EndBefore(v, i)
    BY DEF EndBefore
  <1>2. Last(v)' = Last(v)
    BY DEF Last, EndBefore
  <1>3. shown[v] \in Nat /\ seq \in Nat
    BY DEF TypeOK
  <1>4. ASSUME NEW i \in 1..Len(outbox[v])
        PROVE  EndOf(outbox[v][i]) <= seq'
    <2>1. EndOf(outbox[v][i]) \in Nat /\ EndOf(outbox[v][i]) <= seq
      BY MessageTypes DEF OutboxInOrder
    <2>2. QED
      BY <1>3, <2>1
  <1>5. OutboxInOrder(v)'
    BY <1>1, <1>3, <1>4 DEF OutboxInOrder
  <1>6. FramesTrue(v) => FramesTrue(v)'
    BY <1>1 DEF FramesTrue
  <1>7. QED
    BY <1>2, <1>5, <1>6

LEMMA OutboxAppend ==
  ASSUME TypeOK, NEW v \in Viewers, OutboxInOrder(v), seq' = seq,
         NEW m \in Messages, outbox'[v] = Append(outbox[v], m),
         shown'[v] = shown[v], base'[v] = base[v],
         m.snap => m.bytes = <<>>, ~m.snap => m.seq >= Last(v), EndOf(m) <= seq
  PROVE  /\ OutboxInOrder(v)' /\ Last(v)' = EndOf(m)
         /\ FramesTrue(v) /\ (~m.snap => /\ m.seq = Last(v)
                                         /\ \A j \in 1..Len(m.bytes) : m.bytes[j] = m.seq + j - 1)
              => FramesTrue(v)'
  <1>1. PICK k \in Nat : k = Len(outbox[v])
    BY DEF TypeOK
  <1>2. /\ Len(outbox'[v]) = k + 1 /\ outbox'[v][k + 1] = m
        /\ \A i \in 1..k : outbox'[v][i] = outbox[v][i]
    <2>1. outbox[v] \in Seq(Messages)
      BY DEF TypeOK
    <2>2. QED
      BY <1>1, <2>1, AppendAt
  <1>3. ASSUME NEW i \in 1..(k + 1)
        PROVE  EndBefore(v, i)' = EndBefore(v, i)
    <2>1. CASE i = 1
      BY <2>1 DEF EndBefore
    <2>2. CASE i # 1
      <3>1. i - 1 \in 1..k
        BY <2>2
      <3>2. QED
        BY <1>2, <2>2, <3>1 DEF EndBefore
    <2>3. QED
      BY <2>1, <2>2
  <1>4. Last(v)' = EndOf(m)
    <2>1. (k + 1) + 1 # 1 /\ ((k + 1) + 1) - 1 = k + 1
      OBVIOUS
    <2>2. QED
      BY <1>2, <2>1 DEF Last, EndBefore
  <1>5. EndBefore(v, k + 1)' = Last(v)
    BY <1>1, <1>3 DEF Last
  <1>6. ASSUME NEW i \in 1..(k + 1)
        PROVE  /\ outbox'[v][i].snap => outbox'[v][i].bytes = <<>>
               /\ ~outbox'[v][i].snap => outbox'[v][i].seq >= EndBefore(v, i)'
               /\ EndOf(outbox'[v][i]) <= seq
    <2>1. CASE i = k + 1
      BY <1>2, <1>5, <2>1
    <2>2. CASE i \in 1..k
      <3>1. outbox'[v][i] = outbox[v][i] /\ EndBefore(v, i)' = EndBefore(v, i)
        BY <1>2, <1>3, <2>2
      <3>2. i \in 1..Len(outbox[v])
        BY <1>1, <2>2
      <3>3. QED
        BY <3>1, <3>2 DEF OutboxInOrder
    <2>3. QED
      BY <1>1, <2>1, <2>2
  <1>7. OutboxInOrder(v)'
    BY <1>2, <1>6 DEF OutboxInOrder
  <1>8. ASSUME FramesTrue(v),
               ~m.snap => /\ m.seq = Last(v)
                          /\ \A j \in 1..Len(m.bytes) : m.bytes[j] = m.seq + j - 1,
               NEW i \in 1..(k + 1), ~outbox'[v][i].snap
        PROVE  /\ outbox'[v][i].seq = EndBefore(v, i)'
               /\ \A j \in 1..Len(outbox'[v][i].bytes) :
                    outbox'[v][i].bytes[j] = outbox'[v][i].seq + j - 1
    <2>1. CASE i = k + 1
      BY <1>2, <1>5, <1>8, <2>1
    <2>2. CASE i \in 1..k
      <3>1. outbox'[v][i] = outbox[v][i] /\ EndBefore(v, i)' = EndBefore(v, i)
        BY <1>2, <1>3, <2>2
      <3>2. i \in 1..Len(outbox[v])
        BY <1>1, <2>2
      <3>3. QED
        BY <1>8, <3>1, <3>2 DEF FramesTrue
    <2>3. QED
      BY <1>1, <2>1, <2>2
  <1>9. QED
    BY <1>2, <1>4, <1>7, <1>8 DEF FramesTrue

\* The pane writes the first message: the rest follows it as it did
LEMMA OutboxDeliver ==
  ASSUME TypeOK, NEW v \in Viewers, OutboxInOrder(v), Deliver(v)
  PROVE  /\ OutboxInOrder(v)' /\ Last(v)' = Last(v)
         /\ FramesTrue(v) /\ ~garbled[v] => FramesTrue(v)' /\ ~garbled'[v]
  <1> DEFINE m == outbox[v][1]
  <1>1. PICK k \in Nat : k = Len(outbox[v])
    BY DEF TypeOK
  <1>2. /\ k # 0 /\ Head(outbox[v]) = m
        /\ outbox'[v] = Tail(outbox[v]) /\ Len(outbox'[v]) = k - 1
        /\ \A i \in 1..(k - 1) : outbox'[v][i] = outbox[v][i + 1] /\ i + 1 \in 1..k
    <2>1. outbox[v] \in Seq(Messages) /\ outbox[v] # <<>> /\ outbox'[v] = Tail(outbox[v])
      BY DEF TypeOK, Deliver
    <2>2. QED
      BY <1>1, <2>1, TailAt
  <1>3. /\ m.snap \in BOOLEAN /\ m.seq \in Nat /\ m.bytes \in Seq(Nat) /\ Len(m.bytes) \in Nat
        /\ EndOf(m) \in Nat /\ 1 \in 1..k
    BY <1>1, <1>2, MessageTypes
  <1>4. /\ m.snap => m.bytes = <<>>
        /\ ~m.snap => m.seq >= shown[v]
        /\ EndOf(m) <= seq
    BY <1>1, <1>3 DEF OutboxInOrder, EndBefore
  <1>5. /\ shown'[v] = EndOf(m)
        /\ base'[v] = IF m.snap THEN m.seq ELSE base[v]
    <2>1. CASE m.snap
      <3>1. shown'[v] = m.seq /\ base'[v] = m.seq
        BY <1>2, <2>1 DEF Deliver, TypeOK
      <3>2. Len(m.bytes) = 0
        BY <1>4, <2>1
      <3>3. QED
        BY <1>3, <2>1, <3>1, <3>2 DEF EndOf
    <2>2. CASE ~m.snap
      BY <1>2, <2>2 DEF Deliver, TypeOK, EndOf
    <2>3. QED
      BY <2>1, <2>2
  <1>6. base[v] \in Nat /\ shown[v] \in Nat /\ base[v] <= shown[v] /\ seq' = seq /\ seq \in Nat
    BY DEF TypeOK, OutboxInOrder, Deliver
  <1>7. base'[v] <= shown'[v] /\ shown'[v] <= seq
    <2>1. EndOf(m) = m.seq + Len(m.bytes)
      BY DEF EndOf
    <2>2. m.seq <= EndOf(m)
      BY <1>3, <2>1
    <2>3. CASE m.snap
      BY <1>4, <1>5, <2>2, <2>3
    <2>4. CASE ~m.snap
      BY <1>3, <1>4, <1>5, <1>6, <2>2, <2>4
    <2>5. QED
      BY <2>3, <2>4
  <1>8. ASSUME NEW i \in 1..k
        PROVE  EndBefore(v, i)' = EndBefore(v, i + 1)
    <2>1. i + 1 # 1 /\ (i + 1) - 1 = i
      OBVIOUS
    <2>2. CASE i = 1
      BY <1>5, <2>1, <2>2 DEF EndBefore
    <2>3. CASE i # 1
      <3>1. i - 1 \in 1..(k - 1) /\ (i - 1) + 1 = i
        BY <2>3
      <3>2. outbox'[v][i - 1] = outbox[v][i]
        BY <1>2, <3>1
      <3>3. QED
        BY <2>1, <2>3, <3>2 DEF EndBefore
    <2>4. QED
      BY <2>2, <2>3
  <1>9. Last(v)' = Last(v)
    <2>1. k \in 1..k /\ (k - 1) + 1 = k
      BY <1>2
    <2>2. EndBefore(v, k)' = EndBefore(v, k + 1)
      BY <1>8, <2>1
    <2>3. QED
      BY <1>1, <1>2, <2>1, <2>2 DEF Last
  <1>10. ASSUME NEW i \in 1..(k - 1)
         PROVE  /\ outbox'[v][i].snap => outbox'[v][i].bytes = <<>>
                /\ ~outbox'[v][i].snap => outbox'[v][i].seq >= EndBefore(v, i)'
                /\ EndOf(outbox'[v][i]) <= seq
    <2>1. i + 1 \in 1..k /\ i \in 1..k /\ outbox'[v][i] = outbox[v][i + 1]
      BY <1>2
    <2>2. QED
      BY <1>1, <1>8, <2>1 DEF OutboxInOrder
  <1>11. OutboxInOrder(v)'
    BY <1>2, <1>6, <1>7, <1>10 DEF OutboxInOrder
  <1>12. ASSUME FramesTrue(v)
         PROVE  FramesTrue(v)'
    <2>1. ASSUME NEW i \in 1..(k - 1), ~outbox'[v][i].snap
          PROVE  /\ outbox'[v][i].seq = EndBefore(v, i)'
                 /\ \A j \in 1..Len(outbox'[v][i].bytes) :
                      outbox'[v][i].bytes[j] = outbox'[v][i].seq + j - 1
      <3>1. i + 1 \in 1..k /\ i \in 1..k /\ outbox'[v][i] = outbox[v][i + 1]
        BY <1>2
      <3>2. QED
        BY <1>1, <1>8, <1>12, <2>1, <3>1 DEF FramesTrue
    <2>2. QED
      BY <1>2, <2>1 DEF FramesTrue
  <1>13. ASSUME FramesTrue(v), ~garbled[v]
         PROVE  ~garbled'[v]
    <2>1. CASE m.snap
      BY <1>2, <2>1 DEF Deliver, TypeOK
    <2>2. CASE ~m.snap
      <3>1. /\ m.seq = shown[v]
            /\ \A j \in 1..Len(m.bytes) : m.bytes[j] = shown[v] + j - 1
        BY <1>1, <1>3, <1>13, <2>2 DEF FramesTrue, EndBefore
      <3>2. BytesFrom(v, m) = m.bytes
        BY <1>6, <3>1 DEF BytesFrom
      <3>3. m.bytes = Span(shown[v], Len(m.bytes))
        <4>1. /\ Span(shown[v], Len(m.bytes)) \in Seq(Nat)
              /\ Len(Span(shown[v], Len(m.bytes))) = Len(m.bytes)
              /\ \A j \in 1..Len(m.bytes) : Span(shown[v], Len(m.bytes))[j] = shown[v] + j - 1
          BY <1>3, <1>6, SpanAt
        <4>2. QED
          BY <1>3, <3>1, <4>1, SeqEqual
      <3>4. garbled' = [garbled EXCEPT
                 ![v] = @ \/ BytesFrom(v, m) # Span(shown[v], Len(BytesFrom(v, m)))]
        BY <1>2, <2>2 DEF Deliver
      <3>5. garbled'[v] = (garbled[v] \/ BytesFrom(v, m) # Span(shown[v], Len(BytesFrom(v, m))))
        BY <3>4 DEF TypeOK
      <3>6. QED
        BY <1>13, <3>2, <3>3, <3>5
    <2>3. QED
      BY <2>1, <2>2
  <1>14. QED
    BY <1>9, <1>11, <1>12, <1>13

-----------------------------------------------------------------------------
(* The steps *)

\* What reaches the queue reaches no viewer yet
LEMMA QueueOnly ==
  ASSUME TypeOK, TypeOK', OrderInv, ViewInv, QueueStep,
         UNCHANGED <<attached, from, lagging, outbox, base, shown, garbled>>
  PROVE  OrderInv' /\ ViewInv'
  <1>1. ASSUME NEW v \in Viewers
        PROVE  OutboxInOrder(v)' /\ Last(v)' = Last(v) /\ (FramesTrue(v) => FramesTrue(v)')
    BY OutboxSame DEF OrderInv, QueueStep, TypeOK
  <1>2. /\ attached \subseteq Viewers /\ from \in [Viewers -> Nat]
        /\ Front \in Nat /\ Front' \in Nat /\ Front <= Front'
    <2>1. Front \in Nat
      BY FrontType DEF OrderInv
    <2>2. QED
      BY <2>1 DEF TypeOK, QueueStep
  <1>3. ASSUME NEW v \in attached
        PROVE  NotAhead(v)'
    <2>1. Last(v) \in Nat /\ Last(v)' = Last(v)
      BY <1>1, <1>2, LastType DEF OrderInv
    <2>2. QED
      BY <1>2, <2>1 DEF OrderInv, NotAhead
  <1>4. OrderInv'
    BY <1>1, <1>3 DEF OrderInv, QueueStep
  <1>5. ASSUME ~hole'
        PROVE  /\ Contiguous'
               /\ \A v \in attached' : UpToDate(v)'
               /\ \A v \in Viewers : FramesTrue(v)' /\ ~garbled'[v]
    <2>1. ~hole /\ Contiguous' /\ (attached # {} => Front' = Front)
      BY <1>5 DEF QueueStep, ViewInv
    <2>2. \A v \in attached : UpToDate(v)'
      BY <1>1, <1>2, <2>1 DEF ViewInv, UpToDate
    <2>3. QED
      BY <1>1, <2>1, <2>2 DEF ViewInv
  <1>6. QED
    BY <1>4, <1>5 DEF ViewInv

\* The queue and the screen stay, one viewer at most gets or writes a message
LEMMA OneViewer ==
  ASSUME TypeOK, TypeOK', OrderInv, ViewInv, NEW v \in Viewers,
         UNCHANGED <<seq, tx, pseq, pbytes, coalescer, hole>>,
         reader' = "done" <=> reader = "done",
         attached' \ {v} = attached \ {v},
         \A w \in Viewers \ {v} :
           /\ outbox'[w] = outbox[w] /\ shown'[w] = shown[w] /\ base'[w] = base[w]
           /\ from'[w] = from[w] /\ lagging'[w] = lagging[w] /\ garbled'[w] = garbled[w],
         OutboxInOrder(v)',
         v \in attached' => NotAhead(v)',
         ~hole => /\ FramesTrue(v)' /\ ~garbled'[v]
                  /\ v \in attached' => UpToDate(v)'
  PROVE  OrderInv' /\ ViewInv'
  <1>1. /\ ExitIsLast' /\ InOrder' /\ Front' = Front
        /\ Contiguous => Contiguous'
    BY QueueStill DEF OrderInv, QueueStep
  <1>2. seq' \in Nat /\ seq <= seq' /\ attached \subseteq Viewers /\ attached' \subseteq Viewers
    BY DEF TypeOK
  <1>3. ASSUME NEW w \in Viewers, w # v
        PROVE  OutboxInOrder(w)' /\ Last(w)' = Last(w) /\ (FramesTrue(w) => FramesTrue(w)')
    BY <1>2, <1>3, OutboxSame DEF OrderInv
  <1>4. ASSUME NEW w \in attached'
        PROVE  NotAhead(w)'
    <2>1. CASE w = v
      BY <2>1
    <2>2. CASE w # v
      BY <1>1, <1>2, <1>3, <2>2 DEF OrderInv, NotAhead
    <2>3. QED
      BY <2>1, <2>2
  <1>5. OrderInv'
    <2>1. ASSUME NEW w \in Viewers
          PROVE  OutboxInOrder(w)'
      BY <1>3
    <2>2. QED
      BY <1>1, <1>4, <2>1 DEF OrderInv
  <1>6. ASSUME ~hole, NEW w \in attached'
        PROVE  UpToDate(w)'
    <2>1. CASE w = v
      BY <1>6, <2>1
    <2>2. CASE w # v
      BY <1>1, <1>2, <1>3, <1>6, <2>2 DEF ViewInv, UpToDate
    <2>3. QED
      BY <2>1, <2>2
  <1>7. ASSUME ~hole, NEW w \in Viewers
        PROVE  FramesTrue(w)' /\ ~garbled'[w]
    <2>1. CASE w = v
      BY <1>7, <2>1
    <2>2. CASE w # v
      BY <1>3, <1>7, <2>2 DEF ViewInv
    <2>3. QED
      BY <2>1, <2>2
  <1>8. ViewInv'
    BY <1>1, <1>6, <1>7 DEF ViewInv
  <1>9. QED
    BY <1>5, <1>8

\* attach and resync: the screen as of now, and what follows it from then on
LEMMA SnapshotSent ==
  ASSUME TypeOK, OrderInv, ViewInv, NEW v \in Viewers, seq' = seq, Front' = Front,
         outbox'[v] = Append(outbox[v], Snapshot(seq)), from'[v] = seq,
         shown'[v] = shown[v], base'[v] = base[v]
  PROVE  /\ OutboxInOrder(v)' /\ NotAhead(v)' /\ UpToDate(v)'
         /\ ~hole => FramesTrue(v)'
  <1> DEFINE m == Snapshot(seq)
  <1>1. /\ m \in Messages /\ m.snap /\ m.bytes = <<>> /\ m.seq = seq /\ seq \in Nat
    BY DEF Snapshot, Messages, TypeOK
  <1>2. EndOf(m) = seq
    <2>1. Len(m.bytes) = 0
      BY <1>1
    <2>2. QED
      BY <1>1, <2>1 DEF EndOf
  <1>3. OutboxInOrder(v)' /\ Last(v)' = seq /\ (FramesTrue(v) => FramesTrue(v)')
    <2> HIDE DEF m
    <2>1. outbox'[v] = Append(outbox[v], m)
      BY DEF m
    <2>2. QED
      BY <1>1, <1>2, <2>1, OutboxAppend DEF OrderInv
  <1>4. Front \in Nat /\ Front <= seq
    BY FrontType DEF OrderInv
  <1>5. QED
    BY <1>1, <1>3, <1>4 DEF NotAhead, UpToDate, ViewInv

LEMMA ViewerSteps ==
  ASSUME TypeOK, TypeOK', OrderInv, ViewInv, NEW v \in Viewers, Viewer(v)
  PROVE  OrderInv' /\ ViewInv'
  <1>0. /\ UNCHANGED <<seq, tx, pseq, pbytes, coalescer, hole>>
        /\ reader' = "done" <=> reader = "done"
    BY DEF Viewer, Attach, Detach, Disconnect, Forget, Resync, StuckTimeout, Deliver, Ack,
       Notified
  <1>a. Front' = Front /\ seq' \in Nat /\ seq <= seq'
    <2>1. ExitIsLast /\ InOrder
      BY DEF OrderInv
    <2>2. Front' = Front
      BY <1>0, <2>1, QueueStill
    <2>3. QED
      BY <1>0, <2>2 DEF TypeOK
  <1>b. /\ OutboxInOrder(v)
        /\ v \in attached => NotAhead(v)
        /\ ~hole => /\ FramesTrue(v) /\ ~garbled[v]
                    /\ v \in attached => UpToDate(v)
    BY DEF OrderInv, ViewInv
  <1>1. CASE Attach(v) \/ Resync(v)
    <2>1. /\ outbox' = [outbox EXCEPT ![v] = Append(@, Snapshot(seq))]
          /\ from' = [from EXCEPT ![v] = seq]
          /\ lagging' = [lagging EXCEPT ![v] = FALSE]
          /\ attached' \ {v} = attached \ {v}
          /\ UNCHANGED <<shown, base, garbled>>
      BY <1>1 DEF Attach, Resync, viewVars
    <2>2. /\ outbox'[v] = Append(outbox[v], Snapshot(seq)) /\ from'[v] = seq
          /\ \A w \in Viewers \ {v} :
               outbox'[w] = outbox[w] /\ from'[w] = from[w] /\ lagging'[w] = lagging[w]
      BY <2>1 DEF TypeOK
    <2>3. /\ OutboxInOrder(v)' /\ NotAhead(v)' /\ UpToDate(v)'
          /\ ~hole => FramesTrue(v)'
      BY <1>0, <1>a, <2>1, <2>2, SnapshotSent
    <2>4. QED
      BY <1>0, <1>b, <2>1, <2>2, <2>3, OneViewer
  <1>2. CASE Detach(v) \/ Disconnect(v)
    <2>1. /\ attached' = attached \ {v}
          /\ from' = [from EXCEPT ![v] = 0]
          /\ lagging' = [lagging EXCEPT ![v] = FALSE]
          /\ outbox' = outbox \/ outbox' = [outbox EXCEPT ![v] = <<>>]
          /\ UNCHANGED <<shown, base, garbled>>
      BY <1>2 DEF Detach, Disconnect, Forget, viewVars
    <2>2. /\ outbox'[v] = outbox[v] \/ outbox'[v] = <<>>
          /\ \A w \in Viewers \ {v} :
               outbox'[w] = outbox[w] /\ from'[w] = from[w] /\ lagging'[w] = lagging[w]
      BY <2>1 DEF TypeOK
    <2>3. OutboxInOrder(v)' /\ (FramesTrue(v) => FramesTrue(v)')
      <3>1. CASE outbox'[v] = outbox[v]
        BY <1>a, <1>b, <2>1, <3>1, OutboxSame
      <3>2. CASE outbox'[v] = <<>>
        <4>1. Len(outbox'[v]) = 0
          BY <3>2
        <4>2. QED
          BY <1>0, <1>b, <2>1, <4>1 DEF OutboxInOrder, FramesTrue
      <3>3. QED
        BY <2>2, <3>1, <3>2
    <2>4. QED
      BY <1>0, <1>b, <2>1, <2>2, <2>3, OneViewer
  <1>3. CASE Deliver(v)
    <2>1. /\ \A w \in Viewers \ {v} :
               /\ outbox'[w] = outbox[w] /\ shown'[w] = shown[w] /\ base'[w] = base[w]
               /\ garbled'[w] = garbled[w]
          /\ UNCHANGED <<attached, from, lagging>>
      <3>1. CASE Head(outbox[v]).snap
        BY <1>3, <3>1 DEF Deliver, TypeOK, flowVars
      <3>2. CASE ~Head(outbox[v]).snap
        <4>1. PICK g : garbled' = [garbled EXCEPT ![v] = g]
          BY <1>3, <3>2, Zenon DEF Deliver
        <4>2. \A w \in Viewers \ {v} : garbled'[w] = garbled[w]
          BY <4>1 DEF TypeOK
        <4>3. QED
          BY <1>3, <3>2, <4>2 DEF Deliver, TypeOK, flowVars
      <3>3. QED
        BY <3>1, <3>2
    <2>2. /\ OutboxInOrder(v)' /\ Last(v)' = Last(v)
          /\ FramesTrue(v) /\ ~garbled[v] => FramesTrue(v)' /\ ~garbled'[v]
      BY <1>3, <1>b, OutboxDeliver
    <2>3. NotAhead(v) => NotAhead(v)'
      BY <1>a, <2>1, <2>2 DEF NotAhead
    <2>4. UpToDate(v) => UpToDate(v)'
      BY <1>a, <2>1, <2>2 DEF UpToDate
    <2>5. QED
      BY <1>0, <1>b, <2>1, <2>2, <2>3, <2>4, OneViewer
  <1>4. CASE StuckTimeout(v) \/ \E n \in 1..owed[v] : Ack(v, n)
    <2>1. UNCHANGED <<attached, from, lagging, outbox, shown, base, garbled>>
      BY <1>4 DEF StuckTimeout, Ack, viewVars
    <2>2. QueueStep
      BY <1>0, QueueStill DEF OrderInv
    <2>3. QED
      BY <2>1, <2>2, QueueOnly
  <1>5. QED
    BY <1>1, <1>2, <1>3, <1>4 DEF Viewer
-----------------------------------------------------------------------------
(* The flush *)

\* What a viewer that wants output is sent: the first bytes it was not shown
LEMMA SentFrames ==
  ASSUME TypeOK, NEW v \in Viewers, Flush, Sent(v) # 0
  PROVE  \E m \in Messages :
           /\ outbox'[v] = Append(outbox[v], m) /\ ~m.snap
           /\ m.seq = pseq + Skip(v) /\ EndOf(m) = pseq + Skip(v) + Sent(v)
           /\ \A j \in 1..Len(m.bytes) :
                /\ Skip(v) + j \in 1..Len(pbytes)
                /\ m.bytes[j] = pbytes[Skip(v) + j]
  <1> DEFINE b == SubSeq(pbytes, Skip(v) + 1, Skip(v) + Sent(v))
             m == Frames(pseq + Skip(v), b)
  <1>1. PICK k \in Nat, n \in Nat, l \in Nat :
          k = Skip(v) /\ n = Sent(v) /\ l = Len(pbytes) /\ k + n <= l
    <2>1. Skip(v) \in Nat /\ Sent(v) \in Nat /\ Skip(v) + Sent(v) <= Len(pbytes)
      BY SentType
    <2>2. Len(pbytes) \in Nat
      BY DEF TypeOK
    <2>3. QED
      BY <2>1, <2>2
  <1>2. \A i \in 1..l : pbytes[i] \in Nat
    <2>1. pbytes \in Seq(Nat)
      BY DEF TypeOK
    <2>2. QED
      BY <1>1, <2>1
  <1>3. \A i \in (k + 1)..(k + n) : pbytes[i] \in Nat
    <2>1. \A i \in (k + 1)..(k + n) : i \in 1..l
      BY <1>1
    <2>2. QED
      BY <1>2, <2>1
  <1>4. /\ SubSeq(pbytes, k + 1, k + n) \in Seq(Nat)
        /\ Len(SubSeq(pbytes, k + 1, k + n)) = n
        /\ \A j \in 1..n : SubSeq(pbytes, k + 1, k + n)[j] = pbytes[k + j]
    <2>1. PICK p \in Int, q \in Int : p = k + 1 /\ q = k + n
      OBVIOUS
    <2>2. \A i \in p..q : pbytes[i] \in Nat
      BY <1>3, <2>1
    <2>3. /\ SubSeq(pbytes, p, q) \in Seq(Nat)
          /\ Len(SubSeq(pbytes, p, q)) = IF p <= q THEN q - p + 1 ELSE 0
          /\ \A j \in 1..(q - p + 1) : SubSeq(pbytes, p, q)[j] = pbytes[p + j - 1]
      BY <2>2, SubSeqProperties
    <2>4. /\ q - p + 1 = n /\ (IF p <= q THEN q - p + 1 ELSE 0) = n
          /\ \A j \in 1..n : p + j - 1 = k + j
      BY <2>1
    <2>5. \A j \in 1..n : j \in 1..(q - p + 1)
      BY <2>4
    <2>6. \A j \in 1..n : SubSeq(pbytes, p, q)[j] = pbytes[k + j]
      BY <2>3, <2>4, <2>5
    <2>7. QED
      BY <2>1, <2>3, <2>4, <2>6
  <1>5. b \in Seq(Nat) /\ Len(b) = n /\ \A j \in 1..n : b[j] = pbytes[k + j]
    BY <1>1, <1>4
  <1>6. \A j \in 1..n : k + j \in 1..l
    BY <1>1
  <1>7. pseq + Skip(v) \in Nat
    <2>1. pseq \in Nat
      BY DEF TypeOK
    <2>2. QED
      BY <1>1, <2>1
  <1>8. outbox'[v] = Append(outbox[v], m)
    BY DEF Flush
  <1> HIDE DEF b
  <1>9. m \in Messages /\ ~m.snap /\ m.seq = pseq + Skip(v) /\ m.bytes = b
    BY <1>5, <1>7 DEF Frames, Messages
  <1>10. EndOf(m) = pseq + Skip(v) + Sent(v)
    BY <1>1, <1>5, <1>9 DEF EndOf
  <1>11. ASSUME NEW j \in 1..Len(m.bytes)
         PROVE  Skip(v) + j \in 1..Len(pbytes) /\ m.bytes[j] = pbytes[Skip(v) + j]
    BY <1>1, <1>5, <1>6, <1>9, <1>11
  <1> HIDE DEF m
  <1>12. QED
    BY <1>8, <1>9, <1>10, <1>11

\* A flush sends a viewer what follows what it has, and nothing twice
LEMMA FlushViewer ==
  ASSUME TypeOK, TypeOK', OrderInv, ViewInv, NEW v \in Viewers,
         FlushFirst \/ WindowEnd \/ ExitReceived
  PROVE  /\ OutboxInOrder(v)'
         /\ v \in attached => NotAhead(v)'
         /\ ~hole => FramesTrue(v)' /\ (v \in attached => UpToDate(v)')
  <1>1. /\ Flush /\ UNCHANGED <<seq, viewVars, hole>>
        /\ Front' \in Nat
        /\ pbytes = <<>> => Front' = Front
        /\ pbytes # <<>> => pseq + Len(pbytes) <= Front'
        /\ Contiguous => (pbytes # <<>> => pseq + Len(pbytes) = Front')
    BY FlushQueue DEF OrderInv
  <1>2. /\ shown'[v] = shown[v] /\ base'[v] = base[v] /\ from' = from /\ attached' = attached
        /\ seq' = seq /\ hole' = hole
        /\ lagging'[v] <=> lagging[v] \/ FellBehind(v)
    BY <1>1 DEF viewVars, Flush
  <1>3. PICK l \in Nat : l = Len(pbytes) /\ (pbytes = <<>> <=> l = 0)
    BY EmptyIsShort DEF TypeOK
  <1>4. /\ OutboxInOrder(v) /\ Last(v) \in Nat /\ from[v] \in Nat /\ pseq \in Nat /\ seq \in Nat
        /\ v \in attached => NotAhead(v)
        /\ ~hole => Contiguous /\ FramesTrue(v) /\ (v \in attached => UpToDate(v))
        /\ Front \in Nat
    <2>1. OutboxInOrder(v) /\ InOrder
      BY DEF OrderInv
    <2>2. Last(v) \in Nat /\ Front \in Nat
      BY <2>1, LastType, FrontType
    <2>3. QED
      BY <2>1, <2>2 DEF OrderInv, ViewInv, TypeOK
  <1>5. /\ l # 0 => Front = pseq /\ pseq + l <= seq /\ pseq + l <= Front'
        /\ l = 0 => Front' = Front
        /\ ~hole /\ l # 0 => Front' = pseq + l
    BY <1>1, <1>3, <1>4 DEF Front, InOrder, OrderInv
  <1>6. PICK k \in Nat, n \in Nat :
          /\ k = Skip(v) /\ n = Sent(v)
          /\ n # 0 => k + n <= l
          /\ k = IF from[v] > pseq THEN from[v] - pseq ELSE 0
    BY <1>3, SentType DEF Skip
  <1>7. n # 0 => Wants(v) /\ l # 0
    BY <1>6 DEF Sent
  <1>8. Wants(v) <=> v \in attached /\ ~lagging[v] /\ k < l
    BY <1>3, <1>6 DEF Wants
  <1>9. FellBehind(v) <=> Wants(v) /\ n < l - k
    BY <1>3, <1>6 DEF FellBehind
  <1>10. CASE n = 0
    <2>1. outbox'[v] = outbox[v]
      BY <1>1, <1>6, <1>10 DEF Flush
    <2>2. OutboxInOrder(v)' /\ Last(v)' = Last(v) /\ (FramesTrue(v) => FramesTrue(v)')
      <3>1. seq' \in Nat /\ seq <= seq'
        BY <1>2, <1>4
      <3>2. QED
        BY <1>2, <1>4, <2>1, <3>1, OutboxSame
    <2>3. v \in attached => NotAhead(v)'
      BY <1>1, <1>2, <1>4, <1>5, <2>2 DEF NotAhead
    <2>4. ASSUME ~hole, v \in attached, ~lagging'[v]
          PROVE  Last(v)' = IF from[v] > Front' THEN from[v] ELSE Front'
      <3>1. ~lagging[v] /\ l <= k
        BY <1>2, <1>8, <1>9, <1>10, <2>4
      <3>2. Last(v) = IF from[v] > Front THEN from[v] ELSE Front
        BY <1>4, <2>4, <3>1 DEF UpToDate
      <3>3. CASE l = 0
        BY <1>5, <2>2, <3>2, <3>3
      <3>4. CASE l # 0
        <4>1. Front = pseq /\ Front' = pseq + l /\ from[v] \in Nat /\ pseq \in Nat
          BY <1>4, <1>5, <2>4, <3>4
        <4>2. from[v] >= pseq + l
          BY <1>6, <3>1, <3>4, <4>1
        <4>3. Last(v) = from[v]
          BY <3>2, <3>4, <4>1, <4>2
        <4>4. QED
          BY <2>2, <4>1, <4>2, <4>3
      <3>5. QED
        BY <3>3, <3>4
    <2>5. QED
      BY <1>2, <1>4, <2>2, <2>3, <2>4 DEF UpToDate
  <1>11. CASE n # 0
    <2>1. PICK m \in Messages :
            /\ outbox'[v] = Append(outbox[v], m) /\ ~m.snap
            /\ m.seq = pseq + k /\ EndOf(m) = pseq + k + n
            /\ \A j \in 1..Len(m.bytes) : k + j \in 1..l /\ m.bytes[j] = pbytes[k + j]
      <3>1. PICK m \in Messages :
              /\ outbox'[v] = Append(outbox[v], m) /\ ~m.snap
              /\ m.seq = pseq + Skip(v) /\ EndOf(m) = pseq + Skip(v) + Sent(v)
              /\ \A j \in 1..Len(m.bytes) :
                   Skip(v) + j \in 1..Len(pbytes) /\ m.bytes[j] = pbytes[Skip(v) + j]
        BY <1>1, <1>6, <1>11, SentFrames
      <3>2. QED
        BY <1>3, <1>6, <3>1
    <2>2. v \in attached /\ ~lagging[v] /\ l # 0 /\ k + n <= l
      BY <1>6, <1>7, <1>8, <1>11
    <2>a. m.seq = pseq + k /\ EndOf(m) = pseq + k + n /\ pseq \in Nat
      BY <1>4, <2>1
    <2>3. Last(v) <= m.seq
      <3>1. Last(v) <= from[v] \/ Last(v) <= pseq
        BY <1>4, <1>5, <2>2 DEF NotAhead
      <3>2. Last(v) \in Nat /\ from[v] \in Nat
        BY <1>4
      <3>3. from[v] <= pseq + k /\ pseq <= pseq + k
        BY <1>6, <2>a, <3>2
      <3>4. QED
        BY <2>a, <3>1, <3>2, <3>3
    <2>4. EndOf(m) <= seq /\ EndOf(m) <= Front' /\ EndOf(m) \in Nat /\ m.seq \in Nat
      <3>1. pseq + l <= seq /\ pseq + l <= Front' /\ seq \in Nat /\ Front' \in Nat
        BY <1>1, <1>4, <1>5, <2>2
      <3>2. QED
        BY <2>2, <2>a, <3>1
    <2>5. ASSUME ~hole
          PROVE  m.seq = Last(v) /\ \A j \in 1..Len(m.bytes) : m.bytes[j] = m.seq + j - 1
      <3>1. Last(v) = IF from[v] > Front THEN from[v] ELSE Front
        BY <1>4, <2>2, <2>5 DEF UpToDate
      <3>2. m.seq = Last(v)
        <4>1. Front = pseq /\ from[v] \in Nat
          BY <1>4, <1>5, <2>2
        <4>2. QED
          BY <1>6, <2>a, <3>1, <4>1
      <3>3. \A i \in 1..l : pbytes[i] = pseq + i - 1
        BY <1>3, <1>4, <2>5 DEF Contiguous
      <3>4. ASSUME NEW j \in 1..Len(m.bytes)
            PROVE  m.bytes[j] = m.seq + j - 1
        <4>1. m.bytes[j] = pseq + (k + j) - 1
          BY <2>1, <3>3
        <4>2. Len(m.bytes) \in Nat
          BY DEF Messages
        <4>3. QED
          BY <1>4, <2>1, <4>1, <4>2
      <3>5. QED
        BY <3>2, <3>4
    <2>6. /\ OutboxInOrder(v)' /\ Last(v)' = EndOf(m)
          /\ ~hole => FramesTrue(v)'
      <3>1. ~m.snap => m.seq >= Last(v)
        BY <1>4, <2>3, <2>4
      <3>2. /\ OutboxInOrder(v)' /\ Last(v)' = EndOf(m)
            /\ FramesTrue(v) /\ (~m.snap => /\ m.seq = Last(v)
                                            /\ \A j \in 1..Len(m.bytes) :
                                                 m.bytes[j] = m.seq + j - 1)
                 => FramesTrue(v)'
        BY <1>2, <1>4, <2>1, <2>4, <3>1, OutboxAppend
      <3>3. QED
        BY <1>4, <2>5, <3>2
    <2>7. NotAhead(v)'
      BY <2>4, <2>6 DEF NotAhead
    <2>8. ASSUME ~hole
          PROVE  UpToDate(v)'
      <3>1. SUFFICES ASSUME ~lagging'[v]
                     PROVE  Last(v)' = IF from[v] > Front' THEN from[v] ELSE Front'
        BY <1>2 DEF UpToDate
      <3>2. ~(n < l - k)
        BY <1>2, <1>7, <1>9, <1>11, <3>1
      <3>3. k + n = l
        BY <2>2, <3>2
      <3>4. EndOf(m) = Front' /\ from[v] <= Front'
        <4>1. Front' = pseq + l /\ from[v] \in Nat
          BY <1>4, <1>5, <2>2, <2>8
        <4>2. from[v] <= pseq + k
          BY <1>6, <2>a, <4>1
        <4>3. QED
          BY <2>a, <3>3, <4>1, <4>2
      <3>5. Last(v)' = EndOf(m)
        BY <2>6
      <3>6. QED
        BY <1>1, <1>4, <3>4, <3>5
    <2>9. QED
      BY <2>6, <2>7, <2>8
  <1>12. QED
    BY <1>10, <1>11

LEMMA FlushSteps ==
  ASSUME TypeOK, TypeOK', OrderInv, ViewInv, FlushFirst \/ WindowEnd \/ ExitReceived
  PROVE  OrderInv' /\ ViewInv'
  <1>1. /\ Flush /\ UNCHANGED <<seq, viewVars, hole>>
        /\ ExitIsLast' /\ InOrder'
        /\ Contiguous => Contiguous'
    BY FlushQueue DEF OrderInv
  <1>2. attached' = attached /\ attached \subseteq Viewers /\ garbled' = garbled /\ hole' = hole
    BY <1>1 DEF Flush, viewVars, TypeOK
  <1>3. ASSUME NEW v \in Viewers
        PROVE  /\ OutboxInOrder(v)'
               /\ v \in attached' => NotAhead(v)'
               /\ ~hole' => FramesTrue(v)' /\ (v \in attached' => UpToDate(v)')
    BY <1>2, FlushViewer
  <1>4. OrderInv'
    BY <1>1, <1>2, <1>3 DEF OrderInv
  <1>5. ViewInv'
    BY <1>1, <1>2, <1>3 DEF ViewInv
  <1>6. QED
    BY <1>4, <1>5

-----------------------------------------------------------------------------
(* The theorems *)

LEMMA ViewInit == Init => OrderInv /\ ViewInv
  <1> SUFFICES ASSUME Init PROVE OrderInv /\ ViewInv
    OBVIOUS
  <1>1. Len(tx) = 0 /\ Len(pbytes) = 0 /\ tx = <<>> /\ pbytes = <<>> /\ attached = {}
    BY DEF Init
  <1>2. ASSUME NEW v \in Viewers
        PROVE  Len(outbox[v]) = 0 /\ base[v] = 0 /\ shown[v] = 0 /\ ~garbled[v] /\ seq = 0
    BY DEF Init
  <1>3. OrderInv
    BY <1>1, <1>2 DEF OrderInv, ExitIsLast, InOrder, OutboxInOrder, Init
  <1>4. ViewInv
    BY <1>1, <1>2 DEF ViewInv, Contiguous, FramesTrue
  <1>5. QED
    BY <1>3, <1>4

LEMMA ViewStep == TypeOK /\ TypeOK' /\ OrderInv /\ ViewInv /\ [Next]_vars => OrderInv' /\ ViewInv'
  <1> SUFFICES ASSUME TypeOK, TypeOK', OrderInv, ViewInv, [Next]_vars
               PROVE  OrderInv' /\ ViewInv'
    OBVIOUS
  <1>0. ExitIsLast /\ InOrder
    BY DEF OrderInv
  <1>1. CASE Restart \/ \E n \in 1..MaxSeq : Ingest(n)
    <2>1. UNCHANGED <<attached, from, lagging, outbox, base, shown, garbled>>
      BY <1>1 DEF Restart, Ingest, flowVars, viewVars
    <2>2. QED
      BY <1>0, <1>1, <2>1, IngestQueue, QueueOnly
  <1>2. CASE ReadEnd
    <2>1. UNCHANGED <<attached, from, lagging, outbox, base, shown, garbled>>
      BY <1>2 DEF ReadEnd, flowVars, viewVars
    <2>2. QED
      BY <1>0, <1>2, <2>1, ReadEndQueue, QueueOnly
  <1>3. CASE Absorb \/ AbsorbInWindow
    <2>1. UNCHANGED <<attached, from, lagging, outbox, base, shown, garbled>>
      BY <1>3 DEF Absorb, AbsorbInWindow, flowVars, viewVars
    <2>2. QED
      BY <1>0, <1>3, <2>1, AbsorbQueue, QueueOnly
  <1>4. CASE WaitForCredit \/ Drained \/ Signal \/ UNCHANGED vars
    <2>1. /\ UNCHANGED <<attached, from, lagging, outbox, base, shown, garbled>>
          /\ UNCHANGED <<seq, tx, pseq, pbytes, hole>>
          /\ reader' = "done" <=> reader = "done"
          /\ coalescer' = "exited" => coalescer = "exited"
      BY <1>4 DEF WaitForCredit, Drained, Signal, Notified, vars, flowVars, viewVars
    <2>2. QueueStep
      BY <1>0, <2>1, QueueStill
    <2>3. QED
      BY <2>1, <2>2, QueueOnly
  <1>5. CASE FlushFirst \/ WindowEnd \/ ExitReceived
    BY <1>5, FlushSteps
  <1>6. ASSUME NEW v \in Viewers, Viewer(v)
        PROVE  OrderInv' /\ ViewInv'
    BY <1>6, ViewerSteps
  <1>7. QED
    BY <1>1, <1>2, <1>3, <1>4, <1>5, <1>6 DEF Next, Reader, Coalesce

LEMMA ViewKept == Spec => [](TypeOK /\ OrderInv /\ ViewInv)
  <1>1. Init => TypeOK /\ OrderInv /\ ViewInv
    BY TypeInit, ViewInit
  <1>2. TypeOK /\ OrderInv /\ ViewInv /\ [Next]_vars => (TypeOK /\ OrderInv /\ ViewInv)'
    BY TypeStep, ViewStep
  <1>3. QED
    BY <1>1, <1>2, PTL DEF Spec

\* No byte reaches a viewer twice, whatever it acks, skips, reattaches or
\* restarts: data on its way to it starts at or after the end of what comes
\* before it (flush trims by from_seq; attach and resync send the snapshot under
\* the flow lock)
THEOREM NoByteSentTwice == Spec => []NoByteTwice
  <1>1. TypeOK /\ OrderInv => NoByteTwice
    <2> SUFFICES ASSUME TypeOK, OrderInv, NEW v \in Viewers, NEW i \in DOMAIN outbox[v],
                        ~outbox[v][i].snap
                 PROVE  outbox[v][i].seq >= EndBefore(v, i)
      BY DEF NoByteTwice, EndBefore, EndOf
    <2>1. outbox[v] \in Seq(Messages)
      BY DEF TypeOK
    <2>2. i \in 1..Len(outbox[v])
      BY <2>1
    <2>3. QED
      BY <2>2 DEF OrderInv, OutboxInOrder
  <1>2. QED
    BY <1>1, ViewKept, PTL

\* While no output was left out of the queue between queued chunks, every byte a
\* viewer writes is the output's at that place, across snapshots, lag, resyncs,
\* exits and restarts ("Under the screen lock, so an Attach sees either this
\* chunk in its snapshot or here", session.rs ingest)
THEOREM ViewFaithful == Spec => []FaithfulView
  <1>1. ViewInv => FaithfulView
    BY DEF ViewInv, FaithfulView
  <1>2. QED
    BY <1>1, ViewKept, PTL
-----------------------------------------------------------------------------
(* How many bytes are on their way *)

LEMMA PlacesAre ==
  ASSUME NEW s \in Seq(Messages)
  PROVE  \A p : p \in Places(s) <=>
           \E i \in 1..Len(s), j \in Nat : p = <<i, j>> /\ j \in 1..Len(s[i].bytes)
  <1>1. DOMAIN s = 1..Len(s)
    OBVIOUS
  <1>2. \A i \in 1..Len(s) : Len(s[i].bytes) \in Nat
    <2>1. ASSUME NEW i \in 1..Len(s)
          PROVE  Len(s[i].bytes) \in Nat
      <3>1. s[i] \in Messages
        OBVIOUS
      <3>2. s[i].bytes \in Seq(Nat)
        BY <3>1 DEF Messages
      <3>3. QED
        BY <3>2
    <2>2. QED
      BY <2>1
  <1>3. \A p : p \in Places(s) <=> \E i \in 1..Len(s) : p \in {i} \X (1..Len(s[i].bytes))
    BY <1>1, Zenon DEF Places
  <1>4. QED
    BY <1>2, <1>3

LEMMA NoPlaces ==
  IsFiniteSet(Places(<<>>)) /\ Cardinality(Places(<<>>)) = 0
  <1>1. Places(<<>>) = {}
    BY DEF Places
  <1>2. QED
    BY <1>1, FS_EmptySet

\* The places of one message
LEMMA RowOf ==
  ASSUME NEW i, NEW n \in Nat
  PROVE  IsFiniteSet({i} \X (1..n)) /\ Cardinality({i} \X (1..n)) = n
  <1>1. IsFiniteSet(1..n) /\ Cardinality(1..n) = n
    BY FS_Interval
  <1>2. IsFiniteSet({i}) /\ Cardinality({i}) = 1
    BY FS_Singleton
  <1>3. QED
    BY <1>1, <1>2, FS_Product

\* A message that is sent adds its bytes
LEMMA PlacesAppend ==
  ASSUME NEW s \in Seq(Messages), NEW m \in Messages, NEW t, t = Append(s, m),
         IsFiniteSet(Places(s))
  PROVE  /\ IsFiniteSet(Places(t)) /\ Cardinality(Places(s)) \in Nat
         /\ Cardinality(Places(t)) = Cardinality(Places(s)) + Len(m.bytes)
  <1>1. PICK k \in Nat : k = Len(s)
    OBVIOUS
  <1>2. /\ t \in Seq(Messages) /\ Len(t) = k + 1 /\ t[k + 1] = m
        /\ \A i \in 1..k : t[i] = s[i]
    BY <1>1, AppendAt
  <1>12. \A p : p \in Places(t) <=>
           \E i \in 1..(k + 1), j \in Nat : p = <<i, j>> /\ j \in 1..Len(t[i].bytes)
    <2>1. t \in Seq(Messages)
      BY <1>2
    <2>2. \A p : p \in Places(t) <=>
            \E i \in 1..Len(t), j \in Nat : p = <<i, j>> /\ j \in 1..Len(t[i].bytes)
      BY <2>1, PlacesAre
    <2>3. Len(t) = k + 1
      BY <1>2
    <2> QED
      BY <2>2, <2>3
  <1>3. m.bytes \in Seq(Nat) /\ Len(m.bytes) \in Nat
    <2>1. m.bytes \in Seq(Nat)
      BY DEF Messages
    <2>2. QED
      BY <2>1
  <1> DEFINE row == {k + 1} \X (1..Len(m.bytes))
  <1>4. IsFiniteSet(row) /\ Cardinality(row) = Len(m.bytes)
    BY <1>3, RowOf
  <1>5. Places(t) = Places(s) \cup row
    <2>1. ASSUME NEW p
          PROVE  p \in Places(t) <=> p \in Places(s) \/ p \in row
      <3>1. p \in Places(t) <=>
              \E i \in 1..(k + 1), j \in Nat : p = <<i, j>> /\ j \in 1..Len(t[i].bytes)
        BY <1>12
      <3>2. p \in Places(s) <=>
              \E i \in 1..k, j \in Nat : p = <<i, j>> /\ j \in 1..Len(s[i].bytes)
        BY <1>1, PlacesAre
      <3>3. p \in row <=> \E j \in Nat : p = <<k + 1, j>> /\ j \in 1..Len(t[k + 1].bytes)
        BY <1>2, <1>3
      <3>4. \A i : i \in 1..(k + 1) <=> i \in 1..k \/ i = k + 1
        OBVIOUS
      <3> HIDE DEF row
      <3>5. p \in Places(t) => p \in Places(s) \/ p \in row
        <4>1. SUFFICES ASSUME NEW i \in 1..(k + 1), NEW j \in Nat, p = <<i, j>>,
                              j \in 1..Len(t[i].bytes)
                       PROVE  p \in Places(s) \/ p \in row
          BY <3>1
        <4>2. CASE i \in 1..k
          BY <1>2, <3>2, <4>1, <4>2
        <4>3. CASE i = k + 1
          BY <3>3, <4>1, <4>3
        <4>4. QED
          BY <3>4, <4>2, <4>3
      <3>6. p \in Places(s) => p \in Places(t)
        <4>1. SUFFICES ASSUME NEW i \in 1..k, NEW j \in Nat, p = <<i, j>>,
                              j \in 1..Len(s[i].bytes)
                       PROVE  p \in Places(t)
          BY <3>2
        <4>2. i \in 1..(k + 1) /\ t[i] = s[i]
          BY <1>2
        <4>3. QED
          BY <3>1, <4>1, <4>2
      <3>7. p \in row => p \in Places(t)
        <4>1. k + 1 \in 1..(k + 1)
          OBVIOUS
        <4>2. QED
          BY <3>1, <3>3, <4>1
      <3>8. QED
        BY <3>5, <3>6, <3>7
    <2> HIDE DEF row
    <2>2. QED
      BY <2>1
  <1>6. Places(s) \cap row = {}
    <2>1. ASSUME NEW p, p \in Places(s), p \in row
          PROVE  FALSE
      <3>1. PICK i \in 1..k, j \in Nat : p = <<i, j>>
        BY <1>1, <2>1, PlacesAre
      <3>2. p[1] = i /\ p[1] = k + 1
        BY <2>1, <3>1
      <3>3. QED
        BY <3>2
    <2>2. QED
      BY <2>1
  <1> HIDE DEF row
  <1>7. /\ IsFiniteSet(Places(s) \cup row)
        /\ Cardinality(Places(s) \cup row) =
             Cardinality(Places(s)) + Cardinality(row) - Cardinality(Places(s) \cap row)
    BY <1>4, FS_Union
  <1>8. Cardinality(Places(s)) \in Nat /\ Cardinality({}) = 0
    BY FS_CardinalityType, FS_EmptySet
  <1>9. \A a, n \in Nat : a + n - 0 = a + n
    OBVIOUS
  <1>10. Cardinality(Places(t)) = Cardinality(Places(s)) + Len(m.bytes) - 0
    BY <1>4, <1>5, <1>6, <1>7, <1>8
  <1>11. QED
    BY <1>3, <1>5, <1>7, <1>8, <1>9, <1>10

\* The first message takes its bytes with it
LEMMA PlacesTail ==
  ASSUME NEW s \in Seq(Messages), s # <<>>, NEW t, t = Tail(s), IsFiniteSet(Places(s))
  PROVE  /\ IsFiniteSet(Places(t)) /\ Cardinality(Places(t)) \in Nat
         /\ Len(s[1].bytes) \in Nat
         /\ Cardinality(Places(s)) = Cardinality(Places(t)) + Len(s[1].bytes)
  <1>1. PICK k \in Nat : k = Len(s)
    OBVIOUS
  <1>2. /\ k # 0 /\ Len(t) = k - 1
        /\ \A i \in 1..(k - 1) : t[i] = s[i + 1]
    BY <1>1, TailAt
  <1>3. t \in Seq(Messages) /\ s[1] \in Messages
    BY <1>1, <1>2
  <1>4. Len(s[1].bytes) \in Nat
    <2>1. s[1].bytes \in Seq(Nat)
      BY <1>3 DEF Messages
    <2>2. QED
      BY <2>1
  <1> DEFINE row == {1} \X (1..Len(s[1].bytes))
             rest == Places(s) \ row
             f == [p \in rest |-> <<p[1] - 1, p[2]>>]
  <1>5. IsFiniteSet(row) /\ Cardinality(row) = Len(s[1].bytes)
    BY <1>4, RowOf
  <1>6. \A p : p \in row <=> \E j \in Nat : p = <<1, j>> /\ j \in 1..Len(s[1].bytes)
    BY <1>4
  <1>7. \A p : p \in Places(s) <=>
          \E i \in 1..k, j \in Nat : p = <<i, j>> /\ j \in 1..Len(s[i].bytes)
    BY <1>1, PlacesAre
  <1>8. \A p : p \in Places(t) <=>
          \E i \in 1..(k - 1), j \in Nat : p = <<i, j>> /\ j \in 1..Len(t[i].bytes)
    BY <1>2, <1>3, PlacesAre
  <1> HIDE DEF row
  <1>9. row \subseteq Places(s)
    <2>1. 1 \in 1..k
      BY <1>2
    <2>2. QED
      BY <1>6, <1>7, <2>1
  <1>10. \A p : p \in rest <=>
           \E i \in 1..(k - 1), j \in Nat : p = <<i + 1, j>> /\ j \in 1..Len(t[i].bytes)
    <2>1. ASSUME NEW p, p \in rest
          PROVE  \E i \in 1..(k - 1), j \in Nat : p = <<i + 1, j>> /\ j \in 1..Len(t[i].bytes)
      <3>1. PICK i \in 1..k, j \in Nat : p = <<i, j>> /\ j \in 1..Len(s[i].bytes)
        BY <1>7, <2>1
      <3>2. i # 1
        BY <1>6, <2>1, <3>1
      <3>3. i - 1 \in 1..(k - 1) /\ (i - 1) + 1 = i
        BY <3>2
      <3>4. QED
        BY <1>2, <3>1, <3>3
    <2>2. ASSUME NEW p, NEW i \in 1..(k - 1), NEW j \in Nat, p = <<i + 1, j>>,
                 j \in 1..Len(t[i].bytes)
          PROVE  p \in rest
      <3>1. i + 1 \in 1..k /\ i + 1 # 1 /\ t[i] = s[i + 1]
        BY <1>2
      <3>2. p \in Places(s)
        BY <1>7, <2>2, <3>1
      <3>3. p \notin row
        BY <1>6, <2>2, <3>1
      <3>4. QED
        BY <3>2, <3>3
    <2>3. QED
      BY <2>1, <2>2
  <1> HIDE DEF rest
  <1>11. f \in Bijection(rest, Places(t))
    <2>1. ASSUME NEW p \in rest
          PROVE  f[p] \in Places(t) /\ \E i \in Nat, j \in Nat : p = <<i + 1, j>> /\ f[p] = <<i, j>>
      <3>1. PICK i \in 1..(k - 1), j \in Nat : p = <<i + 1, j>> /\ j \in 1..Len(t[i].bytes)
        BY <1>10
      <3>2. f[p] = <<i, j>>
        BY <3>1
      <3>3. i \in Nat /\ <<i, j>> \in Places(t)
        <4>1. i \in Nat
          OBVIOUS
        <4>2. <<i, j>> \in Places(t)
          BY <1>8, <3>1, Zenon
        <4>3. QED
          BY <4>1, <4>2
      <3> HIDE DEF f
      <3>4. QED
        BY <3>1, <3>2, <3>3
    <2>2. f \in [rest -> Places(t)]
      BY <2>1
    <2>3. ASSUME NEW p \in rest, NEW q \in rest, f[p] = f[q]
          PROVE  p = q
      BY <2>1, <2>3
    <2>4. ASSUME NEW q \in Places(t)
          PROVE  \E p \in rest : f[p] = q
      <3>1. PICK i \in 1..(k - 1), j \in Nat : q = <<i, j>> /\ j \in 1..Len(t[i].bytes)
        BY <1>8
      <3>2. <<i + 1, j>> \in rest
        BY <1>10, <3>1
      <3>3. f[<<i + 1, j>>] = q
        BY <3>1, <3>2
      <3>4. QED
        BY <3>2, <3>3
    <2> HIDE DEF f
    <2>5. QED
      BY <2>2, <2>3, <2>4, Fun_IsBij
  <1>12. IsFiniteSet(rest) /\ Cardinality(rest) = Cardinality(Places(s)) - Cardinality(Places(s) \cap row)
    BY FS_Difference DEF rest
  <1>13. Places(s) \cap row = row
    BY <1>9
  <1>14. IsFiniteSet(Places(t)) /\ Cardinality(Places(t)) = Cardinality(rest)
    <2>1. ExistsBijection(rest, Places(t))
      BY <1>11 DEF ExistsBijection
    <2>2. QED
      BY <1>12, <2>1, FS_Bijection
  <1>15. Cardinality(Places(s)) \in Nat /\ Cardinality(Places(t)) \in Nat
    BY <1>14, FS_CardinalityType
  <1>16. \A a, b, n \in Nat : b = a - n => a = b + n
    OBVIOUS
  <1>17. Cardinality(Places(t)) = Cardinality(Places(s)) - Len(s[1].bytes)
    BY <1>5, <1>12, <1>13, <1>14
  <1>18. QED
    BY <1>4, <1>14, <1>15, <1>16, <1>17
-----------------------------------------------------------------------------
(* A viewer that lags is brought back by its acks *)

\* What a viewer still has to ack covers what it is counted as owing, whether it
\* lags or not: acks only wait for bytes that are on their way or rendered
Covered(v) ==
  /\ IsFiniteSet(Places(outbox[v]))
  /\ v \in attached => unacked[v] <= InFlight(v) + owed[v]

\* Its acks pass LOW_WATER only after it fell behind
OverLow(v) == v \in attached /\ lagging[v] /\ ~resyncing[v] => unacked[v] > LowWater

StrandInv == \A v \in Viewers : Covered(v) /\ OverLow(v)

LEMMA CoveredType ==
  ASSUME TypeOK, NEW v \in Viewers, Covered(v)
  PROVE  InFlight(v) \in Nat /\ owed[v] \in Nat /\ unacked[v] \in Nat
  BY FS_CardinalityType DEF Covered, InFlight, TypeOK

LEMMA StrandSame ==
  ASSUME NEW v \in Viewers, Covered(v), OverLow(v), outbox'[v] = outbox[v],
         owed'[v] = owed[v], unacked'[v] = unacked[v], lagging'[v] = lagging[v],
         resyncing'[v] = resyncing[v], v \in attached' <=> v \in attached
  PROVE  Covered(v)' /\ OverLow(v)'
  <1>1. InFlight(v)' = InFlight(v) /\ Places(outbox[v])' = Places(outbox[v])
    BY DEF InFlight, Places
  <1>2. QED
    BY <1>1 DEF Covered, OverLow

\* A snapshot takes no acks
LEMMA SnapshotFree ==
  ASSUME TypeOK, NEW v \in Viewers, Covered(v), outbox'[v] = Append(outbox[v], Snapshot(seq))
  PROVE  IsFiniteSet(Places(outbox[v]))' /\ InFlight(v)' = InFlight(v)
  <1>1. outbox[v] \in Seq(Messages) /\ seq \in Nat /\ Snapshot(seq) \in Messages
    BY DEF TypeOK, Snapshot, Messages
  <1>2. Len(Snapshot(seq).bytes) = 0
    BY DEF Snapshot
  <1>3. /\ IsFiniteSet(Places(outbox'[v])) /\ Cardinality(Places(outbox[v])) \in Nat
        /\ Cardinality(Places(outbox'[v])) = Cardinality(Places(outbox[v])) + 0
    BY <1>1, <1>2, PlacesAppend DEF Covered
  <1>4. \A a \in Nat : a + 0 = a
    OBVIOUS
  <1>5. Places(outbox[v])' = Places(outbox'[v]) /\ InFlight(v)' = Cardinality(Places(outbox'[v]))
    BY DEF InFlight, Places
  <1>6. QED
    BY <1>3, <1>4, <1>5 DEF InFlight

\* flush counts what it sends, and leaves nobody behind at or under LOW_WATER
LEMMA StrandFlush ==
  ASSUME TypeOK, NEW v \in Viewers, Covered(v), OverLow(v), Flush, owed' = owed
  PROVE  Covered(v)' /\ OverLow(v)'
  <1>1. /\ unacked'[v] = unacked[v] + Sent(v) /\ attached' = attached /\ resyncing' = resyncing
        /\ lagging'[v] = (lagging[v] \/ FellBehind(v))
    BY DEF Flush
  <1>2. PICK u \in Nat, n \in Nat, f \in Nat, w \in Nat :
          u = unacked[v] /\ n = Sent(v) /\ f = InFlight(v) /\ w = owed[v]
    BY SentType, CoveredType
  <1>3. IsFiniteSet(Places(outbox[v]))' /\ InFlight(v)' = f + n
    <2>0. Places(outbox[v])' = Places(outbox'[v]) /\ InFlight(v)' = Cardinality(Places(outbox'[v]))
      BY DEF InFlight, Places
    <2>1. CASE Sent(v) = 0
      <3>1. outbox'[v] = outbox[v]
        BY <2>1 DEF Flush
      <3>2. f + 0 = f
        OBVIOUS
      <3>3. QED
        BY <1>2, <2>0, <2>1, <3>1, <3>2 DEF Covered, InFlight
    <2>2. CASE Sent(v) # 0
      <3>1. PICK m \in Messages :
              /\ outbox'[v] = Append(outbox[v], m)
              /\ m.seq = pseq + Skip(v) /\ EndOf(m) = pseq + Skip(v) + Sent(v)
        BY <2>2, SentFrames
      <3>2. Len(m.bytes) = n
        <4>1. m.bytes \in Seq(Nat) /\ m.seq \in Nat
          BY DEF Messages
        <4>2. PICK l \in Nat : l = Len(m.bytes)
          BY <4>1
        <4>3. m.seq + l = m.seq + n
          <5>1. pseq \in Nat /\ Skip(v) \in Nat
            BY SentType DEF TypeOK
          <5>2. QED
            BY <1>2, <3>1, <4>2, <5>1 DEF EndOf
        <4>4. QED
          BY <4>1, <4>2, <4>3
      <3>3. outbox[v] \in Seq(Messages)
        BY DEF TypeOK
      <3>4. /\ IsFiniteSet(Places(outbox'[v]))
            /\ Cardinality(Places(outbox'[v])) = Cardinality(Places(outbox[v])) + Len(m.bytes)
        BY <3>1, <3>3, PlacesAppend DEF Covered
      <3>5. QED
        BY <1>2, <2>0, <3>2, <3>4 DEF InFlight
    <2>3. QED
      BY <2>1, <2>2
  <1>4. Covered(v)'
    <2>1. owed'[v] = w
      BY <1>2
    <2>2. v \in attached => u <= f + w
      BY <1>2 DEF Covered
    <2>3. v \in attached => u + n <= f + n + w
      BY <2>2
    <2>4. QED
      BY <1>1, <1>2, <1>3, <2>1, <2>3 DEF Covered
  <1>5. FellBehind(v) => u + n > HighWater
    <2>1. ASSUME FellBehind(v)
          PROVE  n = Room(v)
      BY <1>2, <2>1 DEF FellBehind, Sent
    <2>2. ASSUME u <= HighWater
          PROVE  u + Room(v) > HighWater
      <3> DEFINE d == HighWater - u
      <3>1. d \in Nat
        BY <2>2, WaterAssumption
      <3>2. d \div MaxFrame \in Nat /\ MaxFrame * (d \div MaxFrame) > d - MaxFrame
        BY <3>1, WaterAssumption
      <3>3. MaxFrame * ((d \div MaxFrame) + 1) = MaxFrame * (d \div MaxFrame) + MaxFrame
        BY <3>2, WaterAssumption
      <3>4. MaxFrame * ((d \div MaxFrame) + 1) > d
        <4>1. MaxFrame * (d \div MaxFrame) \in Nat
          BY <3>2, WaterAssumption
        <4>2. QED
          BY <3>1, <3>2, <3>3, <4>1, WaterAssumption
      <3>5. Room(v) = MaxFrame * ((d \div MaxFrame) + 1)
        BY <1>2, <2>2, WaterAssumption DEF Room
      <3>6. Room(v) > HighWater - u /\ Room(v) \in Nat
        BY <3>4, <3>5, SentType
      <3>7. QED
        BY <3>6, WaterAssumption
    <2>3. QED
      BY <1>2, <2>1, <2>2, WaterAssumption
  <1>6. lagging[v] => n = 0
    BY <1>2 DEF Sent, Wants
  <1>7. OverLow(v)'
    <2>1. SUFFICES ASSUME v \in attached, lagging[v] \/ FellBehind(v), ~resyncing[v]
                   PROVE  u + n > LowWater
      BY <1>1, <1>2 DEF OverLow
    <2>2. CASE lagging[v]
      BY <1>2, <1>6, <2>1, <2>2, WaterAssumption DEF OverLow
    <2>3. CASE FellBehind(v)
      BY <1>5, <2>3, WaterAssumption
    <2>4. QED
      BY <2>1, <2>2, <2>3
  <1>8. QED
    BY <1>4, <1>7

\* What the pane writes it owes an ack for
LEMMA StrandDeliver ==
  ASSUME TypeOK, NEW v \in Viewers, OutboxInOrder(v), Covered(v), OverLow(v), Deliver(v)
  PROVE  Covered(v)' /\ OverLow(v)'
  <1>1. /\ outbox[v] \in Seq(Messages) /\ outbox[v] # <<>> /\ outbox'[v] = Tail(outbox[v])
        /\ UNCHANGED <<attached, unacked, lagging, resyncing>>
    BY DEF TypeOK, Deliver, flowVars
  <1>2. /\ Head(outbox[v]) = outbox[v][1] /\ 1 \in 1..Len(outbox[v])
    BY <1>1, TailAt
  <1>3. /\ IsFiniteSet(Places(outbox'[v])) /\ Cardinality(Places(outbox'[v])) \in Nat
        /\ Len(outbox[v][1].bytes) \in Nat
        /\ Cardinality(Places(outbox[v])) = Cardinality(Places(outbox'[v])) + Len(outbox[v][1].bytes)
    BY <1>1, PlacesTail DEF Covered
  <1>4. PICK l \in Nat, g \in Nat : l = Len(outbox[v][1].bytes) /\ g = Cardinality(Places(outbox'[v]))
    BY <1>3
  <1>5. owed'[v] = owed[v] + l /\ owed[v] \in Nat /\ unacked[v] \in Nat
    <2>1. owed \in [Viewers -> Nat] /\ unacked[v] \in Nat
      BY DEF TypeOK
    <2>2. CASE outbox[v][1].snap
      <3>1. outbox[v][1].bytes = <<>>
        BY <1>2, <2>2 DEF OutboxInOrder
      <3>2. l = 0 /\ owed' = owed
        BY <1>2, <1>4, <2>2, <3>1 DEF Deliver
      <3>3. QED
        BY <2>1, <3>2
    <2>3. CASE ~outbox[v][1].snap
      <3>1. owed' = [owed EXCEPT ![v] = @ + l]
        BY <1>2, <1>4, <2>3 DEF Deliver
      <3>2. QED
        BY <2>1, <3>1
    <2>4. QED
      BY <2>2, <2>3
  <1>6. Places(outbox[v])' = Places(outbox'[v]) /\ InFlight(v)' = g /\ InFlight(v) = g + l
    BY <1>3, <1>4 DEF InFlight, Places
  <1>7. Covered(v)'
    <2>1. v \in attached => unacked[v] <= g + l + owed[v]
      BY <1>6 DEF Covered
    <2>2. v \in attached => unacked[v] <= g + (owed[v] + l)
      BY <1>5, <2>1
    <2>3. QED
      BY <1>1, <1>3, <1>5, <1>6, <2>2 DEF Covered
  <1>8. OverLow(v)'
    BY <1>1 DEF OverLow
  <1>9. QED
    BY <1>7, <1>8

\* An ack lowers both sides, and sends a viewer under LOW_WATER to its resync
LEMMA StrandAck ==
  ASSUME TypeOK, NEW v \in Viewers, Covered(v), OverLow(v), NEW n \in 1..owed[v], Ack(v, n)
  PROVE  Covered(v)' /\ OverLow(v)'
  <1>1. InFlight(v) \in Nat /\ owed[v] \in Nat /\ unacked[v] \in Nat /\ n \in Nat /\ n <= owed[v]
    BY CoveredType
  <1>2. /\ owed'[v] = owed[v] - n /\ UNCHANGED <<attached, lagging, outbox>>
    BY DEF Ack, TypeOK
  <1>3. InFlight(v)' = InFlight(v) /\ Places(outbox[v])' = Places(outbox[v])
    BY <1>2 DEF InFlight, Places
  <1>4. CASE v \in attached
    <2>1. unacked'[v] = Left(v, n) /\ resyncing'[v] = Recovers(v, n)
      BY <1>4 DEF Ack, TypeOK
    <2>2. Left(v, n) \in Nat /\ Left(v, n) <= InFlight(v) + (owed[v] - n)
      BY <1>1, <1>4 DEF Left, Covered
    <2>3. lagging[v] /\ ~Recovers(v, n) => Left(v, n) > LowWater
      BY <2>2, WaterAssumption DEF Recovers
    <2>4. Covered(v)'
      BY <1>2, <1>3, <2>1, <2>2 DEF Covered
    <2>5. OverLow(v)'
      BY <1>2, <2>1, <2>3 DEF OverLow
    <2>6. QED
      BY <2>4, <2>5
  <1>5. CASE v \notin attached
    BY <1>2, <1>3, <1>5 DEF Covered, OverLow
  <1>6. QED
    BY <1>4, <1>5

LEMMA StrandViewer ==
  ASSUME TypeOK, OrderInv, StrandInv, NEW v \in Viewers, Viewer(v)
  PROVE  StrandInv'
  <1>1. Covered(v) /\ OverLow(v) /\ OutboxInOrder(v)
    BY DEF StrandInv, OrderInv
  <1>2. ASSUME NEW w \in Viewers, w # v
        PROVE  Covered(w)' /\ OverLow(w)'
    <2>1. /\ outbox'[w] = outbox[w] /\ owed'[w] = owed[w] /\ unacked'[w] = unacked[w]
          /\ lagging'[w] = lagging[w] /\ resyncing'[w] = resyncing[w]
          /\ w \in attached' <=> w \in attached
      <3>1. CASE Attach(v) \/ Detach(v) \/ Disconnect(v)
        BY <1>2, <3>1 DEF Attach, Detach, Disconnect, Forget, viewVars, TypeOK
      <3>2. CASE Resync(v) \/ StuckTimeout(v) \/ Deliver(v)
        BY <1>2, <3>2 DEF Resync, StuckTimeout, Deliver, viewVars, flowVars, TypeOK
      <3>3. CASE \E n \in 1..owed[v] : Ack(v, n)
        BY <1>2, <3>3 DEF Ack, TypeOK
      <3>4. QED
        BY <3>1, <3>2, <3>3 DEF Viewer
    <2>2. QED
      BY <2>1, StrandSame DEF StrandInv
  <1>3. Covered(v)' /\ OverLow(v)'
    <2>1. CASE Attach(v)
      <3>1. /\ outbox'[v] = Append(outbox[v], Snapshot(seq)) /\ unacked'[v] = 0
            /\ lagging'[v] = FALSE /\ owed'[v] = owed[v]
        BY <2>1 DEF Attach, viewVars, TypeOK
      <3>2. IsFiniteSet(Places(outbox[v]))' /\ InFlight(v)' \in Nat /\ owed[v] \in Nat
        BY <1>1, <3>1, SnapshotFree, CoveredType
      <3>3. QED
        BY <3>1, <3>2 DEF Covered, OverLow
    <2>2. CASE Detach(v)
      <3>1. v \notin attached' /\ outbox' = outbox
        BY <2>2 DEF Detach, Forget
      <3>2. QED
        BY <1>1, <3>1 DEF Covered, OverLow, Places
    <2>3. CASE Disconnect(v)
      <3>1. v \notin attached' /\ outbox'[v] = <<>>
        BY <2>3 DEF Disconnect, Forget, TypeOK
      <3>2. Places(outbox[v])' = Places(<<>>)
        BY <3>1 DEF Places
      <3>3. QED
        BY <3>1, <3>2, NoPlaces DEF Covered, OverLow
    <2>4. CASE Resync(v)
      <3>1. /\ outbox'[v] = Append(outbox[v], Snapshot(seq)) /\ lagging'[v] = FALSE
            /\ UNCHANGED <<attached, unacked, owed>>
        BY <2>4 DEF Resync, viewVars, TypeOK
      <3>2. IsFiniteSet(Places(outbox[v]))' /\ InFlight(v)' = InFlight(v)
        BY <1>1, <3>1, SnapshotFree
      <3>3. QED
        BY <1>1, <3>1, <3>2 DEF Covered, OverLow
    <2>5. CASE StuckTimeout(v)
      BY <1>1, <2>5, StrandSame DEF StuckTimeout, viewVars
    <2>6. CASE Deliver(v)
      BY <1>1, <2>6, StrandDeliver
    <2>7. CASE \E n \in 1..owed[v] : Ack(v, n)
      BY <1>1, <2>7, StrandAck
    <2>8. QED
      BY <2>1, <2>2, <2>3, <2>4, <2>5, <2>6, <2>7 DEF Viewer
  <1>4. QED
    BY <1>2, <1>3 DEF StrandInv

LEMMA StrandStep ==
  ASSUME TypeOK, OrderInv, StrandInv, [Next]_vars
  PROVE  StrandInv'
  <1>1. CASE FlushFirst \/ WindowEnd \/ ExitReceived
    <2>1. Flush /\ owed' = owed
      BY <1>1 DEF FlushFirst, WindowEnd, ExitReceived, viewVars
    <2>2. QED
      BY <2>1, StrandFlush DEF StrandInv
  <1>2. CASE Reader \/ Absorb \/ Drained \/ AbsorbInWindow \/ Signal \/ Restart
             \/ UNCHANGED vars
    <2>1. UNCHANGED <<flowVars, outbox, viewVars>>
      BY <1>2 DEF Reader, WaitForCredit, Ingest, ReadEnd, Absorb, Drained, AbsorbInWindow,
                  Signal, Restart, vars
    <2>2. QED
      BY <2>1, StrandSame DEF StrandInv, flowVars, viewVars
  <1>3. CASE \E v \in Viewers : Viewer(v)
    BY <1>3, StrandViewer
  <1>4. QED
    BY <1>1, <1>2, <1>3 DEF Next, Coalesce

\* A lagging viewer is never stranded, for every pair of water marks and every
\* frame size: what it will ack brings it to LOW_WATER, where ack() starts its
\* resync, across detached attachments whose bytes it still acks
THEOREM NobodyStranded == Spec => []NeverStranded
  <1>1. Init => StrandInv
    <2> SUFFICES ASSUME Init, NEW v \in Viewers
                 PROVE  Covered(v) /\ OverLow(v)
      BY DEF StrandInv
    <2>1. outbox[v] = <<>> /\ v \notin attached
      BY DEF Init
    <2>2. QED
      BY <2>1, NoPlaces DEF Covered, OverLow
  <1>2. TypeOK /\ OrderInv /\ StrandInv /\ [Next]_vars => StrandInv'
    BY StrandStep
  <1>3. TypeOK /\ StrandInv => NeverStranded
    <2> SUFFICES ASSUME TypeOK, StrandInv, NEW v \in attached, lagging[v], ~resyncing[v]
                 PROVE  unacked[v] > LowWater /\ InFlight(v) + owed[v] >= unacked[v]
      BY DEF NeverStranded
    <2>1. v \in Viewers
      BY DEF TypeOK
    <2>2. Covered(v) /\ OverLow(v)
      BY <2>1 DEF StrandInv
    <2>3. InFlight(v) \in Nat /\ owed[v] \in Nat /\ unacked[v] \in Nat
      BY <2>1, <2>2, CoveredType
    <2>4. QED
      BY <2>2, <2>3 DEF Covered, OverLow
  <1>4. QED
    BY <1>1, <1>2, <1>3, ViewKept, PTL DEF Spec
=============================================================================
