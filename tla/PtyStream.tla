------------------------------ MODULE PtyStream ------------------------------
(***************************************************************************)
(* The output path of one PTY session of treeix-ptyd                       *)
(* (crates/ptyd/src/session.rs): the reader thread parses output into the  *)
(* screen and queues it, the coalesce task batches the queue and flushes   *)
(* it to the attached viewers, and a viewer that falls behind skips output *)
(* until its acks bring it back, when it gets the screen again.            *)
(*                                                                         *)
(* A byte of output is its offset in the stream (0, 1, 2, ...), so what a  *)
(* frame carries can be compared with what its seq label says it carries.  *)
(* The frames one flush sends to one viewer are one message: they leave    *)
(* under the flow lock with nothing between them.                          *)
(***************************************************************************)
EXTENDS Integers, Sequences, FiniteSets

CONSTANTS
  Viewers,    \* (client, channel) pairs that may attach
  HighWater,  \* HIGH_WATER: unacked bytes above which a viewer lags
  LowWater,   \* LOW_WATER: unacked bytes at which a lagging viewer is resynced
  MaxFrame,   \* MAX_DATA_FRAME: bytes of one Data frame
  ResetLen,   \* length of the sequence a restart writes before the new output
  MaxSeq,     \* bound: bytes of output a behaviour may produce
  MaxRestarts, \* bound: restarts a behaviour may make
  MaxOutbox,  \* bound: messages on their way to a viewer when it attaches
  SlowResync  \* STUCK may pass while a resync waits for the screen lock

ASSUME WaterAssumption ==
  /\ HighWater \in Nat
  /\ LowWater \in Nat
  /\ LowWater <= HighWater
  /\ MaxFrame \in Nat \ {0}
  /\ ResetLen \in Nat \ {0}
  /\ MaxSeq \in Nat
  /\ MaxRestarts \in Nat
  /\ MaxOutbox \in Nat
  /\ SlowResync \in BOOLEAN

VARIABLES
  seq,        \* vt.seq: bytes parsed into the screen
  tx,         \* Output queued by the reader for the coalesce task
  reader,     \* where the reader thread is
  closing,    \* flow.closing: read without waiting for acks
  coalescer,  \* where the coalesce task is
  pseq,       \* Pending.seq
  pbytes,     \* Pending.bytes
  attached,   \* the keys of flow.clients
  from,       \* Attached.from_seq
  unacked,    \* Attached.unacked
  lagging,    \* Attached.lagging
  stuck,      \* a lagging viewer's progress is STUCK old
  resyncing,  \* ack() found it caught up and has not taken the screen lock yet
  outbox,     \* messages on their way to the viewer
  owed,       \* bytes the viewer has rendered and not acked yet
  base,       \* the pane's from: the seq of the last snapshot it wrote
  shown,      \* the seq label the viewer's screen has reached
  garbled,    \* history: the viewer was given other bytes than the output's
  hole,       \* history: output left the queue out while some was queued
  restarts    \* history: restarts so far

flowVars == <<attached, from, unacked, lagging, stuck, resyncing>>
viewVars == <<owed, base, shown, garbled>>
vars == <<seq, tx, reader, closing, coalescer, pseq, pbytes, flowVars, outbox,
          viewVars, hole, restarts>>

-----------------------------------------------------------------------------
(* Values *)

\* The n bytes of output from offset a on
Span(a, n) == [i \in 1..n |-> a + i - 1]

Chunks == [data : BOOLEAN, seq : Nat, len : Nat]
Data(s, n) == [data |-> TRUE, seq |-> s, len |-> n]
Exit == [data |-> FALSE, seq |-> 0, len |-> 0]

Snapshot(s) == [snap |-> TRUE, seq |-> s, bytes |-> <<>>]
Frames(s, bytes) == [snap |-> FALSE, seq |-> s, bytes |-> bytes]
Messages == [snap : BOOLEAN, seq : Nat, bytes : Seq(Nat)]

TypeOK ==
  /\ seq \in Nat
  /\ tx \in Seq(Chunks)
  /\ reader \in {"credit", "wait", "read", "done"}
  /\ closing \in BOOLEAN
  /\ coalescer \in {"idle", "drain", "flush", "window", "exited"}
  /\ pseq \in Nat
  /\ pbytes \in Seq(Nat)
  /\ attached \in SUBSET Viewers
  /\ from \in [Viewers -> Nat]
  /\ unacked \in [Viewers -> Nat]
  /\ lagging \in [Viewers -> BOOLEAN]
  /\ stuck \in [Viewers -> BOOLEAN]
  /\ resyncing \in [Viewers -> BOOLEAN]
  /\ outbox \in [Viewers -> Seq(Messages)]
  /\ owed \in [Viewers -> Nat]
  /\ base \in [Viewers -> Nat]
  /\ shown \in [Viewers -> Nat]
  /\ garbled \in [Viewers -> BOOLEAN]
  /\ hole \in BOOLEAN
  /\ restarts \in Nat

Init ==
  /\ seq = 0
  /\ tx = <<>>
  /\ reader = "credit"
  /\ closing = FALSE
  /\ coalescer = "idle"
  /\ pseq = 0
  /\ pbytes = <<>>
  /\ attached = {}
  /\ from = [v \in Viewers |-> 0]
  /\ unacked = [v \in Viewers |-> 0]
  /\ lagging = [v \in Viewers |-> FALSE]
  /\ stuck = [v \in Viewers |-> FALSE]
  /\ resyncing = [v \in Viewers |-> FALSE]
  /\ outbox = [v \in Viewers |-> <<>>]
  /\ owed = [v \in Viewers |-> 0]
  /\ base = [v \in Viewers |-> 0]
  /\ shown = [v \in Viewers |-> 0]
  /\ garbled = [v \in Viewers |-> FALSE]
  /\ hole = FALSE
  /\ restarts = 0

-----------------------------------------------------------------------------
(* The reader thread: read_loop *)

StuckViewer == \E v \in attached : lagging[v] /\ stuck[v]

\* Mutant: nobody notifies flow.credit
NotifiedNever == reader

\* The reader's wait after a notify_all on flow.credit
Notified == IF reader = "wait" THEN "credit" ELSE reader

\* wait_for_credit: one look at the condition, under the flow lock
WaitForCredit ==
  /\ reader = "credit"
  /\ reader' = IF ~closing /\ StuckViewer THEN "wait" ELSE "read"
  /\ UNCHANGED <<seq, tx, closing, coalescer, pseq, pbytes, flowVars, outbox,
                 viewVars, hole, restarts>>

\* ingest: parse n bytes into the screen, queue them when someone is attached
Parse(n) ==
  /\ seq' = seq + n
  /\ tx' = IF attached = {} THEN tx ELSE Append(tx, Data(seq, n))
  /\ hole' = (hole \/ (attached = {} /\ (tx # <<>> \/ pbytes # <<>>)))

\* read returned n bytes
Ingest(n) ==
  /\ reader = "read"
  /\ seq + n <= MaxSeq
  /\ Parse(n)
  /\ reader' = "credit"
  /\ UNCHANGED <<closing, coalescer, pseq, pbytes, flowVars, outbox, viewVars,
                 restarts>>

\* read returned 0 or an error: the process is waited for and its exit queued
ReadEnd ==
  /\ reader = "read"
  /\ tx' = Append(tx, Exit)
  /\ reader' = "done"
  /\ UNCHANGED <<seq, closing, coalescer, pseq, pbytes, flowVars, outbox,
                 viewVars, hole, restarts>>

-----------------------------------------------------------------------------
(* The coalesce task *)

\* Mutant: the last chunk labels the batch
LabelledByLast(s, bytes, chunk) == chunk.seq

\* Pending::absorb of one chunk: the seq of the first chunk labels them all
AbsorbedSeq(s, bytes, chunk) == IF bytes = <<>> THEN chunk.seq ELSE s
AbsorbedBytes(bytes, chunk) == bytes \o Span(chunk.seq, chunk.len)

\* recv, then try_recv up to an exit or an empty channel, one chunk at a time
Absorb ==
  /\ coalescer \in {"idle", "drain"}
  /\ tx # <<>>
  /\ Head(tx).data
  /\ pseq' = AbsorbedSeq(pseq, pbytes, Head(tx))
  /\ pbytes' = AbsorbedBytes(pbytes, Head(tx))
  /\ tx' = Tail(tx)
  /\ coalescer' = "drain"
  /\ UNCHANGED <<seq, reader, closing, flowVars, outbox, viewVars, hole,
                 restarts>>

\* try_recv found the channel empty; output may be queued before the flush
Drained ==
  /\ coalescer = "drain"
  /\ tx = <<>>
  /\ coalescer' = "flush"
  /\ UNCHANGED <<seq, tx, reader, closing, pseq, pbytes, flowVars, outbox,
                 viewVars, hole, restarts>>

\* Mutant: what the snapshot covered is sent again
SkipNothing(v) == 0

\* The bytes of Pending a viewer's snapshot had already
Skip(v) == IF from[v] > pseq THEN from[v] - pseq ELSE 0

Wants(v) == v \in attached /\ ~lagging[v] /\ Skip(v) < Len(pbytes)

\* Mutant: the mark is checked after one frame more
RoomAfter(v) ==
  IF unacked[v] > HighWater THEN 0
  ELSE MaxFrame * (((HighWater - unacked[v]) \div MaxFrame) + 2)

\* Frames go out until the unacked bytes pass HIGH_WATER
Room(v) ==
  IF unacked[v] > HighWater THEN 0
  ELSE MaxFrame * (((HighWater - unacked[v]) \div MaxFrame) + 1)

Sent(v) ==
  LET wanted == Len(pbytes) - Skip(v)
  IN  IF ~Wants(v) THEN 0
      ELSE IF Room(v) < wanted THEN Room(v) ELSE wanted

\* A frame was left when unacked passed HIGH_WATER
FellBehind(v) == Wants(v) /\ Sent(v) < Len(pbytes) - Skip(v)

\* flush: under the flow lock, every viewer gets what it can take
Flush ==
  /\ unacked' = [v \in Viewers |-> unacked[v] + Sent(v)]
  /\ lagging' = [v \in Viewers |-> lagging[v] \/ FellBehind(v)]
  /\ stuck' = [v \in Viewers |-> stuck[v] /\ ~FellBehind(v)]
  /\ outbox' = [v \in Viewers |->
       IF Sent(v) = 0 THEN outbox[v]
       ELSE Append(outbox[v],
              Frames(pseq + Skip(v),
                     SubSeq(pbytes, Skip(v) + 1, Skip(v) + Sent(v))))]
  /\ pseq' = pseq + Len(pbytes)
  /\ pbytes' = <<>>
  /\ UNCHANGED <<attached, from, resyncing>>

\* The first flush of a round
FlushFirst ==
  /\ coalescer = "flush"
  /\ Flush
  /\ coalescer' = "window"
  /\ UNCHANGED <<seq, tx, reader, closing, viewVars, hole, restarts>>

\* A chunk that comes within the COALESCE window is batched
AbsorbInWindow ==
  /\ coalescer = "window"
  /\ Len(pbytes) < MaxFrame
  /\ tx # <<>>
  /\ Head(tx).data
  /\ pseq' = AbsorbedSeq(pseq, pbytes, Head(tx))
  /\ pbytes' = AbsorbedBytes(pbytes, Head(tx))
  /\ tx' = Tail(tx)
  /\ UNCHANGED <<seq, reader, closing, coalescer, flowVars, outbox, viewVars,
                 hole, restarts>>

\* The deadline passed or the frame is full: the round ends with a flush
WindowEnd ==
  /\ coalescer = "window"
  /\ Flush
  /\ coalescer' = "idle"
  /\ UNCHANGED <<seq, tx, reader, closing, viewVars, hole, restarts>>

\* The exit was received: what is pending is flushed and the task returns
ExitReceived ==
  /\ \/ coalescer \in {"idle", "drain"}
     \/ coalescer = "window" /\ Len(pbytes) < MaxFrame
  /\ tx # <<>>
  /\ ~Head(tx).data
  /\ Flush
  /\ tx' = Tail(tx)
  /\ coalescer' = "exited"
  /\ UNCHANGED <<seq, reader, closing, viewVars, hole, restarts>>

-----------------------------------------------------------------------------
(* Requests: Attach, Detach, Ack, and what kills or restarts the process *)

\* attach: the screen as of seq is the reply, Data continues from there
Attach(v) ==
  /\ ~resyncing[v]
  /\ Len(outbox[v]) < MaxOutbox
  /\ attached' = attached \union {v}
  /\ from' = [from EXCEPT ![v] = seq]
  /\ unacked' = [unacked EXCEPT ![v] = 0]
  /\ lagging' = [lagging EXCEPT ![v] = FALSE]
  /\ stuck' = [stuck EXCEPT ![v] = FALSE]
  /\ outbox' = [outbox EXCEPT ![v] = Append(@, Snapshot(seq))]
  /\ reader' = Notified
  /\ UNCHANGED <<seq, tx, closing, coalescer, pseq, pbytes, resyncing, viewVars,
                 hole, restarts>>

\* Mutant: the entry goes and nobody tells the reader
ForgetSilently(v) ==
  /\ attached' = attached \ {v}
  /\ from' = [from EXCEPT ![v] = 0]
  /\ unacked' = [unacked EXCEPT ![v] = 0]
  /\ lagging' = [lagging EXCEPT ![v] = FALSE]
  /\ stuck' = [stuck EXCEPT ![v] = FALSE]
  /\ UNCHANGED reader

\* Session::detach of one viewer: its entry of flow.clients goes
Forget(v) ==
  /\ attached' = attached \ {v}
  /\ from' = [from EXCEPT ![v] = 0]
  /\ unacked' = [unacked EXCEPT ![v] = 0]
  /\ lagging' = [lagging EXCEPT ![v] = FALSE]
  /\ stuck' = [stuck EXCEPT ![v] = FALSE]
  /\ reader' = Notified

\* Detach by request: what was sent is still on its way
Detach(v) ==
  /\ v \in attached
  /\ ~resyncing[v]
  /\ Forget(v)
  /\ UNCHANGED <<seq, tx, closing, coalescer, pseq, pbytes, resyncing, outbox,
                 viewVars, hole, restarts>>

\* The connection is gone, and the messages and acks on it
Disconnect(v) ==
  /\ v \in attached
  /\ ~resyncing[v]
  /\ Forget(v)
  /\ outbox' = [outbox EXCEPT ![v] = <<>>]
  /\ owed' = [owed EXCEPT ![v] = 0]
  /\ UNCHANGED <<seq, tx, closing, coalescer, pseq, pbytes, resyncing, base,
                 shown, garbled, hole, restarts>>

\* Mutant: the ack of an earlier attachment underflows
LeftWrapped(v, n) == unacked[v] - n

\* saturating_sub: an ack may be for bytes of an earlier attachment
Left(v, n) == IF n > unacked[v] THEN 0 ELSE unacked[v] - n

\* Mutant: the mark is compared before the ack is subtracted
RecoversBefore(v, n) == lagging[v] /\ unacked[v] <= LowWater

Recovers(v, n) == lagging[v] /\ Left(v, n) <= LowWater

\* ack: the first half, under the flow lock; a lagging viewer back under
\* LOW_WATER goes on to resync
Ack(v, n) ==
  /\ ~resyncing[v]
  /\ n <= owed[v]
  /\ owed' = [owed EXCEPT ![v] = @ - n]
  /\ IF v \in attached
     THEN /\ unacked' = [unacked EXCEPT ![v] = Left(v, n)]
          /\ stuck' = [stuck EXCEPT ![v] = FALSE]
          /\ resyncing' = [resyncing EXCEPT ![v] = Recovers(v, n)]
          /\ reader' = Notified
     ELSE UNCHANGED <<unacked, stuck, resyncing, reader>>
  /\ UNCHANGED <<seq, tx, closing, coalescer, pseq, pbytes, attached, from,
                 lagging, outbox, base, shown, garbled, hole, restarts>>

\* resync: the screen as of now replaces the output the viewer skipped. A
\* connection's requests are handled one at a time, so the viewer is still
\* attached and lagging
Resync(v) ==
  /\ resyncing[v]
  /\ resyncing' = [resyncing EXCEPT ![v] = FALSE]
  /\ lagging' = [lagging EXCEPT ![v] = FALSE]
  /\ stuck' = [stuck EXCEPT ![v] = FALSE]
  /\ from' = [from EXCEPT ![v] = seq]
  /\ outbox' = [outbox EXCEPT ![v] = Append(@, Snapshot(seq))]
  /\ UNCHANGED <<seq, tx, reader, closing, coalescer, pseq, pbytes, attached,
                 unacked, viewVars, hole, restarts>>

\* STUCK passed without an ack of a lagging viewer
StuckTimeout(v) ==
  /\ v \in attached
  /\ lagging[v]
  /\ ~stuck[v]
  /\ resyncing[v] => SlowResync
  /\ stuck' = [stuck EXCEPT ![v] = TRUE]
  /\ UNCHANGED <<seq, tx, reader, closing, coalescer, pseq, pbytes, attached,
                 from, unacked, lagging, resyncing, outbox, viewVars, hole,
                 restarts>>

\* signal: SIGHUP or SIGKILL lets the reader run to the end of the output
Signal ==
  /\ coalescer # "exited"
  /\ closing' = TRUE
  /\ reader' = Notified
  /\ UNCHANGED <<seq, tx, coalescer, pseq, pbytes, flowVars, outbox, viewVars,
                 hole, restarts>>

\* Restart of an exited session: a new queue and coalesce task, the same
\* screen and viewers; the reset sequence is the first output
Restart ==
  /\ coalescer = "exited"
  /\ restarts < MaxRestarts
  /\ seq + ResetLen <= MaxSeq
  /\ restarts' = restarts + 1
  /\ closing' = FALSE
  /\ Parse(ResetLen)
  /\ reader' = "credit"
  /\ coalescer' = "idle"
  /\ pseq' = 0
  /\ UNCHANGED <<pbytes, flowVars, outbox, viewVars>>

-----------------------------------------------------------------------------
(* The viewer: a pane behind the connection's FIFO *)

\* bytesFrom: the part of a message the last snapshot did not cover
BytesFrom(v, m) ==
  IF m.seq >= base[v] THEN m.bytes
  ELSE SubSeq(m.bytes, 1 + (base[v] - m.seq), Len(m.bytes))

\* A snapshot (the attach reply or a Resync) replaces the screen, data is
\* appended to it, all of it to be acked
Deliver(v) ==
  /\ outbox[v] # <<>>
  /\ LET m == Head(outbox[v])
     IN  IF m.snap
         THEN /\ base' = [base EXCEPT ![v] = m.seq]
              /\ shown' = [shown EXCEPT ![v] = m.seq]
              /\ garbled' = [garbled EXCEPT ![v] = FALSE]
              /\ UNCHANGED owed
         ELSE /\ shown' = [shown EXCEPT ![v] = m.seq + Len(m.bytes)]
              /\ garbled' = [garbled EXCEPT
                   ![v] = @ \/ BytesFrom(v, m)
                               # Span(shown[v], Len(BytesFrom(v, m)))]
              /\ owed' = [owed EXCEPT ![v] = @ + Len(m.bytes)]
              /\ UNCHANGED base
  /\ outbox' = [outbox EXCEPT ![v] = Tail(@)]
  /\ UNCHANGED <<seq, tx, reader, closing, coalescer, pseq, pbytes, flowVars,
                 hole, restarts>>

Reader == WaitForCredit \/ (\E n \in 1..MaxSeq : Ingest(n)) \/ ReadEnd
Coalesce ==
  \/ Absorb \/ Drained \/ FlushFirst \/ AbsorbInWindow \/ WindowEnd
  \/ ExitReceived
Viewer(v) ==
  \/ Attach(v) \/ Detach(v) \/ Disconnect(v) \/ Resync(v) \/ StuckTimeout(v)
  \/ Deliver(v)
  \/ \E n \in 1..owed[v] : Ack(v, n)

Next == Reader \/ Coalesce \/ Signal \/ Restart \/ \E v \in Viewers : Viewer(v)

Spec == Init /\ [][Next]_vars

\* The daemon's own threads and tasks run, the connection delivers, and a
\* viewer that rendered bytes acks them all or goes away (xterm's write
\* callback; a reloaded webview is detached). Nobody has to attach, print or
\* exit.
Fairness ==
  /\ WF_vars(WaitForCredit)
  /\ WF_vars(Coalesce)
  /\ \A v \in Viewers : WF_vars(Resync(v)) /\ WF_vars(Deliver(v))
  /\ \A v \in Viewers : SF_vars(owed[v] > 0 /\ Ack(v, owed[v]))

FairSpec == Spec /\ Fairness

-----------------------------------------------------------------------------
(* Properties *)

\* The flow control bound (session.rs flush): what was sent to a viewer and
\* not acked stays within HIGH_WATER and one frame
UnackedBounded == \A v \in Viewers : unacked[v] <= HighWater + MaxFrame

\* No lost wakeup (wait_for_credit, attach, detach, ack, signal): the reader
\* sleeps on the condition variable only while a stuck viewer is attached and
\* the process is not being killed
WaitsOnlyForStuck == reader = "wait" => ~closing /\ StuckViewer

\* No byte is sent twice (flush trims by from_seq; attach and resync send the
\* snapshot under the flow lock): data never starts before what is shown
NoByteTwice ==
  \A v \in Viewers :
    \A i \in DOMAIN outbox[v] :
      ~outbox[v][i].snap =>
        outbox[v][i].seq >=
          IF i = 1 THEN shown[v]
          ELSE outbox[v][i-1].seq + Len(outbox[v][i-1].bytes)

\* "Under the screen lock, so an Attach sees either this chunk in its snapshot
\* or here" (session.rs ingest), as long as no output was left out of the
\* queue between queued chunks: what a viewer shows is the output
FaithfulView == ~hole => \A v \in Viewers : ~garbled[v]

\* The places of bytes in messages, and how many bytes are on their way
Places(msgs) == UNION {{i} \X (1..Len(msgs[i].bytes)) : i \in DOMAIN msgs}
InFlight(v) == Cardinality(Places(outbox[v]))

\* A lagging viewer is never stranded (flush, ack, resync): until its resync is
\* under way it is over LOW_WATER, and the bytes it will still ack cover what
\* separates it from the resync
NeverStranded ==
  \A v \in attached : lagging[v] /\ ~resyncing[v] =>
    /\ unacked[v] > LowWater
    /\ InFlight(v) + owed[v] >= unacked[v]

\* Nothing is lost on the way either: whatever was printed while a viewer was
\* attached reaches it, or it leaves
CaughtUp(v) == v \notin attached \/ shown[v] >= seq \/ hole
CatchesUp == \A v \in Viewers : []<>CaughtUp(v)

\* The reader never sleeps forever on a viewer that acks
ReaderResumes == reader = "wait" ~> reader # "wait"

\* The stream never freezes on a viewer that acks, on either side of the queue
\* (wait_for_credit, flush, ack, resync)
StreamFlows == CatchesUp /\ ReaderResumes

\* What the comments promise of Attach without the condition on hole: "The
\* reply carries the screen + scrollback as ANSI and the seq it ends at; Data
\* events continue from there" (proto Request::Attach)
ViewIsOutput == \A v \in Viewers : ~garbled[v]
=============================================================================
