--------------------------- MODULE ChatRelayProofs ---------------------------
(***************************************************************************)
(* What ChatRelay guarantees for every set of channels and every length of *)
(* the log, and that its steps are steps of LogView.                       *)
(***************************************************************************)
EXTENDS ChatRelay, SequenceTheorems, WellFoundedInduction, NaturalsInduction, TLAPS

-----------------------------------------------------------------------------
(* The invariant: types *)

Requests == 0..(MaxEntries + 1)
Messages == 0..(MaxEntries + 2)
IsEntry(m) == m < MaxEntries
IsAnswer(m) == m \in {Answered, Refused}

Ops == [kind : {"none", "attach", "detach", "unwatched", "reattach"}, ch : Channels \cup {Nobody},
        at : {"free", "stopping", "joining", "leaving", "again"}, seq : 0..MaxEntries]

WireTypes ==
  /\ entries \in 0..MaxEntries /\ closed \in BOOLEAN /\ viewing \in BOOLEAN /\ conn \in BOOLEAN
  /\ req \in Seq(Requests) /\ inbox \in Seq(Messages)

WindowTypes ==
  /\ viewers \subseteq Channels
  /\ next_seq \in [Channels -> 0..MaxEntries]
  /\ last \in [Channels -> 0..MaxEntries]
  /\ open \in [Channels -> BOOLEAN]
  /\ \A c \in Channels : next_seq[c] <= entries

-----------------------------------------------------------------------------
(* The invariant: who waits for the lock and who has it *)

\* What a handler that waits for the lock is about
Waits(o) ==
  /\ o \in Ops /\ o.at = "free" /\ o.kind # "none"
  /\ o.kind \in {"attach", "detach"} => o.ch \in Channels
  /\ o.kind = "attach" => o.ch \notin viewers /\ o.ch # op.ch

\* One handler per channel; attach stops the stream before its channel is there
LockInv ==
  /\ op \in Ops
  /\ op.at = "free" <=> op = NoOp
  /\ op.at \in {"stopping", "joining"} => op.kind = "attach" /\ op.ch \in Channels
  /\ op.at = "stopping" => op.ch \notin viewers
  /\ op.at = "leaving" => viewers = {}
  /\ \A o \in queue : Waits(o)
  /\ \A o, p \in queue : o.ch = p.ch /\ o.ch \in Channels => o = p

\* A channel that is in the relay or about to be
Told(c) ==
  \/ c \in viewers
  \/ \E o \in queue : o.kind = "attach" /\ o.ch = c
  \/ op.at = "stopping" /\ op.ch = c

\* The next entry the relay has for a channel is the one it lacks
SeqsAgree == twice = {} /\ \A c \in Channels : Told(c) => last[c] = next_seq[c]

-----------------------------------------------------------------------------
(* The invariant: the connection *)

\* At most one request or answer is under way, the lock holder's; after a
\* refusal, a removal or the answer that stops the stream come no entries
MessageInv(i) ==
  /\ IsEntry(inbox[i]) => inbox[i] < entries
  /\ IsAnswer(inbox[i]) =>
       /\ op.at # "free" /\ req = <<>>
       /\ \A j \in 1..Len(inbox) : IsAnswer(inbox[j]) => j = i
  /\ inbox[i] \in {Refused, Removed} => closed
  /\ \/ inbox[i] \in {Refused, Removed}
     \/ inbox[i] = Answered /\ op.at \in {"stopping", "leaving"}
     => ~viewing /\ \A j \in 1..Len(inbox) : j > i => ~IsEntry(inbox[j])

\* A replay starts at an entry no channel is past
RequestInv ==
  /\ req # <<>> => Len(req) = 1 /\ op.at # "free"
  /\ req # <<>> /\ op.at \in {"joining", "again"} =>
       Head(req) <= entries /\ \A c \in viewers : Head(req) <= next_seq[c]
  /\ req # <<>> /\ op.at \in {"stopping", "leaving"} => Head(req) = StopStream
  /\ op.at = "stopping" =>
       op.seq <= entries /\ \A c \in viewers \cup {op.ch} : op.seq <= next_seq[c]

WireInv ==
  /\ ~conn => req = <<>> /\ inbox = <<>> /\ ~viewing
  /\ closed => ~viewing
  /\ RequestInv
  /\ \A i \in 1..Len(inbox) : MessageInv(i)

\* ptyd streams to the app, or that is being seen to
Streamed ==
  conn /\ ~closed /\ viewers # {} /\ ~viewing =>
    \/ \E o \in queue : o.kind = "reattach"
    \/ op.at = "stopping"
    \/ op.at \in {"joining", "again"} /\ req # <<>>

RelayInv == WireTypes /\ WindowTypes /\ LockInv /\ SeqsAgree /\ WireInv /\ Streamed

-----------------------------------------------------------------------------
(* The invariant: the stream, as long as no window goes without a word *)

Quiet == ~viewing /\ \A i \in 1..Len(inbox) : ~IsEntry(inbox[i])

\* What is under way for a channel leaves nothing out
Contiguous(c) ==
  /\ \A i \in 1..Len(inbox) : IsEntry(inbox[i]) /\ inbox[i] > next_seq[c] =>
       \E j \in 1..(i - 1) : inbox[j] = inbox[i] - 1
  /\ viewing /\ entries > next_seq[c] => \E j \in 1..Len(inbox) : inbox[j] = entries - 1

StreamInv ==
  /\ \A c \in Channels : open[c]
  /\ op.at \in {"joining", "again"} /\ ~closed => viewers # {}
  /\ op.at = "joining" /\ req # <<>> => Quiet
  /\ viewers = {} /\ op.at # "leaving" => Quiet
  /\ \A c \in viewers : Contiguous(c)

-----------------------------------------------------------------------------
(* Sequences, and the oldest entry a set of channels lacks *)

LEMMA TailIs ==
  ASSUME NEW S, NEW s \in Seq(S), s # <<>>
  PROVE  /\ Head(s) \in S /\ Tail(s) \in Seq(S) /\ Head(s) = s[1]
         /\ Len(s) \in Nat \ {0} /\ Len(Tail(s)) = Len(s) - 1
         /\ \A i \in 1..(Len(s) - 1) : Tail(s)[i] = s[i + 1]
  BY EmptySeq, HeadTailProperties

LEMMA AppendIs ==
  ASSUME NEW S, NEW s \in Seq(S), NEW e \in S
  PROVE  /\ Append(s, e) \in Seq(S) /\ Len(s) \in Nat /\ Len(Append(s, e)) = Len(s) + 1
         /\ Append(s, e)[Len(s) + 1] = e
         /\ \A i \in 1..Len(s) : Append(s, e)[i] = s[i]
  BY AppendProperties

LEMMA LeastNumber ==
  ASSUME NEW T \in SUBSET Nat, T # {}
  PROVE  \E n \in T : \A m \in T : n <= m
  <1> DEFINE R == {ss \in Nat \X Nat : ss[1] < ss[2]}
  <1>1. IsWellFoundedOn(R, Nat)
    BY NatLessThanWellFounded DEF OpToRel
  <1> HIDE DEF R
  <1>2. PICK n \in T : \A m \in T : ~(<<m, n>> \in R)
    BY <1>1, WFMin
  <1>3. \A m \in T : n <= m
    <2> TAKE m \in T
    <2>1. m \in Nat /\ n \in Nat
      OBVIOUS
    <2>2. m < n => <<m, n>> \in R
      BY <2>1 DEF R
    <2>3. QED
      BY <1>2, <2>1, <2>2
  <1>4. QED
    BY <1>3

\* The oldest entry some channels lack is one of the log, and none is past it
LEMMA ReplayIs ==
  ASSUME MaxEntries \in Nat, WindowTypes, NEW cs \in SUBSET Channels, cs # {}
  PROVE  /\ ReplayFrom(cs) \in 0..MaxEntries
         /\ \A c \in cs : ReplayFrom(cs) <= next_seq[c]
  <1> DEFINE T == {next_seq[c] : c \in cs}
  <1>1. T \in SUBSET (0..MaxEntries) /\ T # {}
    BY DEF WindowTypes
  <1>2. \E n \in T : \A m \in T : n <= m
    <2>1. T \in SUBSET Nat
      BY <1>1
    <2> HIDE DEF T
    <2>2. QED
      BY <1>1, <2>1, LeastNumber
  <1>3. Min(T) \in T /\ \A m \in T : Min(T) <= m
    BY <1>2 DEF Min
  <1>4. QED
    BY <1>1, <1>3 DEF ReplayFrom
-----------------------------------------------------------------------------
(* Messages come and go *)

\* The app reads a message
LEMMA TailMessages ==
  ASSUME MaxEntries \in Nat, WireTypes, \A i \in 1..Len(inbox) : MessageInv(i),
         inbox # <<>>, inbox' = Tail(inbox), UNCHANGED <<entries, closed, viewing>>,
         IsAnswer(Head(inbox)) \/ UNCHANGED <<op, req>>
  PROVE  /\ inbox' \in Seq(Messages)
         /\ \A i \in 1..Len(inbox') : MessageInv(i)'
         /\ IsAnswer(Head(inbox)) => \A i \in 1..Len(inbox') : ~IsAnswer(inbox'[i])
  <1>1. inbox \in Seq(Messages)
    BY DEF WireTypes
  <1>2. PICK k \in Nat : k = Len(inbox)
    BY <1>1
  <1>3. /\ Head(inbox) \in Messages /\ inbox' \in Seq(Messages) /\ Head(inbox) = inbox[1]
        /\ k # 0 /\ Len(inbox') = k - 1
        /\ \A i \in 1..(k - 1) : inbox'[i] = inbox[i + 1]
    BY <1>1, <1>2, TailIs
  <1>4. 1 \in 1..k /\ \A i \in 1..(k - 1) : i + 1 \in 1..k
    BY <1>3
  <1>5. ASSUME NEW i \in 1..(k - 1), IsAnswer(Head(inbox))
        PROVE  ~IsAnswer(inbox'[i])
    <2>1. i + 1 # 1
      OBVIOUS
    <2>2. QED
      BY <1>2, <1>3, <1>4, <1>5, <2>1 DEF MessageInv
  <1>6. ASSUME NEW i \in 1..(k - 1)
        PROVE  MessageInv(i)'
    <2>1. MessageInv(i + 1) /\ inbox'[i] = inbox[i + 1]
      BY <1>2, <1>3, <1>4
    <2>2. IsEntry(inbox'[i]) => inbox'[i] < entries'
      BY <2>1 DEF MessageInv
    <2>3. IsAnswer(inbox'[i]) => UNCHANGED <<op, req>>
      BY <1>5
    <2>4. ASSUME IsAnswer(inbox'[i]), NEW j \in 1..(k - 1), IsAnswer(inbox'[j])
          PROVE  j = i
      <3>1. j + 1 = i + 1
        BY <1>2, <1>3, <1>4, <2>1, <2>4 DEF MessageInv
      <3>2. QED
        BY <3>1
    <2>5. ASSUME \/ inbox'[i] \in {Refused, Removed}
                 \/ inbox'[i] = Answered /\ op'.at \in {"stopping", "leaving"}
          PROVE  ~viewing /\ \A j \in 1..(k - 1) : j > i => ~IsEntry(inbox'[j])
      <3>1. \/ inbox[i + 1] \in {Refused, Removed}
            \/ inbox[i + 1] = Answered /\ op.at \in {"stopping", "leaving"}
        BY <2>1, <2>3, <2>5 DEF IsAnswer
      <3>2. ~viewing /\ \A j \in 1..k : j > i + 1 => ~IsEntry(inbox[j])
        BY <1>2, <2>1, <3>1 DEF MessageInv
      <3>3. \A j \in 1..(k - 1) : j > i => j + 1 > i + 1
        OBVIOUS
      <3>4. QED
        BY <1>3, <1>4, <3>2, <3>3
    <2>6. inbox'[i] \in {Refused, Removed} => closed
      BY <2>1 DEF MessageInv
    <2>7. IsAnswer(inbox'[i]) => op'.at # "free" /\ req' = <<>>
      BY <2>1, <2>3 DEF MessageInv
    <2>8. Len(inbox') = k - 1
      BY <1>3
    <2>9. /\ IsEntry(inbox[i])' <=> IsEntry(inbox'[i])
          /\ IsAnswer(inbox[i])' <=> IsAnswer(inbox'[i])
      BY DEF IsEntry, IsAnswer, Answered, Refused
    <2>10. \A j \in 1..(k - 1) : /\ IsEntry(inbox[j])' <=> IsEntry(inbox'[j])
                                 /\ IsAnswer(inbox[j])' <=> IsAnswer(inbox'[j])
      BY DEF IsEntry, IsAnswer, Answered, Refused
    <2>11. QED
      BY <2>2, <2>4, <2>5, <2>6, <2>7, <2>8, <2>9, <2>10 DEF MessageInv, Refused, Removed, Answered
  <1>7. QED
    BY <1>3, <1>5, <1>6

\* ptyd sends one
LEMMA AppendMessages ==
  ASSUME MaxEntries \in Nat, WireTypes, \A i \in 1..Len(inbox) : MessageInv(i),
         NEW e \in Messages, inbox' = Append(inbox, e), op' = op,
         entries' \in Nat, entries <= entries', closed => closed', viewing' => viewing,
         IsEntry(e) => e < entries' /\ viewing,
         IsAnswer(e) => op.at # "free" /\ req' = <<>>,
         e \in {Refused, Removed} => closed' /\ ~viewing',
         e = Answered /\ op.at \in {"stopping", "leaving"} => ~viewing',
         \/ req' = req /\ ~IsAnswer(e)
         \/ \A i \in 1..Len(inbox) : ~IsAnswer(inbox[i])
  PROVE  /\ inbox' \in Seq(Messages)
         /\ \A i \in 1..Len(inbox') : MessageInv(i)'
  <1>1. inbox \in Seq(Messages)
    BY DEF WireTypes
  <1>2. PICK k \in Nat : k = Len(inbox)
    BY <1>1
  <1>3. /\ inbox' \in Seq(Messages) /\ Len(inbox') = k + 1 /\ inbox'[k + 1] = e
        /\ \A i \in 1..k : inbox'[i] = inbox[i]
    BY <1>1, <1>2, AppendIs
  <1>4. \A i \in 1..(k + 1) : i \in 1..k \/ i = k + 1
    OBVIOUS
  <1>5. ASSUME NEW i \in 1..k
        PROVE  MessageInv(i)'
    <2>1. MessageInv(i) /\ inbox'[i] = inbox[i] /\ inbox[i] \in Messages
      BY <1>1, <1>2, <1>3
    <2>2. IsEntry(inbox[i]) => inbox[i] < entries'
      BY <2>1 DEF MessageInv, WireTypes, Messages
    <2>3. ASSUME IsAnswer(inbox[i])
          PROVE  /\ op.at # "free" /\ req' = <<>>
                 /\ \A j \in 1..(k + 1) : IsAnswer(inbox'[j]) => j = i
      BY <1>2, <1>3, <1>4, <2>1, <2>3 DEF MessageInv
    <2>4. inbox[i] \in {Refused, Removed} => closed'
      BY <2>1 DEF MessageInv
    <2>5. ASSUME \/ inbox[i] \in {Refused, Removed}
                 \/ inbox[i] = Answered /\ op.at \in {"stopping", "leaving"}
          PROVE  ~viewing' /\ \A j \in 1..(k + 1) : j > i => ~IsEntry(inbox'[j])
      <3>1. ~viewing /\ \A j \in 1..k : j > i => ~IsEntry(inbox[j])
        BY <1>2, <2>1, <2>5 DEF MessageInv
      <3>2. QED
        BY <1>3, <1>4, <3>1
    <2>6. QED
      BY <1>3, <2>1, <2>2, <2>3, <2>4, <2>5 DEF MessageInv, IsEntry, IsAnswer, Answered, Refused, Removed
  <1>6. MessageInv(k + 1)'
    <2>1. \A j \in 1..(k + 1) : ~(j > k + 1)
      OBVIOUS
    <2>2. IsAnswer(e) => \A j \in 1..(k + 1) : IsAnswer(inbox'[j]) => j = k + 1
      BY <1>2, <1>3, <1>4
    <2>3. QED
      BY <1>3, <2>1, <2>2 DEF MessageInv, IsEntry, IsAnswer, Answered, Refused, Removed
  <1>7. QED
    BY <1>3, <1>4, <1>5, <1>6
-----------------------------------------------------------------------------
(* The steps of ptyd and of the connection *)

\* They leave the windows and the lock alone
LEMMA WindowsKept ==
  ASSUME WindowTypes, LockInv, SeqsAgree, entries' \in Nat, entries' >= entries,
         UNCHANGED <<viewers, next_seq, last, open, twice, op, queue>>, entries \in Nat
  PROVE  WindowTypes' /\ LockInv' /\ SeqsAgree'
  <1>1. WindowTypes'
    <2>1. \A c \in Channels : next_seq[c] \in Nat /\ next_seq[c] <= entries
      BY DEF WindowTypes
    <2>2. \A c \in Channels : next_seq[c] <= entries'
      BY <2>1
    <2>3. QED
      BY <2>2 DEF WindowTypes
  <1>2. LockInv'
    BY DEF LockInv, Waits
  <1>3. SeqsAgree'
    BY DEF SeqsAgree, Told
  <1>4. QED
    BY <1>1, <1>2, <1>3

LEMMA EmitStep ==
  ASSUME MaxEntries \in Nat, RelayInv, Emit
  PROVE  RelayInv'
  <1>0. WireTypes /\ WindowTypes /\ LockInv /\ SeqsAgree /\ WireInv /\ Streamed
    BY DEF RelayInv
  <1>1. /\ ~closed /\ entries < MaxEntries /\ entries' = entries + 1
        /\ inbox' = IF viewing THEN Append(inbox, entries) ELSE inbox
        /\ UNCHANGED <<closed, viewing, conn, req, op, queue, viewers, next_seq, open, last, twice>>
    BY DEF Emit, appSide
  <1>2. entries \in Messages /\ entries \in Nat /\ entries' \in 0..MaxEntries
    BY <1>0, <1>1 DEF WireTypes, Messages
  <1>3. inbox' \in Seq(Messages) /\ \A i \in 1..Len(inbox') : MessageInv(i)'
    <2>1. CASE viewing
      <3>1. IsEntry(entries) /\ ~IsAnswer(entries) /\ entries \notin {Refused, Removed} /\ entries # Answered
        BY <1>1, <1>2 DEF IsEntry, IsAnswer, Answered, Refused, Removed
      <3>2. entries < entries' /\ entries <= entries' /\ entries' \in Nat
        BY <1>1, <1>2
      <3>3. \A i \in 1..Len(inbox) : MessageInv(i)
        BY <1>0 DEF WireInv
      <3>4. inbox' = Append(inbox, entries)
        BY <1>1, <2>1
      <3>5. QED
        BY <1>0, <1>1, <1>2, <2>1, <3>1, <3>2, <3>3, <3>4, AppendMessages
    <2>2. CASE ~viewing
      <3>1. inbox' = inbox /\ \A i \in 1..Len(inbox) : MessageInv(i)
        BY <1>0, <1>1, <2>2 DEF WireInv
      <3>2. \A i \in 1..Len(inbox) : inbox[i] \in Messages
        BY <1>0, ElementOfSeq DEF WireTypes
      <3>3. ASSUME NEW i \in 1..Len(inbox)
            PROVE  MessageInv(i)'
        <4>1. IsEntry(inbox[i]) => inbox[i] < entries'
          BY <1>1, <1>2, <3>1, <3>2 DEF MessageInv, Messages
        <4>2. MessageInv(i)
          BY <3>1
        <4>3. QED
          BY <1>1, <3>1, <4>1, <4>2 DEF MessageInv, IsEntry, IsAnswer, Answered, Refused, Removed
      <3>4. QED
        BY <1>0, <3>1, <3>3 DEF WireTypes
    <2>3. QED
      BY <1>0, <2>1, <2>2 DEF WireTypes
  <1>4. WireTypes'
    BY <1>0, <1>1, <1>2, <1>3 DEF WireTypes
  <1>5. WindowTypes' /\ LockInv' /\ SeqsAgree'
    <2>1. entries' \in Nat /\ entries' >= entries
      BY <1>1, <1>2
    <2>2. QED
      BY <1>0, <1>1, <1>2, <2>1, WindowsKept
  <1>6. WireInv'
    <2>1. ~conn => inbox' = <<>>
      BY <1>0, <1>1 DEF WireInv
    <2>2. req # <<>> => Head(req) \in Nat
      BY <1>0, TailIs DEF WireTypes, Requests
    <2>3. op.seq \in Nat
      BY <1>0 DEF LockInv, Ops
    <2>4. RequestInv'
      BY <1>0, <1>1, <1>2, <2>2, <2>3 DEF WireInv, RequestInv, StopStream
    <2>5. QED
      BY <1>0, <1>1, <1>3, <2>1, <2>4 DEF WireInv
  <1>7. Streamed'
    BY <1>0, <1>1 DEF Streamed
  <1>8. QED
    BY <1>4, <1>5, <1>6, <1>7 DEF RelayInv

LEMMA CloseStep ==
  ASSUME MaxEntries \in Nat, RelayInv, Close
  PROVE  RelayInv'
  <1>0. WireTypes /\ WindowTypes /\ LockInv /\ SeqsAgree /\ WireInv /\ Streamed
    BY DEF RelayInv
  <1>1. /\ ~closed /\ closed' = TRUE /\ viewing' = FALSE
        /\ inbox' = IF conn THEN Append(inbox, Removed) ELSE inbox
        /\ UNCHANGED <<entries, conn, req, op, queue, viewers, next_seq, open, last, twice>>
    BY DEF Close, appSide
  <1>2. Removed \in Messages /\ ~IsAnswer(Removed) /\ ~IsEntry(Removed) /\ Removed # Answered
    BY DEF Messages, IsEntry, IsAnswer, Answered, Refused, Removed
  <1>3. entries \in Nat /\ entries' \in Nat /\ entries <= entries' /\ entries' >= entries
    BY <1>0, <1>1 DEF WireTypes
  <1>4. inbox' \in Seq(Messages) /\ \A i \in 1..Len(inbox') : MessageInv(i)'
    <2>1. CASE conn
      <3>1. \A i \in 1..Len(inbox) : MessageInv(i)
        BY <1>0 DEF WireInv
      <3>2. inbox' = Append(inbox, Removed)
        BY <1>1, <2>1
      <3>3. QED
        BY <1>0, <1>1, <1>2, <1>3, <3>1, <3>2, AppendMessages
    <2>2. CASE ~conn
      <3>1. inbox' = <<>> /\ Len(inbox') = 0
        BY <1>0, <1>1, <2>2 DEF WireInv
      <3>2. QED
        BY <3>1
    <2>3. QED
      BY <1>0, <2>1, <2>2 DEF WireTypes
  <1>5. WireTypes'
    BY <1>0, <1>1, <1>4 DEF WireTypes
  <1>6. WindowTypes' /\ LockInv' /\ SeqsAgree'
    BY <1>0, <1>1, <1>3, WindowsKept
  <1>7. WireInv'
    <2>1. RequestInv'
      BY <1>0, <1>1 DEF WireInv, RequestInv, StopStream
    <2>2. ~conn => inbox' = <<>>
      BY <1>0, <1>1 DEF WireInv
    <2>3. QED
      BY <1>0, <1>1, <1>4, <2>1, <2>2 DEF WireInv
  <1>8. Streamed'
    BY <1>1 DEF Streamed
  <1>9. QED
    BY <1>5, <1>6, <1>7, <1>8 DEF RelayInv

LEMMA LoseStep ==
  ASSUME RelayInv, Lose
  PROVE  RelayInv'
  <1>0. WireTypes /\ WindowTypes /\ LockInv /\ SeqsAgree /\ WireInv
    BY DEF RelayInv
  <1>1. /\ conn' = FALSE /\ viewing' = FALSE /\ req' = <<>> /\ inbox' = <<>>
        /\ UNCHANGED <<entries, closed, op, queue, viewers, next_seq, open, last, twice>>
    BY DEF Lose, appSide
  <1>2. WireTypes'
    <2>1. <<>> \in Seq(Requests) /\ <<>> \in Seq(Messages)
      OBVIOUS
    <2>2. QED
      BY <1>0, <1>1, <2>1 DEF WireTypes
  <1>3. WindowTypes' /\ LockInv' /\ SeqsAgree'
    <2>1. entries \in Nat /\ entries' \in Nat /\ entries' >= entries
      BY <1>0, <1>1 DEF WireTypes
    <2>2. QED
      BY <1>0, <1>1, <2>1, WindowsKept
  <1>4. WireInv'
    <2>1. Len(inbox') = 0
      BY <1>1
    <2>2. RequestInv'
      BY <1>0, <1>1 DEF WireInv, RequestInv
    <2>3. QED
      BY <1>1, <2>1, <2>2 DEF WireInv
  <1>5. Streamed'
    BY <1>1 DEF Streamed
  <1>6. QED
    BY <1>2, <1>3, <1>4, <1>5 DEF RelayInv

LEMMA ReconnectStep ==
  ASSUME Nobody \notin Channels, MaxEntries \in Nat, RelayInv, Reconnect
  PROVE  RelayInv'
  <1> DEFINE o == Op("reattach", Nobody, "free")
  <1>0. WireTypes /\ WindowTypes /\ LockInv /\ SeqsAgree /\ WireInv
    BY DEF RelayInv
  <1>1. /\ ~conn /\ conn' = TRUE /\ queue' = queue \cup {o}
        /\ UNCHANGED <<entries, closed, viewing, req, inbox, op, viewers, next_seq, open, last, twice>>
    BY DEF Reconnect, appSide, daemonSide
  <1>2. o \in Ops /\ o.kind = "reattach" /\ o.at = "free" /\ o.ch = Nobody
    BY DEF Ops, Op
  <1> HIDE DEF o
  <1>3. inbox = <<>> /\ req = <<>> /\ Len(inbox) = 0
    BY <1>0, <1>1 DEF WireInv
  <1>4. WireTypes' /\ WindowTypes'
    BY <1>0, <1>1 DEF WireTypes, WindowTypes
  <1>5. LockInv'
    <2>1. \A p \in queue' : Waits(p)'
      BY <1>0, <1>1, <1>2 DEF LockInv, Waits
    <2>2. \A p, q \in queue' : p.ch = q.ch /\ p.ch \in Channels => p = q
      BY <1>0, <1>1, <1>2 DEF LockInv
    <2>3. QED
      BY <1>0, <1>1, <2>1, <2>2 DEF LockInv
  <1>6. SeqsAgree'
    <2>1. \A c \in Channels : Told(c)' => Told(c)
      BY <1>1, <1>2 DEF Told
    <2>2. QED
      BY <1>0, <1>1, <2>1 DEF SeqsAgree
  <1>7. WireInv'
    BY <1>0, <1>1, <1>3 DEF WireInv, RequestInv
  <1>8. Streamed'
    BY <1>1, <1>2 DEF Streamed
  <1>9. QED
    BY <1>4, <1>5, <1>6, <1>7, <1>8 DEF RelayInv
\* What an attach is served: its answer, then the entries from a seq on
LEMMA ReplaySent ==
  ASSUME MaxEntries \in Nat, WireTypes, NEW from \in 0..MaxEntries, from <= entries,
         inbox' = Append(inbox, Answered) \o [i \in 1 .. entries - from |-> from + i - 1]
  PROVE  /\ inbox' \in Seq(Messages)
         /\ Len(inbox') = Len(inbox) + 1 + (entries - from)
         /\ \A i \in 1..Len(inbox) : inbox'[i] = inbox[i]
         /\ inbox'[Len(inbox) + 1] = Answered
         /\ \A i \in 1..(entries - from) : inbox'[Len(inbox) + 1 + i] = from + i - 1
  <1> DEFINE s == Append(inbox, Answered)
             t == [i \in 1 .. entries - from |-> from + i - 1]
  <1>1. inbox \in Seq(Messages) /\ entries \in 0..MaxEntries /\ Answered \in Messages
    BY DEF WireTypes, Messages, Answered
  <1>2. PICK k \in Nat, n \in Nat : k = Len(inbox) /\ n = entries - from
    BY <1>1
  <1>3. /\ s \in Seq(Messages) /\ Len(s) = k + 1 /\ s[k + 1] = Answered
        /\ \A i \in 1..k : s[i] = inbox[i]
    BY <1>1, <1>2, AppendIs
  <1>4. /\ t \in [1..n -> Messages]
        /\ \A i \in 1..n : t[i] = from + i - 1
    <2>1. \A i \in 1..n : from + i - 1 \in Messages
      BY <1>1, <1>2 DEF Messages
    <2>2. QED
      BY <1>2, <2>1
  <1> HIDE DEF s, t
  <1>5. t \in Seq(Messages) /\ Len(t) = n
    <2>1. t \in Seq(Messages)
      BY <1>4, SeqDef
    <2>2. DOMAIN t = 1..n /\ DOMAIN t = 1..Len(t) /\ Len(t) \in Nat
      BY <1>4, <2>1, LenProperties
    <2>3. n \in 1..n \/ n = 0
      OBVIOUS
    <2>4. Len(t) \in 1..Len(t) \/ Len(t) = 0
      BY <2>2
    <2>5. Len(t) <= n /\ n <= Len(t)
      BY <2>2, <2>3, <2>4
    <2>6. QED
      BY <2>1, <2>2, <2>5
  <1>6. /\ inbox' = s \o t
        /\ s \o t \in Seq(Messages) /\ Len(s \o t) = Len(s) + n
        /\ \A i \in 1..(Len(s) + n) : (s \o t)[i] = IF i <= Len(s) THEN s[i] ELSE t[i - Len(s)]
    BY <1>3, <1>5, ConcatProperties DEF s, t
  <1>7. \A i \in 1..k : inbox'[i] = inbox[i]
    <2>1. \A i \in 1..k : i \in 1..(k + 1 + n) /\ i <= k + 1
      OBVIOUS
    <2>2. QED
      BY <1>3, <1>6, <2>1
  <1>8. inbox'[k + 1] = Answered
    <2>1. k + 1 \in 1..(k + 1 + n) /\ k + 1 <= k + 1
      OBVIOUS
    <2>2. QED
      BY <1>3, <1>6, <2>1
  <1>9. \A i \in 1..n : inbox'[k + 1 + i] = from + i - 1
    <2>1. \A i \in 1..n : /\ k + 1 + i \in 1..(k + 1 + n) /\ ~(k + 1 + i <= k + 1)
                          /\ (k + 1 + i) - (k + 1) = i
      OBVIOUS
    <2>2. \A i \in 1..n : (s \o t)[k + 1 + i] = t[(k + 1 + i) - (k + 1)]
      BY <1>3, <1>6, <2>1
    <2>3. QED
      BY <1>4, <1>6, <2>1, <2>2
  <1>10. QED
    BY <1>2, <1>3, <1>6, <1>7, <1>8, <1>9

LEMMA ServeStep ==
  ASSUME MaxEntries \in Nat, RelayInv, Serve
  PROVE  RelayInv'
  <1> DEFINE from == Head(req)
  <1>0. WireTypes /\ WindowTypes /\ LockInv /\ SeqsAgree /\ WireInv /\ Streamed
    BY DEF RelayInv
  <1>1. /\ conn /\ req # <<>> /\ req' = Tail(req)
        /\ UNCHANGED <<entries, closed, conn, op, queue, viewers, next_seq, open, last, twice>>
        /\ \/ closed /\ inbox' = Append(inbox, Refused) /\ viewing' = viewing
           \/ ~closed /\ from = StopStream /\ viewing' = FALSE /\ inbox' = Append(inbox, Answered)
           \/ /\ ~closed /\ from # StopStream /\ viewing' = TRUE
              /\ inbox' = Append(inbox, Answered) \o [i \in 1 .. entries - from |-> from + i - 1]
    BY DEF Serve, appSide
  <1>2. entries \in Nat /\ entries \in 0..MaxEntries /\ entries' \in Nat /\ entries <= entries' /\ entries' >= entries
    BY <1>0, <1>1 DEF WireTypes
  <1>3. req' = <<>>
    <2>1. req \in Seq(Requests) /\ Len(req) = 1
      BY <1>0, <1>1 DEF WireTypes, WireInv, RequestInv
    <2>2. Tail(req) \in Seq(Requests) /\ Len(Tail(req)) = 0
      BY <1>1, <2>1, TailIs
    <2>3. QED
      BY <1>1, <2>2, EmptySeq
  <1>4. op.at # "free" /\ op.at \in {"stopping", "joining", "leaving", "again"}
    BY <1>0, <1>1 DEF WireInv, RequestInv, LockInv, Ops
  <1>5. from # StopStream => /\ op.at \in {"joining", "again"} /\ from \in 0..MaxEntries
                             /\ from <= entries
    <2>1. from # StopStream => op.at \in {"joining", "again"}
      BY <1>0, <1>1, <1>4 DEF WireInv, RequestInv
    <2>2. from \in Requests
      BY <1>0, <1>1, TailIs DEF WireTypes
    <2>3. QED
      BY <1>0, <1>1, <1>2, <2>1, <2>2 DEF WireInv, RequestInv, Requests
  <1>6. from = StopStream => op.at \in {"stopping", "leaving"}
    <2>1. CASE op.at \in {"joining", "again"}
      <3>1. from <= entries
        BY <1>0, <1>1, <2>1 DEF WireInv, RequestInv
      <3>2. QED
        BY <1>2, <3>1 DEF StopStream
    <2>2. QED
      BY <1>4, <2>1
  <1> HIDE DEF from
  <1>7. \A i \in 1..Len(inbox) : MessageInv(i) /\ ~IsAnswer(inbox[i])
    BY <1>0, <1>1 DEF WireInv, MessageInv
  <1>8. inbox' \in Seq(Messages) /\ \A i \in 1..Len(inbox') : MessageInv(i)'
    <2>1. CASE closed /\ inbox' = Append(inbox, Refused) /\ viewing' = viewing
      <3>1. Refused \in Messages /\ ~IsEntry(Refused) /\ Refused # Answered
        BY DEF Messages, IsEntry, Answered, Refused
      <3>2. ~viewing' /\ closed'
        BY <1>0, <1>1, <2>1 DEF WireInv
      <3>3. QED
        BY <1>0, <1>1, <1>2, <1>3, <1>4, <1>7, <2>1, <3>1, <3>2, AppendMessages
    <2>2. CASE ~closed /\ from = StopStream /\ viewing' = FALSE /\ inbox' = Append(inbox, Answered)
      <3>1. Answered \in Messages /\ ~IsEntry(Answered) /\ Answered \notin {Refused, Removed}
        BY DEF Messages, IsEntry, Answered, Refused, Removed
      <3>2. QED
        BY <1>0, <1>1, <1>2, <1>3, <1>4, <1>7, <2>2, <3>1, AppendMessages
    <2>3. CASE /\ ~closed /\ from # StopStream /\ viewing' = TRUE
               /\ inbox' = Append(inbox, Answered) \o [i \in 1 .. entries - from |-> from + i - 1]
      <3>1. PICK k \in Nat, n \in Nat : k = Len(inbox) /\ n = entries - from
        BY <1>0, <1>2, <1>5, <2>3 DEF WireTypes
      <3>2. /\ inbox' \in Seq(Messages) /\ Len(inbox') = k + 1 + n
            /\ \A i \in 1..k : inbox'[i] = inbox[i]
            /\ inbox'[k + 1] = Answered
            /\ \A i \in 1..n : inbox'[k + 1 + i] = from + i - 1
        BY <1>0, <1>5, <2>3, <3>1, ReplaySent
      <3>3. \A i \in 1..(k + 1 + n) : \/ i \in 1..k
                                      \/ i = k + 1
                                      \/ i - (k + 1) \in 1..n /\ (k + 1) + (i - (k + 1)) = i
        BY <3>1
      <3>4. \A i \in 1..n : from + i - 1 \in Nat /\ from + i - 1 < entries
        <4>1. from \in Nat /\ entries \in Nat
          BY <1>2, <1>5, <2>3
        <4>2. QED
          BY <3>1, <4>1
      <3>5. \A i \in 1..k : ~IsAnswer(inbox'[i]) /\ inbox'[i] \notin {Refused, Removed}
        BY <1>7, <2>3, <3>1, <3>2 DEF MessageInv
      <3>6. \A i \in 1..n : ~IsAnswer(inbox'[k + 1 + i]) /\ inbox'[k + 1 + i] \notin {Refused, Removed}
        <4>1. \A v \in Nat : v < entries => ~IsAnswer(v) /\ v \notin {Refused, Removed}
          BY <1>2 DEF IsAnswer, Answered, Refused, Removed
        <4>2. QED
          BY <3>2, <3>4, <4>1
      <3>7. \A i \in 1..(k + 1 + n) : IsAnswer(inbox'[i]) => i = k + 1
        BY <3>3, <3>5, <3>6
      <3>8. \A i \in 1..(k + 1 + n) : inbox'[i] \notin {Refused, Removed}
        <4>1. Answered \notin {Refused, Removed}
          BY DEF Answered, Refused, Removed
        <4>2. QED
          BY <3>2, <3>3, <3>5, <3>6, <4>1
      <3>9. \A i \in 1..(k + 1 + n) : IsEntry(inbox'[i]) => inbox'[i] < entries
        <4>1. \A i \in 1..k : IsEntry(inbox'[i]) => inbox'[i] < entries
          BY <1>7, <3>1, <3>2 DEF MessageInv
        <4>2. ~IsEntry(Answered)
          BY DEF Answered, IsEntry
        <4>3. \A i \in 1..n : inbox'[k + 1 + i] < entries
          BY <3>2, <3>4
        <4>4. QED
          BY <3>2, <3>3, <4>1, <4>2, <4>3
      <3>10. op.at \notin {"stopping", "leaving"}
        BY <1>5, <2>3
      <3>11. ASSUME NEW i \in 1..(k + 1 + n)
             PROVE  MessageInv(i)'
        BY <1>1, <1>3, <1>4, <3>2, <3>7, <3>8, <3>9, <3>10
           DEF MessageInv, IsEntry, IsAnswer, Answered, Refused, Removed
      <3>12. QED
        BY <3>2, <3>11
    <2>4. QED
      BY <1>1, <2>1, <2>2, <2>3
  <1>9. WireTypes'
    <2>1. <<>> \in Seq(Requests)
      OBVIOUS
    <2>2. viewing' \in BOOLEAN
      BY <1>0, <1>1 DEF WireTypes
    <2>3. QED
      BY <1>0, <1>1, <1>3, <1>8, <2>1, <2>2 DEF WireTypes
  <1>10. WindowTypes' /\ LockInv' /\ SeqsAgree'
    BY <1>0, <1>1, <1>2, WindowsKept
  <1>11. WireInv'
    <2>1. RequestInv'
      BY <1>0, <1>1, <1>3 DEF WireInv, RequestInv
    <2>2. closed' => ~viewing'
      BY <1>0, <1>1 DEF WireInv
    <2>3. QED
      BY <1>1, <1>8, <2>1, <2>2 DEF WireInv
  <1>12. Streamed'
    <2>1. op.at = "leaving" => viewers = {}
      BY <1>0 DEF LockInv
    <2>2. QED
      BY <1>1, <1>5, <1>6, <2>1 DEF Streamed
  <1>13. QED
    BY <1>9, <1>10, <1>11, <1>12 DEF RelayInv

-----------------------------------------------------------------------------
(* The steps of the windows *)

LEMMA ReadStep ==
  ASSUME Nobody \notin Channels, MaxEntries \in Nat, RelayInv, ReadEntry
  PROVE  RelayInv'
  <1> DEFINE n == Head(inbox)
             fresh == {c \in viewers : n >= next_seq[c]}
             gone == {c \in fresh : ~open[c]}
             o == Op("unwatched", Nobody, "free")
  <1>0. WireTypes /\ WindowTypes /\ LockInv /\ SeqsAgree /\ WireInv /\ Streamed
    BY DEF RelayInv
  <1>1. /\ conn /\ inbox # <<>> /\ IsEntry(n) /\ inbox' = Tail(inbox)
        /\ viewers' = viewers \ gone
        /\ next_seq' = [c \in Channels |-> IF c \in fresh THEN n + 1 ELSE next_seq[c]]
        /\ last' = [c \in Channels |-> IF c \in fresh \ gone THEN n + 1 ELSE last[c]]
        /\ twice' = twice \cup {c \in fresh \ gone : n < last[c]}
        /\ queue' \in {queue, queue \cup {o}}
        /\ UNCHANGED <<entries, closed, viewing, conn, req, open, op>>
    BY DEF ReadEntry, send, daemonSide, IsEntry
  <1>2. n \in Messages /\ n \in Nat /\ n < entries /\ entries \in 0..MaxEntries
    <2>1. n \in Messages /\ n = inbox[1] /\ 1 \in 1..Len(inbox)
      BY <1>0, <1>1, TailIs DEF WireTypes
    <2>2. QED
      BY <1>0, <1>1, <2>1 DEF WireTypes, WireInv, MessageInv, Messages
  <1>3. o \in Ops /\ o.kind = "unwatched" /\ o.at = "free" /\ o.ch = Nobody
    BY DEF Ops, Op
  <1> HIDE DEF n, o
  <1>4. inbox' \in Seq(Messages) /\ \A i \in 1..Len(inbox') : MessageInv(i)'
    <2>1. \A i \in 1..Len(inbox) : MessageInv(i)
      BY <1>0 DEF WireInv
    <2>2. QED
      BY <1>0, <1>1, <2>1, TailMessages
  <1>5. WireTypes'
    BY <1>0, <1>1, <1>4 DEF WireTypes
  <1>6. /\ next_seq' \in [Channels -> 0..MaxEntries] /\ last' \in [Channels -> 0..MaxEntries]
        /\ \A c \in Channels : next_seq'[c] <= entries /\ next_seq'[c] >= next_seq[c]
        /\ \A c \in Channels : c \notin fresh => next_seq'[c] = next_seq[c] /\ last'[c] = last[c]
        /\ \A c \in Channels : c \in fresh \ gone => next_seq'[c] = n + 1 /\ last'[c] = n + 1
    <2>1. n + 1 \in 0..MaxEntries /\ n + 1 <= entries
      BY <1>2
    <2>2. \A c \in Channels : next_seq[c] \in 0..MaxEntries /\ last[c] \in 0..MaxEntries /\ next_seq[c] <= entries
      BY <1>0 DEF WindowTypes
    <2>3. QED
      BY <1>1, <1>2, <2>1, <2>2
  <1>7. WindowTypes'
    BY <1>0, <1>1, <1>6 DEF WindowTypes
  <1>8. LockInv'
    <2>1. \A p \in queue' : Waits(p)'
      BY <1>0, <1>1, <1>3 DEF LockInv, Waits
    <2>2. \A p, q \in queue' : p.ch = q.ch /\ p.ch \in Channels => p = q
      BY <1>0, <1>1, <1>3 DEF LockInv
    <2>3. QED
      BY <1>0, <1>1, <2>1, <2>2 DEF LockInv
  <1>9. SeqsAgree'
    <2>1. \A c \in Channels : last[c] = next_seq[c] \/ ~Told(c)
      BY <1>0 DEF SeqsAgree
    <2>2. \A c \in viewers : Told(c) /\ c \in Channels /\ last[c] \in Nat
      BY <1>0 DEF Told, WindowTypes
    <2>3. twice' = {}
      BY <1>0, <1>1, <1>2, <2>1, <2>2 DEF SeqsAgree
    <2>4. ASSUME NEW c \in Channels, Told(c)'
          PROVE  Told(c) /\ c \notin gone
      <3>1. CASE c \in viewers'
        BY <1>1, <3>1 DEF Told
      <3>2. CASE \E p \in queue' : p.kind = "attach" /\ p.ch = c
        <4>1. PICK p \in queue : p.kind = "attach" /\ p.ch = c
          BY <1>1, <1>3, <3>2
        <4>2. c \notin viewers
          BY <1>0, <4>1 DEF LockInv, Waits
        <4>3. QED
          BY <4>1, <4>2 DEF Told
      <3>3. CASE op'.at = "stopping" /\ op'.ch = c
        BY <1>0, <1>1, <3>3 DEF LockInv, Told
      <3>4. QED
        BY <2>4, <3>1, <3>2, <3>3 DEF Told
    <2>5. \A c \in Channels : Told(c)' => last'[c] = next_seq'[c]
      BY <1>6, <2>1, <2>4
    <2>6. QED
      BY <2>3, <2>5 DEF SeqsAgree
  <1>10. WireInv'
    <2>1. req # <<>> => Head(req) \in Nat
      BY <1>0, TailIs DEF WireTypes, Requests
    <2>2. op.seq \in Nat
      BY <1>0 DEF LockInv, Ops
    <2>3. \A c \in Channels : next_seq[c] \in Nat /\ next_seq'[c] \in Nat
      BY <1>0, <1>6 DEF WindowTypes
    <2>4. RequestInv'
      <3>1. viewers' \subseteq viewers /\ viewers \subseteq Channels
        BY <1>0, <1>1 DEF WindowTypes
      <3>2. op.at = "stopping" => op.ch \in Channels
        BY <1>0 DEF LockInv
      <3>3. RequestInv
        BY <1>0 DEF WireInv
      <3>4. ASSUME NEW m \in Nat, NEW c \in Channels, m <= next_seq[c]
            PROVE  m <= next_seq'[c]
        BY <1>6, <2>3, <3>4
      <3>5. ASSUME req' # <<>>, op'.at \in {"joining", "again"}
            PROVE  Head(req') <= entries' /\ \A c \in viewers' : Head(req') <= next_seq'[c]
        BY <1>1, <2>1, <3>1, <3>3, <3>4, <3>5 DEF RequestInv
      <3>6. ASSUME op'.at = "stopping"
            PROVE  op'.seq <= entries' /\ \A c \in viewers' \cup {op'.ch} : op'.seq <= next_seq'[c]
        BY <1>1, <2>2, <3>1, <3>2, <3>3, <3>4, <3>6 DEF RequestInv
      <3>7. QED
        BY <1>1, <3>3, <3>5, <3>6 DEF RequestInv, StopStream
    <2>5. QED
      BY <1>0, <1>1, <1>4, <2>4 DEF WireInv
  <1>11. Streamed'
    BY <1>0, <1>1 DEF Streamed
  <1>12. QED
    BY <1>5, <1>7, <1>8, <1>9, <1>10, <1>11 DEF RelayInv
\* A handler that is asked for waits for the lock
LEMMA QueueGrows ==
  ASSUME LockInv, NEW o \in Ops, o.at = "free", o.kind \in {"attach", "detach"}, o.ch \in Channels,
         o.kind = "attach" => o.ch \notin viewers,
         \A p \in queue \cup {op} : p.ch # o.ch,
         queue' = queue \cup {o}, UNCHANGED <<op, viewers>>
  PROVE  LockInv'
  <1>1. \A p \in queue' : Waits(p)'
    BY DEF LockInv, Waits
  <1>2. \A p, q \in queue' : p.ch = q.ch /\ p.ch \in Channels => p = q
    BY DEF LockInv
  <1>3. QED
    BY <1>1, <1>2 DEF LockInv

LEMMA AttachStep ==
  ASSUME MaxEntries \in Nat, RelayInv, NEW c \in Channels, NEW from \in 0..MaxEntries, CallAttach(c, from)
  PROVE  RelayInv'
  <1> DEFINE o == Op("attach", c, "free")
  <1>0. WireTypes /\ WindowTypes /\ LockInv /\ SeqsAgree /\ WireInv /\ Streamed
    BY DEF RelayInv
  <1>1. /\ open[c] /\ c \notin viewers /\ from <= entries
        /\ \A p \in queue \cup {op} : p.ch # c
        /\ queue' = queue \cup {o}
        /\ next_seq' = [next_seq EXCEPT ![c] = from] /\ last' = [last EXCEPT ![c] = from]
        /\ UNCHANGED <<entries, closed, viewing, conn, req, inbox, viewers, open, twice, op>>
    BY DEF CallAttach, daemonSide
  <1>2. o \in Ops /\ o.kind = "attach" /\ o.at = "free" /\ o.ch = c
    BY DEF Ops, Op
  <1> HIDE DEF o
  <1>3. /\ next_seq' \in [Channels -> 0..MaxEntries] /\ last' \in [Channels -> 0..MaxEntries]
        /\ next_seq'[c] = from /\ last'[c] = from
        /\ \A d \in Channels \ {c} : next_seq'[d] = next_seq[d] /\ last'[d] = last[d]
    BY <1>0, <1>1 DEF WindowTypes
  <1>4. WireTypes' /\ WindowTypes'
    <2>1. \A d \in Channels : next_seq'[d] <= entries
      BY <1>0, <1>1, <1>3 DEF WindowTypes
    <2>2. QED
      BY <1>0, <1>1, <1>3, <2>1 DEF WireTypes, WindowTypes
  <1>5. LockInv'
    BY <1>0, <1>1, <1>2, QueueGrows
  <1>6. SeqsAgree'
    <2>1. \A d \in Channels \ {c} : Told(d)' => Told(d)
      BY <1>1, <1>2 DEF Told
    <2>2. QED
      BY <1>0, <1>1, <1>3, <2>1 DEF SeqsAgree
  <1>7. WireInv'
    <2>1. \A i \in 1..Len(inbox) : MessageInv(i)'
      BY <1>0, <1>1 DEF WireInv, MessageInv, IsEntry, IsAnswer, Answered, Refused, Removed
    <2>2. \A d \in viewers : d \in Channels \ {c}
      BY <1>0, <1>1 DEF WindowTypes
    <2>3. op.at = "stopping" => op.ch \in Channels \ {c}
      BY <1>0, <1>1 DEF LockInv
    <2>4. RequestInv'
      BY <1>0, <1>1, <1>3, <2>2, <2>3 DEF WireInv, RequestInv, StopStream
    <2>5. QED
      BY <1>0, <1>1, <2>1, <2>4 DEF WireInv
  <1>8. Streamed'
    BY <1>0, <1>1 DEF Streamed
  <1>9. QED
    BY <1>4, <1>5, <1>6, <1>7, <1>8 DEF RelayInv

\* What the connection's part of the invariant does not depend on
LEMMA WireKept ==
  ASSUME WireInv, UNCHANGED <<entries, closed, viewing, conn, req, inbox, op, viewers, next_seq>>
  PROVE  WireInv'
  <1>1. \A i \in 1..Len(inbox) : MessageInv(i)'
    BY DEF WireInv, MessageInv, IsEntry, IsAnswer, Answered, Refused, Removed
  <1>2. RequestInv'
    BY DEF WireInv, RequestInv, StopStream
  <1>3. QED
    BY <1>1, <1>2 DEF WireInv

LEMMA DetachStep ==
  ASSUME RelayInv, MaxEntries \in Nat, NEW c \in Channels, CallDetach(c)
  PROVE  RelayInv'
  <1> DEFINE o == Op("detach", c, "free")
  <1>0. WireTypes /\ WindowTypes /\ LockInv /\ SeqsAgree /\ WireInv /\ Streamed
    BY DEF RelayInv
  <1>1. /\ \A p \in queue \cup {op} : p.ch # c
        /\ queue' = queue \cup {o}
        /\ UNCHANGED <<entries, closed, viewing, conn, req, inbox, viewers, next_seq, last, open>>
        /\ UNCHANGED <<twice, op>>
    BY DEF CallDetach, daemonSide, appSide
  <1>2. o \in Ops /\ o.kind = "detach" /\ o.at = "free" /\ o.ch = c
    BY DEF Ops, Op
  <1> HIDE DEF o
  <1>3. WireTypes' /\ WindowTypes'
    BY <1>0, <1>1 DEF WireTypes, WindowTypes
  <1>4. LockInv'
    BY <1>0, <1>1, <1>2, QueueGrows
  <1>5. SeqsAgree'
    <2>1. \A d \in Channels : Told(d)' => Told(d)
      BY <1>1, <1>2 DEF Told
    <2>2. QED
      BY <1>0, <1>1, <2>1 DEF SeqsAgree
  <1>6. WireInv'
    BY <1>0, <1>1, WireKept
  <1>7. Streamed'
    BY <1>0, <1>1 DEF Streamed
  <1>8. QED
    BY <1>3, <1>4, <1>5, <1>6, <1>7 DEF RelayInv

LEMMA WindowStep ==
  ASSUME RelayInv, NEW c \in Channels, WindowCloses(c)
  PROVE  RelayInv'
  <1>0. WireTypes /\ WindowTypes /\ LockInv /\ SeqsAgree /\ WireInv /\ Streamed
    BY DEF RelayInv
  <1>1. /\ open' = [open EXCEPT ![c] = FALSE]
        /\ UNCHANGED <<entries, closed, viewing, conn, req, inbox, viewers, next_seq, last>>
        /\ UNCHANGED <<twice, op, queue>>
    BY DEF WindowCloses, daemonSide
  <1>2. WireTypes' /\ WindowTypes'
    BY <1>0, <1>1 DEF WireTypes, WindowTypes
  <1>3. LockInv' /\ SeqsAgree' /\ Streamed'
    BY <1>0, <1>1 DEF LockInv, Waits, SeqsAgree, Told, Streamed
  <1>4. WireInv'
    BY <1>0, <1>1, WireKept
  <1>5. QED
    BY <1>2, <1>3, <1>4 DEF RelayInv

LEMMA RemovedStep ==
  ASSUME MaxEntries \in Nat, RelayInv, ChatRemoved
  PROVE  RelayInv'
  <1>0. WireTypes /\ WindowTypes /\ LockInv /\ SeqsAgree /\ WireInv
    BY DEF RelayInv
  <1>1. /\ inbox # <<>> /\ Head(inbox) = Removed /\ inbox' = Tail(inbox) /\ viewers' = {}
        /\ UNCHANGED <<entries, closed, viewing, conn, req, next_seq, last, open, twice, op, queue>>
    BY DEF ChatRemoved, daemonSide
  <1>2. inbox' \in Seq(Messages) /\ \A i \in 1..Len(inbox') : MessageInv(i)'
    <2>1. \A i \in 1..Len(inbox) : MessageInv(i)
      BY <1>0 DEF WireInv
    <2>2. QED
      BY <1>0, <1>1, <2>1, TailMessages
  <1>3. WireTypes' /\ WindowTypes'
    BY <1>0, <1>1, <1>2 DEF WireTypes, WindowTypes
  <1>4. LockInv'
    BY <1>0, <1>1 DEF LockInv, Waits
  <1>5. SeqsAgree'
    <2>1. \A d \in Channels : Told(d)' => Told(d)
      BY <1>1 DEF Told
    <2>2. QED
      BY <1>0, <1>1, <2>1 DEF SeqsAgree
  <1>6. WireInv'
    <2>1. RequestInv'
      BY <1>0, <1>1 DEF WireInv, RequestInv, StopStream
    <2>2. QED
      BY <1>0, <1>1, <1>2, <2>1 DEF WireInv
  <1>7. Streamed'
    BY <1>1 DEF Streamed
  <1>8. QED
    BY <1>3, <1>4, <1>5, <1>6, <1>7 DEF RelayInv
-----------------------------------------------------------------------------
(* The steps under the lock *)

\* Whoever has the lock sends a request
LEMMA RequestSent ==
  ASSUME MaxEntries \in Nat, WireTypes, WireInv, conn, req = <<>>, NEW m \in Requests,
         req' = Append(req, m), UNCHANGED <<entries, closed, viewing, conn>>,
         inbox' \in Seq(Messages), \A i \in 1..Len(inbox') : MessageInv(i)',
         op'.at # "free",
         op'.at \in {"joining", "again"} => m <= entries /\ \A c \in viewers' : m <= next_seq'[c],
         op'.at \in {"stopping", "leaving"} => m = StopStream,
         op'.at = "stopping" =>
           op'.seq <= entries /\ \A c \in viewers' \cup {op'.ch} : op'.seq <= next_seq'[c]
  PROVE  WireTypes' /\ WireInv' /\ req' # <<>>
  <1>1. req' \in Seq(Requests) /\ Len(req') = 1 /\ req' # <<>> /\ Head(req') = m
    <2>1. /\ req' \in Seq(Requests) /\ Len(req') = Len(req) + 1 /\ req'[Len(req) + 1] = m
      BY AppendIs DEF WireTypes
    <2>2. Len(req) = 0
      OBVIOUS
    <2>3. Len(req') = 1 /\ req'[1] = m
      BY <2>1, <2>2
    <2>4. req' # <<>>
      BY <2>3
    <2>5. QED
      BY <2>1, <2>3, <2>4, TailIs
  <1>2. WireTypes'
    BY <1>1 DEF WireTypes
  <1>3. RequestInv'
    BY <1>1 DEF RequestInv, StopStream
  <1>4. QED
    BY <1>1, <1>2, <1>3 DEF WireInv

\* Nothing of the wire is an answer before a request is sent
LEMMA LockFree ==
  ASSUME LockInv, WireInv, op = NoOp
  PROVE  req = <<>> /\ \A i \in 1..Len(inbox) : ~IsAnswer(inbox[i])
  BY DEF LockInv, WireInv, RequestInv, MessageInv

LEMMA NoAnswers ==
  ASSUME WireInv, \A i \in 1..Len(inbox) : ~IsAnswer(inbox[i]),
         UNCHANGED <<entries, closed, viewing, inbox>>
  PROVE  \A i \in 1..Len(inbox') : MessageInv(i)'
  <1>1. ASSUME NEW i \in 1..Len(inbox)
        PROVE  MessageInv(i)'
    <2>1. MessageInv(i) /\ ~IsAnswer(inbox[i])
      BY DEF WireInv
    <2>2. QED
      BY <2>1 DEF MessageInv, IsEntry, IsAnswer, Answered, Refused, Removed
  <1>2. QED
    BY <1>1

\* The handler that has the lock
Taken(o, at, seq) == [kind |-> o.kind, ch |-> o.ch, at |-> at, seq |-> seq]

\* The handler that got the lock keeps what the others are about
LEMMA LockTaken ==
  ASSUME LockInv, op = NoOp, NEW o \in queue, queue' = queue \ {o},
         NEW at \in {"stopping", "joining", "leaving", "again"}, NEW seq \in 0..MaxEntries,
         op' = Taken(o, at, seq), viewers' \subseteq viewers \cup {o.ch},
         at \in {"stopping", "joining"} => o.kind = "attach",
         at # "joining" => viewers' \subseteq viewers,
         at = "leaving" => viewers' = {},
         \A p \in queue : p # o /\ p.kind = "attach" => p.ch # o.ch
  PROVE  LockInv'
  <1>1. Waits(o) /\ o.kind \in {"attach", "detach", "unwatched", "reattach"}
    BY DEF LockInv, Waits, Ops
  <1>2. op' \in Ops /\ op'.at = at /\ op'.kind = o.kind /\ op'.ch = o.ch /\ op' # NoOp
    BY <1>1 DEF Taken, Waits, Ops, NoOp, Op
  <1>3. \A p \in queue' : Waits(p)'
    BY <1>2 DEF LockInv, Waits
  <1>4. at = "stopping" => o.ch \notin viewers'
    BY <1>1 DEF Waits
  <1>5. QED
    BY <1>1, <1>2, <1>3, <1>4 DEF LockInv, Waits
\* What a handler does with the lock: it sends a request, or has nothing to do
LEMMA LockShapes ==
  ASSUME MaxEntries \in Nat, RelayInv, NEW o \in queue, Lock(o)
  PROVE  /\ op = NoOp /\ conn /\ queue' = queue \ {o} /\ Waits(o)
         /\ \A p \in queue : p # o /\ p.kind = "attach" => p.ch # o.ch
         /\ UNCHANGED <<entries, closed, viewing, conn, inbox, next_seq, last, open, twice>>
         /\ \/ /\ o.kind = "attach" /\ viewers # {} /\ viewers' = viewers
               /\ op' = Taken(o, "stopping", ReplayFrom(viewers \cup {o.ch}))
               /\ req' = Append(req, StopStream)
            \/ /\ o.kind = "attach" /\ viewers = {} /\ viewers' = {o.ch}
               /\ op' = Taken(o, "joining", o.seq)
               /\ req' = Append(req, ReplayFrom({o.ch}))
            \/ /\ o.kind # "attach" /\ o.kind # "reattach" /\ viewers' = {}
               /\ op' = Taken(o, "leaving", o.seq)
               /\ req' = Append(req, StopStream)
            \/ /\ o.kind = "reattach" /\ viewers # {} /\ viewers' = viewers
               /\ op' = Taken(o, "again", o.seq)
               /\ req' = Append(req, ReplayFrom(viewers))
            \/ /\ o.kind # "attach" /\ op' = op /\ req' = req /\ viewers' \subseteq viewers
               /\ viewers' = {} => viewers = {}
               /\ o.kind = "reattach" => viewers = {}
  <1>1. LockInv
    BY DEF RelayInv
  <1>2. Waits(o) /\ o \in Ops /\ o.kind \in {"attach", "detach", "unwatched", "reattach"}
    BY <1>1 DEF LockInv, Waits, Ops
  <1>3. \A at, seq : /\ [o EXCEPT !.at = at] = Taken(o, at, o.seq)
                     /\ [o EXCEPT !.at = at, !.seq = seq] = Taken(o, at, seq)
    <2> TAKE at, seq
    <2>1. /\ DOMAIN o = {"kind", "ch", "at", "seq"}
          /\ o = [x \in {"kind", "ch", "at", "seq"} |-> o[x]]
      BY <1>2 DEF Ops
    <2>2. [o EXCEPT !.at = at] = Taken(o, at, o.seq)
      BY <2>1 DEF Taken
    <2>3. [o EXCEPT !.at = at, !.seq = seq] = Taken(o, at, seq)
      <3>1. [o EXCEPT !.at = at, !.seq = seq] = [[o EXCEPT !.at = at] EXCEPT !.seq = seq]
        BY <2>1
      <3>2. [Taken(o, at, o.seq) EXCEPT !.seq = seq] = Taken(o, at, seq)
        BY DEF Taken
      <3>3. QED
        BY <2>2, <3>1, <3>2
    <2>4. QED
      BY <2>2, <2>3
  <1>4. /\ op = NoOp /\ conn /\ queue' = queue \ {o}
        /\ UNCHANGED <<entries, closed, viewing, conn, inbox, next_seq, last, open, twice>>
    BY DEF Lock, daemonSide
  <1>5. \A p \in queue : p # o /\ p.kind = "attach" => p.ch # o.ch
    BY <1>1 DEF LockInv, Waits
  <1>6. CASE o.kind = "attach"
    <2>1. \/ /\ viewers # {} /\ viewers' = viewers
             /\ Sending([o EXCEPT !.at = "stopping", !.seq = ReplayFrom(viewers \cup {o.ch})], StopStream)
          \/ /\ viewers = {} /\ viewers' = {o.ch}
             /\ Sending([o EXCEPT !.at = "joining"], ReplayFrom({o.ch}))
      BY <1>6 DEF Lock
    <2>2. QED
      BY <1>2, <1>3, <1>4, <1>5, <1>6, <2>1 DEF Sending
  <1>7. CASE o.kind = "detach"
    <2>1. /\ viewers' = viewers \ {o.ch}
          /\ IF o.ch \in viewers /\ viewers' = {}
             THEN Sending([o EXCEPT !.at = "leaving"], StopStream)
             ELSE UNCHANGED <<op, req>>
      BY <1>7 DEF Lock
    <2>2. QED
      BY <1>2, <1>3, <1>4, <1>5, <1>7, <2>1 DEF Sending
  <1>8. CASE o.kind = "unwatched"
    <2>1. /\ viewers' = viewers
          /\ IF viewers = {} THEN Sending([o EXCEPT !.at = "leaving"], StopStream)
             ELSE UNCHANGED <<op, req>>
      BY <1>8 DEF Lock
    <2>2. QED
      BY <1>2, <1>3, <1>4, <1>5, <1>8, <2>1 DEF Sending
  <1>9. CASE o.kind = "reattach"
    <2>1. /\ viewers' = viewers
          /\ IF viewers # {} THEN Sending([o EXCEPT !.at = "again"], ReplayFrom(viewers))
             ELSE UNCHANGED <<op, req>>
      BY <1>9 DEF Lock
    <2>2. QED
      BY <1>2, <1>3, <1>4, <1>5, <1>9, <2>1 DEF Sending
  <1>10. QED
    BY <1>2, <1>6, <1>7, <1>8, <1>9

LEMMA LockStep ==
  ASSUME MaxEntries \in Nat, RelayInv, NEW o \in queue, Lock(o)
  PROVE  RelayInv'
  <1>0. WireTypes /\ WindowTypes /\ LockInv /\ SeqsAgree /\ WireInv /\ Streamed
    BY DEF RelayInv
  <1>1. /\ op = NoOp /\ conn /\ queue' = queue \ {o} /\ Waits(o)
        /\ \A p \in queue : p # o /\ p.kind = "attach" => p.ch # o.ch
        /\ UNCHANGED <<entries, closed, viewing, conn, inbox, next_seq, last, open, twice>>
    BY LockShapes
  <1>2. /\ req = <<>> /\ \A i \in 1..Len(inbox) : ~IsAnswer(inbox[i])
        /\ inbox' \in Seq(Messages) /\ \A i \in 1..Len(inbox') : MessageInv(i)'
    <2>1. req = <<>> /\ \A i \in 1..Len(inbox) : ~IsAnswer(inbox[i])
      BY <1>0, <1>1, LockFree
    <2>2. \A i \in 1..Len(inbox') : MessageInv(i)'
      BY <1>0, <1>1, <2>1, NoAnswers
    <2>3. QED
      BY <1>0, <1>1, <2>1, <2>2 DEF WireTypes
  <1>3. o.seq \in 0..MaxEntries /\ StopStream \in Requests /\ entries \in Nat
    BY <1>0, <1>1 DEF Waits, Ops, StopStream, Requests, WireTypes
  <1>4. \A m \in 0..MaxEntries : m \in Requests
    BY DEF Requests
  <1>5. ASSUME NEW cs \in SUBSET Channels, cs # {}
        PROVE  /\ ReplayFrom(cs) \in 0..MaxEntries /\ ReplayFrom(cs) <= entries
               /\ \A c \in cs : ReplayFrom(cs) <= next_seq[c]
    <2>1. /\ ReplayFrom(cs) \in 0..MaxEntries
          /\ \A c \in cs : ReplayFrom(cs) <= next_seq[c]
      BY <1>0, <1>5, ReplayIs
    <2>2. PICK c \in cs : c \in Channels
      BY <1>5
    <2>3. next_seq[c] \in Nat /\ next_seq[c] <= entries
      BY <1>0, <2>2 DEF WindowTypes
    <2>4. ReplayFrom(cs) <= next_seq[c]
      BY <2>1
    <2>5. QED
      BY <1>3, <2>1, <2>3, <2>4
  <1>6. viewers \subseteq Channels
    BY <1>0 DEF WindowTypes
  <1>7. CASE /\ o.kind = "attach" /\ viewers # {} /\ viewers' = viewers
             /\ op' = Taken(o, "stopping", ReplayFrom(viewers \cup {o.ch}))
             /\ req' = Append(req, StopStream)
    <2> DEFINE cs == viewers \cup {o.ch}
    <2>1. cs \in SUBSET Channels /\ cs # {} /\ o.ch \in Channels /\ o.ch \notin viewers
      BY <1>1, <1>6, <1>7 DEF Waits
    <2>2. /\ ReplayFrom(cs) \in 0..MaxEntries /\ ReplayFrom(cs) <= entries
          /\ \A c \in cs : ReplayFrom(cs) <= next_seq[c]
      BY <1>5, <2>1
    <2>3. op'.at = "stopping" /\ op'.seq = ReplayFrom(cs) /\ op'.ch = o.ch
      BY <1>7 DEF Taken
    <2> HIDE DEF cs
    <2>4. WireTypes' /\ WireInv'
      BY <1>0, <1>1, <1>2, <1>3, <1>7, <2>2, <2>3, RequestSent DEF cs
    <2>5. LockInv'
      BY <1>0, <1>1, <1>7, <2>2, LockTaken DEF cs
    <2>6. SeqsAgree'
      <3>1. \A c \in Channels : Told(c)' => Told(c)
        BY <1>1, <1>7, <2>3 DEF Told
      <3>2. QED
        BY <1>0, <1>1, <3>1 DEF SeqsAgree
    <2>7. WindowTypes' /\ Streamed'
      BY <1>0, <1>1, <1>7, <2>3 DEF WindowTypes, Streamed
    <2>8. QED
      BY <2>4, <2>5, <2>6, <2>7 DEF RelayInv
  <1>8. CASE /\ o.kind = "attach" /\ viewers = {} /\ viewers' = {o.ch}
             /\ op' = Taken(o, "joining", o.seq)
             /\ req' = Append(req, ReplayFrom({o.ch}))
    <2>1. o.ch \in Channels
      BY <1>1, <1>8 DEF Waits
    <2>2. /\ ReplayFrom({o.ch}) \in 0..MaxEntries /\ ReplayFrom({o.ch}) <= entries
          /\ ReplayFrom({o.ch}) <= next_seq[o.ch]
      BY <1>5, <2>1
    <2>3. op'.at = "joining" /\ op'.ch = o.ch
      BY <1>8 DEF Taken
    <2>4. WireTypes' /\ WireInv' /\ req' # <<>>
      BY <1>0, <1>1, <1>2, <1>4, <1>8, <2>2, <2>3, RequestSent
    <2>5. LockInv'
      BY <1>0, <1>1, <1>3, <1>8, LockTaken
    <2>6. SeqsAgree'
      <3>1. \A c \in Channels : Told(c)' => Told(c)
        BY <1>1, <1>8, <2>3 DEF Told
      <3>2. QED
        BY <1>0, <1>1, <3>1 DEF SeqsAgree
    <2>7. WindowTypes' /\ Streamed'
      BY <1>0, <1>1, <1>8, <2>1, <2>3, <2>4 DEF WindowTypes, Streamed
    <2>8. QED
      BY <2>4, <2>5, <2>6, <2>7 DEF RelayInv
  <1>9. CASE /\ o.kind # "attach" /\ o.kind # "reattach" /\ viewers' = {}
             /\ op' = Taken(o, "leaving", o.seq)
             /\ req' = Append(req, StopStream)
    <2>1. op'.at = "leaving"
      BY <1>9 DEF Taken
    <2>2. WireTypes' /\ WireInv'
      BY <1>0, <1>1, <1>2, <1>3, <1>9, <2>1, RequestSent
    <2>3. LockInv'
      BY <1>0, <1>1, <1>3, <1>9, LockTaken
    <2>4. SeqsAgree'
      <3>1. \A c \in Channels : Told(c)' => Told(c)
        BY <1>1, <1>9, <2>1 DEF Told
      <3>2. QED
        BY <1>0, <1>1, <3>1 DEF SeqsAgree
    <2>5. WindowTypes' /\ Streamed'
      BY <1>0, <1>1, <1>9 DEF WindowTypes, Streamed
    <2>6. QED
      BY <2>2, <2>3, <2>4, <2>5 DEF RelayInv
  <1>10. CASE /\ o.kind = "reattach" /\ viewers # {} /\ viewers' = viewers
              /\ op' = Taken(o, "again", o.seq)
              /\ req' = Append(req, ReplayFrom(viewers))
    <2>1. op'.at = "again"
      BY <1>10 DEF Taken
    <2>2. /\ ReplayFrom(viewers) \in 0..MaxEntries /\ ReplayFrom(viewers) <= entries
          /\ \A c \in viewers : ReplayFrom(viewers) <= next_seq[c]
      BY <1>5, <1>6, <1>10
    <2>3. WireTypes' /\ WireInv' /\ req' # <<>>
      BY <1>0, <1>1, <1>2, <1>4, <1>10, <2>1, <2>2, RequestSent
    <2>4. LockInv'
      BY <1>0, <1>1, <1>3, <1>10, LockTaken
    <2>5. SeqsAgree'
      <3>1. \A c \in Channels : Told(c)' => Told(c)
        BY <1>1, <1>10, <2>1 DEF Told
      <3>2. QED
        BY <1>0, <1>1, <3>1 DEF SeqsAgree
    <2>6. WindowTypes' /\ Streamed'
      BY <1>0, <1>1, <1>10, <2>1, <2>3 DEF WindowTypes, Streamed
    <2>7. QED
      BY <2>3, <2>4, <2>5, <2>6 DEF RelayInv
  <1>11. CASE /\ o.kind # "attach" /\ op' = op /\ req' = req /\ viewers' \subseteq viewers
              /\ viewers' = {} => viewers = {}
              /\ o.kind = "reattach" => viewers = {}
    <2>1. WireTypes' /\ WindowTypes'
      BY <1>0, <1>1, <1>11 DEF WireTypes, WindowTypes
    <2>2. LockInv'
      <3>1. \A p \in queue' : Waits(p)'
        BY <1>0, <1>1, <1>11 DEF LockInv, Waits
      <3>2. QED
        BY <1>0, <1>1, <1>11, <3>1 DEF LockInv
    <2>3. SeqsAgree'
      <3>1. \A c \in Channels : Told(c)' => Told(c)
        BY <1>1, <1>11 DEF Told
      <3>2. QED
        BY <1>0, <1>1, <3>1 DEF SeqsAgree
    <2>4. WireInv'
      <3>1. RequestInv'
        BY <1>0, <1>1, <1>2, <1>11 DEF WireInv, RequestInv, LockInv
      <3>2. QED
        BY <1>0, <1>1, <1>2, <1>11, <3>1 DEF WireInv
    <2>5. Streamed'
      BY <1>0, <1>1, <1>11 DEF Streamed
    <2>6. QED
      BY <2>1, <2>2, <2>3, <2>4, <2>5 DEF RelayInv
  <1>12. QED
    BY <1>7, <1>8, <1>9, <1>10, <1>11, LockShapes
\* Whoever had the lock is done
LEMMA LockGiven ==
  ASSUME Nobody \notin Channels, MaxEntries \in Nat, LockInv, op' = NoOp, queue' = queue,
         viewers' \subseteq viewers
  PROVE  LockInv' /\ NoOp \in Ops
  <1>1. NoOp \in Ops /\ NoOp.at = "free" /\ NoOp.ch = Nobody
    BY DEF NoOp, Op, Ops
  <1>2. \A o \in queue' : Waits(o)'
    BY <1>1 DEF LockInv, Waits
  <1>3. QED
    BY <1>1, <1>2 DEF LockInv

LEMMA ReplyStep ==
  ASSUME Nobody \notin Channels, MaxEntries \in Nat, RelayInv, Reply
  PROVE  RelayInv'
  <1>0. WireTypes /\ WindowTypes /\ LockInv /\ SeqsAgree /\ WireInv /\ Streamed
    BY DEF RelayInv
  <1>1. /\ conn /\ inbox # <<>> /\ Head(inbox) = Answered /\ inbox' = Tail(inbox)
        /\ UNCHANGED <<entries, closed, viewing, conn, next_seq, last, open, twice, queue>>
        /\ \/ /\ op.at = "stopping" /\ viewers' = viewers \cup {op.ch}
              /\ op' = [op EXCEPT !.at = "joining"] /\ req' = Append(req, op.seq)
           \/ op.at # "stopping" /\ op' = NoOp /\ viewers' = viewers /\ req' = req
    BY DEF Reply, Sending, daemonSide
  <1>2. IsAnswer(Head(inbox))
    BY <1>1 DEF IsAnswer
  <1>3. /\ inbox' \in Seq(Messages) /\ \A i \in 1..Len(inbox') : MessageInv(i)'
        /\ \A i \in 1..Len(inbox') : ~IsAnswer(inbox'[i])
    <2>1. \A i \in 1..Len(inbox) : MessageInv(i)
      BY <1>0 DEF WireInv
    <2>2. QED
      BY <1>0, <1>1, <1>2, <2>1, TailMessages
  <1>4. req = <<>> /\ op.at # "free"
    <2>1. Head(inbox) = inbox[1] /\ 1 \in 1..Len(inbox)
      BY <1>0, <1>1, TailIs DEF WireTypes
    <2>2. QED
      BY <1>0, <1>2, <2>1 DEF WireInv, MessageInv
  <1>5. op \in Ops /\ op.seq \in Requests /\ op.seq \in Nat
    BY <1>0 DEF LockInv, Ops, Requests
  <1>6. CASE /\ op.at = "stopping" /\ viewers' = viewers \cup {op.ch}
             /\ op' = [op EXCEPT !.at = "joining"] /\ req' = Append(req, op.seq)
    <2>1. /\ op' \in Ops /\ op'.at = "joining" /\ op'.kind = op.kind /\ op'.ch = op.ch
          /\ op' # NoOp
      BY <1>5, <1>6 DEF Ops, NoOp, Op
    <2>2. op.kind = "attach" /\ op.ch \in Channels
      BY <1>0, <1>6 DEF LockInv
    <2>3. WireTypes' /\ WireInv' /\ req' # <<>>
      <3>1. op.seq <= entries /\ \A c \in viewers' : op.seq <= next_seq[c]
        BY <1>0, <1>6 DEF WireInv, RequestInv
      <3>2. QED
        BY <1>0, <1>1, <1>3, <1>4, <1>5, <1>6, <2>1, <3>1, RequestSent
    <2>4. LockInv'
      <3>1. \A o \in queue' : Waits(o)'
        BY <1>0, <1>1, <1>6, <2>1 DEF LockInv, Waits
      <3>2. QED
        BY <1>0, <1>1, <2>1, <2>2, <3>1 DEF LockInv
    <2>5. SeqsAgree'
      <3>1. \A c \in Channels : Told(c)' => Told(c)
        BY <1>1, <1>6, <2>1 DEF Told
      <3>2. QED
        BY <1>0, <1>1, <3>1 DEF SeqsAgree
    <2>6. WindowTypes' /\ Streamed'
      BY <1>0, <1>1, <1>6, <2>1, <2>2, <2>3 DEF WindowTypes, Streamed
    <2>7. QED
      BY <2>3, <2>4, <2>5, <2>6 DEF RelayInv
  <1>7. CASE op.at # "stopping" /\ op' = NoOp /\ viewers' = viewers /\ req' = req
    <2>1. LockInv'
      BY <1>0, <1>1, <1>7, LockGiven
    <2>2. op'.at = "free"
      BY <1>7 DEF NoOp, Op
    <2>3. WireTypes' /\ WindowTypes'
      BY <1>0, <1>1, <1>3, <1>7 DEF WireTypes, WindowTypes
    <2>4. WireInv'
      <3>1. RequestInv'
        BY <1>4, <1>7, <2>2 DEF RequestInv
      <3>2. QED
        BY <1>0, <1>1, <1>3, <1>4, <1>7, <3>1 DEF WireInv
    <2>5. SeqsAgree'
      <3>1. \A c \in Channels : Told(c)' => Told(c)
        BY <1>1, <1>7, <2>2 DEF Told
      <3>2. QED
        BY <1>0, <1>1, <3>1 DEF SeqsAgree
    <2>6. Streamed'
      BY <1>0, <1>1, <1>4, <1>7 DEF Streamed
    <2>7. QED
      BY <2>1, <2>3, <2>4, <2>5, <2>6 DEF RelayInv
  <1>8. QED
    BY <1>1, <1>6, <1>7

LEMMA FailsStep ==
  ASSUME Nobody \notin Channels, MaxEntries \in Nat, RelayInv, Fails
  PROVE  RelayInv' /\ viewers' \subseteq viewers
  <1>0. WireTypes /\ WindowTypes /\ LockInv /\ SeqsAgree /\ WireInv /\ Streamed
    BY DEF RelayInv
  <1>1. /\ op' = NoOp /\ viewers' \subseteq viewers
        /\ UNCHANGED <<entries, closed, viewing, conn, req, next_seq, last, open, twice, queue>>
        /\ \/ ~conn /\ inbox' = inbox
           \/ conn /\ inbox # <<>> /\ Head(inbox) = Refused /\ inbox' = Tail(inbox)
    <2>1. /\ op' = NoOp
          /\ UNCHANGED <<entries, closed, viewing, conn, req, next_seq, last, open, twice, queue>>
          /\ \/ ~conn /\ inbox' = inbox
             \/ conn /\ inbox # <<>> /\ Head(inbox) = Refused /\ inbox' = Tail(inbox)
      BY DEF Fails, daemonSide
    <2>2. viewers' = CASE op.at = "joining" -> viewers \ {op.ch}
                       [] op.at = "again" -> {}
                       [] OTHER -> viewers
      BY DEF Fails
    <2>3. viewers' \subseteq viewers
      BY <2>2
    <2>4. QED
      BY <2>1, <2>3
  <1>2. op'.at = "free"
    BY <1>1 DEF NoOp, Op
  <1>3. /\ inbox' \in Seq(Messages) /\ \A i \in 1..Len(inbox') : MessageInv(i)'
        /\ req = <<>> /\ (~conn \/ closed) /\ (~conn => inbox' = <<>>)
    <2>1. CASE ~conn /\ inbox' = inbox
      <3>1. inbox = <<>> /\ req = <<>> /\ Len(inbox) = 0
        BY <1>0, <2>1 DEF WireInv
      <3>2. QED
        BY <1>0, <2>1, <3>1 DEF WireTypes
    <2>2. CASE conn /\ inbox # <<>> /\ Head(inbox) = Refused /\ inbox' = Tail(inbox)
      <3>1. IsAnswer(Head(inbox))
        BY <2>2 DEF IsAnswer
      <3>2. \A i \in 1..Len(inbox) : MessageInv(i)
        BY <1>0 DEF WireInv
      <3>3. Head(inbox) = inbox[1] /\ 1 \in 1..Len(inbox)
        BY <1>0, <2>2, TailIs DEF WireTypes
      <3>4. req = <<>> /\ closed
        BY <2>2, <3>1, <3>2, <3>3 DEF MessageInv
      <3>5. inbox' \in Seq(Messages) /\ \A i \in 1..Len(inbox') : MessageInv(i)'
        BY <1>0, <1>1, <2>2, <3>1, <3>2, TailMessages
      <3>6. QED
        BY <2>2, <3>4, <3>5
    <2>3. QED
      BY <1>1, <2>1, <2>2
  <1>4. LockInv'
    BY <1>0, <1>1, LockGiven
  <1>5. WireTypes' /\ WindowTypes'
    BY <1>0, <1>1, <1>3 DEF WireTypes, WindowTypes
  <1>6. WireInv'
    <2>1. RequestInv'
      BY <1>1, <1>2, <1>3 DEF RequestInv
    <2>2. QED
      BY <1>0, <1>1, <1>3, <2>1 DEF WireInv
  <1>7. SeqsAgree'
    <2>1. \A c \in Channels : Told(c)' => Told(c)
      BY <1>1, <1>2 DEF Told
    <2>2. QED
      BY <1>0, <1>1, <2>1 DEF SeqsAgree
  <1>8. Streamed'
    BY <1>1, <1>3 DEF Streamed
  <1>9. QED
    BY <1>1, <1>4, <1>5, <1>6, <1>7, <1>8 DEF RelayInv

LEMMA RelayInvInit ==
  ASSUME Nobody \notin Channels, MaxEntries \in Nat, RelayInit
  PROVE  RelayInv
  <1>1. WireTypes
    <2>1. <<>> \in Seq(Requests) /\ <<>> \in Seq(Messages)
      OBVIOUS
    <2>2. req = <<>> /\ inbox = <<>>
      BY DEF RelayInit
    <2>3. req \in Seq(Requests) /\ inbox \in Seq(Messages)
      BY <2>1, <2>2
    <2>4. entries \in 0..MaxEntries
      BY DEF RelayInit
    <2>5. closed \in BOOLEAN /\ viewing \in BOOLEAN /\ conn \in BOOLEAN
      BY Zenon DEF RelayInit
    <2>6. QED
      BY <2>3, <2>4, <2>5 DEF WireTypes
  <1>2. WindowTypes
    BY DEF RelayInit, WindowTypes
  <1>3. NoOp \in Ops /\ NoOp.at = "free" /\ NoOp.ch = Nobody
    BY DEF NoOp, Op, Ops
  <1>4. LockInv
    BY <1>3 DEF RelayInit, LockInv
  <1>5. SeqsAgree
    BY <1>3 DEF RelayInit, SeqsAgree, Told
  <1>6. WireInv
    <2>1. inbox = <<>> /\ Len(inbox) = 0 /\ req = <<>>
      BY DEF RelayInit
    <2>2. RequestInv
      BY <1>3, <2>1 DEF RelayInit, RequestInv
    <2>3. QED
      BY <2>1, <2>2 DEF RelayInit, WireInv
  <1>7. Streamed
    BY DEF RelayInit, Streamed
  <1>8. QED
    BY <1>1, <1>2, <1>4, <1>5, <1>6, <1>7 DEF RelayInv

LEMMA RelayInvNext ==
  ASSUME Nobody \notin Channels, MaxEntries \in Nat, RelayInv, [RelayNext]_relayVars
  PROVE  RelayInv'
  <1>1. CASE Emit \/ Close \/ Serve
    BY <1>1, EmitStep, CloseStep, ServeStep
  <1>2. CASE ReadEntry
    BY <1>2, ReadStep
  <1>3. CASE Reply
    BY <1>3, ReplyStep
  <1>4. CASE Fails
    BY <1>4, FailsStep
  <1>5. CASE Lose \/ Reconnect
    BY <1>5, LoseStep, ReconnectStep
  <1>6. CASE ChatRemoved
    BY <1>6, RemovedStep
  <1>7. CASE \E o \in queue : Lock(o)
    BY <1>7, LockStep
  <1>8. CASE \E c \in Channels : \E from \in 0 .. MaxEntries : CallAttach(c, from)
    BY <1>8, AttachStep
  <1>9. CASE \E c \in Channels : CallDetach(c) \/ WindowCloses(c)
    BY <1>9, DetachStep, WindowStep
  <1>10. CASE RelayIdle \/ UNCHANGED relayVars
    <2>1. /\ UNCHANGED <<entries, closed, viewing, conn, req, inbox, viewers, next_seq, last, open>>
          /\ UNCHANGED <<twice, op, queue>>
      BY <1>10 DEF RelayIdle, relayVars
    <2>2. WireTypes' /\ WindowTypes'
      BY <2>1 DEF RelayInv, WireTypes, WindowTypes
    <2>3. LockInv' /\ SeqsAgree' /\ Streamed'
      BY <2>1 DEF RelayInv, LockInv, Waits, SeqsAgree, Told, Streamed
    <2>4. WireInv'
      BY <2>1, WireKept DEF RelayInv
    <2>5. QED
      BY <2>2, <2>3, <2>4 DEF RelayInv
  <1>11. QED
    BY <1>1, <1>2, <1>3, <1>4, <1>5, <1>6, <1>7, <1>8, <1>9, <1>10 DEF RelayNext
-----------------------------------------------------------------------------
(* The stream *)

LEMMA QuietLeavesNothing ==
  ASSUME Quiet
  PROVE  \A c \in viewers : Contiguous(c)
  BY DEF Quiet, Contiguous

\* The app reads a message that no later entry needs
LEMMA TailContiguous ==
  ASSUME MaxEntries \in Nat, WireTypes, inbox # <<>>, inbox' = Tail(inbox),
         UNCHANGED <<entries, viewing>>, NEW c, Contiguous(c),
         next_seq[c] \in Nat, next_seq'[c] \in Nat, next_seq[c] <= next_seq'[c],
         \A v \in 0..MaxEntries : v > next_seq'[c] => Head(inbox) # v - 1
  PROVE  Contiguous(c)'
  <1>1. inbox \in Seq(Messages) /\ entries \in 0..MaxEntries
    BY DEF WireTypes
  <1>2. PICK k \in Nat : k = Len(inbox)
    BY <1>1
  <1>3. /\ inbox' \in Seq(Messages) /\ Head(inbox) = inbox[1]
        /\ k # 0 /\ Len(inbox') = k - 1
        /\ \A i \in 1..(k - 1) : inbox'[i] = inbox[i + 1]
    BY <1>1, <1>2, TailIs
  <1>4. ASSUME NEW v \in 0..MaxEntries, v > next_seq'[c], NEW j \in 1..k, inbox[j] = v - 1
        PROVE  j - 1 \in 1..(k - 1) /\ inbox'[j - 1] = v - 1
    <2>1. j # 1
      BY <1>3, <1>4
    <2>2. j - 1 \in 1..(k - 1) /\ (j - 1) + 1 = j
      BY <1>3, <2>1
    <2>3. QED
      BY <1>3, <1>4, <2>2
  <1>5. ASSUME NEW i \in 1..(k - 1), IsEntry(inbox'[i]), inbox'[i] > next_seq'[c]
        PROVE  \E j \in 1..(i - 1) : inbox'[j] = inbox'[i] - 1
    <2>1. i + 1 \in 1..k /\ inbox[i + 1] = inbox'[i] /\ inbox'[i] \in Messages
      BY <1>1, <1>2, <1>3
    <2>2. inbox'[i] \in 0..MaxEntries
      <3>1. \A m \in Messages : IsEntry(m) => m \in 0..MaxEntries
        BY DEF IsEntry, Messages
      <3>2. QED
        BY <1>5, <2>1, <3>1
    <2>3. inbox[i + 1] > next_seq[c]
      <3>1. \A v \in 0..MaxEntries : v > next_seq'[c] => v > next_seq[c]
        OBVIOUS
      <3>2. QED
        BY <1>5, <2>1, <2>2, <3>1
    <2>4. PICK j \in 1..((i + 1) - 1) : inbox[j] = inbox[i + 1] - 1
      BY <1>2, <1>5, <2>1, <2>3 DEF Contiguous
    <2>5. j \in 1..k
      BY <2>1
    <2>6. j - 1 \in 1..(k - 1) /\ inbox'[j - 1] = inbox'[i] - 1
      BY <1>4, <1>5, <2>1, <2>2, <2>4, <2>5
    <2>7. j - 1 \in 1..(i - 1)
      BY <2>4, <2>6
    <2>8. QED
      BY <2>6, <2>7
  <1>6. ASSUME viewing, entries > next_seq'[c]
        PROVE  \E j \in 1..(k - 1) : inbox'[j] = entries - 1
    <2>1. entries > next_seq[c]
      BY <1>1, <1>6
    <2>2. PICK j \in 1..k : inbox[j] = entries - 1
      BY <1>2, <1>6, <2>1 DEF Contiguous
    <2>3. QED
      BY <1>1, <1>4, <1>6, <2>2
  <1>7. QED
    BY <1>3, <1>5, <1>6 DEF Contiguous, IsEntry

\* ptyd sends one that leaves nothing out
LEMMA AppendContiguous ==
  ASSUME WireTypes, NEW e \in Messages, inbox' = Append(inbox, e), NEW c, Contiguous(c),
         next_seq'[c] = next_seq[c],
         IsEntry(e) /\ e > next_seq[c] => \E j \in 1..Len(inbox) : inbox[j] = e - 1,
         viewing' /\ entries' > next_seq[c] =>
           e = entries' - 1 \/ \E j \in 1..Len(inbox) : inbox[j] = entries' - 1
  PROVE  Contiguous(c)'
  <1>1. inbox \in Seq(Messages)
    BY DEF WireTypes
  <1>2. PICK k \in Nat : k = Len(inbox)
    BY <1>1
  <1>3. /\ inbox' \in Seq(Messages) /\ Len(inbox') = k + 1 /\ inbox'[k + 1] = e
        /\ \A i \in 1..k : inbox'[i] = inbox[i]
    BY <1>1, <1>2, AppendIs
  <1>4. \A i \in 1..(k + 1) : i \in 1..k \/ i = k + 1
    OBVIOUS
  <1>5. k + 1 \in 1..(k + 1) /\ \A i \in 1..k : i \in 1..(k + 1)
    OBVIOUS
  <1>6. ASSUME NEW i \in 1..(k + 1), IsEntry(inbox'[i]), inbox'[i] > next_seq'[c]
        PROVE  \E j \in 1..(i - 1) : inbox'[j] = inbox'[i] - 1
    <2>1. CASE i \in 1..k
      <3>1. inbox'[i] = inbox[i]
        BY <1>3, <2>1
      <3>2. PICK j \in 1..(i - 1) : inbox[j] = inbox[i] - 1
        BY <1>2, <1>6, <2>1, <3>1 DEF Contiguous
      <3>3. j \in 1..k
        BY <2>1
      <3>4. QED
        BY <1>3, <3>1, <3>2, <3>3
    <2>2. CASE i = k + 1
      <3>1. PICK j \in 1..k : inbox[j] = e - 1
        BY <1>2, <1>3, <1>6, <2>2
      <3>2. j \in 1..(i - 1) /\ inbox'[j] = e - 1
        BY <1>3, <2>2, <3>1
      <3>3. QED
        BY <1>3, <2>2, <3>2
    <2>3. QED
      BY <1>4, <2>1, <2>2
  <1>7. ASSUME viewing', entries' > next_seq'[c]
        PROVE  \E j \in 1..(k + 1) : inbox'[j] = entries' - 1
    BY <1>2, <1>3, <1>5, <1>7
  <1>8. QED
    BY <1>3, <1>6, <1>7 DEF Contiguous, IsEntry
LEMMA StreamDaemon ==
  ASSUME MaxEntries \in Nat, RelayInv, StreamInv, Emit \/ Close
  PROVE  StreamInv'
  <1>0. WireTypes /\ WireInv /\ viewers \subseteq Channels
    BY DEF RelayInv, WindowTypes
  <1>1. UNCHANGED <<open, op, req, viewers, next_seq, conn>>
    BY DEF Emit, Close, appSide
  <1>2. CASE Emit
    <2>1. /\ entries < MaxEntries /\ entries' = entries + 1 /\ closed' = closed /\ viewing' = viewing
          /\ inbox' = IF viewing THEN Append(inbox, entries) ELSE inbox
      BY <1>2 DEF Emit
    <2>2. entries \in Nat /\ entries \in Messages
      BY <1>0 DEF WireTypes, Messages
    <2>3. Quiet => Quiet'
      BY <2>1 DEF Quiet, IsEntry
    <2>4. ASSUME NEW c \in viewers
          PROVE  Contiguous(c)'
      <3>1. Contiguous(c) /\ next_seq'[c] = next_seq[c]
        BY <1>1 DEF StreamInv
      <3>2. CASE viewing
        <4>1. inbox' = Append(inbox, entries) /\ entries = entries' - 1
          BY <2>1, <2>2, <3>2
        <4>2. entries > next_seq[c] => \E j \in 1..Len(inbox) : inbox[j] = entries - 1
          BY <3>1, <3>2 DEF Contiguous
        <4>3. QED
          BY <1>0, <2>2, <3>1, <4>1, <4>2, AppendContiguous
      <3>3. CASE ~viewing
        <4>1. inbox' = inbox /\ ~viewing'
          BY <2>1, <3>3
        <4>2. QED
          BY <3>1, <4>1 DEF Contiguous, IsEntry
      <3>4. QED
        BY <3>2, <3>3
    <2>5. QED
      BY <1>1, <2>1, <2>3, <2>4 DEF StreamInv
  <1>3. CASE Close
    <2>1. /\ entries' = entries /\ closed' = TRUE /\ viewing' = FALSE
          /\ inbox' = IF conn THEN Append(inbox, Removed) ELSE inbox
      BY <1>3 DEF Close
    <2>2. Removed \in Messages /\ ~IsEntry(Removed)
      BY DEF Messages, IsEntry, Removed
    <2>3. Quiet => Quiet'
      <3>1. inbox \in Seq(Messages)
        BY <1>0 DEF WireTypes
      <3>2. CASE conn
        <4>1. /\ Len(inbox) \in Nat /\ Len(inbox') = Len(inbox) + 1 /\ inbox'[Len(inbox) + 1] = Removed
              /\ \A i \in 1..Len(inbox) : inbox'[i] = inbox[i]
          BY <2>1, <2>2, <3>1, <3>2, AppendIs
        <4>2. \A i \in 1..(Len(inbox) + 1) : i \in 1..Len(inbox) \/ i = Len(inbox) + 1
          BY <4>1
        <4>3. QED
          BY <2>1, <2>2, <4>1, <4>2 DEF Quiet, IsEntry
      <3>3. CASE ~conn
        BY <2>1, <3>3 DEF Quiet, IsEntry
      <3>4. QED
        BY <3>2, <3>3
    <2>4. ASSUME NEW c \in viewers
          PROVE  Contiguous(c)'
      <3>1. Contiguous(c) /\ next_seq'[c] = next_seq[c]
        BY <1>1 DEF StreamInv
      <3>2. CASE conn
        <4>1. inbox' = Append(inbox, Removed)
          BY <2>1, <3>2
        <4>2. QED
          BY <1>0, <2>1, <2>2, <3>1, <4>1, AppendContiguous
      <3>3. CASE ~conn
        <4>1. inbox' = inbox /\ ~viewing'
          BY <2>1, <3>3
        <4>2. QED
          BY <3>1, <4>1 DEF Contiguous, IsEntry
      <3>4. QED
        BY <3>2, <3>3
    <2>5. QED
      BY <1>1, <2>1, <2>3, <2>4 DEF StreamInv
  <1>4. QED
    BY <1>2, <1>3

LEMMA StreamServe ==
  ASSUME MaxEntries \in Nat, RelayInv, StreamInv, Serve
  PROVE  StreamInv'
  <1> DEFINE from == Head(req)
  <1>0. WireTypes /\ WindowTypes /\ LockInv /\ WireInv /\ viewers \subseteq Channels
    BY DEF RelayInv, WindowTypes
  <1>1. /\ req # <<>> /\ req' = Tail(req)
        /\ UNCHANGED <<entries, closed, open, op, viewers, next_seq>>
        /\ \/ closed /\ inbox' = Append(inbox, Refused) /\ viewing' = viewing
           \/ ~closed /\ from = StopStream /\ viewing' = FALSE /\ inbox' = Append(inbox, Answered)
           \/ /\ ~closed /\ from # StopStream /\ viewing' = TRUE
              /\ inbox' = Append(inbox, Answered) \o [i \in 1 .. entries - from |-> from + i - 1]
    BY DEF Serve, appSide
  <1>2. req' = <<>>
    <2>1. req \in Seq(Requests) /\ Len(req) = 1
      BY <1>0, <1>1 DEF WireTypes, WireInv, RequestInv
    <2>2. Tail(req) \in Seq(Requests) /\ Len(Tail(req)) = 0
      BY <1>1, <2>1, TailIs
    <2>3. QED
      BY <1>1, <2>2, EmptySeq
  <1>3. from \in Requests /\ entries \in 0..MaxEntries /\ inbox \in Seq(Messages)
    BY <1>0, <1>1, TailIs DEF WireTypes
  <1> HIDE DEF from
  <1>4. ASSUME NEW e \in {Answered, Refused}, inbox' = Append(inbox, e), ~viewing'
        PROVE  /\ Quiet => Quiet'
               /\ \A c \in viewers : Contiguous(c)'
    <2>1. e \in Messages /\ ~IsEntry(e)
      BY <1>4 DEF Messages, IsEntry, Answered, Refused
    <2>2. /\ Len(inbox) \in Nat /\ Len(inbox') = Len(inbox) + 1 /\ inbox'[Len(inbox) + 1] = e
          /\ \A i \in 1..Len(inbox) : inbox'[i] = inbox[i]
      BY <1>3, <1>4, <2>1, AppendIs
    <2>3. \A i \in 1..(Len(inbox) + 1) : i \in 1..Len(inbox) \/ i = Len(inbox) + 1
      BY <2>2
    <2>4. Quiet => Quiet'
      BY <1>4, <2>1, <2>2, <2>3 DEF Quiet, IsEntry
    <2>5. ASSUME NEW c \in viewers
          PROVE  Contiguous(c)'
      <3>1. Contiguous(c) /\ next_seq'[c] = next_seq[c]
        BY <1>1 DEF StreamInv
      <3>2. QED
        BY <1>0, <1>4, <2>1, <3>1, AppendContiguous
    <2>6. QED
      BY <2>4, <2>5
  <1>5. CASE \/ closed /\ inbox' = Append(inbox, Refused) /\ viewing' = viewing
             \/ ~closed /\ from = StopStream /\ viewing' = FALSE /\ inbox' = Append(inbox, Answered)
    <2>1. ~viewing'
      BY <1>0, <1>5 DEF WireInv
    <2>2. /\ Quiet => Quiet'
          /\ \A c \in viewers : Contiguous(c)'
      BY <1>4, <1>5, <2>1
    <2>3. QED
      BY <1>1, <1>2, <2>2 DEF StreamInv
  <1>6. CASE /\ ~closed /\ from # StopStream /\ viewing' = TRUE
             /\ inbox' = Append(inbox, Answered) \o [i \in 1 .. entries - from |-> from + i - 1]
    <2>1. op.at \in {"joining", "again"}
      BY <1>0, <1>1, <1>6 DEF WireInv, RequestInv, LockInv, Ops, from
    <2>2. from \in 0..MaxEntries /\ from <= entries /\ \A c \in viewers : from <= next_seq[c]
      <3>1. from <= entries /\ \A c \in viewers : from <= next_seq[c]
        BY <1>0, <1>1, <2>1 DEF WireInv, RequestInv, from
      <3>2. from \in 0..MaxEntries
        BY <1>3, <3>1 DEF Requests
      <3>3. QED
        BY <3>1, <3>2
    <2>3. PICK k \in Nat, n \in Nat : k = Len(inbox) /\ n = entries - from
      BY <1>3, <2>2
    <2>4. /\ Len(inbox') = k + 1 + n
          /\ \A i \in 1..k : inbox'[i] = inbox[i]
          /\ inbox'[k + 1] = Answered
          /\ \A i \in 1..n : inbox'[k + 1 + i] = from + i - 1
      BY <1>0, <1>6, <2>2, <2>3, ReplaySent
    <2>5. ASSUME NEW c \in viewers
          PROVE  Contiguous(c)'
      <3>1. Contiguous(c) /\ next_seq'[c] = next_seq[c] /\ next_seq[c] \in Nat /\ from <= next_seq[c]
        BY <1>0, <1>1, <2>2 DEF StreamInv, WindowTypes
      <3>2. ASSUME NEW i \in 1..k, IsEntry(inbox'[i]), inbox'[i] > next_seq[c]
            PROVE  \E j \in 1..(i - 1) : inbox'[j] = inbox'[i] - 1
        <4>1. inbox'[i] = inbox[i]
          BY <2>4
        <4>2. PICK j \in 1..(i - 1) : inbox[j] = inbox[i] - 1
          BY <2>3, <3>1, <3>2, <4>1 DEF Contiguous
        <4>3. j \in 1..k
          OBVIOUS
        <4>4. QED
          BY <2>4, <4>1, <4>2, <4>3
      <3>3. ASSUME NEW x \in 1..n, from + x - 1 > next_seq[c]
            PROVE  \E j \in 1..(k + x) : inbox'[j] = from + x - 2
        <4>1. x - 1 \in 1..n /\ from + (x - 1) - 1 = from + x - 2
          BY <2>2, <3>1, <3>3
        <4>2. inbox'[k + 1 + (x - 1)] = from + x - 2
          BY <2>4, <4>1
        <4>3. k + 1 + (x - 1) \in 1..(k + x)
          OBVIOUS
        <4>4. QED
          BY <4>2, <4>3
      <3>4. ASSUME NEW i \in 1..(k + 1 + n), IsEntry(inbox'[i]), inbox'[i] > next_seq[c]
            PROVE  \E j \in 1..(i - 1) : inbox'[j] = inbox'[i] - 1
        <4>1. CASE i \in 1..k
          BY <3>2, <3>4, <4>1
        <4>2. CASE i = k + 1
          BY <2>4, <3>4, <4>2 DEF IsEntry, Answered
        <4>3. CASE i > k + 1
          <5>1. PICK x \in 1..n : i = k + 1 + x
            <6>1. i - (k + 1) \in 1..n /\ i = k + 1 + (i - (k + 1))
              BY <4>3
            <6>2. QED
              BY <6>1
          <5>2. inbox'[i] = from + x - 1 /\ i - 1 = k + x
            <6>1. inbox'[i] = from + x - 1
              BY <2>4, <5>1
            <6>2. i - 1 = k + x
              BY <5>1
            <6>3. QED
              BY <6>1, <6>2
          <5>3. inbox'[i] - 1 = from + x - 2
            BY <2>2, <5>2
          <5>4. QED
            BY <3>3, <3>4, <5>2, <5>3
        <4>4. QED
          BY <4>1, <4>2, <4>3
      <3>5. ASSUME entries > next_seq[c]
            PROVE  \E j \in 1..(k + 1 + n) : inbox'[j] = entries - 1
        <4>1. n \in 1..n /\ from + n - 1 = entries - 1
          BY <1>3, <2>2, <2>3, <3>1, <3>5
        <4>2. inbox'[k + 1 + n] = entries - 1
          BY <2>4, <4>1
        <4>3. QED
          BY <4>2
      <3>6. QED
        BY <1>1, <2>4, <3>1, <3>4, <3>5 DEF Contiguous, IsEntry
    <2>6. op.at \in {"joining", "again"} /\ viewers # {}
      BY <1>6, <2>1 DEF StreamInv
    <2>7. QED
      BY <1>1, <1>2, <2>5, <2>6 DEF StreamInv
  <1>7. QED
    BY <1>1, <1>5, <1>6
\* What an entry that is read does to the windows, none of which is gone
LEMMA EntryRead ==
  ASSUME MaxEntries \in Nat, RelayInv, StreamInv, ReadEntry
  PROVE  /\ inbox # <<>> /\ inbox' = Tail(inbox) /\ viewers' = viewers /\ queue' = queue
         /\ UNCHANGED <<entries, closed, viewing, conn, req, open, op>>
         /\ Head(inbox) \in Nat /\ Head(inbox) < entries /\ Head(inbox) = inbox[1]
         /\ 1 \in 1..Len(inbox) /\ IsEntry(inbox[1])
         /\ next_seq' = [c \in Channels |->
              IF c \in viewers /\ Head(inbox) >= next_seq[c] THEN Head(inbox) + 1 ELSE next_seq[c]]
         /\ last' = [c \in Channels |->
              IF c \in viewers /\ Head(inbox) >= next_seq[c] THEN Head(inbox) + 1 ELSE last[c]]
  <1> DEFINE n == Head(inbox)
             fresh == {c \in viewers : n >= next_seq[c]}
             gone == {c \in fresh : ~open[c]}
  <1>0. WireTypes /\ WireInv /\ viewers \subseteq Channels
    BY DEF RelayInv, WindowTypes
  <1>1. /\ inbox # <<>> /\ IsEntry(n) /\ inbox' = Tail(inbox)
        /\ viewers' = viewers \ gone
        /\ next_seq' = [c \in Channels |-> IF c \in fresh THEN n + 1 ELSE next_seq[c]]
        /\ last' = [c \in Channels |-> IF c \in fresh \ gone THEN n + 1 ELSE last[c]]
        /\ queue' = IF viewers # {} /\ viewers' = {}
                    THEN queue \cup {Op("unwatched", Nobody, "free")} ELSE queue
        /\ UNCHANGED <<entries, closed, viewing, conn, req, open, op>>
    BY DEF ReadEntry, send, daemonSide, IsEntry
  <1>2. n \in Messages /\ n = inbox[1] /\ 1 \in 1..Len(inbox)
    BY <1>0, <1>1, TailIs DEF WireTypes
  <1>3. n \in Nat /\ n < entries /\ IsEntry(inbox[1])
    BY <1>0, <1>1, <1>2 DEF WireInv, MessageInv, Messages
  <1>4. gone = {}
    BY <1>0 DEF StreamInv
  <1>5. viewers' = viewers /\ queue' = queue
    BY <1>1, <1>4
  <1>6. /\ next_seq' = [c \in Channels |->
             IF c \in viewers /\ n >= next_seq[c] THEN n + 1 ELSE next_seq[c]]
        /\ last' = [c \in Channels |->
             IF c \in viewers /\ n >= next_seq[c] THEN n + 1 ELSE last[c]]
    BY <1>1, <1>4
  <1>7. QED
    BY <1>1, <1>2, <1>3, <1>5, <1>6

LEMMA StreamRead ==
  ASSUME MaxEntries \in Nat, RelayInv, StreamInv, ReadEntry
  PROVE  StreamInv'
  <1> DEFINE n == Head(inbox)
  <1>0. WireTypes /\ WindowTypes /\ viewers \subseteq Channels
    BY DEF RelayInv, WindowTypes
  <1>1. /\ inbox # <<>> /\ inbox' = Tail(inbox) /\ viewers' = viewers
        /\ UNCHANGED <<entries, closed, viewing, req, open, op>>
        /\ n \in Nat /\ n < entries /\ 1 \in 1..Len(inbox) /\ IsEntry(inbox[1])
        /\ next_seq' = [c \in Channels |->
             IF c \in viewers /\ n >= next_seq[c] THEN n + 1 ELSE next_seq[c]]
    BY EntryRead
  <1> HIDE DEF n
  <1>2. ~Quiet
    BY <1>1 DEF Quiet
  <1>3. ASSUME NEW c \in viewers
        PROVE  Contiguous(c)'
    <2>1. c \in Channels /\ next_seq[c] \in Nat
      BY <1>0 DEF WindowTypes
    <2>2. /\ next_seq'[c] \in Nat /\ next_seq[c] <= next_seq'[c] /\ n < next_seq'[c]
      BY <1>1, <2>1
    <2>3. \A v \in 0..MaxEntries : v > next_seq'[c] => n # v - 1
      BY <1>1, <2>2
    <2>4. Contiguous(c)
      BY DEF StreamInv
    <2>5. QED
      BY <1>0, <1>1, <2>1, <2>2, <2>3, <2>4, TailContiguous DEF n
  <1>4. QED
    BY <1>1, <1>2, <1>3 DEF StreamInv

LEMMA StreamWindows ==
  ASSUME MaxEntries \in Nat, RelayInv, StreamInv,
         \/ \E c \in Channels : \E from \in 0 .. MaxEntries : CallAttach(c, from)
         \/ \E c \in Channels : CallDetach(c)
  PROVE  StreamInv'
  <1>0. WindowTypes /\ viewers \subseteq Channels
    BY DEF RelayInv, WindowTypes
  <1>1. /\ UNCHANGED <<entries, closed, viewing, conn, req, inbox, viewers, open, op>>
        /\ \A c \in viewers : next_seq'[c] = next_seq[c]
    <2>1. ASSUME NEW c \in Channels, NEW from \in 0 .. MaxEntries, CallAttach(c, from)
          PROVE  /\ UNCHANGED <<entries, closed, viewing, conn, req, inbox, viewers, open, op>>
                 /\ \A d \in viewers : next_seq'[d] = next_seq[d]
      BY <1>0, <2>1 DEF CallAttach, daemonSide, WindowTypes
    <2>2. ASSUME NEW c \in Channels, CallDetach(c)
          PROVE  UNCHANGED <<entries, closed, viewing, conn, req, inbox, viewers, open, op, next_seq>>
      BY <2>2 DEF CallDetach, daemonSide, appSide
    <2>3. QED
      BY <2>1, <2>2
  <1>2. Quiet => Quiet'
    BY <1>1 DEF Quiet, IsEntry
  <1>3. \A c \in viewers : Contiguous(c)'
    BY <1>1 DEF StreamInv, Contiguous, IsEntry
  <1>4. QED
    BY <1>1, <1>2, <1>3 DEF StreamInv

\* After a removal, a refusal or a loss nothing is under way
LEMMA StreamEnds ==
  ASSUME Nobody \notin Channels, MaxEntries \in Nat, RelayInv, StreamInv,
         Lose \/ Reconnect \/ ChatRemoved \/ Fails
  PROVE  StreamInv'
  <1>0. WireTypes /\ WindowTypes /\ LockInv /\ WireInv
    BY DEF RelayInv
  <1>1. ASSUME inbox' = <<>>, ~viewing'
        PROVE  Quiet'
    <2>1. Len(inbox') = 0
      BY <1>1
    <2>2. QED
      BY <1>1, <2>1 DEF Quiet
  <1>2. ASSUME inbox # <<>>, Head(inbox) \in {Refused, Removed}, inbox' = Tail(inbox), viewing' = viewing
        PROVE  Quiet' /\ closed
    <2>1. PICK k \in Nat : k = Len(inbox)
      BY <1>0 DEF WireTypes
    <2>2. /\ Head(inbox) = inbox[1] /\ k # 0 /\ Len(inbox') = k - 1
          /\ \A i \in 1..(k - 1) : inbox'[i] = inbox[i + 1]
      BY <1>0, <1>2, <2>1, TailIs DEF WireTypes
    <2>3. MessageInv(1) /\ inbox[1] \in {Refused, Removed}
      BY <1>0, <1>2, <2>1, <2>2 DEF WireInv
    <2>4. closed /\ ~viewing /\ \A j \in 1..k : j > 1 => ~IsEntry(inbox[j])
      BY <2>1, <2>3 DEF MessageInv
    <2>5. \A i \in 1..(k - 1) : i + 1 \in 1..k /\ i + 1 > 1
      BY <2>2
    <2>6. QED
      BY <1>2, <2>2, <2>4, <2>5 DEF Quiet, IsEntry
  <1>3. /\ Quiet' /\ UNCHANGED <<open, closed>>
        /\ \/ closed
           \/ op'.at = "free"
           \/ UNCHANGED <<op, viewers>>
    <2>1. CASE Lose
      BY <1>1, <2>1 DEF Lose, appSide
    <2>2. CASE Reconnect
      BY <1>0, <1>1, <2>2 DEF Reconnect, appSide, daemonSide, WireInv
    <2>3. CASE ChatRemoved
      BY <1>2, <2>3 DEF ChatRemoved, daemonSide
    <2>4. CASE Fails
      <3>1. /\ op' = NoOp /\ UNCHANGED <<open, closed, viewing>>
            /\ \/ ~conn /\ inbox' = inbox
               \/ conn /\ inbox # <<>> /\ Head(inbox) = Refused /\ inbox' = Tail(inbox)
        BY <2>4 DEF Fails, daemonSide
      <3>2. op'.at = "free"
        BY <3>1 DEF NoOp, Op
      <3>3. Quiet'
        BY <1>0, <1>1, <1>2, <3>1 DEF WireInv
      <3>4. QED
        BY <3>1, <3>2, <3>3
    <2>5. QED
      BY <2>1, <2>2, <2>3, <2>4
  <1>4. \A c \in viewers' : Contiguous(c)'
    BY <1>3 DEF Quiet, Contiguous
  <1>5. op'.at \in {"joining", "again"} /\ ~closed' => viewers' # {}
    BY <1>3 DEF StreamInv
  <1>6. QED
    BY <1>3, <1>4, <1>5 DEF StreamInv

LEMMA StreamLock ==
  ASSUME MaxEntries \in Nat, RelayInv, StreamInv, NEW o \in queue, Lock(o)
  PROVE  StreamInv'
  <1>0. LockInv /\ WireInv
    BY DEF RelayInv
  <1>1. /\ op = NoOp /\ UNCHANGED <<entries, closed, viewing, inbox, next_seq, open>>
    BY LockShapes
  <1>2. op.at = "free" /\ req = <<>>
    BY <1>0, <1>1, LockFree DEF LockInv
  <1>3. Quiet' <=> Quiet
    BY <1>1 DEF Quiet, IsEntry
  <1>4. \A c \in viewers : Contiguous(c)'
    BY <1>1 DEF StreamInv, Contiguous, IsEntry
  <1>5. CASE viewers = {} /\ viewers' = {o.ch} /\ op' = Taken(o, "joining", o.seq)
    <2>1. Quiet'
      BY <1>2, <1>3, <1>5 DEF StreamInv
    <2>2. \A c \in viewers' : Contiguous(c)'
      BY <2>1 DEF Quiet, Contiguous
    <2>3. QED
      BY <1>1, <1>5, <2>1, <2>2 DEF StreamInv
  <1>6. CASE \/ viewers # {} /\ viewers' = viewers /\ op'.at \in {"stopping", "again"}
             \/ viewers' = {} /\ op'.at = "leaving"
    BY <1>1, <1>4, <1>6 DEF StreamInv
  <1>7. CASE op' = op /\ req' = req /\ viewers' \subseteq viewers /\ (viewers' = {} => viewers = {})
    BY <1>1, <1>2, <1>3, <1>4, <1>7 DEF StreamInv
  <1>8. QED
    <2>1. \/ viewers = {} /\ viewers' = {o.ch} /\ op' = Taken(o, "joining", o.seq)
          \/ viewers # {} /\ viewers' = viewers /\ \E q : op' = Taken(o, "stopping", q)
          \/ viewers # {} /\ viewers' = viewers /\ op' = Taken(o, "again", o.seq)
          \/ viewers' = {} /\ op' = Taken(o, "leaving", o.seq)
          \/ /\ op' = op /\ req' = req /\ viewers' \subseteq viewers
             /\ viewers' = {} => viewers = {}
      BY LockShapes
    <2>2. \A at, q : Taken(o, at, q).at = at
      BY DEF Taken
    <2>3. \/ viewers = {} /\ viewers' = {o.ch} /\ op' = Taken(o, "joining", o.seq)
          \/ /\ viewers # {} /\ viewers' = viewers
             /\ op'.at = "stopping" \/ op'.at = "again"
          \/ viewers' = {} /\ op'.at = "leaving"
          \/ /\ op' = op /\ req' = req /\ viewers' \subseteq viewers
             /\ viewers' = {} => viewers = {}
      BY <2>1, <2>2, Zenon
    <2>4. QED
      BY <1>5, <1>6, <1>7, <2>3

LEMMA StreamReply ==
  ASSUME Nobody \notin Channels, MaxEntries \in Nat, RelayInv, StreamInv, Reply
  PROVE  StreamInv'
  <1>0. WireTypes /\ WindowTypes /\ LockInv /\ WireInv
    BY DEF RelayInv
  <1>1. /\ inbox # <<>> /\ Head(inbox) = Answered /\ inbox' = Tail(inbox)
        /\ UNCHANGED <<entries, closed, viewing, next_seq, open>>
        /\ \/ /\ op.at = "stopping" /\ viewers' = viewers \cup {op.ch}
              /\ op' = [op EXCEPT !.at = "joining"]
           \/ op.at # "stopping" /\ op' = NoOp /\ viewers' = viewers
    BY DEF Reply, Sending, daemonSide
  <1>2. PICK k \in Nat : k = Len(inbox)
    BY <1>0 DEF WireTypes
  <1>3. /\ Head(inbox) = inbox[1] /\ k # 0 /\ Len(inbox') = k - 1
        /\ \A i \in 1..(k - 1) : inbox'[i] = inbox[i + 1]
    BY <1>0, <1>1, <1>2, TailIs DEF WireTypes
  <1>4. \A i \in 1..(k - 1) : i + 1 \in 1..k /\ i + 1 > 1
    BY <1>3
  <1>5. op.at \in {"stopping", "leaving"} => Quiet'
    <2>1. MessageInv(1) /\ inbox[1] = Answered
      BY <1>0, <1>1, <1>2, <1>3 DEF WireInv
    <2>2. op.at \in {"stopping", "leaving"} =>
            ~viewing /\ \A j \in 1..k : j > 1 => ~IsEntry(inbox[j])
      BY <1>2, <2>1 DEF MessageInv
    <2>3. QED
      BY <1>1, <1>3, <1>4, <2>2 DEF Quiet, IsEntry
  <1>6. Quiet => Quiet'
    BY <1>1, <1>2, <1>3, <1>4 DEF Quiet, IsEntry
  <1>7. CASE /\ op.at = "stopping" /\ viewers' = viewers \cup {op.ch}
             /\ op' = [op EXCEPT !.at = "joining"]
    <2>1. Quiet' /\ viewers' # {}
      BY <1>5, <1>7
    <2>2. \A c \in viewers' : Contiguous(c)'
      BY <2>1 DEF Quiet, Contiguous
    <2>3. QED
      BY <1>1, <2>1, <2>2 DEF StreamInv
  <1>8. CASE op.at # "stopping" /\ op' = NoOp /\ viewers' = viewers
    <2>1. op'.at = "free"
      BY <1>8 DEF NoOp, Op
    <2>2. viewers' = {} => Quiet'
      BY <1>5, <1>6, <1>8 DEF StreamInv
    <2>3. ASSUME NEW c \in viewers
          PROVE  Contiguous(c)'
      <3>1. next_seq[c] \in Nat /\ next_seq'[c] = next_seq[c] /\ Contiguous(c)
        BY <1>0, <1>1 DEF WindowTypes, StreamInv
      <3>2. \A v \in 0..MaxEntries : Head(inbox) # v - 1
        BY <1>1 DEF Answered
      <3>3. QED
        BY <1>0, <1>1, <3>1, <3>2, TailContiguous
    <2>4. QED
      BY <1>1, <1>8, <2>1, <2>2, <2>3 DEF StreamInv
  <1>9. QED
    BY <1>1, <1>7, <1>8
LEMMA StreamInit ==
  ASSUME RelayInit
  PROVE  StreamInv
  <1>1. inbox = <<>> /\ Len(inbox) = 0 /\ ~viewing /\ viewers = {} /\ op.at = "free"
    BY DEF RelayInit, NoOp, Op
  <1>2. \A c \in Channels : open[c]
    BY DEF RelayInit
  <1>3. Quiet
    BY <1>1 DEF Quiet
  <1>4. QED
    BY <1>1, <1>2, <1>3 DEF StreamInv

LEMMA StreamInvNext ==
  ASSUME Nobody \notin Channels, MaxEntries \in Nat, ~WindowsClose, RelayInv, StreamInv,
         [RelayNext]_relayVars
  PROVE  StreamInv'
  <1>1. CASE Emit \/ Close
    BY <1>1, StreamDaemon
  <1>2. CASE Serve
    BY <1>2, StreamServe
  <1>3. CASE ReadEntry
    BY <1>3, StreamRead
  <1>4. CASE Reply
    BY <1>4, StreamReply
  <1>5. CASE Lose \/ Reconnect \/ ChatRemoved \/ Fails
    BY <1>5, StreamEnds
  <1>6. CASE \E o \in queue : Lock(o)
    BY <1>6, StreamLock
  <1>7. CASE \E c \in Channels : (\E from \in 0 .. MaxEntries : CallAttach(c, from)) \/ CallDetach(c)
    BY <1>7, StreamWindows
  <1>8. ~(\E c \in Channels : WindowCloses(c))
    BY DEF WindowCloses
  <1>9. CASE RelayIdle \/ UNCHANGED relayVars
    <2>1. UNCHANGED <<entries, closed, viewing, req, inbox, viewers, next_seq, open, op>>
      BY <1>9 DEF RelayIdle, relayVars
    <2>2. Quiet' <=> Quiet
      BY <2>1 DEF Quiet, IsEntry
    <2>3. \A c \in viewers : Contiguous(c)'
      BY <2>1 DEF StreamInv, Contiguous, IsEntry
    <2>4. QED
      BY <2>1, <2>2, <2>3 DEF StreamInv
  <1>10. QED
    BY <1>1, <1>2, <1>3, <1>4, <1>5, <1>6, <1>7, <1>8, <1>9 DEF RelayNext

-----------------------------------------------------------------------------
(* The theorems *)

\* Every state of the relay, whatever windows do and however often the
\* connection is lost
THEOREM RelayInvariant ==
  ASSUME Nobody \notin Channels, MaxEntries \in Nat
  PROVE  RelaySpec => []RelayInv
  <1>1. RelayInit => RelayInv
    BY RelayInvInit
  <1>2. RelayInv /\ [RelayNext]_relayVars => RelayInv'
    BY RelayInvNext
  <1>3. QED
    BY <1>1, <1>2, PTL DEF RelaySpec

\* The types of what the relay and ptyd keep; ptyd streams only to an app
\* that is connected (client_gone ends the views of one that is not)
THEOREM RelayTyped ==
  ASSUME Nobody \notin Channels, MaxEntries \in Nat
  PROVE  RelaySpec => []RelayTypeOK
  <1>1. RelayInv => RelayTypeOK
    <2> SUFFICES ASSUME RelayInv PROVE RelayTypeOK
      OBVIOUS
    <2>1. entries \in 0..MaxEntries /\ viewers \subseteq Channels /\ op \in Ops
      BY DEF RelayInv, WireTypes, WindowTypes, LockInv
    <2>2. \A c \in Channels : next_seq[c] \in 0..MaxEntries
      BY DEF RelayInv, WindowTypes
    <2>3. viewing => conn
      BY DEF RelayInv, WireInv
    <2>4. op.at \in {"free", "stopping", "joining", "leaving", "again"}
      BY <2>1 DEF Ops
    <2>5. QED
      BY <2>1, <2>2, <2>3, <2>4 DEF RelayTypeOK
  <1>2. QED
    BY <1>1, RelayInvariant, PTL

\* No seq is sent twice on a channel (Relay::send), however often ptyd
\* replays the chat for another channel or after a lost connection
THEOREM SeqsNeverRepeat ==
  ASSUME Nobody \notin Channels, MaxEntries \in Nat
  PROVE  RelaySpec => []NoEntryTwice
  <1>1. RelayInv => NoEntryTwice
    BY DEF RelayInv, SeqsAgree, NoEntryTwice
  <1>2. QED
    BY <1>1, RelayInvariant, PTL

\* Nothing is missing between what a channel has got and what is under way to
\* it, as long as a window detaches its channel before it goes
THEOREM StreamInvariant ==
  ASSUME Nobody \notin Channels, MaxEntries \in Nat, ~WindowsClose
  PROVE  RelaySpec => []StreamInv
  <1>1. RelayInit => StreamInv
    BY StreamInit
  <1>2. RelayInv /\ StreamInv /\ [RelayNext]_relayVars => StreamInv'
    BY StreamInvNext
  <1>3. QED
    BY <1>1, <1>2, RelayInvariant, PTL DEF RelaySpec
-----------------------------------------------------------------------------
(* What the app lacks is on its way, whatever windows do *)

\* ptyd has no replay to start
Unasked == ~closed /\ (op.at \in {"joining", "again"} => req = <<>>)

\* After the last answer the stream leaves nothing out; a window that goes can
\* leave the entries of an ended watch before it
Followed(c) ==
  /\ \A i \in 1..Len(inbox) : IsEntry(inbox[i]) /\ inbox[i] > next_seq[c] =>
       \/ \E j \in 1..(i - 1) : inbox[j] = inbox[i] - 1
       \/ \E j \in 1..Len(inbox) : j > i /\ inbox[j] = Answered
  /\ viewing /\ entries > next_seq[c] => \E j \in 1..Len(inbox) : inbox[j] = entries - 1

FollowInv == Unasked => \A c \in viewers : Followed(c)

\* ptyd sends what follows, or the answer that ends a stream
LEMMA AppendFollowed ==
  ASSUME WireTypes, NEW e \in Messages, inbox' = Append(inbox, e), NEW c, Followed(c),
         next_seq'[c] = next_seq[c],
         IsEntry(e) /\ e > next_seq[c] => \E j \in 1..Len(inbox) : inbox[j] = e - 1,
         viewing' /\ entries' > next_seq[c] => e = entries' - 1
  PROVE  Followed(c)'
  <1>1. inbox \in Seq(Messages)
    BY DEF WireTypes
  <1>2. PICK k \in Nat : k = Len(inbox)
    BY <1>1
  <1>3. /\ Len(inbox') = k + 1 /\ inbox'[k + 1] = e
        /\ \A i \in 1..k : inbox'[i] = inbox[i]
    BY <1>1, <1>2, AppendIs
  <1>4. \A i \in 1..(k + 1) : i \in 1..k \/ i = k + 1
    OBVIOUS
  <1>5. k + 1 \in 1..(k + 1) /\ \A i \in 1..k : i \in 1..(k + 1)
    OBVIOUS
  <1>6. ASSUME NEW i \in 1..(k + 1), IsEntry(inbox'[i]), inbox'[i] > next_seq'[c]
        PROVE  \/ \E j \in 1..(i - 1) : inbox'[j] = inbox'[i] - 1
               \/ \E j \in 1..(k + 1) : j > i /\ inbox'[j] = Answered
    <2>1. CASE i \in 1..k
      <3>1. inbox'[i] = inbox[i] /\ IsEntry(inbox[i]) /\ inbox[i] > next_seq[c]
        BY <1>3, <1>6, <2>1
      <3>2. \/ \E j \in 1..(i - 1) : inbox[j] = inbox[i] - 1
            \/ \E j \in 1..k : j > i /\ inbox[j] = Answered
        BY <1>2, <2>1, <3>1 DEF Followed
      <3>3. \A j \in 1..(i - 1) : j \in 1..k
        BY <2>1
      <3>4. QED
        BY <1>3, <1>5, <3>1, <3>2, <3>3
    <2>2. CASE i = k + 1
      <3>1. PICK j \in 1..k : inbox[j] = e - 1
        BY <1>2, <1>3, <1>6, <2>2
      <3>2. j \in 1..(i - 1) /\ inbox'[j] = e - 1
        BY <1>3, <2>2, <3>1
      <3>3. QED
        BY <1>3, <2>2, <3>2
    <2>3. QED
      BY <1>4, <2>1, <2>2
  <1>7. ASSUME viewing', entries' > next_seq'[c]
        PROVE  \E j \in 1..(k + 1) : inbox'[j] = entries' - 1
    BY <1>3, <1>5, <1>7
  <1>8. QED
    BY <1>3, <1>6, <1>7 DEF Followed, IsEntry

\* The app reads a message that no later entry needs
LEMMA TailFollowed ==
  ASSUME MaxEntries \in Nat, WireTypes, inbox # <<>>, inbox' = Tail(inbox),
         UNCHANGED <<entries, viewing>>, NEW c, Followed(c),
         next_seq[c] \in Nat, next_seq'[c] \in Nat, next_seq[c] <= next_seq'[c],
         \A v \in 0..MaxEntries : v > next_seq'[c] => Head(inbox) # v - 1
  PROVE  Followed(c)'
  <1>1. inbox \in Seq(Messages) /\ entries \in 0..MaxEntries
    BY DEF WireTypes
  <1>2. PICK k \in Nat : k = Len(inbox)
    BY <1>1
  <1>3. /\ inbox' \in Seq(Messages) /\ Head(inbox) = inbox[1]
        /\ k # 0 /\ Len(inbox') = k - 1
        /\ \A i \in 1..(k - 1) : inbox'[i] = inbox[i + 1]
    BY <1>1, <1>2, TailIs
  <1>4. ASSUME NEW v \in 0..MaxEntries, v > next_seq'[c], NEW j \in 1..k, inbox[j] = v - 1
        PROVE  j - 1 \in 1..(k - 1) /\ inbox'[j - 1] = v - 1
    <2>1. j # 1
      BY <1>3, <1>4
    <2>2. j - 1 \in 1..(k - 1) /\ (j - 1) + 1 = j
      BY <1>3, <2>1
    <2>3. QED
      BY <1>3, <1>4, <2>2
  <1>5. ASSUME NEW i \in 1..(k - 1), IsEntry(inbox'[i]), inbox'[i] > next_seq'[c]
        PROVE  \/ \E j \in 1..(i - 1) : inbox'[j] = inbox'[i] - 1
               \/ \E j \in 1..(k - 1) : j > i /\ inbox'[j] = Answered
    <2>1. i + 1 \in 1..k /\ inbox[i + 1] = inbox'[i] /\ inbox'[i] \in Messages
      BY <1>1, <1>2, <1>3
    <2>2. inbox'[i] \in 0..MaxEntries
      <3>1. \A m \in Messages : IsEntry(m) => m \in 0..MaxEntries
        BY DEF IsEntry, Messages
      <3>2. QED
        BY <1>5, <2>1, <3>1
    <2>3. inbox[i + 1] > next_seq[c]
      <3>1. \A v \in 0..MaxEntries : v > next_seq'[c] => v > next_seq[c]
        OBVIOUS
      <3>2. QED
        BY <1>5, <2>1, <2>2, <3>1
    <2>4. \/ \E j \in 1..((i + 1) - 1) : inbox[j] = inbox[i + 1] - 1
          \/ \E j \in 1..k : j > i + 1 /\ inbox[j] = Answered
      BY <1>2, <1>5, <2>1, <2>3 DEF Followed
    <2>5. CASE \E j \in 1..((i + 1) - 1) : inbox[j] = inbox[i + 1] - 1
      <3>1. PICK j \in 1..((i + 1) - 1) : inbox[j] = inbox[i + 1] - 1
        BY <2>5
      <3>2. j \in 1..k
        BY <2>1
      <3>3. j - 1 \in 1..(k - 1) /\ inbox'[j - 1] = inbox'[i] - 1
        BY <1>4, <1>5, <2>1, <2>2, <3>1, <3>2
      <3>4. j - 1 \in 1..(i - 1)
        BY <3>1, <3>3
      <3>5. QED
        BY <3>3, <3>4
    <2>6. CASE \E j \in 1..k : j > i + 1 /\ inbox[j] = Answered
      <3>1. PICK j \in 1..k : j > i + 1 /\ inbox[j] = Answered
        BY <2>6
      <3>2. j - 1 \in 1..(k - 1) /\ (j - 1) + 1 = j /\ j - 1 > i
        BY <3>1
      <3>3. QED
        BY <1>3, <3>1, <3>2
    <2>7. QED
      BY <2>4, <2>5, <2>6
  <1>6. ASSUME viewing, entries > next_seq'[c]
        PROVE  \E j \in 1..(k - 1) : inbox'[j] = entries - 1
    <2>1. entries > next_seq[c]
      BY <1>1, <1>6
    <2>2. PICK j \in 1..k : inbox[j] = entries - 1
      BY <1>2, <1>6, <2>1 DEF Followed
    <2>3. QED
      BY <1>1, <1>4, <1>6, <2>2
  <1>7. QED
    BY <1>3, <1>5, <1>6 DEF Followed, IsEntry

LEMMA FollowEmit ==
  ASSUME MaxEntries \in Nat, RelayInv, FollowInv, Emit
  PROVE  FollowInv'
  <1>0. WireTypes /\ viewers \subseteq Channels
    BY DEF RelayInv, WindowTypes
  <1>1. /\ UNCHANGED <<closed, viewing, op, req, viewers, next_seq>>
        /\ entries < MaxEntries /\ entries' = entries + 1
        /\ inbox' = IF viewing THEN Append(inbox, entries) ELSE inbox
    BY DEF Emit, appSide
  <1>2. entries \in Nat /\ entries \in Messages /\ entries = entries' - 1
    BY <1>0, <1>1 DEF WireTypes, Messages
  <1>3. ASSUME NEW c \in viewers, Followed(c)
        PROVE  Followed(c)'
    <2>1. CASE viewing
      <3>1. entries > next_seq[c] => \E j \in 1..Len(inbox) : inbox[j] = entries - 1
        BY <1>3, <2>1 DEF Followed
      <3>2. inbox' = Append(inbox, entries) /\ next_seq'[c] = next_seq[c]
        BY <1>1, <2>1
      <3>3. QED
        BY <1>0, <1>2, <1>3, <3>1, <3>2, AppendFollowed
    <2>2. CASE ~viewing
      BY <1>1, <1>3, <2>2 DEF Followed, IsEntry
    <2>3. QED
      BY <2>1, <2>2
  <1>4. QED
    BY <1>1, <1>3 DEF FollowInv, Unasked

LEMMA FollowServe ==
  ASSUME MaxEntries \in Nat, RelayInv, FollowInv, Serve
  PROVE  FollowInv'
  <1> DEFINE from == Head(req)
  <1>0. WireTypes /\ WindowTypes /\ LockInv /\ WireInv /\ viewers \subseteq Channels
    BY DEF RelayInv, WindowTypes
  <1>1. /\ req # <<>> /\ req' = Tail(req)
        /\ UNCHANGED <<entries, closed, op, viewers, next_seq>>
        /\ \/ closed
           \/ ~closed /\ from = StopStream /\ viewing' = FALSE /\ inbox' = Append(inbox, Answered)
           \/ /\ ~closed /\ from # StopStream /\ viewing' = TRUE
              /\ inbox' = Append(inbox, Answered) \o [i \in 1 .. entries - from |-> from + i - 1]
    BY DEF Serve, appSide
  <1>2. from \in Requests /\ entries \in 0..MaxEntries /\ inbox \in Seq(Messages)
    BY <1>0, <1>1, TailIs DEF WireTypes
  <1>3. /\ op.at # "free"
        /\ op.at \in {"joining", "again"} =>
             from <= entries /\ \A c \in viewers : from <= next_seq[c]
        /\ op.at \notin {"joining", "again"} => from = StopStream
    BY <1>0, <1>1 DEF WireInv, RequestInv, LockInv, Ops
  <1> HIDE DEF from
  <1>4. CASE closed
    BY <1>1, <1>4 DEF FollowInv, Unasked
  <1>5. CASE ~closed /\ from = StopStream /\ viewing' = FALSE /\ inbox' = Append(inbox, Answered)
    <2>1. op.at \notin {"joining", "again"}
      BY <1>2, <1>3, <1>5 DEF StopStream
    <2>2. Answered \in Messages /\ ~IsEntry(Answered)
      BY DEF Messages, IsEntry, Answered
    <2>3. ASSUME NEW c \in viewers
          PROVE  Followed(c)'
      <3>1. Followed(c) /\ next_seq'[c] = next_seq[c]
        BY <1>1, <1>5, <2>1 DEF FollowInv, Unasked
      <3>2. QED
        BY <1>0, <1>5, <2>2, <3>1, AppendFollowed
    <2>4. QED
      BY <1>1, <2>3 DEF FollowInv
  <1>6. CASE /\ ~closed /\ from # StopStream /\ viewing' = TRUE
             /\ inbox' = Append(inbox, Answered) \o [i \in 1 .. entries - from |-> from + i - 1]
    <2>1. from \in 0..MaxEntries /\ from <= entries /\ \A c \in viewers : from <= next_seq[c]
      BY <1>2, <1>3, <1>6 DEF Requests
    <2>2. PICK k \in Nat, n \in Nat : k = Len(inbox) /\ n = entries - from
      BY <1>2, <2>1
    <2>3. /\ Len(inbox') = k + 1 + n
          /\ inbox'[k + 1] = Answered
          /\ \A i \in 1..n : inbox'[k + 1 + i] = from + i - 1
      BY <1>0, <1>6, <2>1, <2>2, ReplaySent
    <2>4. ASSUME NEW c \in viewers
          PROVE  Followed(c)'
      <3>1. next_seq'[c] = next_seq[c] /\ next_seq[c] \in Nat /\ from <= next_seq[c]
        BY <1>0, <1>1, <2>1 DEF WindowTypes
      <3>2. ASSUME NEW x \in 1..n, from + x - 1 > next_seq[c]
            PROVE  \E j \in 1..(k + x) : inbox'[j] = from + x - 2
        <4>1. x - 1 \in 1..n /\ from + (x - 1) - 1 = from + x - 2
          BY <2>1, <3>1, <3>2
        <4>2. inbox'[k + 1 + (x - 1)] = from + x - 2
          BY <2>3, <4>1
        <4>3. k + 1 + (x - 1) \in 1..(k + x)
          OBVIOUS
        <4>4. QED
          BY <4>2, <4>3
      <3>3. ASSUME NEW i \in 1..(k + 1 + n), IsEntry(inbox'[i]), inbox'[i] > next_seq[c]
            PROVE  \/ \E j \in 1..(i - 1) : inbox'[j] = inbox'[i] - 1
                   \/ \E j \in 1..(k + 1 + n) : j > i /\ inbox'[j] = Answered
        <4>1. CASE i <= k
          <5>1. k + 1 \in 1..(k + 1 + n) /\ k + 1 > i
            BY <4>1
          <5>2. QED
            BY <2>3, <5>1
        <4>2. CASE i = k + 1
          BY <2>3, <3>3, <4>2 DEF IsEntry, Answered
        <4>3. CASE i > k + 1
          <5>1. PICK x \in 1..n : i = k + 1 + x
            <6>1. i - (k + 1) \in 1..n /\ i = k + 1 + (i - (k + 1))
              BY <4>3
            <6>2. QED
              BY <6>1
          <5>2. inbox'[i] = from + x - 1
            BY <2>3, <5>1
          <5>3. i - 1 = k + x
            BY <5>1
          <5>4. inbox'[i] - 1 = from + x - 2
            BY <2>1, <5>2
          <5>5. QED
            BY <3>2, <3>3, <5>2, <5>3, <5>4
        <4>4. QED
          BY <4>1, <4>2, <4>3
      <3>4. ASSUME entries > next_seq[c]
            PROVE  \E j \in 1..(k + 1 + n) : inbox'[j] = entries - 1
        <4>1. n \in 1..n /\ from + n - 1 = entries - 1
          BY <1>2, <2>1, <2>2, <3>1, <3>4
        <4>2. inbox'[k + 1 + n] = entries - 1
          BY <2>3, <4>1
        <4>3. QED
          BY <4>2
      <3>5. QED
        BY <1>1, <2>3, <3>1, <3>3, <3>4 DEF Followed, IsEntry
    <2>5. QED
      BY <1>1, <2>4 DEF FollowInv
  <1>7. QED
    BY <1>1, <1>4, <1>5, <1>6

LEMMA FollowRead ==
  ASSUME MaxEntries \in Nat, RelayInv, FollowInv, ReadEntry
  PROVE  FollowInv'
  <1> DEFINE n == Head(inbox)
             fresh == {c \in viewers : n >= next_seq[c]}
  <1>0. WireTypes /\ WindowTypes /\ viewers \subseteq Channels
    BY DEF RelayInv, WindowTypes
  <1>1. /\ inbox # <<>> /\ IsEntry(n) /\ inbox' = Tail(inbox)
        /\ viewers' \subseteq viewers
        /\ next_seq' = [c \in Channels |-> IF c \in fresh THEN n + 1 ELSE next_seq[c]]
        /\ UNCHANGED <<entries, closed, viewing, req, op>>
    BY DEF ReadEntry, send, daemonSide, IsEntry
  <1>2. n \in Nat
    <2>1. n \in Messages
      BY <1>0, <1>1, TailIs DEF WireTypes
    <2>2. QED
      BY <2>1 DEF Messages
  <1>3. ASSUME NEW c \in viewers, Followed(c)
        PROVE  Followed(c)'
    <2>1. c \in Channels /\ next_seq[c] \in Nat
      BY <1>0 DEF WindowTypes
    <2>2. next_seq'[c] = IF n >= next_seq[c] THEN n + 1 ELSE next_seq[c]
      BY <1>1, <2>1
    <2> HIDE DEF n, fresh
    <2>3. next_seq'[c] \in Nat /\ next_seq[c] <= next_seq'[c] /\ n < next_seq'[c]
      BY <1>2, <2>1, <2>2
    <2>4. \A v \in 0..MaxEntries : v > next_seq'[c] => n # v - 1
      BY <1>2, <2>3
    <2>5. QED
      BY <1>0, <1>1, <1>3, <2>1, <2>3, <2>4, TailFollowed DEF n
  <1>4. QED
    BY <1>1, <1>3 DEF FollowInv, Unasked

\* A stream that was stopped is asked for again before anybody needs it; one
\* that is answered leaves nothing out
LEMMA FollowReply ==
  ASSUME Nobody \notin Channels, MaxEntries \in Nat, RelayInv, FollowInv, Reply
  PROVE  FollowInv'
  <1>0. WireTypes /\ WindowTypes /\ LockInv /\ WireInv /\ viewers \subseteq Channels
    BY DEF RelayInv, WindowTypes
  <1>1. /\ inbox # <<>> /\ Head(inbox) = Answered /\ inbox' = Tail(inbox)
        /\ UNCHANGED <<entries, closed, viewing, next_seq>>
        /\ \/ op.at = "stopping" /\ op' = [op EXCEPT !.at = "joining"] /\ req' = Append(req, op.seq)
           \/ op' = NoOp /\ viewers' = viewers /\ req' = req
    BY DEF Reply, Sending, daemonSide
  <1>2. 1 \in 1..Len(inbox) /\ inbox[1] = Answered
    BY <1>0, <1>1, TailIs DEF WireTypes
  <1>3. req = <<>>
    BY <1>0, <1>2 DEF WireInv, MessageInv, IsAnswer
  <1>4. CASE op.at = "stopping" /\ op' = [op EXCEPT !.at = "joining"] /\ req' = Append(req, op.seq)
    <2>1. op \in Ops /\ op.seq \in Requests
      BY <1>0 DEF LockInv, Ops, Requests
    <2>2. op'.at = "joining"
      BY <1>4, <2>1 DEF Ops
    <2>3. Len(req') = 1
      BY <1>0, <1>3, <1>4, <2>1, AppendIs DEF WireTypes
    <2>4. req' # <<>>
      BY <2>3
    <2>5. QED
      BY <2>2, <2>4 DEF FollowInv, Unasked
  <1>5. CASE op' = NoOp /\ viewers' = viewers /\ req' = req
    <2>1. ASSUME NEW c \in viewers, ~closed
          PROVE  Followed(c)'
      <3>1. Followed(c) /\ next_seq[c] \in Nat /\ next_seq'[c] = next_seq[c]
        BY <1>0, <1>1, <1>3, <2>1 DEF FollowInv, Unasked, WindowTypes
      <3>2. \A v \in 0..MaxEntries : Head(inbox) # v - 1
        BY <1>1 DEF Answered
      <3>3. QED
        BY <1>0, <1>1, <3>1, <3>2, TailFollowed
    <2>2. QED
      BY <1>1, <1>5, <2>1 DEF FollowInv, Unasked
  <1>6. QED
    BY <1>1, <1>4, <1>5

LEMMA FollowLock ==
  ASSUME MaxEntries \in Nat, RelayInv, FollowInv, NEW o \in queue, Lock(o)
  PROVE  FollowInv'
  <1>0. LockInv /\ WireTypes /\ WindowTypes
    BY DEF RelayInv
  <1>1. op = NoOp /\ Waits(o) /\ UNCHANGED <<entries, closed, viewing, inbox, next_seq>>
    BY LockShapes
  <1>2. op.at = "free" /\ req = <<>>
    BY <1>0, <1>1, LockFree DEF LockInv, RelayInv
  <1>3. \A c : Followed(c)' <=> Followed(c)
    BY <1>1 DEF Followed, IsEntry
  <1>4. \A m \in Requests : Append(req, m) # <<>>
    <2> TAKE m \in Requests
    <2>1. Len(Append(req, m)) = 1
      BY <1>0, <1>2, AppendIs DEF WireTypes
    <2>2. QED
      BY <2>1
  <1>5. \A at, q : Taken(o, at, q).at = at
    BY DEF Taken
  <1>6. viewers' \subseteq viewers => FollowInv'
    BY <1>1, <1>2, <1>3 DEF FollowInv, Unasked
  <1>7. CASE viewers = {} /\ op' = Taken(o, "joining", o.seq) /\ req' = Append(req, ReplayFrom({o.ch}))
             /\ o.kind = "attach"
    <2>1. o.ch \in Channels
      BY <1>1, <1>7 DEF Waits
    <2>2. ReplayFrom({o.ch}) \in Requests
      <3>1. {o.ch} \in SUBSET Channels /\ {o.ch} # {}
        BY <2>1
      <3>2. ReplayFrom({o.ch}) \in 0..MaxEntries
        BY <1>0, <3>1, ReplayIs
      <3>3. QED
        BY <3>2 DEF Requests
    <2>3. QED
      BY <1>4, <1>5, <1>7, <2>2 DEF FollowInv, Unasked
  <1>8. QED
    <2>1. \/ viewers' \subseteq viewers
          \/ /\ viewers = {} /\ op' = Taken(o, "joining", o.seq) /\ req' = Append(req, ReplayFrom({o.ch}))
             /\ o.kind = "attach"
      BY LockShapes
    <2>2. QED
      BY <1>6, <1>7, <2>1

LEMMA FollowInvNext ==
  ASSUME Nobody \notin Channels, MaxEntries \in Nat, RelayInv, FollowInv, [RelayNext]_relayVars
  PROVE  FollowInv'
  <1>0. WireInv /\ WindowTypes /\ viewers \subseteq Channels
    BY DEF RelayInv, WindowTypes
  <1>1. CASE Emit \/ Serve
    BY <1>1, FollowEmit, FollowServe
  <1>2. CASE Close \/ ((ChatRemoved \/ Fails) /\ closed)
    BY <1>2 DEF Close, ChatRemoved, Fails, daemonSide, FollowInv, Unasked
  <1>3. CASE ReadEntry
    BY <1>3, FollowRead
  <1>4. CASE Reply
    BY <1>4, FollowReply
  <1>5. ASSUME ~viewing', inbox' = <<>>
        PROVE  FollowInv'
    <2>1. Len(inbox') = 0
      BY <1>5
    <2>2. QED
      BY <1>5, <2>1 DEF FollowInv, Followed
  <1>6. CASE Lose \/ Reconnect
    BY <1>0, <1>5, <1>6 DEF Lose, Reconnect, daemonSide, WireInv
  <1>7. CASE (ChatRemoved \/ Fails) /\ ~closed
    <2>1. ~(inbox # <<>> /\ Head(inbox) \in {Refused, Removed})
      <3>1. ASSUME inbox # <<>>, Head(inbox) \in {Refused, Removed}
            PROVE  FALSE
        <4>1. 1 \in 1..Len(inbox) /\ inbox[1] = Head(inbox)
          BY <3>1, TailIs DEF RelayInv, WireTypes
        <4>2. QED
          BY <1>0, <1>7, <3>1, <4>1 DEF WireInv, MessageInv
      <3>2. QED
        BY <3>1
    <2>2. Fails /\ ~conn /\ inbox' = inbox /\ viewing' = viewing
      BY <1>7, <2>1 DEF ChatRemoved, Fails, daemonSide
    <2>3. QED
      BY <1>0, <1>5, <2>2 DEF WireInv
  <1>8. CASE \E o \in queue : Lock(o)
    BY <1>8, FollowLock
  <1>9. CASE \/ \E c \in Channels : \/ \E from \in 0 .. MaxEntries : CallAttach(c, from)
                                    \/ CallDetach(c) \/ WindowCloses(c)
             \/ RelayIdle \/ UNCHANGED relayVars
    <2>1. /\ UNCHANGED <<entries, closed, viewing, req, inbox, viewers, op>>
          /\ \A c \in viewers : next_seq'[c] = next_seq[c]
      <3>1. ASSUME NEW c \in Channels, NEW from \in 0 .. MaxEntries, CallAttach(c, from)
            PROVE  /\ UNCHANGED <<entries, closed, viewing, req, inbox, viewers, op>>
                   /\ \A d \in viewers : next_seq'[d] = next_seq[d]
        BY <1>0, <3>1 DEF CallAttach, daemonSide, WindowTypes
      <3>2. ASSUME NEW c \in Channels, CallDetach(c) \/ WindowCloses(c)
            PROVE  UNCHANGED <<entries, closed, viewing, req, inbox, viewers, op, next_seq>>
        BY <3>2 DEF CallDetach, WindowCloses, daemonSide, appSide
      <3>3. CASE RelayIdle \/ UNCHANGED relayVars
        BY <3>3 DEF RelayIdle, relayVars
      <3>4. QED
        BY <1>9, <3>1, <3>2, <3>3
    <2>2. \A c \in viewers : Followed(c)' <=> Followed(c)
      BY <2>1 DEF Followed, IsEntry
    <2>3. QED
      BY <2>1, <2>2 DEF FollowInv, Unasked
  <1>10. CASE ChatRemoved \/ Fails
    BY <1>2, <1>7, <1>10
  <1>11. CASE \E c \in Channels : \/ \E from \in 0 .. MaxEntries : CallAttach(c, from)
                                  \/ CallDetach(c) \/ WindowCloses(c)
    BY <1>9, <1>11
  <1>12. CASE RelayIdle \/ UNCHANGED relayVars
    BY <1>9, <1>12
  <1>13. QED
    BY <1>1, <1>2, <1>3, <1>4, <1>6, <1>8, <1>10, <1>11, <1>12 DEF RelayNext

\* Entries that follow one another take a message each
LEMMA EntriesTakeMessages ==
  ASSUME MaxEntries \in Nat, WireTypes, NEW c \in Channels, next_seq[c] \in Nat, Followed(c),
         \A i \in 1..Len(inbox) : inbox[i] # Answered,
         NEW j \in 1..Len(inbox), IsEntry(inbox[j])
  PROVE  inbox[j] < next_seq[c] + j
  <1> DEFINE T == {i \in 1..Len(inbox) : IsEntry(inbox[i]) /\ ~(inbox[i] < next_seq[c] + i)}
  <1>1. inbox \in Seq(Messages) /\ Len(inbox) \in Nat /\ MaxEntries \in Int
    BY DEF WireTypes
  <1>2. \A i \in 1..Len(inbox) : inbox[i] \in Nat
    <2>1. \A i \in 1..Len(inbox) : inbox[i] \in Messages
      BY <1>1
    <2>2. QED
      BY <2>1 DEF Messages
  <1>3. SUFFICES ASSUME T # {} PROVE FALSE
    BY DEF T
  <1>4. T \in SUBSET Nat
    BY <1>1
  <1>5. PICK i \in T : \A m \in T : i <= m
    <2> HIDE DEF T
    <2>1. QED
      BY <1>3, <1>4, LeastNumber
  <1>6. i \in 1..Len(inbox) /\ IsEntry(inbox[i]) /\ ~(inbox[i] < next_seq[c] + i)
    BY <1>5
  <1>7. inbox[i] \in Nat /\ inbox[i] > next_seq[c]
    BY <1>1, <1>2, <1>6
  <1>8. PICK k \in 1..(i - 1) : inbox[k] = inbox[i] - 1
    BY <1>6, <1>7 DEF Followed
  <1>9. k \in 1..Len(inbox) /\ k < i
    BY <1>1, <1>6
  <1>10. IsEntry(inbox[k]) /\ ~(inbox[k] < next_seq[c] + k)
    BY <1>1, <1>6, <1>7, <1>8, <1>9 DEF IsEntry
  <1>11. k \in T
    BY <1>9, <1>10
  <1>12. QED
    BY <1>5, <1>6, <1>9, <1>11

\* While a channel watches and nothing is under way ptyd streams the chat to
\* the app, and what the channel lacks is on its way (Relay::attach, reattach),
\* whether the other windows detach before they go or not
THEOREM WatchedChatsStream ==
  ASSUME Nobody \notin Channels, MaxEntries \in Nat
  PROVE  RelaySpec => []WatchedIsStreamed
  <1>1. ASSUME RelayInv, FollowInv
        PROVE  WatchedIsStreamed
    <2>0. WireTypes /\ WindowTypes /\ Streamed /\ WireInv /\ RequestInv
      BY <1>1 DEF RelayInv, WireInv
    <2> SUFFICES ASSUME conn, ~closed, op = NoOp, queue = {}, viewers # {}
                 PROVE  viewing /\ \A c \in viewers : next_seq[c] + Len(inbox) >= entries
      BY DEF WatchedIsStreamed
    <2>1. op.at = "free"
      BY DEF NoOp, Op
    <2>2. viewing
      BY <2>0, <2>1 DEF Streamed
    <2>3. \A i \in 1..Len(inbox) : inbox[i] # Answered
      BY <2>0, <2>1 DEF WireInv, MessageInv, IsAnswer
    <2>4. ASSUME NEW c \in viewers
          PROVE  next_seq[c] + Len(inbox) >= entries
      <3>1. /\ c \in Channels /\ next_seq[c] \in Nat /\ entries \in Nat /\ entries <= MaxEntries
            /\ Len(inbox) \in Nat
        BY <2>0 DEF WireTypes, WindowTypes
      <3>2. Followed(c)
        BY <1>1, <2>1 DEF FollowInv, Unasked
      <3>3. CASE entries > next_seq[c]
        <4>1. PICK j \in 1..Len(inbox) : inbox[j] = entries - 1
          BY <2>2, <3>2, <3>3 DEF Followed
        <4>2. IsEntry(inbox[j])
          BY <3>1, <4>1 DEF IsEntry
        <4>3. inbox[j] < next_seq[c] + j
          BY <2>0, <2>3, <3>1, <3>2, <4>2, EntriesTakeMessages
        <4>4. QED
          BY <3>1, <4>1, <4>3
      <3>4. CASE entries <= next_seq[c]
        BY <3>1, <3>4
      <3>5. QED
        BY <3>1, <3>3, <3>4
    <2>5. QED
      BY <2>2, <2>4
  <1>2. RelayInit => FollowInv
    BY DEF RelayInit, FollowInv
  <1>3. RelayInv /\ FollowInv /\ [RelayNext]_relayVars => FollowInv'
    BY FollowInvNext
  <1>4. QED
    BY <1>1, <1>2, <1>3, RelayInvariant, PTL DEF RelaySpec

-----------------------------------------------------------------------------
(* The relay implements LogView *)

\* The channels that watch: in the relay, or on their way to it
LEMMA WatchingIs ==
  \A c : c \in Watching <=>
    \/ c \in viewers
    \/ \E o \in queue : o.kind = "attach" /\ o.ch = c
    \/ op.kind = "attach" /\ op.ch = c
  BY DEF Watching

LEMMA ShownInit ==
  ASSUME RelayInit
  PROVE  Shown!LogInit
  <1>1. viewers = {} /\ queue = {} /\ op.kind = "none"
    BY DEF RelayInit, NoOp, Op
  <1>2. \A c : c \notin Watching
    BY <1>1, WatchingIs
  <1>3. QED
    BY <1>2 DEF RelayInit, Shown!LogInit

\* What is no entry for a window and no new view at most ends views
LEMMA ShownLeave ==
  ASSUME UNCHANGED <<entries, last>>, viewers' \subseteq Watching,
         \A o \in queue' : o.kind = "attach" => o.ch \in Watching,
         op'.kind = "attach" => op'.ch \in Watching
  PROVE  Shown!LogNext
  <1>1. \A c : c \in Watching' <=>
          \/ c \in viewers'
          \/ \E o \in queue' : o.kind = "attach" /\ o.ch = c
          \/ op'.kind = "attach" /\ op'.ch = c
    BY DEF Watching
  <1>2. Watching' \in SUBSET Watching
    BY <1>1
  <1>3. QED
    BY <1>2 DEF Shown!LogNext, Shown!Leave

LEMMA ShownEmit ==
  ASSUME Emit
  PROVE  Shown!LogNext
  <1>1. UNCHANGED <<last, viewers, queue, op>> /\ entries < MaxEntries /\ entries' = entries + 1
    BY DEF Emit, appSide
  <1>2. Watching' = Watching
    BY <1>1 DEF Watching
  <1>3. QED
    BY <1>1, <1>2 DEF Shown!LogNext, Shown!Append

\* A channel that is attached becomes a view from the entry it asks for
LEMMA ShownAttach ==
  ASSUME NEW c \in Channels, NEW from \in 0..MaxEntries, CallAttach(c, from)
  PROVE  Shown!LogNext
  <1>1. /\ c \notin viewers /\ (\A o \in queue \cup {op} : o.ch # c) /\ from <= entries
        /\ queue' = queue \cup {Op("attach", c, "free")} /\ last' = [last EXCEPT ![c] = from]
        /\ UNCHANGED <<entries, viewers, op>>
    BY DEF CallAttach, daemonSide
  <1>2. c \notin Watching
    BY <1>1, WatchingIs
  <1>3. Op("attach", c, "free").kind = "attach" /\ Op("attach", c, "free").ch = c
    BY DEF Op
  <1>4. \A d : d \in Watching' <=>
          \/ d \in viewers'
          \/ \E o \in queue' : o.kind = "attach" /\ o.ch = d
          \/ op'.kind = "attach" /\ op'.ch = d
    BY DEF Watching
  <1>5. \A d : d \in Watching' <=> d \in Watching \/ d = c
    BY <1>1, <1>3, <1>4, WatchingIs
  <1>6. Watching' = Watching \cup {c}
    BY <1>5
  <1>7. Shown!Open(c, from)
    BY <1>1, <1>2, <1>6 DEF Shown!Open
  <1>8. QED
    BY <1>7 DEF Shown!LogNext

\* The entry that is read is the next one of every channel it is sent to
LEMMA ShownRead ==
  ASSUME MaxEntries \in Nat, RelayInv, StreamInv, ReadEntry
  PROVE  Shown!LogNext
  <1> DEFINE n == Head(inbox)
             fresh == {c \in viewers : n >= next_seq[c]}
  <1>0. WireTypes /\ WindowTypes /\ SeqsAgree
    BY DEF RelayInv
  <1>1. /\ viewers' = viewers /\ queue' = queue /\ UNCHANGED <<entries, op>>
        /\ n \in Nat /\ n < entries /\ n = inbox[1] /\ 1 \in 1..Len(inbox) /\ IsEntry(inbox[1])
        /\ last' = [c \in Channels |-> IF c \in viewers /\ n >= next_seq[c] THEN n + 1 ELSE last[c]]
    BY EntryRead
  <1> HIDE DEF n
  <1>2. Watching' = Watching
    BY <1>1 DEF Watching
  <1>3. fresh \in SUBSET Channels /\ fresh \subseteq Watching
    BY <1>0, WatchingIs DEF WindowTypes
  <1>4. ASSUME NEW c \in fresh
        PROVE  last[c] = n
    <2>1. c \in viewers /\ c \in Channels /\ n >= next_seq[c] /\ next_seq[c] \in Nat
      BY <1>3, <1>0 DEF WindowTypes
    <2>2. last[c] = next_seq[c]
      BY <1>0, <2>1 DEF SeqsAgree, Told
    <2>3. ~(n > next_seq[c])
      <3>1. Contiguous(c)
        BY <2>1 DEF StreamInv
      <3>2. inbox[1] > next_seq[c] => \E j \in 1..(1 - 1) : inbox[j] = inbox[1] - 1
        BY <1>1, <3>1 DEF Contiguous
      <3>3. 1..(1 - 1) = {}
        OBVIOUS
      <3>4. QED
        BY <1>1, <3>2, <3>3
    <2>4. QED
      BY <1>1, <2>1, <2>2, <2>3
  <1>5. last' = [c \in Channels |-> IF c \in fresh THEN n + 1 ELSE last[c]]
    BY <1>1
  <1>6. n \in 0..MaxEntries
    BY <1>0, <1>1 DEF WireTypes
  <1> HIDE DEF fresh
  <1>7. Shown!Show(fresh, n)
    BY <1>1, <1>2, <1>3, <1>4, <1>5 DEF Shown!Show
  <1>8. QED
    BY <1>3, <1>6, <1>7 DEF Shown!LogNext

LEMMA ShownNext ==
  ASSUME MaxEntries \in Nat, ~WindowsClose, RelayInv, StreamInv, [RelayNext]_relayVars
  PROVE  [Shown!LogNext]_(Shown!logVars)
  <1>0. /\ LockInv /\ viewers \subseteq Watching
        /\ \A o \in queue : o.kind = "attach" => o.ch \in Watching
        /\ op.kind = "attach" => op.ch \in Watching
    BY WatchingIs DEF RelayInv
  <1>1. CASE Emit
    BY <1>1, ShownEmit
  <1>2. CASE \E c \in Channels : \E from \in 0 .. MaxEntries : CallAttach(c, from)
    BY <1>2, ShownAttach
  <1>3. CASE ReadEntry
    BY <1>3, ShownRead
  <1>4. CASE Close \/ Serve \/ Lose \/ ChatRemoved
    <2>1. /\ UNCHANGED <<entries, last, op, queue>> /\ viewers' \subseteq viewers
      BY <1>4 DEF Close, Serve, Lose, ChatRemoved, appSide, daemonSide
    <2>2. QED
      BY <1>0, <2>1, ShownLeave
  <1>5. CASE Reconnect
    <2>1. /\ UNCHANGED <<entries, last, op, viewers>>
          /\ queue' = queue \cup {Op("reattach", Nobody, "free")}
      BY <1>5 DEF Reconnect, appSide, daemonSide
    <2>2. Op("reattach", Nobody, "free").kind = "reattach"
      BY DEF Op
    <2>3. QED
      BY <1>0, <2>1, <2>2, ShownLeave
  <1>6. CASE \E c \in Channels : CallDetach(c)
    <2>1. PICK c \in Channels : CallDetach(c)
      BY <1>6
    <2>2. /\ UNCHANGED <<entries, last, op, viewers>>
          /\ queue' = queue \cup {Op("detach", c, "free")}
      BY <2>1 DEF CallDetach, appSide, daemonSide
    <2>3. Op("detach", c, "free").kind = "detach"
      BY DEF Op
    <2>4. QED
      BY <1>0, <2>2, <2>3, ShownLeave
  <1>7. CASE Fails
    <2>1. /\ UNCHANGED <<entries, last, queue>> /\ op' = NoOp /\ viewers' \subseteq viewers
      BY <1>7 DEF Fails, daemonSide
    <2>2. NoOp.kind = "none"
      BY DEF NoOp, Op
    <2>3. QED
      BY <1>0, <2>1, <2>2, ShownLeave
  <1>8. CASE Reply
    <2>1. /\ UNCHANGED <<entries, last, queue>>
          /\ \/ /\ op.at = "stopping" /\ viewers' = viewers \cup {op.ch}
                /\ op' = [op EXCEPT !.at = "joining"]
             \/ op' = NoOp /\ viewers' = viewers
      BY <1>8 DEF Reply, Sending, daemonSide
    <2>2. NoOp.kind = "none"
      BY DEF NoOp, Op
    <2>3. op.at = "stopping" => op.kind = "attach"
      BY <1>0 DEF LockInv
    <2>4. op \in Ops
      BY <1>0 DEF LockInv
    <2>5. [op EXCEPT !.at = "joining"].ch = op.ch
      BY <2>4 DEF Ops
    <2>6. viewers' \subseteq Watching /\ (op'.kind = "attach" => op'.ch \in Watching)
      BY <1>0, <2>1, <2>2, <2>3, <2>5
    <2>7. QED
      BY <1>0, <2>1, <2>6, ShownLeave
  <1>9. CASE \E o \in queue : Lock(o)
    <2>1. PICK o \in queue : Lock(o)
      BY <1>9
    <2>2. /\ UNCHANGED <<entries, last>> /\ queue' = queue \ {o}
          /\ \/ viewers' \subseteq viewers
             \/ o.kind = "attach" /\ viewers' = {o.ch}
          /\ \/ op' = op
             \/ \E at, seq : op' = Taken(o, at, seq)
      BY <2>1, LockShapes
    <2>3. \A at, seq : Taken(o, at, seq).kind = o.kind /\ Taken(o, at, seq).ch = o.ch
      BY DEF Taken
    <2>4. op'.kind = "attach" => op'.ch \in Watching
      BY <1>0, <2>2, <2>3
    <2>5. viewers' \subseteq Watching
      BY <1>0, <2>2
    <2>6. QED
      BY <1>0, <2>2, <2>4, <2>5, ShownLeave
  <1>10. CASE RelayIdle \/ UNCHANGED relayVars
    <2>1. UNCHANGED <<entries, last, viewers, queue, op>>
      BY <1>10 DEF RelayIdle, relayVars
    <2>2. QED
      BY <1>0, <2>1, ShownLeave
  <1>11. ~(\E c \in Channels : WindowCloses(c))
    BY DEF WindowCloses
  <1>12. QED
    BY <1>1, <1>2, <1>3, <1>4, <1>5, <1>6, <1>7, <1>8, <1>9, <1>10, <1>11 DEF RelayNext

\* What attach promises ("every entry after that is the new replay, in order,
\* and each channel drops what it has seen"): a window that stays gets the log
\* as LogView says, as long as every other one detaches before it goes
THEOREM RelayImplementsView ==
  ASSUME Nobody \notin Channels, MaxEntries \in Nat, ~WindowsClose
  PROVE  RelaySpec => ImplementsLogView
  <1>1. RelayInit => Shown!LogInit
    BY ShownInit
  <1>2. RelayInv /\ StreamInv /\ [RelayNext]_relayVars => [Shown!LogNext]_(Shown!logVars)
    BY ShownNext
  <1>3. QED
    BY <1>1, <1>2, RelayInvariant, StreamInvariant, PTL
       DEF RelaySpec, ImplementsLogView, Shown!LogSpec
=============================================================================
