------------------------------ MODULE AppProofs ------------------------------
(***************************************************************************)
(* What the desktop app guarantees by itself: its side of the connection   *)
(* to ptyd (DaemonLink) for every finite set of attach calls and any       *)
(* number of daemons that die; for any number of callers, keep awake and   *)
(* the tray (Awake), and the panes of the built-in browser (Browser);      *)
(* dictation (Dictation), for any number of pieces, crashes and switches;  *)
(* and meeting recording (Voice), for any number of meetings and calls.    *)
(***************************************************************************)
EXTENDS DaemonLink, FiniteSetTheorems, SequenceTheorems, TLAPS

-----------------------------------------------------------------------------
(* The invariant *)

OutMsgs == [kind : {"attach", "detach"}, r : Calls]
InMsgs == [kind : {"resp", "data"}, r : Calls]

\* What LinkTypeOK leaves out of the types
TypesOK ==
  /\ LinkTypeOK
  /\ call \in [Calls -> {"idle", "waiting", "helloed", "registered", "sent", "ok", "failed"}]
  /\ page \in [Calls -> BOOLEAN]
  /\ got \in [Calls -> {"nothing", "snapshot", "early"}]
  /\ hello \in BOOLEAN /\ writer \in BOOLEAN /\ wired \in BOOLEAN
  /\ streams \subseteq Calls
  /\ out \in Seq(OutMsgs) /\ in \in Seq(InMsgs)

\* What is left of a connection once it is lost, and before there is another:
\* run() empties both maps, and only calls that were not written yet wait
Between ==
  /\ wired => link = "up"
  /\ writer => link \in {"up", "lost"}
  /\ ~wired => out = <<>> /\ in = <<>> /\ attached = {}
  /\ link \notin {"up", "lost"} => streams = {} /\ \A r \in pending : call[r] = "registered"

\* The messages under way that are about a call
Asking(r) == Contains(out, Msg("attach", r))
Leaving(r) == Contains(out, Msg("detach", r))
Answering(r) == Contains(in, Msg("resp", r))
Printing(r) == Contains(in, Msg("data", r))

\* Its request was written
Written(r) == call[r] \in {"sent", "ok", "failed"}

\* The answer of a call whose entry is there comes before its output
AnswerFirst(r) ==
  r \in pending =>
    \A i \in 1..Len(in) : in[i] = Msg("data", r) => \E j \in 1..(i - 1) : in[j] = Msg("resp", r)

\* A call, its entry of pending, its channel in the relay and in ptyd
CallInv(r) ==
  /\ Asking(r) \/ Answering(r) \/ Printing(r) \/ Leaving(r) => Written(r)
  /\ r \in attached \/ r \in streams => Written(r)
  /\ Leaving(r) /\ page[r] => r \notin streams /\ r \notin pending
  /\ r \in attached /\ r \in pending => Answering(r)
  /\ Answering(r) /\ page[r] /\ r \in keeps => r \in attached
  /\ r \in streams => got[r] = "snapshot" /\ (wired => r \in attached \/ ~page[r])
  /\ got[r] # "early"
  /\ wired /\ r \in pending => call[r] = "registered" \/ Asking(r) \/ Answering(r)
  /\ AnswerFirst(r)

LinkInv == TypesOK /\ Between /\ \A r \in Calls : CallInv(r)

-----------------------------------------------------------------------------
(* Sequences of messages *)

LEMMA AppendHas ==
  ASSUME NEW S, NEW s \in Seq(S), NEW e \in S, NEW m
  PROVE  Contains(Append(s, e), m) <=> Contains(s, m) \/ m = e
  <1> DEFINE t == Append(s, e)
  <1>1. PICK k \in Nat : k = Len(s)
    OBVIOUS
  <1>2. Len(t) = k + 1 /\ t[k + 1] = e /\ \A i \in 1..k : t[i] = s[i]
    BY <1>1, AppendProperties
  <1>3. \A i \in 1..(k + 1) : i \in 1..k \/ i = k + 1
    OBVIOUS
  <1>4. k + 1 \in 1..(k + 1) /\ \A i \in 1..k : i \in 1..(k + 1)
    OBVIOUS
  <1> HIDE DEF t
  <1>5. Contains(t, m) <=> Contains(s, m) \/ m = e
    BY <1>1, <1>2, <1>3, <1>4 DEF Contains
  <1>6. QED
    BY <1>5 DEF t

LEMMA TailHas ==
  ASSUME NEW S, NEW s \in Seq(S), s # <<>>, NEW m
  PROVE  Contains(s, m) <=> m = Head(s) \/ Contains(Tail(s), m)
  <1> DEFINE t == Tail(s)
  <1>1. PICK k \in Nat : k = Len(s)
    OBVIOUS
  <1>2. k # 0 /\ Head(s) = s[1] /\ Len(t) = k - 1 /\ \A i \in 1..(k - 1) : t[i] = s[i + 1]
    BY <1>1, EmptySeq, HeadTailProperties
  <1>3. \A i \in 1..k : i = 1 \/ (i - 1 \in 1..(k - 1) /\ (i - 1) + 1 = i)
    OBVIOUS
  <1>4. 1 \in 1..k /\ \A i \in 1..(k - 1) : i + 1 \in 1..k
    BY <1>2
  <1> HIDE DEF t
  <1>5. ASSUME NEW i \in 1..k, s[i] = m
        PROVE  m = Head(s) \/ Contains(t, m)
    <2>1. CASE i = 1
      BY <1>2, <1>5, <2>1
    <2>2. CASE i # 1
      <3>1. i - 1 \in 1..(k - 1) /\ t[i - 1] = s[i]
        BY <1>2, <1>3, <2>2
      <3>2. QED
        BY <1>2, <1>5, <3>1 DEF Contains
    <2>3. QED
      BY <2>1, <2>2
  <1>6. m = Head(s) \/ Contains(t, m) => Contains(s, m)
    BY <1>1, <1>2, <1>4 DEF Contains
  <1>7. Contains(s, m) => m = Head(s) \/ Contains(t, m)
    BY <1>1, <1>5 DEF Contains
  <1>8. QED
    BY <1>6, <1>7 DEF t

LEMMA EmptyHasNone ==
  ASSUME NEW m
  PROVE  ~Contains(<<>>, m)
  BY DEF Contains

LEMMA MsgsDiffer ==
  ASSUME NEW k, NEW l, NEW r, NEW q
  PROVE  /\ Msg(k, r) = Msg(l, q) <=> k = l /\ r = q
         /\ Msg(k, r).kind = k /\ Msg(k, r).r = r
  <1>1. Msg(k, r).kind = k /\ Msg(k, r).r = r
    BY DEF Msg
  <1>2. Msg(l, q).kind = l /\ Msg(l, q).r = q
    BY DEF Msg
  <1>3. QED
    BY <1>1, <1>2

\* SetToSeq of a finite set lists its elements
LEMMA SetToSeqLists ==
  ASSUME NEW S, IsFiniteSet(S)
  PROVE  SetToSeq(S) \in Seq(S)
  <1>1. PICK f \in [1..Cardinality(S) -> S] : IsInjective(f)
    BY FS_CardinalityType DEF ExistsBijection, Bijection, Injection
  <1>2. SetToSeq(S) \in [1..Cardinality(S) -> S]
    BY <1>1 DEF SetToSeq
  <1>3. Cardinality(S) \in Nat
    BY FS_CardinalityType
  <1>4. QED
    BY <1>2, <1>3, SeqDef

\* detach_channel adds detaches of the channels it is given, and nothing
\* without a connection
LEMMA DetachingAdds ==
  ASSUME NEW rs \in SUBSET Calls, IsFiniteSet(rs), out \in Seq(OutMsgs)
  PROVE  /\ Detaching(rs) \in Seq(OutMsgs)
         /\ \A m : Contains(out, m) => Contains(Detaching(rs), m)
         /\ \A m : Contains(Detaching(rs), m) =>
              Contains(out, m) \/ \E r \in rs : m = Msg("detach", r)
         /\ ~wired => Detaching(rs) = out
  <1> DEFINE msgs == {Msg("detach", r) : r \in rs}
             new == msgs \ Range(out)
             s == SetToSeq(new)
  <1>1. IsFiniteSet(msgs)
    <2> DEFINE f == [r \in rs |-> Msg("detach", r)]
    <2>1. f \in [rs -> msgs]
      OBVIOUS
    <2>2. \A a, b \in rs : f[a] = f[b] => a = b
      BY DEF Msg
    <2>3. \A m \in msgs : \E r \in rs : f[r] = m
      OBVIOUS
    <2>4. f \in Bijection(rs, msgs)
      BY <2>1, <2>2, <2>3 DEF Bijection, Injection, Surjection, IsInjective
    <2>5. ExistsBijection(rs, msgs)
      BY <2>4 DEF ExistsBijection
    <2>6. QED
      BY <2>5, FS_Bijection
  <1>2. s \in Seq(new)
    <2>1. IsFiniteSet(new)
      BY <1>1, FS_Subset
    <2>2. QED
      BY <2>1, SetToSeqLists
  <1>3. new \subseteq OutMsgs
    BY DEF Msg, OutMsgs
  <1> HIDE DEF s
  <1>4. s \in Seq(OutMsgs)
    BY <1>2, <1>3, SeqMonotonic
  <1>5. \A i \in 1..Len(s) : \E r \in rs : s[i] = Msg("detach", r)
    BY <1>2, ElementOfSeq
  <1>6. PICK k \in Nat, n \in Nat : k = Len(out) /\ n = Len(s)
    BY <1>4
  <1>7. /\ out \o s \in Seq(OutMsgs) /\ Len(out \o s) = k + n
        /\ \A i \in 1..(k + n) : (out \o s)[i] = IF i <= k THEN out[i] ELSE s[i - k]
    BY <1>4, <1>6, ConcatProperties
  <1>8. \A m : Contains(out, m) => Contains(out \o s, m)
    <2>1. \A i \in 1..k : i \in 1..(k + n) /\ (out \o s)[i] = out[i]
      BY <1>7
    <2>2. QED
      BY <1>6, <1>7, <2>1 DEF Contains
  <1>9. \A m : Contains(out \o s, m) => Contains(out, m) \/ \E r \in rs : m = Msg("detach", r)
    <2>1. \A i \in 1..(k + n) : i \in 1..k \/ (~(i <= k) /\ i - k \in 1..n)
      OBVIOUS
    <2>2. \A i \in 1..(k + n) :
            (i \in 1..k /\ (out \o s)[i] = out[i]) \/ \E r \in rs : (out \o s)[i] = Msg("detach", r)
      BY <1>5, <1>6, <1>7, <2>1
    <2>3. QED
      BY <1>6, <1>7, <2>2 DEF Contains
  <1>10. Detaching(rs) = IF writer /\ wired THEN out \o s ELSE out
    BY DEF Detaching, s
  <1>11. QED
    BY <1>7, <1>8, <1>9, <1>10
-----------------------------------------------------------------------------
(* The loop: connect() up to a connection, and what run() does when it is lost *)

\* A step of the loop connects, goes to another step of connect(), or is one of
\* the three after a loss
LEMMA LoopSteps ==
  ASSUME TypesOK, LinkStep \/ ConnectFails
  PROVE  \/ link \notin {"up", "lost"} /\ Connected
         \/ /\ link \notin {"up", "lost"}
            /\ link' \in {"connect", "kill", "upgrade", "upgraded", "replace", "start", "started",
                          "backoff"}
            /\ socket' \in Sockets
            /\ UNCHANGED <<hello, writer, losses>> /\ UNCHANGED wires /\ UNCHANGED books
         \/ LostHello \/ LostWriter \/ LostClear
  <1> USE DEF At, Goto, Sockets
  <1>1. socket \in Sockets
    BY DEF TypesOK, LinkTypeOK
  <1>2. CASE Handshake
    BY <1>1, <1>2 DEF Handshake
  <1>3. CASE HandshakeOrKill
    BY <1>1, <1>3 DEF HandshakeOrKill
  <1>4. CASE Upgrade
    BY <1>1, <1>4 DEF Upgrade
  <1>5. CASE ShutDown
    BY <1>1, <1>5 DEF ShutDown
  <1>6. CASE ServiceStart
    BY <1>1, <1>6 DEF ServiceStart
  <1>7. CASE Ours
    BY <1>1, <1>7 DEF Ours
  <1>8. CASE Backoff
    BY <1>1, <1>8 DEF Backoff
  <1>9. CASE ConnectFails
    BY <1>1, <1>9 DEF ConnectFails, ShutDownLate, ServiceFails
  <1>10. QED
    BY <1>2, <1>3, <1>4, <1>5, <1>6, <1>7, <1>8, <1>9 DEF LinkStep

LEMMA LoopShape ==
  ASSUME MaxLosses \in Nat, TypesOK, Between, LinkStep \/ ConnectFails \/ DaemonDies
  PROVE  TypesOK' /\ Between'
  <1> USE DEF TypesOK, LinkTypeOK, Between, wires, books
  <1>e. <<>> \in Seq(OutMsgs) /\ <<>> \in Seq(InMsgs)
    OBVIOUS
  <1>1. CASE link \notin {"up", "lost"} /\ Connected
    BY <1>1, <1>e DEF Connected
  <1>2. CASE /\ link \notin {"up", "lost"}
             /\ link' \in {"connect", "kill", "upgrade", "upgraded", "replace", "start", "started",
                           "backoff"}
             /\ socket' \in Sockets
             /\ UNCHANGED <<hello, writer, losses>> /\ UNCHANGED wires /\ UNCHANGED books
    BY <1>2
  <1>3. CASE LostHello
    BY <1>3 DEF LostHello, At
  <1>4. CASE LostWriter
    BY <1>4 DEF LostWriter, At
  <1>5. CASE LostClear
    BY <1>5 DEF LostClear, At
  <1>6. CASE DaemonDies
    <2>1. losses' \in 0..MaxLosses
      BY <1>6 DEF DaemonDies
    <2>2. QED
      BY <1>6, <1>e, <2>1 DEF DaemonDies, Sockets
  <1>7. QED
    BY <1>1, <1>2, <1>3, <1>4, <1>5, <1>6, LoopSteps

-----------------------------------------------------------------------------
(* One call *)

LEMMA CallKept ==
  ASSUME NEW r \in Calls, CallInv(r),
         call'[r] = call[r], page'[r] = page[r], got'[r] = got[r],
         r \in pending' <=> r \in pending, r \in keeps' <=> r \in keeps,
         r \in streams' <=> r \in streams, r \in attached' <=> r \in attached,
         Asking(r)' <=> Asking(r), Leaving(r)' <=> Leaving(r), Answering(r)' <=> Answering(r),
         Printing(r)' => Printing(r) \/ r \in attached, AnswerFirst(r)', wired' => wired
  PROVE  CallInv(r)'
  BY DEF CallInv, Written

LEMMA FirstSame ==
  ASSUME NEW r \in Calls, AnswerFirst(r), in' = in, r \in pending' => r \in pending
  PROVE  AnswerFirst(r)'
  BY DEF AnswerFirst

\* The reader takes a message off the connection
LEMMA FirstTail ==
  ASSUME NEW r \in Calls, AnswerFirst(r), in \in Seq(InMsgs), in # <<>>, in' = Tail(in),
         r \in pending' => r \in pending /\ Head(in) # Msg("resp", r)
  PROVE  AnswerFirst(r)'
  <1> SUFFICES ASSUME r \in pending', NEW i \in 1..Len(in'), in'[i] = Msg("data", r)
               PROVE  \E j \in 1..(i - 1) : in'[j] = Msg("resp", r)
    BY DEF AnswerFirst
  <1>1. PICK k \in Nat : k = Len(in)
    OBVIOUS
  <1>2. /\ k # 0 /\ Head(in) = in[1] /\ Len(in') = k - 1
        /\ \A j \in 1..(k - 1) : in'[j] = in[j + 1]
    BY <1>1, EmptySeq, HeadTailProperties
  <1>3. i \in 1..(k - 1) /\ i + 1 \in 1..k /\ in[i + 1] = Msg("data", r)
    BY <1>2
  <1>4. PICK j \in 1..((i + 1) - 1) : in[j] = Msg("resp", r)
    BY <1>1, <1>3 DEF AnswerFirst
  <1>5. j # 1
    BY <1>2, <1>4
  <1>6. j - 1 \in 1..(i - 1) /\ j - 1 \in 1..(k - 1) /\ (j - 1) + 1 = j
    BY <1>3, <1>5
  <1>7. in'[j - 1] = Msg("resp", r)
    BY <1>2, <1>4, <1>6
  <1>8. QED
    BY <1>6, <1>7

\* ptyd puts one on it
LEMMA FirstAppend ==
  ASSUME NEW r \in Calls, AnswerFirst(r), in \in Seq(InMsgs), NEW e \in InMsgs,
         in' = Append(in, e), pending' = pending,
         e = Msg("data", r) /\ r \in pending => Answering(r)
  PROVE  AnswerFirst(r)'
  <1> SUFFICES ASSUME r \in pending, NEW i \in 1..Len(in'), in'[i] = Msg("data", r)
               PROVE  \E j \in 1..(i - 1) : in'[j] = Msg("resp", r)
    BY DEF AnswerFirst
  <1>1. PICK k \in Nat : k = Len(in)
    OBVIOUS
  <1>2. Len(in') = k + 1 /\ in'[k + 1] = e /\ \A j \in 1..k : in'[j] = in[j]
    BY <1>1, AppendProperties
  <1>3. CASE i = k + 1
    <2>1. PICK j \in 1..k : in[j] = Msg("resp", r)
      BY <1>1, <1>2, <1>3 DEF Answering, Contains
    <2>2. j \in 1..(i - 1) /\ in'[j] = Msg("resp", r)
      BY <1>2, <1>3, <2>1
    <2>3. QED
      BY <2>2
  <1>4. CASE i \in 1..k
    <2>1. PICK j \in 1..(i - 1) : in[j] = Msg("resp", r)
      BY <1>1, <1>2, <1>4 DEF AnswerFirst
    <2>2. j \in 1..k
      BY <1>4
    <2>3. QED
      BY <1>2, <2>1, <2>2
  <1>5. QED
    BY <1>2, <1>3, <1>4

-----------------------------------------------------------------------------
(* What the loop does to the calls *)

LEMMA LoopCalls ==
  ASSUME LinkInv, LinkStep \/ ConnectFails \/ DaemonDies, NEW r \in Calls
  PROVE  CallInv(r)'
  <1>0. TypesOK /\ Between /\ CallInv(r) /\ AnswerFirst(r)
    BY DEF LinkInv, CallInv
  <1>1. CASE UNCHANGED wires /\ UNCHANGED books
    <2>1. /\ wired' = wired /\ attached' = attached /\ out' = out /\ in' = in /\ call' = call
          /\ pending' = pending /\ keeps' = keeps /\ streams' = streams /\ page' = page
          /\ got' = got
      BY <1>1 DEF wires, books
    <2>2. AnswerFirst(r)'
      BY <1>0, <2>1, FirstSame
    <2>3. /\ Asking(r)' <=> Asking(r)
          /\ Leaving(r)' <=> Leaving(r)
          /\ Answering(r)' <=> Answering(r)
          /\ Printing(r)' <=> Printing(r)
      BY <2>1 DEF Asking, Leaving, Answering, Printing
    <2>4. QED
      BY <1>0, <2>1, <2>2, <2>3, CallKept
  <1>2. ASSUME out' = <<>>, in' = <<>>
        PROVE  ~Asking(r)' /\ ~Leaving(r)' /\ ~Answering(r)' /\ ~Printing(r)' /\ AnswerFirst(r)'
    <2>1. Len(in') = 0
      BY <1>2
    <2>2. QED
      BY <1>2, <2>1, EmptyHasNone DEF Asking, Leaving, Answering, Printing, AnswerFirst
  <1>3. CASE link \notin {"up", "lost"} /\ Connected
    <2>1. UNCHANGED <<call, pending, keeps, streams, page, got>> /\ attached' = {}
      BY <1>3 DEF Connected, books
    <2>2. streams = {} /\ (r \in pending => call[r] = "registered")
      BY <1>0, <1>3 DEF Between
    <2>3. ~Asking(r)' /\ ~Leaving(r)' /\ ~Answering(r)' /\ ~Printing(r)' /\ AnswerFirst(r)'
      BY <1>2, <1>3 DEF Connected
    <2>4. QED
      BY <1>0, <2>1, <2>2, <2>3 DEF CallInv
  <1>4. CASE DaemonDies
    <2>1. UNCHANGED <<call, pending, keeps, streams, page, got>> /\ attached' = {} /\ ~wired'
      BY <1>4 DEF DaemonDies, books
    <2>2. ~Asking(r)' /\ ~Leaving(r)' /\ ~Answering(r)' /\ ~Printing(r)' /\ AnswerFirst(r)'
      BY <1>2, <1>4 DEF DaemonDies
    <2>3. QED
      BY <1>0, <2>1, <2>2 DEF CallInv, Written
  <1>5. CASE LostClear
    <2>1. /\ UNCHANGED <<call, page, got>> /\ pending' = {} /\ keeps' = {} /\ streams' = {}
          /\ UNCHANGED <<wired, attached, out, in>> /\ link = "lost"
      BY <1>5 DEF LostClear, wires, At
    <2>2. out' = <<>> /\ in' = <<>> /\ attached' = {} /\ ~wired'
      BY <1>0, <2>1 DEF Between
    <2>3. ~Asking(r)' /\ ~Leaving(r)' /\ ~Answering(r)' /\ ~Printing(r)' /\ AnswerFirst(r)'
      BY <1>2, <2>2
    <2>4. QED
      BY <1>0, <2>1, <2>2, <2>3 DEF CallInv, Written
  <1>6. QED
    BY <1>0, <1>1, <1>3, <1>4, <1>5, LoopSteps DEF LostHello, LostWriter
-----------------------------------------------------------------------------
(* send(): a call of its own touches no other one *)

\* Nothing changes for a call but what is said of it
LEMMA OtherCall ==
  ASSUME LinkInv, NEW r \in Calls,
         UNCHANGED <<page, got, streams, attached, in, wired>>,
         call'[r] = call[r], r \in pending' <=> r \in pending, r \in keeps' <=> r \in keeps,
         Asking(r)' <=> Asking(r), Leaving(r)' <=> Leaving(r)
  PROVE  CallInv(r)'
  <1>1. CallInv(r) /\ AnswerFirst(r)
    BY DEF LinkInv, CallInv
  <1>2. AnswerFirst(r)'
    BY <1>1, FirstSame
  <1>3. Answering(r)' <=> Answering(r)
    BY DEF Answering
  <1>4. Printing(r)' <=> Printing(r)
    BY DEF Printing
  <1>5. QED
    BY <1>1, <1>2, <1>3, <1>4, CallKept

LEMMA WaitStep ==
  ASSUME LinkInv, NEW q \in Calls, Wait(q) \/ Register(q) \/ GiveUp(q)
  PROVE  LinkInv'
  <1>0. TypesOK /\ Between /\ CallInv(q)
    BY DEF LinkInv
  <1>1. /\ UNCHANGED <<socket, link, hello, writer, losses, wired, attached, out, in>>
        /\ UNCHANGED <<streams, page, got>>
    BY DEF Wait, Register, GiveUp, plumbing, wires
  <1>2. /\ call' \in [Calls -> {"idle", "waiting", "helloed", "registered", "sent", "ok", "failed"}]
        /\ \A r \in Calls \ {q} : call'[r] = call[r]
        /\ \/ /\ call[q] \in {"idle", "waiting"}
              /\ call'[q] \in {"waiting", "helloed", "failed"}
              /\ pending' = pending /\ keeps' = keeps
           \/ /\ call[q] = "helloed" /\ call'[q] = "registered"
              /\ pending' = pending \cup {q} /\ keeps' = keeps \cup {q}
           \/ /\ call[q] = "sent" /\ call'[q] = "failed"
              /\ pending' = pending /\ keeps' = keeps
    <2>1. call \in [Calls -> {"idle", "waiting", "helloed", "registered", "sent", "ok", "failed"}]
      BY <1>0 DEF TypesOK
    <2>2. CASE Wait(q)
      BY <2>1, <2>2 DEF Wait, Calling
    <2>3. CASE Register(q)
      BY <2>1, <2>3 DEF Register, Calling
    <2>4. CASE GiveUp(q)
      BY <2>1, <2>4 DEF GiveUp, Calling
    <2>5. QED
      BY <2>2, <2>3, <2>4
  <1>3. TypesOK'
    BY <1>0, <1>1, <1>2 DEF TypesOK, LinkTypeOK
  <1>4. Between'
    <2>1. ASSUME link \notin {"up", "lost"}, NEW r \in pending'
          PROVE  call'[r] = "registered"
      <3>1. CASE r = q
        BY <1>0, <1>2, <2>1, <3>1 DEF Between
      <3>2. CASE r # q
        <4>1. r \in pending /\ r \in Calls
          BY <1>0, <1>2, <2>1, <3>2 DEF TypesOK, LinkTypeOK
        <4>2. QED
          BY <1>0, <1>2, <2>1, <3>2, <4>1 DEF Between
      <3>3. QED
        BY <3>1, <3>2
    <2>2. QED
      BY <1>0, <1>1, <2>1 DEF Between
  <1>5. \A r \in Calls : /\ Asking(r)' <=> Asking(r)
                         /\ Leaving(r)' <=> Leaving(r)
                         /\ Answering(r)' <=> Answering(r)
                         /\ Printing(r)' <=> Printing(r)
    BY <1>1 DEF Asking, Leaving, Answering, Printing
  <1>6. CallInv(q)'
    <2>1. AnswerFirst(q)'
      <3>1. CASE q \in pending
        BY <1>0, <1>1, <3>1 DEF CallInv, AnswerFirst
      <3>2. CASE q \notin pending /\ ~Printing(q)
        BY <1>1, <3>2 DEF AnswerFirst, Printing, Contains
      <3>3. CASE q \notin pending /\ Printing(q)
        <4>1. q \notin pending'
          BY <1>0, <1>2, <3>3 DEF CallInv, Written
        <4>2. QED
          BY <4>1 DEF AnswerFirst
      <3>4. QED
        BY <3>1, <3>2, <3>3
    <2>2. CASE Written(q)
      BY <1>0, <1>1, <1>2, <1>5, <2>1, <2>2 DEF CallInv, Written
    <2>3. CASE ~Written(q)
      <3>1. /\ ~Asking(q) /\ ~Answering(q) /\ ~Printing(q) /\ ~Leaving(q)
            /\ q \notin attached /\ q \notin streams /\ got[q] # "early"
            /\ wired /\ q \in pending => call[q] = "registered"
        BY <1>0, <2>3 DEF CallInv
      <3>2. QED
        BY <1>1, <1>2, <1>5, <2>1, <2>3, <3>1 DEF CallInv, Written
    <2>4. QED
      BY <2>2, <2>3
  <1>7. ASSUME NEW r \in Calls, r # q
        PROVE  CallInv(r)'
    BY <1>1, <1>2, <1>5, <1>7, OtherCall
  <1>8. QED
    BY <1>3, <1>4, <1>6, <1>7 DEF LinkInv

LEMMA WriteStep ==
  ASSUME LinkInv, NEW q \in Calls, Write(q)
  PROVE  LinkInv'
  <1>0. TypesOK /\ Between /\ CallInv(q)
    BY DEF LinkInv
  <1>1. /\ UNCHANGED <<socket, link, hello, writer, losses, wired, attached, in>>
        /\ UNCHANGED <<streams, page, got>>
    BY DEF Write, plumbing
  <1>2. /\ call[q] = "registered"
        /\ call' \in [Calls -> {"idle", "waiting", "helloed", "registered", "sent", "ok", "failed"}]
        /\ \A r \in Calls \ {q} : call'[r] = call[r]
        /\ \/ /\ wired /\ call'[q] = "sent" /\ out' = Append(out, Msg("attach", q))
              /\ pending' = pending /\ keeps' = keeps
           \/ /\ ~wired /\ call'[q] = "failed" /\ out' = out
              /\ pending' = pending \ {q} /\ keeps' = keeps \ {q}
    <2>1. /\ call \in [Calls -> {"idle", "waiting", "helloed", "registered", "sent", "ok", "failed"}]
          /\ wired => writer
      BY <1>0 DEF TypesOK, LinkTypeOK
    <2>2. QED
      BY <2>1 DEF Write, Calling
  <1>3. /\ out \in Seq(OutMsgs) /\ Msg("attach", q) \in OutMsgs
        /\ out' \in Seq(OutMsgs)
    <2>1. out \in Seq(OutMsgs)
      BY <1>0 DEF TypesOK
    <2>2. Msg("attach", q) \in OutMsgs
      BY DEF Msg, OutMsgs
    <2>3. Append(out, Msg("attach", q)) \in Seq(OutMsgs)
      BY <2>1, <2>2, AppendProperties
    <2>4. QED
      BY <1>2, <2>1, <2>2, <2>3
  <1>4. TypesOK'
    BY <1>0, <1>1, <1>2, <1>3 DEF TypesOK, LinkTypeOK
  <1>5. Between'
    <2>1. wired => link = "up"
      BY <1>0 DEF Between
    <2>2. ASSUME link \notin {"up", "lost"}, NEW r \in pending'
          PROVE  call'[r] = "registered"
      <3>1. ~wired /\ r \in pending /\ r \in Calls /\ r # q
        BY <1>0, <1>2, <2>1, <2>2 DEF TypesOK, LinkTypeOK
      <3>2. QED
        BY <1>0, <1>2, <2>2, <3>1 DEF Between
    <2>3. QED
      BY <1>0, <1>1, <1>2, <2>2 DEF Between
  <1>6. \A r \in Calls : /\ Asking(r)' <=> Asking(r) \/ (wired /\ r = q)
                         /\ Leaving(r)' <=> Leaving(r)
                         /\ Answering(r)' <=> Answering(r)
                         /\ Printing(r)' <=> Printing(r)
    <2>1. \A m : Contains(out', m) <=> Contains(out, m) \/ (wired /\ m = Msg("attach", q))
      <3>1. CASE wired
        <4>1. out' = Append(out, Msg("attach", q))
          BY <1>2, <3>1
        <4>2. \A m : Contains(Append(out, Msg("attach", q)), m) <=>
                       Contains(out, m) \/ m = Msg("attach", q)
          BY <1>3, AppendHas
        <4>3. QED
          BY <3>1, <4>1, <4>2
      <3>2. CASE ~wired
        BY <1>2, <3>2
      <3>3. QED
        BY <3>1, <3>2
    <2>2. \A r \in Calls : Contains(out', Msg("attach", r)) <=>
                             Contains(out, Msg("attach", r)) \/ (wired /\ r = q)
      BY <2>1, MsgsDiffer
    <2>3. \A r \in Calls : Contains(out', Msg("detach", r)) <=> Contains(out, Msg("detach", r))
      BY <2>1, MsgsDiffer
    <2>4. QED
      BY <1>1, <2>2, <2>3 DEF Asking, Leaving, Answering, Printing
  <1>7. CallInv(q)'
    <2>1. /\ ~Asking(q) /\ ~Answering(q) /\ ~Printing(q) /\ ~Leaving(q)
          /\ q \notin attached /\ q \notin streams /\ got[q] # "early"
      BY <1>0, <1>2 DEF CallInv, Written
    <2>2. AnswerFirst(q)'
      BY <1>0, <1>1, <1>2, FirstSame DEF CallInv
    <2>3. QED
      BY <1>1, <1>2, <1>6, <2>1, <2>2 DEF CallInv, Written
  <1>8. ASSUME NEW r \in Calls, r # q
        PROVE  CallInv(r)'
    BY <1>1, <1>2, <1>6, <1>8, OtherCall
  <1>9. QED
    BY <1>4, <1>5, <1>7, <1>8 DEF LinkInv

-----------------------------------------------------------------------------
(* The connection *)

LEMMA ServeStep ==
  ASSUME LinkInv, DaemonServes
  PROVE  LinkInv'
  <1> DEFINE m == Head(out)
  <1>0. TypesOK /\ Between /\ \A r \in Calls : CallInv(r) /\ AnswerFirst(r)
    BY DEF LinkInv, CallInv
  <1>1. /\ UNCHANGED <<socket, link, hello, writer, losses, wired, call, pending, keeps>>
        /\ UNCHANGED <<streams, page, got>>
        /\ wired /\ out # <<>> /\ out' = Tail(out)
        /\ \/ m.kind = "attach" /\ attached' = attached \cup {m.r} /\ in' = Append(in, Msg("resp", m.r))
           \/ m.kind # "attach" /\ attached' = attached \ {m.r} /\ in' = in
    BY DEF DaemonServes, plumbing, books
  <1>2. out \in Seq(OutMsgs) /\ in \in Seq(InMsgs) /\ m \in OutMsgs /\ out' \in Seq(OutMsgs)
    BY <1>0, <1>1 DEF TypesOK
  <1>3. PICK q \in Calls : m = Msg("attach", q) \/ m = Msg("detach", q)
    BY <1>2 DEF OutMsgs, Msg
  <1>4. Msg("resp", q) \in InMsgs
    BY DEF InMsgs, Msg
  <1>5. \/ /\ m = Msg("attach", q) /\ attached' = attached \cup {q}
           /\ in' = Append(in, Msg("resp", q))
        \/ m = Msg("detach", q) /\ attached' = attached \ {q} /\ in' = in
    BY <1>1, <1>3, MsgsDiffer
  <1>6. TypesOK'
    <2>1. in' \in Seq(InMsgs)
      <3>1. Append(in, Msg("resp", q)) \in Seq(InMsgs)
        BY <1>2, <1>4, AppendProperties
      <3>2. in' = Append(in, Msg("resp", q)) \/ in' = in
        BY <1>5
      <3>3. QED
        BY <1>2, <3>1, <3>2
    <2>2. attached' \subseteq Calls
      BY <1>0, <1>5 DEF TypesOK, LinkTypeOK
    <2>3. QED
      BY <1>0, <1>1, <1>2, <2>1, <2>2 DEF TypesOK, LinkTypeOK
  <1>7. Between'
    BY <1>0, <1>1 DEF Between
  <1>8. \A e : Contains(out, e) <=> e = m \/ Contains(out', e)
    BY <1>1, <1>2, TailHas
  <1>9. CASE m = Msg("attach", q) /\ attached' = attached \cup {q} /\ in' = Append(in, Msg("resp", q))
    <2>1. \A e : Contains(in', e) <=> Contains(in, e) \/ e = Msg("resp", q)
      BY <1>2, <1>4, <1>9, AppendHas
    <2>2. ASSUME NEW r \in Calls
          PROVE  CallInv(r)'
      <3>1. /\ Asking(r) <=> Asking(r)' \/ r = q
            /\ Leaving(r) <=> Leaving(r)'
            /\ Answering(r)' <=> Answering(r) \/ r = q
            /\ Printing(r)' <=> Printing(r)
        <4>1. /\ Msg("attach", r) = m <=> r = q
              /\ Msg("detach", r) # m
              /\ Msg("resp", r) = Msg("resp", q) <=> r = q
              /\ Msg("data", r) # Msg("resp", q)
          BY <1>9, MsgsDiffer
        <4>2. QED
          BY <1>8, <2>1, <4>1 DEF Asking, Leaving, Answering, Printing
      <3>2. AnswerFirst(r)'
        <4>1. Msg("resp", q) # Msg("data", r)
          BY MsgsDiffer
        <4>2. QED
          BY <1>0, <1>1, <1>2, <1>4, <1>9, <4>1, FirstAppend
      <3>3. CASE r = q
        BY <1>0, <1>1, <1>9, <3>1, <3>2, <3>3 DEF CallInv, Written
      <3>4. CASE r # q
        BY <1>0, <1>1, <1>9, <3>1, <3>2, <3>4, CallKept
      <3>5. QED
        BY <3>3, <3>4
    <2>3. QED
      BY <1>6, <1>7, <2>2 DEF LinkInv
  <1>10. CASE m = Msg("detach", q) /\ attached' = attached \ {q} /\ in' = in
    <2>1. ASSUME NEW r \in Calls
          PROVE  CallInv(r)'
      <3>1. /\ Asking(r) <=> Asking(r)'
            /\ Leaving(r) <=> Leaving(r)' \/ r = q
            /\ Answering(r)' <=> Answering(r)
            /\ Printing(r)' <=> Printing(r)
        <4>1. /\ Msg("detach", r) = m <=> r = q
              /\ Msg("attach", r) # m
          BY <1>10, MsgsDiffer
        <4>2. QED
          BY <1>8, <1>10, <4>1 DEF Asking, Leaving, Answering, Printing
      <3>2. AnswerFirst(r)'
        BY <1>0, <1>1, <1>10, FirstSame
      <3>3. CASE r = q
        <4>1. q \in keeps => q \in pending
          BY <1>0 DEF TypesOK, LinkTypeOK
        <4>2. QED
          BY <1>0, <1>1, <1>10, <3>1, <3>2, <3>3, <4>1 DEF CallInv, Written
      <3>4. CASE r # q
        BY <1>0, <1>1, <1>10, <3>1, <3>2, <3>4, CallKept
      <3>5. QED
        BY <3>3, <3>4
    <2>2. QED
      BY <1>6, <1>7, <2>1 DEF LinkInv
  <1>11. QED
    BY <1>5, <1>9, <1>10
\* The app asks ptyd to detach some channels
LEMMA DetachingMsgs ==
  ASSUME TypesOK, NEW rs \in SUBSET Calls, IsFiniteSet(rs), out' = Detaching(rs)
  PROVE  /\ out' \in Seq(OutMsgs)
         /\ ~wired => out' = out
         /\ \A r \in Calls : Asking(r)' <=> Asking(r)
         /\ \A r \in Calls : Leaving(r) => Leaving(r)'
         /\ \A r \in Calls : Leaving(r)' => Leaving(r) \/ r \in rs
  <1>1. out \in Seq(OutMsgs)
    BY DEF TypesOK
  <1>2. /\ Detaching(rs) \in Seq(OutMsgs)
        /\ ~wired => Detaching(rs) = out
        /\ \A m : Contains(out, m) => Contains(Detaching(rs), m)
        /\ \A m : Contains(Detaching(rs), m) =>
             Contains(out, m) \/ \E q \in rs : m = Msg("detach", q)
    BY <1>1, DetachingAdds
  <1>3. \A r \in Calls : Asking(r)' <=> Asking(r)
    <2>1. \A r \in Calls : \A q \in rs : Msg("attach", r) # Msg("detach", q)
      BY MsgsDiffer
    <2>2. QED
      BY <1>2, <2>1 DEF Asking
  <1>4. \A r \in Calls : Leaving(r) => Leaving(r)'
    BY <1>2 DEF Leaving
  <1>5. \A r \in Calls : Leaving(r)' => Leaving(r) \/ r \in rs
    <2>1. \A r \in Calls : \A q \in rs : Msg("detach", r) = Msg("detach", q) => r = q
      BY MsgsDiffer
    <2>2. QED
      BY <1>2, <2>1 DEF Leaving
  <1>6. QED
    BY <1>2, <1>3, <1>4, <1>5

\* A channel leaves the relay, its page goes, or neither
LEMMA CallLeaves ==
  ASSUME NEW r \in Calls, CallInv(r), wired' = wired,
         call'[r] = call[r], got'[r] = got[r], page'[r] => page[r],
         r \in pending' <=> r \in pending, r \in keeps' => r \in keeps,
         r \in streams' => r \in streams, r \in attached' <=> r \in attached,
         Asking(r)' <=> Asking(r), Leaving(r) => Leaving(r)',
         Leaving(r)' => Leaving(r) \/ (Written(r) /\ (page'[r] => r \notin streams' /\ r \notin pending)),
         Answering(r)' <=> Answering(r), Printing(r)' => Printing(r), AnswerFirst(r)'
  PROVE  CallInv(r)'
  BY DEF CallInv, Written

LEMMA ReadStep ==
  ASSUME LinkInv, Read
  PROVE  LinkInv'
  <1> DEFINE m == Head(in)
  <1>0. TypesOK /\ Between /\ \A r \in Calls : CallInv(r) /\ AnswerFirst(r)
    BY DEF LinkInv, CallInv
  <1>1. /\ UNCHANGED <<socket, link, hello, writer, losses, wired, attached, page>>
        /\ link = "up" /\ in # <<>> /\ in' = Tail(in)
        /\ \/ m.kind = "resp" /\ Resolve(m.r)
           \/ m.kind # "resp" /\ Relay(m.r)
    BY DEF Read, plumbing, At
  <1>2. in \in Seq(InMsgs) /\ m \in InMsgs /\ in' \in Seq(InMsgs) /\ wired
    BY <1>0, <1>1 DEF TypesOK, Between
  <1>3. PICK q \in Calls : m = Msg("resp", q) \/ m = Msg("data", q)
    BY <1>2 DEF InMsgs, Msg
  <1>4. (m = Msg("resp", q) /\ Resolve(q)) \/ (m = Msg("data", q) /\ Relay(q))
    BY <1>1, <1>3, MsgsDiffer
  <1>5. \A e : Contains(in, e) <=> e = m \/ Contains(in', e)
    BY <1>1, <1>2, TailHas
  <1>6. Between'
    BY <1>1, <1>2 DEF Between
  <1>7. CASE m = Msg("resp", q) /\ Resolve(q)
    <2>1. /\ pending' = pending \ {q} /\ keeps' = keeps \ {q} /\ out' = out
          /\ call' = [call EXCEPT ![q] = IF q \in pending /\ @ = "sent" THEN "ok" ELSE @]
          /\ \/ /\ q \in keeps /\ page[q]
                /\ streams' = streams \cup {q} /\ got' = [got EXCEPT ![q] = "snapshot"]
             \/ ~(q \in keeps /\ page[q]) /\ streams' = streams /\ got' = got
      BY <1>7 DEF Resolve
    <2>2. /\ call' \in [Calls -> {"idle", "waiting", "helloed", "registered", "sent", "ok", "failed"}]
          /\ \A r \in Calls \ {q} : call'[r] = call[r]
          /\ call'[q] = call[q] \/ call'[q] = "ok"
      BY <1>0, <2>1 DEF TypesOK
    <2>3. /\ got' \in [Calls -> {"nothing", "snapshot", "early"}]
          /\ \A r \in Calls \ {q} : got'[r] = got[r]
          /\ q \in keeps /\ page[q] => got'[q] = "snapshot"
          /\ ~(q \in keeps /\ page[q]) => got'[q] = got[q]
      BY <1>0, <2>1 DEF TypesOK
    <2>4. TypesOK'
      BY <1>0, <1>1, <1>2, <2>1, <2>2, <2>3 DEF TypesOK, LinkTypeOK
    <2>5. ASSUME NEW r \in Calls
          PROVE  CallInv(r)'
      <3>1. /\ Asking(r)' <=> Asking(r)
            /\ Leaving(r)' <=> Leaving(r)
            /\ Answering(r) <=> Answering(r)' \/ r = q
            /\ Printing(r)' <=> Printing(r)
        <4>1. /\ Msg("resp", r) = m <=> r = q
              /\ Msg("data", r) # m
          BY <1>7, MsgsDiffer
        <4>2. QED
          BY <1>5, <2>1, <4>1 DEF Asking, Leaving, Answering, Printing
      <3>2. AnswerFirst(r)'
        <4>1. r \in pending' => r \in pending /\ m # Msg("resp", r)
          BY <1>7, <2>1, MsgsDiffer
        <4>2. QED
          BY <1>0, <1>1, <1>2, <4>1, FirstTail
      <3>3. CASE r = q
        <4>1. Written(q) /\ Written(q)'
          BY <1>0, <2>2, <3>1, <3>3 DEF CallInv, Written
        <4>2. q \notin pending' /\ q \notin keeps' /\ (q \in keeps => q \in pending)
          BY <1>0, <2>1 DEF TypesOK, LinkTypeOK
        <4>3. CASE q \in keeps /\ page[q]
          <5>1. q \in attached /\ ~Leaving(q) /\ got'[q] = "snapshot"
            BY <1>0, <2>3, <3>1, <3>3, <4>2, <4>3 DEF CallInv
          <5>2. QED
            BY <1>1, <3>1, <3>2, <3>3, <4>1, <4>2, <5>1 DEF CallInv
        <4>4. CASE ~(q \in keeps /\ page[q])
          <5>1. streams' = streams /\ got'[q] = got[q]
            BY <2>1, <2>3, <4>4
          <5>2. QED
            BY <1>0, <1>1, <3>1, <3>2, <3>3, <4>1, <4>2, <5>1 DEF CallInv
        <4>5. QED
          BY <4>3, <4>4
      <3>4. CASE r # q
        <4>1. /\ r \in streams' <=> r \in streams
              /\ r \in pending' <=> r \in pending
              /\ r \in keeps' <=> r \in keeps
          BY <2>1, <3>4
        <4>2. QED
          BY <1>0, <1>1, <2>2, <2>3, <3>1, <3>2, <3>4, <4>1, CallKept
      <3>5. QED
        BY <3>3, <3>4
    <2>6. QED
      BY <1>6, <2>4, <2>5 DEF LinkInv
  <1>8. CASE m = Msg("data", q) /\ Relay(q)
    <2>1. UNCHANGED <<pending, keeps, call>>
      BY <1>8 DEF Relay
    <2>2. \A r \in Calls : AnswerFirst(r)'
      <3>1. \A r \in Calls : m # Msg("resp", r)
        BY <1>8, MsgsDiffer
      <3>2. QED
        BY <1>0, <1>1, <1>2, <2>1, <3>1, FirstTail
    <2>3. \A r \in Calls : /\ Answering(r)' <=> Answering(r)
                           /\ Printing(r)' => Printing(r)
      <3>1. \A r \in Calls : m # Msg("resp", r)
        BY <1>8, MsgsDiffer
      <3>2. QED
        BY <1>5, <3>1 DEF Answering, Printing
    <2>4. CASE q \in streams /\ page[q]
      <3>1. /\ UNCHANGED <<out, streams>>
            /\ got' = [got EXCEPT ![q] = IF @ = "nothing" THEN "early" ELSE @]
        BY <1>8, <2>4 DEF Relay
      <3>2. got[q] = "snapshot"
        BY <1>0, <2>4 DEF CallInv
      <3>3. got' = got
        BY <1>0, <3>1, <3>2 DEF TypesOK
      <3>4. TypesOK'
        BY <1>0, <1>1, <1>2, <2>1, <3>1, <3>3 DEF TypesOK, LinkTypeOK
      <3>5. \A r \in Calls : /\ Asking(r)' <=> Asking(r)
                             /\ Leaving(r)' <=> Leaving(r)
        BY <3>1 DEF Asking, Leaving
      <3>6. \A r \in Calls : CallInv(r)'
        BY <1>0, <1>1, <2>1, <2>2, <2>3, <3>1, <3>3, <3>5, CallKept
      <3>7. QED
        BY <1>6, <3>4, <3>6 DEF LinkInv
    <2>5. CASE ~(q \in streams /\ page[q])
      <3>1. streams' = streams \ {q} /\ out' = Detaching({q}) /\ got' = got
        BY <1>8, <2>5 DEF Relay
      <3>2. /\ out' \in Seq(OutMsgs)
            /\ \A r \in Calls : Asking(r)' <=> Asking(r)
            /\ \A r \in Calls : Leaving(r) => Leaving(r)'
            /\ \A r \in Calls : Leaving(r)' => Leaving(r) \/ r = q
        <4>1. {q} \in SUBSET Calls /\ IsFiniteSet({q})
          BY FS_Singleton
        <4>2. QED
          BY <1>0, <3>1, <4>1, DetachingMsgs
      <3>3. TypesOK'
        BY <1>0, <1>1, <1>2, <2>1, <3>1, <3>2 DEF TypesOK, LinkTypeOK
      <3>4. Written(q)
        BY <1>0, <1>5, <1>8 DEF CallInv, Printing
      <3>5. q \notin pending
        <4>1. 1 \in 1..Len(in) /\ in[1] = Msg("data", q)
          BY <1>1, <1>2, <1>8, EmptySeq, HeadTailProperties
        <4>2. ~ \E j \in 1..(1 - 1) : in[j] = Msg("resp", q)
          OBVIOUS
        <4>3. QED
          BY <1>0, <4>1, <4>2 DEF AnswerFirst
      <3>6. ASSUME NEW r \in Calls
            PROVE  CallInv(r)'
        <4>1. CASE r = q
          BY <1>0, <1>1, <2>1, <2>2, <2>3, <3>1, <3>2, <3>4, <3>5, <4>1, CallLeaves
        <4>2. CASE r # q
          BY <1>0, <1>1, <2>1, <2>2, <2>3, <3>1, <3>2, <4>2, CallLeaves
        <4>3. QED
          BY <4>1, <4>2
      <3>7. QED
        BY <1>6, <3>3, <3>6 DEF LinkInv
    <2>6. QED
      BY <2>4, <2>5
  <1>9. QED
    BY <1>4, <1>7, <1>8

LEMMA OutputStep ==
  ASSUME LinkInv, NEW q \in Calls, Output(q)
  PROVE  LinkInv'
  <1>0. TypesOK /\ Between /\ \A r \in Calls : CallInv(r) /\ AnswerFirst(r)
    BY DEF LinkInv, CallInv
  <1>1. /\ UNCHANGED <<socket, link, hello, writer, losses, wired, call, pending, keeps>>
        /\ UNCHANGED <<streams, page, got, attached, out>>
        /\ wired /\ q \in attached /\ in' = Append(in, Msg("data", q))
    BY DEF Output, plumbing, books
  <1>2. in \in Seq(InMsgs) /\ Msg("data", q) \in InMsgs
    BY <1>0 DEF TypesOK, InMsgs, Msg
  <1>3. in' \in Seq(InMsgs)
    BY <1>1, <1>2, AppendProperties
  <1>4. TypesOK'
    BY <1>0, <1>1, <1>3 DEF TypesOK, LinkTypeOK
  <1>5. Between'
    BY <1>0, <1>1 DEF Between
  <1>6. \A e : Contains(in', e) <=> Contains(in, e) \/ e = Msg("data", q)
    BY <1>1, <1>2, AppendHas
  <1>7. ASSUME NEW r \in Calls
        PROVE  CallInv(r)'
    <2>1. Msg("resp", r) # Msg("data", q) /\ (Msg("data", r) = Msg("data", q) => r = q)
      BY MsgsDiffer
    <2>2. /\ Asking(r)' <=> Asking(r)
          /\ Leaving(r)' <=> Leaving(r)
          /\ Answering(r)' <=> Answering(r)
          /\ Printing(r)' => Printing(r) \/ r \in attached
      BY <1>1, <1>6, <2>1 DEF Asking, Leaving, Answering, Printing
    <2>3. r = q /\ r \in pending => Answering(r)
      BY <1>0, <1>1 DEF CallInv
    <2>4. AnswerFirst(r)'
      BY <1>0, <1>1, <1>2, <2>1, <2>3, FirstAppend
    <2>5. QED
      BY <1>0, <1>1, <2>2, <2>4, CallKept
  <1>8. QED
    BY <1>4, <1>5, <1>7 DEF LinkInv

LEMMA DetachStep ==
  ASSUME LinkInv, NEW q \in Calls, Detach(q)
  PROVE  LinkInv'
  <1>0. TypesOK /\ Between /\ \A r \in Calls : CallInv(r) /\ AnswerFirst(r)
    BY DEF LinkInv, CallInv
  <1>1. /\ UNCHANGED <<socket, link, hello, writer, losses, wired, call, pending, keeps>>
        /\ UNCHANGED <<got, attached, in>>
        /\ call[q] \in {"sent", "ok"} /\ page' = [page EXCEPT ![q] = FALSE]
        /\ streams' = streams \ {q} /\ out' = Detaching({q})
    BY DEF Detach, plumbing
  <1>2. /\ out' \in Seq(OutMsgs)
        /\ ~wired => out' = out
        /\ \A r \in Calls : Asking(r)' <=> Asking(r)
        /\ \A r \in Calls : Leaving(r) => Leaving(r)'
        /\ \A r \in Calls : Leaving(r)' => Leaving(r) \/ r = q
    <2>1. {q} \in SUBSET Calls /\ IsFiniteSet({q})
      BY FS_Singleton
    <2>2. QED
      BY <1>0, <1>1, <2>1, DetachingMsgs
  <1>3. /\ page' \in [Calls -> BOOLEAN]
        /\ ~page'[q] /\ \A r \in Calls \ {q} : page'[r] = page[r]
    BY <1>0, <1>1 DEF TypesOK
  <1>4. TypesOK'
    BY <1>0, <1>1, <1>2, <1>3 DEF TypesOK, LinkTypeOK
  <1>5. Between'
    BY <1>0, <1>1, <1>2 DEF Between
  <1>6. ASSUME NEW r \in Calls
        PROVE  CallInv(r)'
    <2>1. /\ Answering(r)' <=> Answering(r)
          /\ Printing(r)' <=> Printing(r)
      BY <1>1 DEF Answering, Printing
    <2>2. AnswerFirst(r)'
      BY <1>0, <1>1, FirstSame
    <2>3. Written(q)
      BY <1>1 DEF Written
    <2>4. CASE r = q
      BY <1>0, <1>1, <1>2, <1>3, <2>1, <2>2, <2>3, <2>4, CallLeaves
    <2>5. CASE r # q
      BY <1>0, <1>1, <1>2, <1>3, <2>1, <2>2, <2>5, CallLeaves
    <2>6. QED
      BY <2>4, <2>5
  <1>7. QED
    BY <1>4, <1>5, <1>6 DEF LinkInv

LEMMA DropStep ==
  ASSUME IsFiniteSet(Calls), LinkInv, DropWebview
  PROVE  LinkInv'
  <1> DEFINE gone == {r \in Calls : call[r] # "idle" /\ page[r]}
  <1>0. TypesOK /\ Between /\ \A r \in Calls : CallInv(r) /\ AnswerFirst(r)
    BY DEF LinkInv, CallInv
  <1>1. /\ UNCHANGED <<socket, link, hello, writer, losses, wired, call, pending, got, attached, in>>
        /\ page' = [r \in Calls |-> page[r] /\ r \notin gone]
        /\ keeps' = keeps \ gone /\ streams' = streams \ gone
        /\ out' = Detaching(streams \cap gone)
    BY DEF DropWebview, plumbing
  <1> HIDE DEF gone
  <1>2. /\ out' \in Seq(OutMsgs)
        /\ ~wired => out' = out
        /\ \A r \in Calls : Asking(r)' <=> Asking(r)
        /\ \A r \in Calls : Leaving(r) => Leaving(r)'
        /\ \A r \in Calls : Leaving(r)' => Leaving(r) \/ r \in streams \cap gone
    <2>1. streams \cap gone \in SUBSET Calls
      BY <1>0 DEF TypesOK
    <2>2. IsFiniteSet(streams \cap gone)
      BY <2>1, FS_Subset
    <2>3. QED
      BY <1>0, <1>1, <2>1, <2>2, DetachingMsgs
  <1>3. /\ page' \in [Calls -> BOOLEAN]
        /\ \A r \in Calls : page'[r] => page[r] /\ r \notin gone
    BY <1>1
  <1>4. TypesOK'
    BY <1>0, <1>1, <1>2, <1>3 DEF TypesOK, LinkTypeOK
  <1>5. Between'
    BY <1>0, <1>1, <1>2 DEF Between
  <1>6. ASSUME NEW r \in Calls
        PROVE  CallInv(r)'
    <2>1. /\ Answering(r)' <=> Answering(r)
          /\ Printing(r)' <=> Printing(r)
      BY <1>1 DEF Answering, Printing
    <2>2. AnswerFirst(r)'
      BY <1>0, <1>1, FirstSame
    <2>3. r \in streams => Written(r)
      BY <1>0 DEF CallInv
    <2>4. Leaving(r)' => Leaving(r) \/ (Written(r) /\ ~page'[r])
      BY <1>2, <1>3, <2>3
    <2>5. QED
      BY <1>0, <1>1, <1>2, <1>3, <2>1, <2>2, <2>4, CallLeaves
  <1>7. QED
    BY <1>4, <1>5, <1>6 DEF LinkInv
-----------------------------------------------------------------------------
(* The theorems *)

LEMMA StutterStep ==
  ASSUME LinkInv, UNCHANGED linkVars
  PROVE  LinkInv'
  <1>1. /\ UNCHANGED <<socket, link, hello, writer, losses, wired, attached, out, in>>
        /\ UNCHANGED <<call, pending, keeps, streams, page, got>>
    BY DEF linkVars
  <1>2. TypesOK'
    BY <1>1 DEF LinkInv, TypesOK, LinkTypeOK
  <1>3. Between'
    BY <1>1 DEF LinkInv, Between
  <1>4. \A r \in Calls : CallInv(r)'
    BY <1>1 DEF LinkInv, CallInv, Asking, Leaving, Answering, Printing, Written, AnswerFirst
  <1>5. QED
    BY <1>2, <1>3, <1>4 DEF LinkInv

LEMMA LinkInvInit ==
  ASSUME MaxLosses \in Nat, LinkInit
  PROVE  LinkInv
  <1>1. TypesOK
    <2>1. LinkTypeOK
      BY DEF LinkInit, LinkTypeOK
    <2>2. /\ out = <<>> /\ in = <<>>
          /\ <<>> \in Seq(OutMsgs) /\ <<>> \in Seq(InMsgs)
      BY DEF LinkInit
    <2>3. QED
      BY <2>1, <2>2 DEF LinkInit, TypesOK
  <1>2. Between
    BY DEF LinkInit, Between
  <1>3. ASSUME NEW r \in Calls
        PROVE  CallInv(r)
    <2>1. ~Asking(r) /\ ~Leaving(r) /\ ~Answering(r) /\ ~Printing(r)
      BY EmptyHasNone DEF LinkInit, Asking, Leaving, Answering, Printing
    <2>2. QED
      BY <2>1 DEF LinkInit, CallInv, AnswerFirst
  <1>4. QED
    BY <1>1, <1>2, <1>3 DEF LinkInv

LEMMA LinkInvNext ==
  ASSUME MaxLosses \in Nat, IsFiniteSet(Calls), LinkInv, [LinkNext]_linkVars
  PROVE  LinkInv'
  <1>1. CASE LinkStep \/ ConnectFails \/ DaemonDies
    <2>1. TypesOK' /\ Between'
      BY <1>1, LoopShape DEF LinkInv
    <2>2. \A r \in Calls : CallInv(r)'
      BY <1>1, LoopCalls
    <2>3. QED
      BY <2>1, <2>2 DEF LinkInv
  <1>2. CASE Read
    BY <1>2, ReadStep
  <1>3. CASE DaemonServes
    BY <1>3, ServeStep
  <1>4. CASE DropWebview
    BY <1>4, DropStep
  <1>5. CASE LinkIdle \/ UNCHANGED linkVars
    BY <1>5, StutterStep DEF LinkIdle
  <1>6. ASSUME NEW r \in Calls, Wait(r) \/ CallStep(r) \/ Output(r) \/ Detach(r)
        PROVE  LinkInv'
    <2>1. CASE Wait(r) \/ Register(r) \/ GiveUp(r)
      BY <2>1, WaitStep
    <2>2. CASE Write(r)
      BY <2>2, WriteStep
    <2>3. CASE Output(r)
      BY <2>3, OutputStep
    <2>4. CASE Detach(r)
      BY <2>4, DetachStep
    <2>5. QED
      BY <1>6, <2>1, <2>2, <2>3, <2>4 DEF CallStep
  <1>7. QED
    BY <1>1, <1>2, <1>3, <1>4, <1>5, <1>6 DEF LinkNext

\* The client's tables, the messages under way and what ptyd has attached fit
\* together at every step of run(), send(), resolve() and relay()
THEOREM LinkInvariant ==
  ASSUME MaxLosses \in Nat, IsFiniteSet(Calls)
  PROVE  LinkSpec => []LinkInv
  <1>1. LinkInit => LinkInv
    BY LinkInvInit
  <1>2. LinkInv /\ [LinkNext]_linkVars => LinkInv'
    BY LinkInvNext
  <1>3. QED
    BY <1>1, <1>2, PTL DEF LinkSpec

\* Where the loop and the calls are; a whole connection is one to our build
THEOREM LinkTyped ==
  ASSUME MaxLosses \in Nat, IsFiniteSet(Calls)
  PROVE  LinkSpec => []LinkTypeOK
  <1>1. LinkInv => LinkTypeOK
    BY DEF LinkInv, TypesOK
  <1>2. QED
    BY <1>1, LinkInvariant, PTL

\* A channel gets its snapshot before any output: resolve() sends it and joins
\* the channel to the relay in one go of the reader, and the reader takes the
\* answer of an attach before the output that follows it
THEOREM SnapshotComesFirst ==
  ASSUME MaxLosses \in Nat, IsFiniteSet(Calls)
  PROVE  LinkSpec => []SnapshotFirst
  <1>1. LinkInv => SnapshotFirst
    BY DEF LinkInv, CallInv, SnapshotFirst
  <1>2. QED
    BY <1>1, LinkInvariant, PTL

\* A channel of the relay is attached in ptyd on this very connection: run()
\* empties the relay between one connection and the next
THEOREM RelayAttached ==
  ASSUME MaxLosses \in Nat, IsFiniteSet(Calls)
  PROVE  LinkSpec => []RelayIsAttached
  <1>1. LinkInv => RelayIsAttached
    <2>1. LinkInv => streams \subseteq Calls
      BY DEF LinkInv, TypesOK
    <2>2. QED
      BY <2>1 DEF LinkInv, CallInv, RelayIsAttached
  <1>2. QED
    BY <1>1, LinkInvariant, PTL

\* An entry nobody waits for any more still has its answer coming (send()
\* leaves it there when it times out)
THEOREM PendingAnswered ==
  ASSUME MaxLosses \in Nat, IsFiniteSet(Calls)
  PROVE  LinkSpec => []NoDeadPending
  <1>1. LinkInv => NoDeadPending
    <2>1. LinkInv => pending \subseteq Calls
      BY DEF LinkInv, TypesOK, LinkTypeOK
    <2>2. QED
      BY <2>1 DEF LinkInv, CallInv, NoDeadPending, Asking, Answering
  <1>2. QED
    BY <1>1, LinkInvariant, PTL

-----------------------------------------------------------------------------
(* Keep awake and the tray                                                 *)

CONSTANTS Watchers, Savers, MaxChanges, AwakeFails, Crashing, ChangesRace
VARIABLES settings, awake_agent, watch, save, inner, awake_told, tray, lid_stays_on, app, changes, awake_fails

Wake == INSTANCE Awake WITH MaxFails <- AwakeFails, Racing <- ChangesRace, agent <- awake_agent,
                            told <- awake_told, fails <- awake_fails

Shown == [on : BOOLEAN, active : BOOLEAN]
Settings == [mode : Wake!Modes, lid_closed : BOOLEAN]
WatchRecords == [at : {"idle", "list", "load", "apply", "emit", "tray"}, running : BOOLEAN, needs : BOOLEAN,
                 saved : Settings, news : Shown]
SaveRecords == [at : {"idle", "saved", "emit"}, saved : Settings, news : Shown]
Inners == [agents_running : BOOLEAN, hold : BOOLEAN, lid_sleep_off : BOOLEAN, last : Shown]

AwakeTypes ==
  /\ settings \in Settings /\ awake_agent \in {"idle", "running", "needs"}
  /\ watch \in [Watchers -> WatchRecords] /\ save \in [Savers -> SaveRecords]
  /\ inner \in Inners /\ awake_fails \in Nat /\ lid_stays_on \in BOOLEAN /\ tray \in BOOLEAN
  /\ app \in {"up", "restored", "down"}

\* While changes do not overlap one reader of a change works, and only in an app that is up
OneInv ==
  /\ \A v, w \in Watchers : watch[v].at # "idle" /\ watch[w].at # "idle" => v = w
  /\ \A s, t \in Savers : save[s].at # "idle" /\ save[t].at # "idle" => s = t
  /\ \A w \in Watchers, s \in Savers : watch[w].at = "idle" \/ save[s].at = "idle"
  /\ app # "up" => Wake!Idle

\* The hold and the state that goes out are those of the settings and of the runs last heard of
Applied ==
  /\ inner.last = [on |-> settings.mode # "off", active |-> inner.hold]
  /\ inner.hold => Wake!wanted(settings, inner.agents_running)
  /\ awake_fails = 0 /\ Wake!wanted(settings, inner.agents_running) => inner.hold

\* What a reader holds is still so
WatchTrue(r) ==
  /\ r.at \in {"load", "apply"} => (r.running <=> awake_agent = "running")
  /\ r.at = "apply" => r.saved = settings
  /\ r.at = "emit" => r.news = inner.last
  /\ r.at \in {"load", "apply", "emit", "tray"} => (r.needs <=> awake_agent = "needs")
SaveTrue(r) ==
  /\ r.at = "saved" => r.saved = settings
  /\ r.at = "emit" => r.news = inner.last

\* What is not right yet is what a reader under way will put right
OwedInv ==
  app = "up" =>
    /\ \A w \in Watchers : WatchTrue(watch[w])
    /\ \A s \in Savers : SaveTrue(save[s])
    /\ (\A s \in Savers : save[s].at # "saved") => Applied
    /\ (\A w \in Watchers : watch[w].at \notin {"list", "load", "apply"})
       => (inner.agents_running <=> awake_agent = "running")
    /\ (\A w \in Watchers : watch[w].at # "emit") /\ (\A s \in Savers : save[s].at # "emit")
       => awake_told = inner.last
    /\ (\A w \in Watchers : watch[w].at = "idle") => (tray <=> awake_agent = "needs")

AwakeInv == AwakeTypes /\ OneInv /\ OwedInv

\* What apply leaves, whatever is refused
LEMMA ApplyIs ==
  ASSUME AwakeTypes, NEW saved \in Settings, NEW running \in BOOLEAN, Wake!apply(saved, running)
  PROVE  /\ inner' \in Inners /\ awake_fails' \in Nat /\ lid_stays_on' \in BOOLEAN
         /\ inner'.agents_running = running
         /\ inner'.last = [on |-> saved.mode # "off", active |-> inner'.hold]
         /\ inner'.hold => Wake!wanted(saved, running)
         /\ awake_fails' = 0 /\ Wake!wanted(saved, running) => inner'.hold
         /\ awake_fails' = 0 => awake_fails = 0
         /\ awake_fails' = 0 => (lid_stays_on' <=> IF inner'.lid_sleep_off <=> inner.lid_sleep_off
                                                    THEN lid_stays_on ELSE inner'.lid_sleep_off)
         /\ awake_fails' = 0 /\ ~saved.lid_closed => ~inner'.lid_sleep_off
  <1> DEFINE want == Wake!wanted(saved, running)
             lid_off == saved.lid_closed /\ (want \/ inner.lid_sleep_off)
  <1>1. PICK no_hold \in BOOLEAN, no_lid \in BOOLEAN :
          LET hold == want /\ (inner.hold \/ ~no_hold)
          IN /\ awake_fails' = awake_fails + (IF no_hold \/ no_lid THEN 1 ELSE 0)
             /\ inner' = [agents_running |-> running, hold |-> hold,
                          last |-> [on |-> saved.mode # "off", active |-> hold],
                          lid_sleep_off |-> IF no_lid THEN inner.lid_sleep_off ELSE lid_off]
             /\ lid_stays_on' = IF ~no_lid /\ lid_off # inner.lid_sleep_off THEN lid_off ELSE lid_stays_on
    BY DEF Wake!apply
  <1>2. want \in BOOLEAN /\ lid_off \in BOOLEAN /\ (~saved.lid_closed => ~lid_off)
    BY DEF Wake!wanted
  <1>3. /\ inner.lid_sleep_off \in BOOLEAN /\ lid_stays_on \in BOOLEAN /\ awake_fails \in Nat
        /\ inner.hold \in BOOLEAN
    BY DEF AwakeTypes, Inners
  <1> DEFINE hold == want /\ (inner.hold \/ ~no_hold)
             is_on == saved.mode # "off"
             lid == IF no_lid THEN inner.lid_sleep_off ELSE lid_off
  <1>4. hold \in BOOLEAN /\ is_on \in BOOLEAN
    OBVIOUS
  <1>5. lid \in BOOLEAN
    BY <1>2, <1>3
  <1>6. /\ hold => want /\ (~no_hold /\ want => hold)
        /\ ~no_lid => (lid <=> lid_off)
    BY <1>2
  <1>7. /\ inner' = [agents_running |-> running, hold |-> hold, last |-> [on |-> is_on, active |-> hold],
                     lid_sleep_off |-> lid]
        /\ awake_fails' = awake_fails + (IF no_hold \/ no_lid THEN 1 ELSE 0)
        /\ lid_stays_on' = IF ~no_lid /\ lid_off # inner.lid_sleep_off THEN lid_off ELSE lid_stays_on
    BY <1>1
  <1>8. ~no_hold /\ want => hold
    OBVIOUS
  <1>9. hold => want
    OBVIOUS
  <1> HIDE DEF want, lid_off, hold, lid
  <1>10. /\ inner' \in Inners /\ inner'.agents_running = running
         /\ inner'.last = [on |-> is_on, active |-> inner'.hold] /\ inner'.hold = hold /\ inner'.lid_sleep_off = lid
    <2> HIDE DEF is_on
    <2>1. QED
      BY <1>4, <1>5, <1>7 DEF Inners, Shown
  <1>11. /\ awake_fails' \in Nat
         /\ awake_fails' = 0 => awake_fails = 0 /\ ~no_hold /\ ~no_lid
    BY <1>3, <1>7
  <1>12. lid_stays_on' \in BOOLEAN
    BY <1>2, <1>3, <1>7
  <1>13. ~no_lid => (lid_stays_on' <=> IF lid <=> inner.lid_sleep_off THEN lid_stays_on ELSE lid)
    BY <1>2, <1>3, <1>5, <1>6, <1>7
  <1>14. awake_fails' = 0 => (lid_stays_on' <=> IF inner'.lid_sleep_off <=> inner.lid_sleep_off
                                                 THEN lid_stays_on ELSE inner'.lid_sleep_off)
    BY <1>10, <1>11, <1>13
  <1>15. awake_fails' = 0 /\ ~saved.lid_closed => ~inner'.lid_sleep_off
    BY <1>2, <1>6, <1>10, <1>11
  <1>16. (inner'.hold => want) /\ (awake_fails' = 0 /\ want => inner'.hold)
    BY <1>8, <1>9, <1>10, <1>11
  <1>17. QED
    BY <1>10, <1>11, <1>12, <1>14, <1>15, <1>16 DEF want, is_on

\* One watcher's record changes while nothing else is being applied
LEMMA WatchIs ==
  ASSUME AwakeTypes, OneInv, NEW w \in Watchers, watch[w].at # "idle" \/ Wake!Idle, NEW r \in WatchRecords,
         watch' = [watch EXCEPT ![w] = r], save' = save, app' = "up"
  PROVE  /\ watch' \in [Watchers -> WatchRecords] /\ save' \in [Savers -> SaveRecords]
         /\ watch'[w] = r /\ OneInv'
         /\ \A v \in Watchers : v # w => watch'[v] = watch[v] /\ watch[v].at = "idle"
         /\ \A s \in Savers : save[s].at = "idle"
  <1>1. /\ watch' \in [Watchers -> WatchRecords] /\ save' \in [Savers -> SaveRecords] /\ watch'[w] = r
        /\ \A v \in Watchers : v # w => watch'[v] = watch[v]
    BY DEF AwakeTypes
  <1>2. /\ \A v \in Watchers : v # w => watch[v].at = "idle"
        /\ \A s \in Savers : save[s].at = "idle"
    BY DEF OneInv, Wake!Idle
  <1>3. OneInv'
    BY <1>1, <1>2 DEF OneInv
  <1>4. QED
    BY <1>1, <1>2, <1>3

LEMMA SaveIs ==
  ASSUME AwakeTypes, OneInv, NEW s \in Savers, save[s].at # "idle" \/ Wake!Idle, NEW r \in SaveRecords,
         save' = [save EXCEPT ![s] = r], watch' = watch, app' = "up"
  PROVE  /\ save' \in [Savers -> SaveRecords] /\ watch' \in [Watchers -> WatchRecords]
         /\ save'[s] = r /\ OneInv'
         /\ \A t \in Savers : t # s => save'[t] = save[t] /\ save[t].at = "idle"
         /\ \A w \in Watchers : watch[w].at = "idle"
  <1>1. /\ save' \in [Savers -> SaveRecords] /\ watch' \in [Watchers -> WatchRecords] /\ save'[s] = r
        /\ \A t \in Savers : t # s => save'[t] = save[t]
    BY DEF AwakeTypes
  <1>2. /\ \A t \in Savers : t # s => save[t].at = "idle"
        /\ \A w \in Watchers : watch[w].at = "idle"
    BY DEF OneInv, Wake!Idle
  <1>3. OneInv'
    BY <1>1, <1>2 DEF OneInv
  <1>4. QED
    BY <1>1, <1>2, <1>3

\* What the watcher at work leaves to be done, when no saver works
LEMMA WatchOwed ==
  ASSUME NEW w \in Watchers, \A v \in Watchers : v # w => watch'[v].at = "idle",
         \A s \in Savers : save'[s].at = "idle", WatchTrue(watch[w])', Applied',
         watch'[w].at \notin {"list", "load", "apply"} => (inner'.agents_running <=> awake_agent' = "running"),
         watch'[w].at # "emit" => awake_told' = inner'.last,
         watch'[w].at = "idle" => (tray' <=> awake_agent' = "needs")
  PROVE  OwedInv'
  <1>1. \A v \in Watchers : WatchTrue(watch[v])'
    BY DEF WatchTrue
  <1>2. \A s \in Savers : SaveTrue(save[s])'
    BY DEF SaveTrue
  <1>3. QED
    BY <1>1, <1>2 DEF OwedInv, WatchTrue, SaveTrue

\* What the saver at work leaves to be done, when no watcher works
LEMMA SaveOwed ==
  ASSUME NEW s \in Savers, \A t \in Savers : t # s => save'[t].at = "idle",
         \A w \in Watchers : watch'[w].at = "idle", SaveTrue(save[s])',
         save'[s].at # "saved" => Applied', inner'.agents_running <=> awake_agent' = "running",
         save'[s].at # "emit" => awake_told' = inner'.last, tray' <=> awake_agent' = "needs"
  PROVE  OwedInv'
  <1>1. \A w \in Watchers : WatchTrue(watch[w])'
    BY DEF WatchTrue
  <1>2. \A t \in Savers : SaveTrue(save[t])'
    BY DEF SaveTrue
  <1>3. QED
    BY <1>1, <1>2 DEF OwedInv, WatchTrue, SaveTrue

LEMMA NoWatchIs ==
  /\ Wake!NoWatch \in WatchRecords /\ Wake!NoWatch.at = "idle"
  /\ Wake!NoSave \in SaveRecords /\ Wake!NoSave.at = "idle"
  /\ Wake!NoInner \in Inners /\ ~Wake!NoInner.lid_sleep_off
  BY DEF Wake!NoWatch, Wake!NoSave, Wake!NoInner, Wake!AnyOf, WatchRecords, SaveRecords, Inners, Shown, Settings,
         Wake!Modes

LEMMA ListsIs ==
  ASSUME NEW r, r = [Wake!NoWatch EXCEPT !.at = "list"]
  PROVE  r \in WatchRecords /\ r.at = "list"
  BY NoWatchIs DEF WatchRecords

\* A watcher at work is alone
LEMMA WatcherAlone ==
  ASSUME AwakeInv, NEW w \in Watchers, watch[w].at # "idle"
  PROVE  /\ app = "up" /\ WatchTrue(watch[w]) /\ Applied /\ watch[w] \in WatchRecords
         /\ watch[w].at \notin {"list", "load", "apply"} => (inner.agents_running <=> awake_agent = "running")
         /\ watch[w].at # "emit" => awake_told = inner.last
  <1>1. /\ \A v \in Watchers : v # w => watch[v].at = "idle"
        /\ \A s \in Savers : save[s].at = "idle"
        /\ app = "up"
    BY DEF AwakeInv, OneInv, Wake!Idle
  <1>2. watch[w] \in WatchRecords
    BY DEF AwakeInv, AwakeTypes
  <1>3. QED
    BY <1>1, <1>2 DEF AwakeInv, OwedInv

LEMMA SaverAlone ==
  ASSUME AwakeInv, NEW s \in Savers, save[s].at # "idle"
  PROVE  /\ app = "up" /\ SaveTrue(save[s]) /\ save[s] \in SaveRecords
         /\ save[s].at # "saved" => Applied
         /\ inner.agents_running <=> awake_agent = "running"
         /\ save[s].at # "emit" => awake_told = inner.last
         /\ tray <=> awake_agent = "needs"
  <1>1. /\ \A t \in Savers : t # s => save[t].at = "idle"
        /\ \A w \in Watchers : watch[w].at = "idle"
        /\ app = "up"
    BY DEF AwakeInv, OneInv, Wake!Idle
  <1>2. save[s] \in SaveRecords
    BY DEF AwakeInv, AwakeTypes
  <1>3. QED
    BY <1>1, <1>2 DEF AwakeInv, OwedInv

\* Nothing is under way: all is told
LEMMA NothingOwed ==
  ASSUME AwakeInv, app = "up", Wake!Idle
  PROVE  /\ Applied /\ (inner.agents_running <=> awake_agent = "running") /\ awake_told = inner.last
         /\ tray <=> awake_agent = "needs"
  BY DEF AwakeInv, OwedInv, Wake!Idle

LEMMA AgentMovesKept ==
  ASSUME ~ChangesRace, AwakeInv, NEW w \in Watchers, Wake!AgentMoves(w)
  PROVE  AwakeInv'
  <1> DEFINE r == [Wake!NoWatch EXCEPT !.at = "list"]
  <1>1. /\ app = "up" /\ Wake!Idle /\ awake_agent' \in {"idle", "running", "needs"}
        /\ watch' = [watch EXCEPT ![w] = r]
        /\ UNCHANGED <<settings, save, inner, awake_told, tray, lid_stays_on, app, awake_fails>>
    BY DEF Wake!AgentMoves, Wake!Calm, Wake!StartWatch
  <1>2. r \in WatchRecords /\ r.at = "list"
    BY ListsIs
  <1> HIDE DEF r
  <1>3. AwakeTypes /\ OneInv /\ Applied /\ awake_told = inner.last
    BY <1>1, NothingOwed DEF AwakeInv
  <1>4. /\ watch' \in [Watchers -> WatchRecords] /\ save' \in [Savers -> SaveRecords]
        /\ watch'[w] = r /\ OneInv'
        /\ \A v \in Watchers : v # w => watch'[v] = watch[v] /\ watch[v].at = "idle"
        /\ \A s \in Savers : save[s].at = "idle"
    BY <1>1, <1>2, <1>3, WatchIs
  <1>5. AwakeTypes'
    BY <1>1, <1>3, <1>4 DEF AwakeTypes
  <1>6. Applied' /\ WatchTrue(watch[w])'
    BY <1>1, <1>2, <1>3, <1>4 DEF Applied, WatchTrue
  <1>7. OwedInv'
    BY <1>1, <1>2, <1>3, <1>4, <1>6, WatchOwed
  <1>8. QED
    BY <1>4, <1>5, <1>7 DEF AwakeInv

LEMMA WatchListsKept ==
  ASSUME AwakeInv, NEW w \in Watchers, Wake!WatchLists(w)
  PROVE  AwakeInv'
  <1> DEFINE runs == awake_agent = "running"
             needed == awake_agent = "needs"
             o == watch[w]
             a == [o EXCEPT !.at = "load"]
             b == [a EXCEPT !.running = runs]
             r == [b EXCEPT !.needs = needed]
  <1>1. /\ watch[w].at = "list" /\ AwakeTypes /\ OneInv
        /\ UNCHANGED <<settings, awake_agent, save, inner, awake_told, tray, lid_stays_on, app, awake_fails>>
    BY DEF Wake!WatchLists, AwakeInv
  <1>2. /\ app = "up" /\ Applied /\ o \in WatchRecords /\ awake_told = inner.last
    BY <1>1, WatcherAlone
  <1>3. watch' = [watch EXCEPT ![w] = r]
    BY <1>1 DEF Wake!WatchLists, AwakeTypes
  <1>4. runs \in BOOLEAN /\ needed \in BOOLEAN
    OBVIOUS
  <1> HIDE DEF o
  <1>5. a \in WatchRecords /\ a.at = "load"
    BY <1>2 DEF WatchRecords
  <1>6. b \in WatchRecords /\ b.at = "load" /\ b.running = runs
    <2> HIDE DEF a, runs
    <2>1. QED
      BY <1>4, <1>5 DEF WatchRecords
  <1>7. r \in WatchRecords /\ r.at = "load" /\ r.running = runs /\ r.needs = needed
    <2> HIDE DEF b, runs, needed
    <2>1. QED
      BY <1>4, <1>6 DEF WatchRecords
  <1> HIDE DEF r
  <1>8. /\ watch' \in [Watchers -> WatchRecords] /\ save' \in [Savers -> SaveRecords]
        /\ watch'[w] = r /\ OneInv'
        /\ \A v \in Watchers : v # w => watch'[v] = watch[v] /\ watch[v].at = "idle"
        /\ \A s \in Savers : save[s].at = "idle"
    BY <1>1, <1>2, <1>3, <1>7, WatchIs
  <1>9. AwakeTypes'
    BY <1>1, <1>8 DEF AwakeTypes
  <1>10. Applied' /\ WatchTrue(watch[w])'
    BY <1>1, <1>2, <1>7, <1>8 DEF Applied, WatchTrue
  <1>11. OwedInv'
    BY <1>1, <1>2, <1>7, <1>8, <1>10, WatchOwed
  <1>12. QED
    BY <1>8, <1>9, <1>11 DEF AwakeInv

LEMMA WatchLoadsKept ==
  ASSUME AwakeInv, NEW w \in Watchers, Wake!WatchLoads(w)
  PROVE  AwakeInv'
  <1> DEFINE o == watch[w]
             a == [o EXCEPT !.at = "apply"]
             r == [a EXCEPT !.saved = settings]
  <1>1. /\ watch[w].at = "load" /\ AwakeTypes /\ OneInv
        /\ UNCHANGED <<settings, awake_agent, save, inner, awake_told, tray, lid_stays_on, app, awake_fails>>
    BY DEF Wake!WatchLoads, AwakeInv
  <1>2. /\ app = "up" /\ Applied /\ o \in WatchRecords /\ awake_told = inner.last /\ WatchTrue(o)
    BY <1>1, WatcherAlone
  <1>3. watch' = [watch EXCEPT ![w] = r] /\ settings \in Settings /\ o.at = "load"
    BY <1>1 DEF Wake!WatchLoads, AwakeTypes
  <1> HIDE DEF o
  <1>5. a \in WatchRecords /\ a.at = "apply" /\ a.running = o.running /\ a.needs = o.needs
    BY <1>2 DEF WatchRecords
  <1>6. /\ r \in WatchRecords /\ r.at = "apply" /\ r.running = o.running /\ r.needs = o.needs
        /\ r.saved = settings
    <2> HIDE DEF a
    <2>1. QED
      BY <1>3, <1>5 DEF WatchRecords
  <1> HIDE DEF r
  <1>8. /\ watch' \in [Watchers -> WatchRecords] /\ save' \in [Savers -> SaveRecords]
        /\ watch'[w] = r /\ OneInv'
        /\ \A v \in Watchers : v # w => watch'[v] = watch[v] /\ watch[v].at = "idle"
        /\ \A s \in Savers : save[s].at = "idle"
    BY <1>1, <1>2, <1>3, <1>6, WatchIs
  <1>9. AwakeTypes'
    BY <1>1, <1>8 DEF AwakeTypes
  <1>10. Applied' /\ WatchTrue(watch[w])'
    BY <1>1, <1>2, <1>3, <1>6, <1>8 DEF Applied, WatchTrue
  <1>11. OwedInv'
    BY <1>1, <1>2, <1>6, <1>8, <1>10, WatchOwed
  <1>12. QED
    BY <1>8, <1>9, <1>11 DEF AwakeInv

LEMMA WatchAppliesKept ==
  ASSUME AwakeInv, NEW w \in Watchers, Wake!WatchApplies(w)
  PROVE  AwakeInv'
  <1> DEFINE o == watch[w]
             at == IF inner'.last # inner.last THEN "emit" ELSE "tray"
             a == [o EXCEPT !.at = at]
             r == [a EXCEPT !.news = inner'.last]
  <1>1. /\ watch[w].at = "apply" /\ AwakeTypes /\ OneInv /\ Wake!apply(o.saved, o.running)
        /\ UNCHANGED <<settings, awake_agent, save, awake_told, tray, app>>
    BY DEF Wake!WatchApplies, AwakeInv
  <1>2. /\ app = "up" /\ o \in WatchRecords /\ awake_told = inner.last /\ WatchTrue(o)
    BY <1>1, WatcherAlone
  <1>3. watch' = [watch EXCEPT ![w] = r] /\ settings \in Settings /\ o.at = "apply"
    BY <1>1 DEF Wake!WatchApplies, AwakeTypes
  <1> HIDE DEF o
  <1>4. /\ o.saved = settings /\ o.running \in BOOLEAN /\ (o.running <=> awake_agent = "running")
        /\ (o.needs <=> awake_agent = "needs")
    BY <1>2, <1>3 DEF WatchTrue, WatchRecords
  <1>5. Wake!apply(settings, o.running)
    BY <1>1, <1>4
  <1>6. /\ inner' \in Inners /\ awake_fails' \in Nat /\ lid_stays_on' \in BOOLEAN
        /\ inner'.agents_running = o.running
        /\ inner'.last = [on |-> settings.mode # "off", active |-> inner'.hold]
        /\ inner'.hold => Wake!wanted(settings, o.running)
        /\ awake_fails' = 0 /\ Wake!wanted(settings, o.running) => inner'.hold
    BY <1>1, <1>3, <1>4, <1>5, ApplyIs
  <1>7. Applied'
    <2>1. Wake!wanted(settings, inner.agents_running)' <=> Wake!wanted(settings, o.running)
      BY <1>1, <1>6 DEF Wake!wanted
    <2>2. QED
      BY <1>1, <1>6, <2>1 DEF Applied
  <1>8. inner'.last \in Shown /\ at \in {"emit", "tray"} /\ (at # "emit" => inner'.last = inner.last)
    BY <1>6 DEF Inners
  <1> HIDE DEF at
  <1>9. a \in WatchRecords /\ a.at = at /\ a.needs = o.needs
    BY <1>2, <1>8 DEF WatchRecords
  <1>10. r \in WatchRecords /\ r.at = at /\ r.needs = o.needs /\ r.news = inner'.last
    <2> DEFINE news == inner'.last
    <2> HIDE DEF a, news
    <2>1. QED
      BY <1>8, <1>9 DEF WatchRecords, news
  <1> HIDE DEF r
  <1>11. /\ watch' \in [Watchers -> WatchRecords] /\ save' \in [Savers -> SaveRecords]
         /\ watch'[w] = r /\ OneInv'
         /\ \A v \in Watchers : v # w => watch'[v] = watch[v] /\ watch[v].at = "idle"
         /\ \A s \in Savers : save[s].at = "idle"
    BY <1>1, <1>2, <1>3, <1>10, WatchIs DEF o
  <1>12. AwakeTypes'
    BY <1>1, <1>6, <1>11 DEF AwakeTypes
  <1>13. WatchTrue(watch[w])'
    BY <1>1, <1>4, <1>8, <1>10, <1>11 DEF WatchTrue
  <1>14. inner'.agents_running <=> awake_agent' = "running"
    BY <1>1, <1>4, <1>6
  <1>15. OwedInv'
    BY <1>1, <1>2, <1>7, <1>8, <1>10, <1>11, <1>13, <1>14, WatchOwed
  <1>16. QED
    BY <1>11, <1>12, <1>15 DEF AwakeInv

LEMMA WatchEmitsKept ==
  ASSUME AwakeInv, NEW w \in Watchers, Wake!WatchEmits(w)
  PROVE  AwakeInv'
  <1> DEFINE o == watch[w]
             r == [o EXCEPT !.at = "tray"]
  <1>1. /\ watch[w].at = "emit" /\ AwakeTypes /\ OneInv /\ awake_told' = o.news
        /\ UNCHANGED <<settings, awake_agent, save, inner, tray, lid_stays_on, app, awake_fails>>
    BY DEF Wake!WatchEmits, AwakeInv
  <1>2. /\ app = "up" /\ Applied /\ o \in WatchRecords /\ WatchTrue(o)
        /\ (inner.agents_running <=> awake_agent = "running")
    BY <1>1, WatcherAlone
  <1>3. watch' = [watch EXCEPT ![w] = r] /\ o.at = "emit"
    BY <1>1 DEF Wake!WatchEmits, AwakeTypes
  <1> HIDE DEF o
  <1>6. r \in WatchRecords /\ r.at = "tray" /\ r.needs = o.needs
    BY <1>2 DEF WatchRecords
  <1> HIDE DEF r
  <1>8. /\ watch' \in [Watchers -> WatchRecords] /\ save' \in [Savers -> SaveRecords]
        /\ watch'[w] = r /\ OneInv'
        /\ \A v \in Watchers : v # w => watch'[v] = watch[v] /\ watch[v].at = "idle"
        /\ \A s \in Savers : save[s].at = "idle"
    BY <1>1, <1>2, <1>3, <1>6, WatchIs
  <1>9. AwakeTypes'
    BY <1>1, <1>8 DEF AwakeTypes
  <1>10. Applied' /\ WatchTrue(watch[w])' /\ awake_told' = inner'.last
    BY <1>1, <1>2, <1>3, <1>6, <1>8 DEF Applied, WatchTrue
  <1>11. OwedInv'
    BY <1>1, <1>2, <1>6, <1>8, <1>10, WatchOwed
  <1>12. QED
    BY <1>8, <1>9, <1>11 DEF AwakeInv

LEMMA WatchRendersKept ==
  ASSUME AwakeInv, NEW w \in Watchers, Wake!WatchRenders(w)
  PROVE  AwakeInv'
  <1> DEFINE r == Wake!NoWatch
  <1>1. /\ watch[w].at = "tray" /\ AwakeTypes /\ OneInv /\ tray' = watch[w].needs
        /\ watch' = [watch EXCEPT ![w] = r]
        /\ UNCHANGED <<settings, awake_agent, save, inner, awake_told, lid_stays_on, app, awake_fails>>
    BY DEF Wake!WatchRenders, AwakeInv
  <1>2. /\ app = "up" /\ Applied /\ WatchTrue(watch[w]) /\ awake_told = inner.last
        /\ (inner.agents_running <=> awake_agent = "running")
    BY <1>1, WatcherAlone
  <1>3. r \in WatchRecords /\ r.at = "idle"
    BY NoWatchIs
  <1> HIDE DEF r
  <1>8. /\ watch' \in [Watchers -> WatchRecords] /\ save' \in [Savers -> SaveRecords]
        /\ watch'[w] = r /\ OneInv'
        /\ \A v \in Watchers : v # w => watch'[v] = watch[v] /\ watch[v].at = "idle"
        /\ \A s \in Savers : save[s].at = "idle"
    BY <1>1, <1>2, <1>3, WatchIs
  <1>9. AwakeTypes'
    <2>1. watch[w].needs \in BOOLEAN
      BY <1>1 DEF AwakeTypes, WatchRecords
    <2>2. QED
      BY <1>1, <1>8, <2>1 DEF AwakeTypes
  <1>10. Applied' /\ WatchTrue(watch[w])' /\ (tray' <=> awake_agent' = "needs")
    BY <1>1, <1>2, <1>3, <1>8 DEF Applied, WatchTrue
  <1>11. OwedInv'
    BY <1>1, <1>2, <1>3, <1>8, <1>10, WatchOwed
  <1>12. QED
    BY <1>8, <1>9, <1>11 DEF AwakeInv

LEMMA SaveSettingsKept ==
  ASSUME ~ChangesRace, AwakeInv, NEW s \in Savers, Wake!SaveSettings(s)
  PROVE  AwakeInv'
  <1>1. PICK v \in Settings : /\ settings' = v
                              /\ save' = [save EXCEPT ![s] = [Wake!NoSave EXCEPT !.at = "saved", !.saved = v]]
    BY DEF Wake!SaveSettings, Settings
  <1> DEFINE a == [Wake!NoSave EXCEPT !.at = "saved"]
             r == [a EXCEPT !.saved = v]
  <1>2. /\ app = "up" /\ Wake!Idle /\ save' = [save EXCEPT ![s] = r]
        /\ UNCHANGED <<awake_agent, watch, inner, awake_told, tray, lid_stays_on, app, awake_fails>>
    BY <1>1 DEF Wake!SaveSettings, Wake!Calm
  <1>3. a \in SaveRecords /\ a.at = "saved"
    BY NoWatchIs DEF SaveRecords
  <1>4. r \in SaveRecords /\ r.at = "saved" /\ r.saved = v
    <2> HIDE DEF a
    <2>1. QED
      BY <1>3 DEF SaveRecords
  <1> HIDE DEF r
  <1>5. /\ AwakeTypes /\ OneInv /\ awake_told = inner.last /\ (inner.agents_running <=> awake_agent = "running")
        /\ (tray <=> awake_agent = "needs")
    BY <1>2, NothingOwed DEF AwakeInv
  <1>6. /\ save' \in [Savers -> SaveRecords] /\ watch' \in [Watchers -> WatchRecords]
        /\ save'[s] = r /\ OneInv'
        /\ \A t \in Savers : t # s => save'[t] = save[t] /\ save[t].at = "idle"
        /\ \A w \in Watchers : watch[w].at = "idle"
    BY <1>2, <1>4, <1>5, SaveIs
  <1>7. AwakeTypes'
    BY <1>1, <1>2, <1>5, <1>6 DEF AwakeTypes
  <1>8. SaveTrue(save[s])'
    BY <1>1, <1>4, <1>6 DEF SaveTrue
  <1>9. OwedInv'
    BY <1>2, <1>4, <1>5, <1>6, <1>8, SaveOwed
  <1>10. QED
    BY <1>6, <1>7, <1>9 DEF AwakeInv

LEMMA SaveAppliesKept ==
  ASSUME AwakeInv, NEW s \in Savers, Wake!SaveApplies(s)
  PROVE  AwakeInv'
  <1> DEFINE o == save[s]
             runs == inner.agents_running
             news == inner'.last
             a == [Wake!NoSave EXCEPT !.at = "emit"]
             b == [a EXCEPT !.news = news]
             r == IF inner'.last # inner.last THEN b ELSE Wake!NoSave
  <1>1. /\ save[s].at = "saved" /\ AwakeTypes /\ OneInv /\ Wake!apply(o.saved, runs)
        /\ UNCHANGED <<settings, awake_agent, watch, awake_told, tray, app>>
    BY DEF Wake!SaveApplies, AwakeInv
  <1>2. /\ app = "up" /\ o \in SaveRecords /\ awake_told = inner.last /\ SaveTrue(o)
        /\ (runs <=> awake_agent = "running") /\ (tray <=> awake_agent = "needs")
    BY <1>1, SaverAlone
  <1>3. save' = [save EXCEPT ![s] = r]
    BY DEF Wake!SaveApplies
  <1>4. o.saved = settings /\ settings \in Settings /\ runs \in BOOLEAN
    BY <1>1, <1>2 DEF SaveTrue, AwakeTypes, Inners
  <1>5. Wake!apply(settings, runs)
    BY <1>1, <1>4
  <1> HIDE DEF runs
  <1>6. /\ inner' \in Inners /\ awake_fails' \in Nat /\ lid_stays_on' \in BOOLEAN
        /\ inner'.agents_running = runs
        /\ inner'.last = [on |-> settings.mode # "off", active |-> inner'.hold]
        /\ inner'.hold => Wake!wanted(settings, runs)
        /\ awake_fails' = 0 /\ Wake!wanted(settings, runs) => inner'.hold
    BY <1>1, <1>4, <1>5, ApplyIs
  <1>7. Applied'
    <2>1. Wake!wanted(settings, inner.agents_running)' <=> Wake!wanted(settings, runs)
      BY <1>1, <1>6 DEF Wake!wanted
    <2>2. QED
      BY <1>1, <1>6, <2>1 DEF Applied
  <1>8. news \in Shown
    BY <1>6 DEF Inners
  <1> HIDE DEF news
  <1>9. a \in SaveRecords /\ a.at = "emit"
    BY NoWatchIs DEF SaveRecords
  <1>10. b \in SaveRecords /\ b.at = "emit" /\ b.news = news
    <2> HIDE DEF a
    <2>1. QED
      BY <1>8, <1>9 DEF SaveRecords
  <1> HIDE DEF b
  <1>11. /\ r \in SaveRecords /\ r.at \in {"emit", "idle"} /\ (r.at = "emit" => r.news = inner'.last)
         /\ (r.at # "emit" => inner'.last = inner.last)
    <2>1. CASE inner'.last # inner.last
      BY <1>10, <2>1 DEF news
    <2>2. CASE inner'.last = inner.last
      BY <2>2, NoWatchIs
    <2>3. QED
      BY <2>1, <2>2
  <1> HIDE DEF r
  <1>12. /\ save' \in [Savers -> SaveRecords] /\ watch' \in [Watchers -> WatchRecords]
         /\ save'[s] = r /\ OneInv'
         /\ \A t \in Savers : t # s => save'[t] = save[t] /\ save[t].at = "idle"
         /\ \A w \in Watchers : watch[w].at = "idle"
    BY <1>1, <1>2, <1>3, <1>11, SaveIs
  <1>13. AwakeTypes'
    BY <1>1, <1>6, <1>12 DEF AwakeTypes
  <1>14. SaveTrue(save[s])'
    BY <1>11, <1>12 DEF SaveTrue
  <1>15. (inner'.agents_running <=> awake_agent' = "running") /\ (tray' <=> awake_agent' = "needs")
    BY <1>1, <1>2, <1>6
  <1>16. OwedInv'
    BY <1>1, <1>2, <1>7, <1>11, <1>12, <1>14, <1>15, SaveOwed
  <1>17. QED
    BY <1>12, <1>13, <1>16 DEF AwakeInv

LEMMA SaveEmitsKept ==
  ASSUME AwakeInv, NEW s \in Savers, Wake!SaveEmits(s)
  PROVE  AwakeInv'
  <1> DEFINE r == Wake!NoSave
  <1>1. /\ save[s].at = "emit" /\ AwakeTypes /\ OneInv /\ awake_told' = save[s].news
        /\ save' = [save EXCEPT ![s] = r]
        /\ UNCHANGED <<settings, awake_agent, watch, inner, tray, lid_stays_on, app, awake_fails>>
    BY DEF Wake!SaveEmits, AwakeInv
  <1>2. /\ app = "up" /\ Applied /\ SaveTrue(save[s])
        /\ (inner.agents_running <=> awake_agent = "running") /\ (tray <=> awake_agent = "needs")
    BY <1>1, SaverAlone
  <1>3. r \in SaveRecords /\ r.at = "idle"
    BY NoWatchIs
  <1> HIDE DEF r
  <1>4. /\ save' \in [Savers -> SaveRecords] /\ watch' \in [Watchers -> WatchRecords]
        /\ save'[s] = r /\ OneInv'
        /\ \A t \in Savers : t # s => save'[t] = save[t] /\ save[t].at = "idle"
        /\ \A w \in Watchers : watch[w].at = "idle"
    BY <1>1, <1>2, <1>3, SaveIs
  <1>5. AwakeTypes'
    BY <1>1, <1>4 DEF AwakeTypes
  <1>6. Applied' /\ SaveTrue(save[s])' /\ awake_told' = inner'.last
    BY <1>1, <1>2, <1>3, <1>4 DEF Applied, SaveTrue
  <1>7. OwedInv'
    BY <1>1, <1>2, <1>3, <1>4, <1>6, SaveOwed
  <1>8. QED
    BY <1>4, <1>5, <1>7 DEF AwakeInv

\* An app that is not up owes nothing
LEMMA RestoreKept ==
  ASSUME ~ChangesRace, AwakeInv, Wake!Restore
  PROVE  AwakeInv'
  <1> DEFINE a == [inner EXCEPT !.hold = FALSE]
             b == [a EXCEPT !.lid_sleep_off = FALSE]
  <1>1. /\ Wake!Idle /\ app' = "restored" /\ AwakeTypes /\ OneInv
        /\ UNCHANGED <<settings, awake_agent, watch, save, awake_told, tray>>
    BY DEF Wake!Restore, Wake!Calm, AwakeInv
  <1>2. /\ inner' \in {a, b} /\ awake_fails' \in {awake_fails, awake_fails + 1}
        /\ lid_stays_on' \in {lid_stays_on, lid_stays_on /\ ~inner.lid_sleep_off}
    BY DEF Wake!Restore
  <1>3. a \in Inners
    BY <1>1 DEF AwakeTypes, Inners
  <1>4. b \in Inners
    <2> HIDE DEF a
    <2>1. QED
      BY <1>3 DEF Inners
  <1> HIDE DEF a, b
  <1>5. AwakeTypes'
    <2>1. inner' \in Inners
      BY <1>2, <1>3, <1>4
    <2>2. awake_fails' \in Nat
      BY <1>1, <1>2 DEF AwakeTypes
    <2>3. lid_stays_on' \in BOOLEAN
      <3>1. (lid_stays_on /\ ~inner.lid_sleep_off) \in BOOLEAN
        OBVIOUS
      <3>2. QED
        BY <1>1, <1>2, <3>1 DEF AwakeTypes
    <2>4. QED
      BY <1>1, <2>1, <2>2, <2>3 DEF AwakeTypes
  <1>6. OneInv'
    BY <1>1 DEF OneInv, Wake!Idle
  <1>7. QED
    BY <1>1, <1>5, <1>6 DEF AwakeInv, OwedInv

LEMMA EndedKept ==
  ASSUME AwakeInv, Wake!Ended
  PROVE  AwakeInv'
  <1>1. /\ app' = "down" /\ inner' = Wake!NoInner
        /\ watch' = [w \in Watchers |-> Wake!NoWatch] /\ save' = [s \in Savers |-> Wake!NoSave]
        /\ UNCHANGED <<settings, awake_agent, awake_told, tray, lid_stays_on, awake_fails>>
    BY DEF Wake!Ended
  <1>2. /\ watch' \in [Watchers -> WatchRecords] /\ save' \in [Savers -> SaveRecords]
        /\ inner' \in Inners
        /\ \A w \in Watchers : watch'[w].at = "idle"
        /\ \A s \in Savers : save'[s].at = "idle"
    BY <1>1, NoWatchIs
  <1>3. AwakeTypes'
    BY <1>1, <1>2 DEF AwakeInv, AwakeTypes
  <1>4. OneInv'
    BY <1>2 DEF OneInv, Wake!Idle
  <1>5. QED
    BY <1>1, <1>3, <1>4 DEF AwakeInv, OwedInv

LEMMA LaunchKept ==
  ASSUME AwakeInv, NEW w \in Watchers, Wake!Launch(w)
  PROVE  AwakeInv'
  <1> DEFINE r == [Wake!NoWatch EXCEPT !.at = "list"]
  <1>1. /\ app = "down" /\ app' = "up" /\ Wake!apply(settings, FALSE) /\ awake_told' = inner'.last /\ tray' = FALSE
        /\ watch' = [watch EXCEPT ![w] = r] /\ UNCHANGED <<settings, awake_agent, save>>
    BY DEF Wake!Launch, Wake!StartWatch
  <1>2. r \in WatchRecords /\ r.at = "list"
    BY ListsIs
  <1> HIDE DEF r
  <1>3. AwakeTypes /\ OneInv /\ Wake!Idle /\ settings \in Settings
    BY <1>1 DEF AwakeInv, OneInv, AwakeTypes
  <1>4. /\ inner' \in Inners /\ awake_fails' \in Nat /\ lid_stays_on' \in BOOLEAN
        /\ inner'.agents_running = FALSE
        /\ inner'.last = [on |-> settings.mode # "off", active |-> inner'.hold]
        /\ inner'.hold => Wake!wanted(settings, FALSE)
        /\ awake_fails' = 0 /\ Wake!wanted(settings, FALSE) => inner'.hold
    BY <1>1, <1>3, ApplyIs
  <1>5. /\ watch' \in [Watchers -> WatchRecords] /\ save' \in [Savers -> SaveRecords]
        /\ watch'[w] = r /\ OneInv'
        /\ \A v \in Watchers : v # w => watch'[v] = watch[v] /\ watch[v].at = "idle"
        /\ \A s \in Savers : save[s].at = "idle"
    BY <1>1, <1>2, <1>3, WatchIs
  <1>6. AwakeTypes'
    BY <1>1, <1>3, <1>4, <1>5 DEF AwakeTypes
  <1>7. Applied'
    <2>1. Wake!wanted(settings, inner.agents_running)' <=> Wake!wanted(settings, FALSE)
      BY <1>1, <1>4 DEF Wake!wanted
    <2>2. QED
      BY <1>1, <1>4, <2>1 DEF Applied
  <1>8. WatchTrue(watch[w])'
    BY <1>2, <1>5 DEF WatchTrue
  <1>9. OwedInv'
    BY <1>1, <1>2, <1>5, <1>7, <1>8, WatchOwed
  <1>10. QED
    BY <1>5, <1>6, <1>9 DEF AwakeInv

LEMMA AwakeInitially ==
  ASSUME Wake!AwakeInit
  PROVE  AwakeInv
  <1> DEFINE l == [on |-> TRUE, active |-> FALSE]
             r == [Wake!NoInner EXCEPT !.last = l]
  <1>1. /\ settings = [mode |-> "untilAgentsFinish", lid_closed |-> FALSE] /\ awake_agent = "idle"
        /\ watch = [w \in Watchers |-> Wake!NoWatch] /\ save = [s \in Savers |-> Wake!NoSave]
        /\ inner = r /\ awake_told = l
        /\ tray = FALSE /\ lid_stays_on = FALSE /\ app = "up" /\ awake_fails = 0
    BY DEF Wake!AwakeInit
  <1>2. l \in Shown /\ l.on = TRUE /\ l.active = FALSE
    BY DEF Shown
  <1>3. r \in Inners /\ r.last = l /\ r.hold = FALSE /\ r.agents_running = FALSE /\ r.lid_sleep_off = FALSE
    BY <1>2 DEF Wake!NoInner, Inners
  <1> HIDE DEF r
  <1>4. AwakeTypes
    BY <1>1, <1>3, NoWatchIs DEF AwakeTypes, Settings, Wake!Modes
  <1>5. (\A w \in Watchers : watch[w].at = "idle") /\ (\A s \in Savers : save[s].at = "idle")
    BY <1>1, NoWatchIs
  <1>6. OneInv
    BY <1>1, <1>5 DEF OneInv
  <1>7. Applied
    BY <1>1, <1>3 DEF Applied, Wake!wanted
  <1>8. OwedInv
    BY <1>1, <1>3, <1>5, <1>7 DEF OwedInv, WatchTrue, SaveTrue
  <1>9. QED
    BY <1>4, <1>6, <1>8 DEF AwakeInv

LEMMA AwakeKept ==
  ASSUME ~ChangesRace, AwakeInv, [Wake!AwakeNext]_(Wake!avars)
  PROVE  AwakeInv'
  <1>1. ASSUME NEW w \in Watchers, Wake!AgentMoves(w) \/ Wake!WatchLists(w) \/ Wake!WatchLoads(w)
        PROVE  AwakeInv'
    BY <1>1, AgentMovesKept, WatchListsKept, WatchLoadsKept
  <1>2. ASSUME NEW w \in Watchers,
               Wake!WatchApplies(w) \/ Wake!WatchEmits(w) \/ Wake!WatchRenders(w) \/ Wake!Launch(w)
        PROVE  AwakeInv'
    BY <1>2, WatchAppliesKept, WatchEmitsKept, WatchRendersKept, LaunchKept
  <1>3. ASSUME NEW s \in Savers, Wake!SaveSettings(s) \/ Wake!SaveApplies(s) \/ Wake!SaveEmits(s)
        PROVE  AwakeInv'
    BY <1>3, SaveSettingsKept, SaveAppliesKept, SaveEmitsKept
  <1>4. CASE Wake!Restore
    BY <1>4, RestoreKept
  <1>5. CASE Wake!Exit \/ Wake!Crash
    BY <1>5, EndedKept DEF Wake!Exit, Wake!Crash
  <1>6. CASE UNCHANGED Wake!avars
    BY <1>6 DEF Wake!avars, AwakeInv, AwakeTypes, OneInv, OwedInv, Applied, WatchTrue, SaveTrue, Wake!Idle,
                Wake!wanted
  <1>7. QED
    BY <1>1, <1>2, <1>3, <1>4, <1>5, <1>6 DEF Wake!AwakeNext

\* What the settings and the runs ask for, when nothing is under way
LEMMA AwakeNow ==
  ASSUME AwakeInv
  PROVE  Wake!AwakeWhenAsked
  <1>1. SUFFICES ASSUME app = "up", Wake!Idle
                 PROVE  /\ inner.hold => Wake!wanted(settings, awake_agent = "running")
                        /\ awake_fails = 0 => (inner.hold <=> Wake!wanted(settings, awake_agent = "running"))
                        /\ awake_told = [on |-> settings.mode # "off", active |-> inner.hold]
                        /\ tray = (awake_agent = "needs")
    BY DEF Wake!AwakeWhenAsked
  <1>2. /\ Applied /\ (inner.agents_running <=> awake_agent = "running") /\ awake_told = inner.last
        /\ (tray <=> awake_agent = "needs") /\ tray \in BOOLEAN
    BY <1>1, NothingOwed DEF AwakeInv, AwakeTypes
  <1>3. Wake!wanted(settings, inner.agents_running) <=> Wake!wanted(settings, awake_agent = "running")
    BY <1>2 DEF Wake!wanted
  <1>4. tray = (awake_agent = "needs")
    BY <1>2
  <1>5. QED
    BY <1>2, <1>3, <1>4 DEF Applied

(* When nothing is being applied, the machine is held awake as the settings *)
(* and the agents ask, and the pages and the tray say so: any number of      *)
(* watches and of saved settings, quits, crashes, refused holds and          *)
(* cancelled prompts, while one change is not applied next to another.       *)
THEOREM HeldWhenAsked ==
  ASSUME ~ChangesRace
  PROVE  Wake!AwakeSpec => []Wake!AwakeWhenAsked
  BY AwakeInitially, AwakeKept, AwakeNow, PTL DEF Wake!AwakeSpec

\* Lid sleep is off only as Treeix turned it off, and only as settings ask
LidInv ==
  /\ app = "down" => ~inner.lid_sleep_off
  /\ awake_fails = 0 =>
       /\ app = "up" => (lid_stays_on <=> inner.lid_sleep_off)
       /\ app # "up" => ~lid_stays_on
       /\ app = "up" /\ (\A s \in Savers : save[s].at # "saved") => (inner.lid_sleep_off => settings.lid_closed)

\* A step of an app that is up, or comes up, with the settings it applies
LEMMA AppliedLid ==
  ASSUME AwakeTypes, LidInv, app = "up" \/ app = "down", app' = "up", settings' = settings,
         NEW running \in BOOLEAN, Wake!apply(settings, running)
  PROVE  LidInv'
  <1>1. /\ inner' \in Inners /\ lid_stays_on' \in BOOLEAN
        /\ awake_fails' = 0 => awake_fails = 0
        /\ awake_fails' = 0 => (lid_stays_on' <=> IF inner'.lid_sleep_off <=> inner.lid_sleep_off
                                                   THEN lid_stays_on ELSE inner'.lid_sleep_off)
        /\ awake_fails' = 0 /\ ~settings.lid_closed => ~inner'.lid_sleep_off
    BY ApplyIs DEF AwakeTypes
  <1>2. awake_fails' = 0 => (lid_stays_on <=> inner.lid_sleep_off)
    BY <1>1 DEF LidInv
  <1>3. awake_fails' = 0 => (lid_stays_on' <=> inner'.lid_sleep_off)
    BY <1>1, <1>2
  <1>4. QED
    BY <1>1, <1>3 DEF LidInv

LEMMA LidKept ==
  ASSUME ~ChangesRace, ~Crashing, AwakeInv, LidInv, [Wake!AwakeNext]_(Wake!avars)
  PROVE  LidInv'
  <1>1. AwakeTypes
    BY DEF AwakeInv
  <1>2. ASSUME NEW w \in Watchers,
               \/ Wake!AgentMoves(w) \/ Wake!WatchLists(w) \/ Wake!WatchLoads(w) \/ Wake!WatchEmits(w)
               \/ Wake!WatchRenders(w)
        PROVE  LidInv'
    <2>1. UNCHANGED <<settings, save, inner, lid_stays_on, app, awake_fails>>
      BY <1>2 DEF Wake!AgentMoves, Wake!WatchLists, Wake!WatchLoads, Wake!WatchEmits, Wake!WatchRenders
    <2>2. QED
      BY <2>1 DEF LidInv
  <1>3. ASSUME NEW w \in Watchers, Wake!WatchApplies(w)
        PROVE  LidInv'
    <2>1. /\ watch[w].at = "apply" /\ Wake!apply(watch[w].saved, watch[w].running)
          /\ UNCHANGED <<settings, app>>
      BY <1>3 DEF Wake!WatchApplies
    <2>2. app = "up" /\ watch[w].saved = settings /\ watch[w].running \in BOOLEAN
      BY <2>1, WatcherAlone DEF WatchTrue, WatchRecords
    <2>3. Wake!apply(settings, watch[w].running)
      BY <2>1, <2>2
    <2>4. QED
      BY <1>1, <2>1, <2>2, <2>3, AppliedLid
  <1>4. ASSUME NEW s \in Savers, Wake!SaveApplies(s)
        PROVE  LidInv'
    <2>1. /\ save[s].at = "saved" /\ Wake!apply(save[s].saved, inner.agents_running)
          /\ UNCHANGED <<settings, app>>
      BY <1>4 DEF Wake!SaveApplies
    <2>2. app = "up" /\ save[s].saved = settings /\ inner.agents_running \in BOOLEAN
      BY <1>1, <2>1, SaverAlone DEF SaveTrue, AwakeTypes, Inners
    <2>3. Wake!apply(settings, inner.agents_running)
      BY <2>1, <2>2
    <2>4. QED
      BY <1>1, <2>1, <2>2, <2>3, AppliedLid
  <1>5. ASSUME NEW s \in Savers, Wake!SaveSettings(s)
        PROVE  LidInv'
    <2>1. PICK v \in Settings : save' = [save EXCEPT ![s] = [Wake!NoSave EXCEPT !.at = "saved", !.saved = v]]
      BY <1>5 DEF Wake!SaveSettings, Settings
    <2>2. app = "up" /\ UNCHANGED <<inner, lid_stays_on, app, awake_fails>>
      BY <1>5 DEF Wake!SaveSettings
    <2>3. [Wake!NoSave EXCEPT !.at = "saved", !.saved = v].at = "saved"
      BY DEF Wake!NoSave
    <2>4. save'[s].at = "saved"
      BY <1>1, <2>1, <2>3 DEF AwakeTypes
    <2>5. QED
      BY <2>2, <2>4 DEF LidInv
  <1>6. ASSUME NEW s \in Savers, Wake!SaveEmits(s)
        PROVE  LidInv'
    <2>1. save[s].at = "emit" /\ UNCHANGED <<settings, inner, lid_stays_on, app, awake_fails>>
      BY <1>6 DEF Wake!SaveEmits
    <2>2. \A t \in Savers : save[t].at # "saved"
      BY <2>1 DEF AwakeInv, OneInv
    <2>3. QED
      BY <2>1, <2>2 DEF LidInv
  <1>7. CASE Wake!Restore
    <2>1. app = "up" /\ app' = "restored" /\ awake_fails \in Nat
      BY <1>1, <1>7 DEF Wake!Restore, AwakeTypes
    <2>2. awake_fails' = 0 => awake_fails = 0 /\ lid_stays_on' = (lid_stays_on /\ ~inner.lid_sleep_off)
      BY <1>7, <2>1 DEF Wake!Restore
    <2>3. QED
      BY <2>1, <2>2 DEF LidInv
  <1>8. CASE Wake!Exit
    <2>1. /\ app = "restored" /\ app' = "down" /\ inner' = Wake!NoInner
          /\ UNCHANGED <<lid_stays_on, awake_fails>>
      BY <1>8 DEF Wake!Exit, Wake!Ended
    <2>2. QED
      BY <2>1, NoWatchIs DEF LidInv
  <1>9. CASE Wake!Crash
    BY <1>9 DEF Wake!Crash
  <1>10. ASSUME NEW w \in Watchers, Wake!Launch(w)
         PROVE  LidInv'
    <2>1. app = "down" /\ app' = "up" /\ settings' = settings /\ Wake!apply(settings, FALSE)
      BY <1>10 DEF Wake!Launch
    <2>2. QED
      BY <1>1, <2>1, AppliedLid
  <1>11. CASE UNCHANGED Wake!avars
    BY <1>11 DEF Wake!avars, LidInv
  <1>12. QED
    BY <1>2, <1>3, <1>4, <1>5, <1>6, <1>7, <1>8, <1>9, <1>10, <1>11 DEF Wake!AwakeNext

LEMMA LidInitially ==
  ASSUME Wake!AwakeInit
  PROVE  LidInv
  <1> DEFINE r == [Wake!NoInner EXCEPT !.last = [on |-> TRUE, active |-> FALSE]]
  <1>1. inner = r /\ app = "up" /\ lid_stays_on = FALSE
    BY DEF Wake!AwakeInit
  <1>2. r.lid_sleep_off = FALSE
    BY DEF Wake!NoInner
  <1>3. QED
    BY <1>1, <1>2 DEF LidInv

(* "A Mac stuck awake in a bag is worse than a prompt": once Treeix has quit *)
(* lid sleep is back, unless a prompt was cancelled, and settings that do    *)
(* not ask for it never leave it off, in an app that does not crash and that *)
(* does not apply one change next to another.                                *)
THEOREM LidSleepsAgain ==
  ASSUME ~ChangesRace, ~Crashing
  PROVE  Wake!AwakeSpec => []Wake!LidRestored
  <1> DEFINE Inv == AwakeInv /\ LidInv
  <1>1. Wake!AwakeInit => Inv
    BY AwakeInitially, LidInitially
  <1>2. Inv /\ [Wake!AwakeNext]_(Wake!avars) => Inv'
    BY AwakeKept, LidKept
  <1>3. Inv => Wake!LidRestored
    BY DEF LidInv, Wake!LidRestored, Wake!Idle
  <1> HIDE DEF Inv
  <1>4. QED
    BY <1>1, <1>2, <1>3, PTL DEF Wake!AwakeSpec

-----------------------------------------------------------------------------
(* The bars of the built-in browser                                        *)

CONSTANTS BrowserPanes, Local, Remote, ENTRY_LIMIT, Ids, MaxViews, MaxNavs, MaxDrains, LoadsRace
VARIABLES panes, views, pollers, drains, navs, up, made, begun, drained_n

B == INSTANCE Browser WITH Panes <- BrowserPanes, Racing <- LoadsRace

BrowserBounds == MaxViews \in Nat
Webviews == [page : B!Pages \cup {"blank"}, phase : {"done", "asked", "started", "failed"}]
BarFields == {"open", "view", "url", "loading", "error", "entries"}

\* The webviews are those that were made
MadeInv ==
  /\ made \in Nat /\ views \in [1..MaxViews -> Webviews]
  /\ \A v \in 1..MaxViews : v > made => views[v].phase = "done"

\* Each is of one pane
PanesInv ==
  /\ DOMAIN panes = BrowserPanes
  /\ \A p \in BrowserPanes : panes[p].open \in BOOLEAN
  /\ \A p \in BrowserPanes : panes[p].open =>
       DOMAIN panes[p] = BarFields /\ panes[p].view \in 1..MaxViews /\ panes[p].view <= made
  /\ \A p, q \in BrowserPanes : panes[p].open /\ panes[q].open /\ panes[p].view = panes[q].view => p = q

ViewsInv == MadeInv /\ PanesInv

\* A navigation that waits is the only one of its pane, which is open and not loading
NavsInv ==
  /\ \A n \in navs : /\ n.pane \in BrowserPanes /\ B!Has(n.pane, n.view) /\ ~B!Loading(n.pane)
                     /\ n.url \in B!Pages
  /\ \A n, m \in navs : n.pane = m.pane => n = m

\* What the bar of an open pane says of its webview
BarInv ==
  \A p \in BrowserPanes : B!Open(p) =>
    /\ panes[p].loading => views[panes[p].view].phase \in {"asked", "started", "failed"}
    /\ views[panes[p].view].phase = "started" => panes[p].error = ""
    /\ panes[p].error # "" => panes[p].error = panes[p].url

BrowserInv == ViewsInv /\ NavsInv /\ BarInv

\* A bar that is set changes nothing else of its pane, and no other pane
LEMMA BarIs ==
  ASSUME ViewsInv, NEW p \in BrowserPanes, B!Open(p), NEW u, NEW l, NEW e, B!Bar(p, u, l, e)
  PROVE  /\ DOMAIN panes' = BrowserPanes /\ \A q \in BrowserPanes : q # p => panes'[q] = panes[q]
         /\ DOMAIN panes'[p] = BarFields /\ panes'[p].open = TRUE /\ panes'[p].view = panes[p].view
         /\ panes'[p].url = u /\ panes'[p].loading = l /\ panes'[p].error = e
  <1>1. DOMAIN panes = BrowserPanes /\ DOMAIN panes[p] = BarFields /\ panes[p].open = TRUE
    BY DEF ViewsInv, PanesInv, B!Open
  <1>2. panes' = [panes EXCEPT ![p] = [[[panes[p] EXCEPT !.url = u] EXCEPT !.loading = l] EXCEPT !.error = e]]
    BY <1>1 DEF B!Bar, BarFields
  <1> DEFINE a == [panes[p] EXCEPT !.url = u]
             b == [a EXCEPT !.loading = l]
             c == [b EXCEPT !.error = e]
  <1>3. DOMAIN a = BarFields /\ a.url = u /\ a.open = TRUE /\ a.view = panes[p].view
    BY <1>1 DEF BarFields
  <1>4. DOMAIN b = BarFields /\ b.url = u /\ b.loading = l /\ b.open = TRUE /\ b.view = panes[p].view
    <2> HIDE DEF a
    <2>1. QED
      BY <1>3 DEF BarFields
  <1>5. /\ DOMAIN c = BarFields /\ c.url = u /\ c.loading = l /\ c.error = e /\ c.open = TRUE
        /\ c.view = panes[p].view
    <2> HIDE DEF b
    <2>1. QED
      BY <1>4 DEF BarFields
  <1>6. panes' = [panes EXCEPT ![p] = c]
    BY <1>2
  <1> HIDE DEF c
  <1>7. QED
    BY <1>1, <1>5, <1>6

\* A webview that goes on stays the one of its pane
LEMMA ViewIs ==
  ASSUME ViewsInv, NEW p \in BrowserPanes, B!Open(p), NEW w \in Webviews, views' = [views EXCEPT ![panes[p].view] = w]
  PROVE  /\ views' \in [1..MaxViews -> Webviews] /\ views'[panes[p].view] = w
         /\ \A q \in BrowserPanes : q # p /\ B!Open(q) => views'[panes[q].view] = views[panes[q].view]
         /\ \A v \in 1..MaxViews : v > made => views'[v].phase = "done"
  BY DEF ViewsInv, MadeInv, PanesInv, B!Open

LEMMA PhaseIs ==
  ASSUME ViewsInv, NEW p \in BrowserPanes, B!Open(p), NEW f \in {"done", "asked", "started", "failed"},
         views' = [views EXCEPT ![panes[p].view].phase = f]
  PROVE  /\ views' \in [1..MaxViews -> Webviews] /\ views'[panes[p].view].phase = f
         /\ \A q \in BrowserPanes : q # p /\ B!Open(q) => views'[panes[q].view] = views[panes[q].view]
         /\ \A v \in 1..MaxViews : v > made => views'[v].phase = "done"
  <1> DEFINE w == [views[panes[p].view] EXCEPT !.phase = f]
  <1>1. views[panes[p].view] \in Webviews
    BY DEF ViewsInv, MadeInv, PanesInv, B!Open
  <1>2. w \in Webviews /\ w.phase = f /\ views' = [views EXCEPT ![panes[p].view] = w]
    BY <1>1 DEF Webviews
  <1> HIDE DEF w
  <1>3. QED
    BY <1>2, ViewIs

\* What one pane's bar and webview do: the others keep theirs
LEMMA PageKept ==
  ASSUME BrowserInv, NEW p \in BrowserPanes, B!Open(p), made' = made, navs' \in SUBSET navs,
         views' \in [1..MaxViews -> Webviews],
         \A q \in BrowserPanes : q # p /\ B!Open(q) => views'[panes[q].view] = views[panes[q].view],
         \A v \in 1..MaxViews : v > made => views'[v].phase = "done",
         DOMAIN panes' = BrowserPanes, \A q \in BrowserPanes : q # p => panes'[q] = panes[q],
         DOMAIN panes'[p] = BarFields, panes'[p].open = TRUE, panes'[p].view = panes[p].view,
         \/ \A n \in navs' : n.pane # p
         \/ views'[panes[p].view].phase \notin {"asked", "started"},
         panes'[p].loading => views'[panes[p].view].phase \in {"asked", "started", "failed"},
         views'[panes[p].view].phase = "started" => panes'[p].error = "",
         panes'[p].error # "" => panes'[p].error = panes'[p].url
  PROVE  BrowserInv'
  <1>1. \A q \in BrowserPanes : panes'[q].open = panes[q].open /\ (panes[q].open => panes'[q].view = panes[q].view)
    <2>1. panes[p].open = TRUE
      BY DEF BrowserInv, ViewsInv, PanesInv, B!Open
    <2>2. QED
      BY <2>1
  <1>2. MadeInv' /\ PanesInv'
    <2>1. MadeInv'
      BY DEF BrowserInv, ViewsInv, MadeInv
    <2>2. \A q \in BrowserPanes : panes'[q].open =>
            DOMAIN panes'[q] = BarFields /\ panes'[q].view \in 1..MaxViews /\ panes'[q].view <= made
      <3>1. SUFFICES ASSUME NEW q \in BrowserPanes, panes'[q].open
                     PROVE  DOMAIN panes'[q] = BarFields /\ panes'[q].view \in 1..MaxViews /\ panes'[q].view <= made
        OBVIOUS
      <3>2. panes[q].open /\ panes'[q].view = panes[q].view
        BY <1>1, <3>1
      <3>3. DOMAIN panes[q] = BarFields /\ panes[q].view \in 1..MaxViews /\ panes[q].view <= made
        BY <3>2 DEF BrowserInv, ViewsInv, PanesInv
      <3>4. DOMAIN panes'[q] = BarFields
        BY <3>3
      <3>5. QED
        BY <3>2, <3>3, <3>4
    <2>3. PanesInv'
      BY <1>1, <2>2 DEF BrowserInv, ViewsInv, PanesInv
    <2>4. QED
      BY <2>1, <2>3
  <1>3. NavsInv'
    <2>1. ASSUME NEW n \in navs'
          PROVE  n.pane \in BrowserPanes /\ B!Has(n.pane, n.view)' /\ ~B!Loading(n.pane)' /\ n.url \in B!Pages
      <3>1. n.pane \in BrowserPanes /\ B!Has(n.pane, n.view) /\ ~B!Loading(n.pane) /\ n.url \in B!Pages
        BY <2>1 DEF BrowserInv, NavsInv
      <3>2. B!Has(n.pane, n.view)'
        BY <1>1, <3>1 DEF B!Has, B!Open
      <3>3. ~B!Loading(n.pane)'
        <4>1. CASE n.pane = p
          BY <2>1, <4>1 DEF B!Loading, B!Open
        <4>2. CASE n.pane # p
          BY <3>1, <4>2 DEF B!Loading, B!Open, B!Has
        <4>3. QED
          BY <4>1, <4>2
      <3>4. QED
        BY <3>1, <3>2, <3>3
    <2>2. \A n, m \in navs' : n.pane = m.pane => n = m
      BY DEF BrowserInv, NavsInv
    <2>3. QED
      BY <2>1, <2>2 DEF NavsInv
  <1>4. BarInv'
    <2>1. ASSUME NEW q \in BrowserPanes, B!Open(q)'
          PROVE  /\ panes'[q].loading => views'[panes'[q].view].phase \in {"asked", "started", "failed"}
                 /\ views'[panes'[q].view].phase = "started" => panes'[q].error = ""
                 /\ panes'[q].error # "" => panes'[q].error = panes'[q].url
      <3>1. CASE q = p
        BY <3>1
      <3>2. CASE q # p
        <4>1. panes'[q] = panes[q] /\ B!Open(q) /\ views'[panes[q].view] = views[panes[q].view]
          BY <2>1, <3>2 DEF B!Open
        <4>2. /\ panes[q].loading => views[panes[q].view].phase \in {"asked", "started", "failed"}
              /\ views[panes[q].view].phase = "started" => panes[q].error = ""
              /\ panes[q].error # "" => panes[q].error = panes[q].url
          BY <4>1 DEF BrowserInv, BarInv
        <4>3. QED
          BY <4>1, <4>2
      <3>3. QED
        BY <3>1, <3>2
    <2>2. QED
      BY <2>1 DEF BarInv
  <1>5. QED
    BY <1>2, <1>3, <1>4 DEF BrowserInv, ViewsInv

LEMMA PaneIs ==
  ASSUME BrowserInv, NEW p \in BrowserPanes, B!Open(p)
  PROVE  /\ ViewsInv /\ DOMAIN panes = BrowserPanes /\ DOMAIN panes[p] = BarFields /\ panes[p].open = TRUE
         /\ panes[p].view \in 1..MaxViews /\ views[panes[p].view] \in Webviews
         /\ panes[p].loading => views[panes[p].view].phase \in {"asked", "started", "failed"}
         /\ views[panes[p].view].phase = "started" => panes[p].error = ""
         /\ panes[p].error # "" => panes[p].error = panes[p].url
         /\ B!Loading(p) => \A n \in navs : n.pane # p
  <1>1. ViewsInv /\ NavsInv /\ BarInv
    BY DEF BrowserInv
  <1>2. panes[p].open = TRUE /\ DOMAIN panes[p] = BarFields /\ panes[p].view \in 1..MaxViews
    BY <1>1 DEF ViewsInv, PanesInv, B!Open
  <1>3. views[panes[p].view] \in Webviews
    BY <1>1, <1>2 DEF ViewsInv, MadeInv
  <1>4. B!Loading(p) => \A n \in navs : n.pane # p
    BY <1>1 DEF NavsInv
  <1>5. DOMAIN panes = BrowserPanes
    BY <1>1 DEF ViewsInv, PanesInv
  <1>6. /\ panes[p].loading => views[panes[p].view].phase \in {"asked", "started", "failed"}
        /\ views[panes[p].view].phase = "started" => panes[p].error = ""
        /\ panes[p].error # "" => panes[p].error = panes[p].url
    BY <1>1 DEF BarInv
  <1>7. QED
    BY <1>1, <1>2, <1>3, <1>4, <1>5, <1>6

LEMMA StartsKept ==
  ASSUME BrowserInv, NEW p \in BrowserPanes, B!PageStarts(p)
  PROVE  BrowserInv'
  <1>1. /\ B!Open(p) /\ views[panes[p].view].phase = "asked" /\ UNCHANGED <<navs, made>>
        /\ views' = [views EXCEPT ![panes[p].view].phase = "started"]
        /\ B!Bar(p, views[panes[p].view].page, TRUE, "")
    BY DEF B!PageStarts
  <1>2. B!Loading(p)
    BY <1>1 DEF B!Loading
  <1>3. ViewsInv /\ \A n \in navs : n.pane # p
    BY <1>1, <1>2, PaneIs
  <1>4. /\ views' \in [1..MaxViews -> Webviews] /\ views'[panes[p].view].phase = "started"
        /\ \A q \in BrowserPanes : q # p /\ B!Open(q) => views'[panes[q].view] = views[panes[q].view]
        /\ \A v \in 1..MaxViews : v > made => views'[v].phase = "done"
    BY <1>1, <1>3, PhaseIs
  <1>5. /\ DOMAIN panes' = BrowserPanes /\ \A q \in BrowserPanes : q # p => panes'[q] = panes[q]
        /\ DOMAIN panes'[p] = BarFields /\ panes'[p].open = TRUE /\ panes'[p].view = panes[p].view
        /\ panes'[p].error = ""
    BY <1>1, <1>3, BarIs
  <1>6. QED
    BY <1>1, <1>3, <1>4, <1>5, PageKept

LEMMA EndsKept ==
  ASSUME BrowserInv, NEW p \in BrowserPanes, B!PageEnds(p)
  PROVE  BrowserInv'
  <1>1. /\ B!Open(p) /\ views[panes[p].view].phase = "started" /\ UNCHANGED <<navs, made>>
        /\ views' = [views EXCEPT ![panes[p].view].phase = "done"]
        /\ B!Bar(p, views[panes[p].view].page, FALSE, panes[p].error)
    BY DEF B!PageEnds
  <1>2. ViewsInv /\ panes[p].error = ""
    BY <1>1, PaneIs
  <1>3. /\ views' \in [1..MaxViews -> Webviews] /\ views'[panes[p].view].phase = "done"
        /\ \A q \in BrowserPanes : q # p /\ B!Open(q) => views'[panes[q].view] = views[panes[q].view]
        /\ \A v \in 1..MaxViews : v > made => views'[v].phase = "done"
    BY <1>1, <1>2, PhaseIs
  <1> DEFINE u == views[panes[p].view].page
             e == panes[p].error
  <1>6. B!Bar(p, u, FALSE, e) /\ e = ""
    BY <1>1, <1>2
  <1> HIDE DEF u, e
  <1>4. /\ DOMAIN panes' = BrowserPanes /\ \A q \in BrowserPanes : q # p => panes'[q] = panes[q]
        /\ DOMAIN panes'[p] = BarFields /\ panes'[p].open = TRUE /\ panes'[p].view = panes[p].view
        /\ panes'[p].loading = FALSE /\ panes'[p].error = e
    BY <1>1, <1>2, <1>6, BarIs
  <1>5. QED
    BY <1>1, <1>3, <1>4, <1>6, PageKept

LEMMA StopsKept ==
  ASSUME BrowserInv, NEW p \in BrowserPanes, B!Stop(p)
  PROVE  BrowserInv'
  <1>1. /\ B!Loading(p) /\ B!Open(p) /\ UNCHANGED <<navs, made>>
        /\ views' = [views EXCEPT ![panes[p].view].phase = "done"]
        /\ panes' = [panes EXCEPT ![p].loading = FALSE]
    BY DEF B!Stop, B!Loading
  <1>2. /\ ViewsInv /\ DOMAIN panes = BrowserPanes /\ DOMAIN panes[p] = BarFields /\ panes[p].open = TRUE
        /\ panes[p].error # "" => panes[p].error = panes[p].url
    BY <1>1, PaneIs
  <1>3. /\ views' \in [1..MaxViews -> Webviews] /\ views'[panes[p].view].phase = "done"
        /\ \A q \in BrowserPanes : q # p /\ B!Open(q) => views'[panes[q].view] = views[panes[q].view]
        /\ \A v \in 1..MaxViews : v > made => views'[v].phase = "done"
    BY <1>1, <1>2, PhaseIs
  <1>4. /\ DOMAIN panes' = BrowserPanes /\ \A q \in BrowserPanes : q # p => panes'[q] = panes[q]
        /\ DOMAIN panes'[p] = BarFields /\ panes'[p].open = TRUE /\ panes'[p].view = panes[p].view
        /\ panes'[p].loading = FALSE /\ panes'[p].error = panes[p].error /\ panes'[p].url = panes[p].url
    BY <1>1, <1>2 DEF BarFields
  <1>5. QED
    BY <1>1, <1>2, <1>3, <1>4, PageKept

LEMMA FailsKept ==
  ASSUME BrowserInv, NEW p \in BrowserPanes, B!PageFails(p)
  PROVE  BrowserInv'
  <1>1. /\ B!Loading(p) /\ B!Open(p) /\ UNCHANGED <<panes, navs, made>>
        /\ views' = [views EXCEPT ![panes[p].view].phase = "failed"]
    BY DEF B!PageFails, B!Loading
  <1>2. /\ ViewsInv /\ DOMAIN panes = BrowserPanes /\ DOMAIN panes[p] = BarFields /\ panes[p].open = TRUE
        /\ panes[p].error # "" => panes[p].error = panes[p].url
    BY <1>1, PaneIs
  <1>3. /\ views' \in [1..MaxViews -> Webviews] /\ views'[panes[p].view].phase = "failed"
        /\ \A q \in BrowserPanes : q # p /\ B!Open(q) => views'[panes[q].view] = views[panes[q].view]
        /\ \A v \in 1..MaxViews : v > made => views'[v].phase = "done"
    BY <1>1, <1>2, PhaseIs
  <1>4. QED
    BY <1>1, <1>2, <1>3, PageKept

LEMMA MovesKept ==
  ASSUME ~LoadsRace, BrowserInv, NEW p \in BrowserPanes, NEW u \in B!Pages, B!PageMoves(p, u)
  PROVE  BrowserInv'
  <1> DEFINE w == [page |-> u, phase |-> "asked"]
  <1>1. /\ B!Open(p) /\ UNCHANGED <<panes, navs, made>> /\ \A n \in navs : n.pane # p
        /\ views' = [views EXCEPT ![panes[p].view] = w]
    BY DEF B!PageMoves, B!AtRest
  <1>2. /\ ViewsInv /\ DOMAIN panes = BrowserPanes /\ DOMAIN panes[p] = BarFields /\ panes[p].open = TRUE
        /\ panes[p].error # "" => panes[p].error = panes[p].url
    BY <1>1, PaneIs
  <1>3. w \in Webviews /\ w.phase = "asked"
    BY DEF Webviews
  <1> HIDE DEF w
  <1>4. /\ views' \in [1..MaxViews -> Webviews] /\ views'[panes[p].view].phase = "asked"
        /\ \A q \in BrowserPanes : q # p /\ B!Open(q) => views'[panes[q].view] = views[panes[q].view]
        /\ \A v \in 1..MaxViews : v > made => views'[v].phase = "done"
    BY <1>1, <1>2, <1>3, ViewIs
  <1>5. QED
    BY <1>1, <1>2, <1>4, PageKept

LEMMA NavigatesKept ==
  ASSUME BrowserInv, NEW n \in navs, B!Navigates(n)
  PROVE  BrowserInv'
  <1> DEFINE p == n.pane
             w == [page |-> n.url, phase |-> "asked"]
  <1>1. /\ p \in BrowserPanes /\ B!Open(p) /\ panes[p].view = n.view /\ ~B!Loading(p) /\ n.url \in B!Pages
        /\ B!Has(n.pane, n.view)
        /\ \A m \in navs : m.pane = p => m = n
    BY DEF BrowserInv, NavsInv, B!Has
  <1>2. navs' = navs \ {n} /\ made' = made
    BY DEF B!Navigates
  <1>3. navs' \in SUBSET navs /\ \A m \in navs' : m.pane # p
    BY <1>1, <1>2
  <1> HIDE DEF p
  <1>4. /\ ViewsInv /\ views[panes[p].view] \in Webviews /\ panes[p].view \in 1..MaxViews
    BY <1>1, PaneIs
  <1>5. CASE B!Down(n.url)
    <2>1. B!Bar(p, n.url, FALSE, n.url) /\ UNCHANGED views
      BY <1>5 DEF B!Navigates, p
    <2> DEFINE u == n.url
    <2>6. B!Bar(p, u, FALSE, u)
      BY <2>1
    <2> HIDE DEF u
    <2>2. /\ DOMAIN panes' = BrowserPanes /\ \A q \in BrowserPanes : q # p => panes'[q] = panes[q]
          /\ DOMAIN panes'[p] = BarFields /\ panes'[p].open = TRUE /\ panes'[p].view = panes[p].view
          /\ panes'[p].loading = FALSE /\ panes'[p].error = u /\ panes'[p].url = u
      BY <1>1, <1>4, <2>6, BarIs
    <2>3. views[panes[p].view].phase # "started"
      BY <1>1 DEF B!Loading
    <2>4. views \in [1..MaxViews -> Webviews] /\ \A v \in 1..MaxViews : v > made => views[v].phase = "done"
      BY <1>4 DEF ViewsInv, MadeInv
    <2>5. QED
      BY <1>1, <1>2, <1>3, <2>1, <2>2, <2>3, <2>4, PageKept
  <1>6. CASE ~B!Down(n.url)
    <2>1. B!Bar(p, n.url, TRUE, "") /\ views' = [views EXCEPT ![panes[p].view] = w]
      BY <1>1, <1>6 DEF B!Navigates, p
    <2>2. /\ DOMAIN panes' = BrowserPanes /\ \A q \in BrowserPanes : q # p => panes'[q] = panes[q]
          /\ DOMAIN panes'[p] = BarFields /\ panes'[p].open = TRUE /\ panes'[p].view = panes[p].view
          /\ panes'[p].error = ""
      BY <1>1, <1>4, <2>1, BarIs
    <2>3. w \in Webviews /\ w.phase = "asked"
      BY <1>1 DEF Webviews
    <2> HIDE DEF w
    <2>4. /\ views' \in [1..MaxViews -> Webviews] /\ views'[panes[p].view].phase = "asked"
          /\ \A q \in BrowserPanes : q # p /\ B!Open(q) => views'[panes[q].view] = views[panes[q].view]
          /\ \A v \in 1..MaxViews : v > made => views'[v].phase = "done"
      BY <1>1, <1>4, <2>1, <2>3, ViewIs
    <2>5. QED
      BY <1>1, <1>2, <1>3, <2>2, <2>4, PageKept
  <1>7. QED
    BY <1>5, <1>6

LEMMA OpensKept ==
  ASSUME BrowserBounds, BrowserInv, NEW p \in BrowserPanes, B!open(p)
  PROVE  BrowserInv'
  <1> DEFINE bar_now == [open |-> TRUE, view |-> made + 1, url |-> "", loading |-> FALSE, error |-> "", entries |-> <<>>]
  <1>1. /\ ~B!Open(p) /\ made < MaxViews /\ made' = made + 1 /\ UNCHANGED <<views, navs>>
        /\ panes' = [panes EXCEPT ![p] = bar_now]
    BY DEF B!open
  <1>2. /\ DOMAIN bar_now = BarFields /\ bar_now.open = TRUE /\ bar_now.view = made + 1 /\ bar_now.loading = FALSE
        /\ bar_now.error = ""
    BY DEF BarFields
  <1> HIDE DEF bar_now
  <1>3. MadeInv /\ PanesInv /\ NavsInv /\ BarInv
    BY DEF BrowserInv, ViewsInv
  <1>4. /\ DOMAIN panes' = BrowserPanes /\ \A q \in BrowserPanes : q # p => panes'[q] = panes[q]
        /\ panes'[p] = bar_now
    BY <1>1, <1>3 DEF PanesInv
  <1>5. made \in Nat /\ made + 1 \in 1..MaxViews /\ views[made + 1].phase = "done"
    BY <1>1, <1>3 DEF MadeInv, BrowserBounds
  <1>6. MadeInv'
    BY <1>1, <1>3, <1>5 DEF MadeInv
  <1>7. \A q \in BrowserPanes : q # p /\ panes[q].open => panes[q].view # made + 1
    BY <1>3, <1>5 DEF PanesInv
  <1>8. PanesInv'
    <2>1. \A q \in BrowserPanes : panes'[q].open \in BOOLEAN
      BY <1>2, <1>3, <1>4 DEF PanesInv
    <2>2. \A q \in BrowserPanes : panes'[q].open =>
            DOMAIN panes'[q] = BarFields /\ panes'[q].view \in 1..MaxViews /\ panes'[q].view <= made'
      <3>1. SUFFICES ASSUME NEW q \in BrowserPanes, panes'[q].open
                     PROVE  DOMAIN panes'[q] = BarFields /\ panes'[q].view \in 1..MaxViews /\ panes'[q].view <= made'
        OBVIOUS
      <3>2. CASE q = p
        <4>1. panes'[q] = bar_now
          BY <1>4, <3>2
        <4>2. DOMAIN panes'[q] = BarFields /\ panes'[q].view = made + 1
          BY <1>2, <4>1
        <4>3. made + 1 <= made'
          BY <1>1, <1>5
        <4>4. QED
          BY <1>5, <4>2, <4>3
      <3>3. CASE q # p
        <4>1. panes'[q] = panes[q]
          BY <1>4, <3>3
        <4>2. DOMAIN panes[q] = BarFields /\ panes[q].view \in 1..MaxViews /\ panes[q].view <= made
          BY <1>3, <3>1, <4>1 DEF PanesInv
        <4>3. QED
          BY <1>1, <1>5, <4>1, <4>2
      <3>4. QED
        BY <3>2, <3>3
    <2>3. \A q, r \in BrowserPanes : panes'[q].open /\ panes'[r].open /\ panes'[q].view = panes'[r].view => q = r
      <3>1. \A q \in BrowserPanes : q # p /\ panes'[q].open => panes[q].open /\ panes'[q].view = panes[q].view
        BY <1>4
      <3>2. panes'[p].view = made + 1
        BY <1>2, <1>4
      <3>3. \A q, r \in BrowserPanes : panes[q].open /\ panes[r].open /\ panes[q].view = panes[r].view => q = r
        BY <1>3 DEF PanesInv
      <3>4. SUFFICES ASSUME NEW q \in BrowserPanes, NEW r \in BrowserPanes, panes'[q].open, panes'[r].open,
                            panes'[q].view = panes'[r].view, q # r
                     PROVE  FALSE
        OBVIOUS
      <3>5. CASE q # p /\ r # p
        BY <3>1, <3>3, <3>4, <3>5
      <3>6. CASE q = p /\ r # p
        BY <1>7, <3>1, <3>2, <3>4, <3>6
      <3>7. CASE q # p /\ r = p
        BY <1>7, <3>1, <3>2, <3>4, <3>7
      <3>8. QED
        BY <3>4, <3>5, <3>6, <3>7
    <2>4. QED
      BY <1>4, <2>1, <2>2, <2>3 DEF PanesInv
  <1>9. \A n \in navs : n.pane # p
    BY <1>1, <1>3 DEF NavsInv, B!Has
  <1>10. NavsInv'
    <2>1. \A n \in navs : panes'[n.pane] = panes[n.pane]
      BY <1>3, <1>4, <1>9 DEF NavsInv
    <2>2. QED
      BY <1>1, <1>3, <2>1 DEF NavsInv, B!Has, B!Open, B!Loading
  <1>11. BarInv'
    <2>1. SUFFICES ASSUME NEW q \in BrowserPanes, B!Open(q)'
                   PROVE  /\ panes'[q].loading => views'[panes'[q].view].phase \in {"asked", "started", "failed"}
                          /\ views'[panes'[q].view].phase = "started" => panes'[q].error = ""
                          /\ panes'[q].error # "" => panes'[q].error = panes'[q].url
      BY DEF BarInv
    <2>2. CASE q = p
      BY <1>1, <1>2, <1>4, <2>2
    <2>3. CASE q # p
      <3>1. panes'[q] = panes[q] /\ B!Open(q)
        BY <1>4, <2>1, <2>3 DEF B!Open
      <3>2. /\ panes[q].loading => views[panes[q].view].phase \in {"asked", "started", "failed"}
            /\ views[panes[q].view].phase = "started" => panes[q].error = ""
            /\ panes[q].error # "" => panes[q].error = panes[q].url
        BY <1>3, <3>1 DEF BarInv
      <3>3. QED
        BY <1>1, <3>1, <3>2
    <2>4. QED
      BY <2>2, <2>3
  <1>12. QED
    BY <1>6, <1>8, <1>10, <1>11 DEF BrowserInv, ViewsInv

LEMMA BeginsKept ==
  ASSUME ~LoadsRace, BrowserInv, NEW p \in BrowserPanes, NEW u \in B!Pages, B!NavigateBegins(p, u)
  PROVE  BrowserInv'
  <1> DEFINE n == [pane |-> p, view |-> panes[p].view, url |-> u]
  <1>1. /\ B!Open(p) /\ ~B!Loading(p) /\ (\A m \in navs : m.pane # p) /\ navs' = navs \cup {n}
        /\ UNCHANGED <<panes, views, made>>
    BY DEF B!NavigateBegins, B!AtRest
  <1>2. n.pane = p /\ n.view = panes[p].view /\ n.url = u
    OBVIOUS
  <1> HIDE DEF n
  <1>3. ViewsInv /\ NavsInv /\ BarInv
    BY DEF BrowserInv
  <1>4. ViewsInv'
    BY <1>1, <1>3 DEF ViewsInv, MadeInv, PanesInv
  <1>5. NavsInv'
    <2>1. B!Has(n.pane, n.view)
      BY <1>1, <1>2 DEF B!Has
    <2>2. \A m \in navs' : m.pane \in BrowserPanes /\ B!Has(m.pane, m.view) /\ ~B!Loading(m.pane) /\ m.url \in B!Pages
      BY <1>1, <1>2, <1>3, <2>1 DEF NavsInv
    <2>3. \A m \in navs' : m.pane \in BrowserPanes /\ B!Has(m.pane, m.view)' /\ ~B!Loading(m.pane)' /\ m.url \in B!Pages
      BY <1>1, <2>2 DEF B!Has, B!Loading, B!Open
    <2>4. \A m, k \in navs' : m.pane = k.pane => m = k
      BY <1>1, <1>2, <1>3 DEF NavsInv
    <2>5. QED
      BY <2>3, <2>4 DEF NavsInv
  <1>6. BarInv'
    BY <1>1, <1>3 DEF BarInv, B!Open
  <1>7. QED
    BY <1>4, <1>5, <1>6 DEF BrowserInv

LEMMA ClosesKept ==
  ASSUME ~LoadsRace, BrowserInv, NEW p \in BrowserPanes, B!close(p)
  PROVE  BrowserInv'
  <1>1. /\ (\A n \in navs : n.pane # p) /\ panes' = [panes EXCEPT ![p] = B!NoPane]
        /\ UNCHANGED <<views, navs, made>>
    BY DEF B!close, B!AtRest
  <1>2. MadeInv /\ PanesInv /\ NavsInv /\ BarInv
    BY DEF BrowserInv, ViewsInv
  <1>3. /\ DOMAIN panes' = BrowserPanes /\ \A q \in BrowserPanes : q # p => panes'[q] = panes[q]
        /\ panes'[p].open = FALSE
    BY <1>1, <1>2 DEF PanesInv, B!NoPane
  <1>4. MadeInv'
    BY <1>1, <1>2 DEF MadeInv
  <1>5. PanesInv'
    <2>1. \A q \in BrowserPanes : panes'[q].open \in BOOLEAN
      BY <1>2, <1>3 DEF PanesInv
    <2>2. \A q \in BrowserPanes : panes'[q].open => q # p /\ panes'[q] = panes[q] /\ panes[q].open
      BY <1>3
    <2>3. QED
      BY <1>1, <1>2, <1>3, <2>1, <2>2 DEF PanesInv
  <1>6. NavsInv'
    <2>1. \A n \in navs : panes'[n.pane] = panes[n.pane]
      BY <1>1, <1>2, <1>3 DEF NavsInv
    <2>2. QED
      BY <1>1, <1>2, <2>1 DEF NavsInv, B!Has, B!Open, B!Loading
  <1>7. BarInv'
    <2>1. \A q \in BrowserPanes : B!Open(q)' => panes'[q] = panes[q] /\ B!Open(q)
      BY <1>3 DEF B!Open
    <2>2. QED
      BY <1>1, <1>2, <2>1 DEF BarInv
  <1>8. QED
    BY <1>4, <1>5, <1>6, <1>7 DEF BrowserInv, ViewsInv

\* Entries are no part of what the bar says
LEMMA DrainsKept ==
  ASSUME BrowserInv, B!drained
  PROVE  BrowserInv'
  <1> DEFINE p == Head(drains).pane
             list == B!keep(panes[p].entries, Head(drains).reset,
                            [i \in 1..Len(Head(drains).ids) |-> [id |-> Head(drains).ids[i], n |-> i]])
  <1>1. /\ panes' = IF B!Open(p) THEN [panes EXCEPT ![p].entries = list] ELSE panes
        /\ UNCHANGED <<views, navs, made>>
    BY DEF B!drained
  <1> HIDE DEF p, list
  <1>2. MadeInv /\ PanesInv /\ NavsInv /\ BarInv
    BY DEF BrowserInv, ViewsInv
  <1>3. /\ DOMAIN panes' = BrowserPanes
        /\ \A q \in BrowserPanes : panes'[q].open = panes[q].open
        /\ \A q \in BrowserPanes : panes[q].open =>
             /\ DOMAIN panes'[q] = BarFields /\ panes'[q].view = panes[q].view /\ panes'[q].url = panes[q].url
             /\ panes'[q].loading = panes[q].loading /\ panes'[q].error = panes[q].error
    <2>1. CASE B!Open(p) /\ p \in BrowserPanes
      <3>1. DOMAIN panes[p] = BarFields /\ DOMAIN panes = BrowserPanes
        BY <1>2, <2>1 DEF PanesInv, B!Open
      <3> DEFINE bar_now == [panes[p] EXCEPT !.entries = list]
      <3>2. /\ DOMAIN bar_now = BarFields /\ bar_now.open = panes[p].open /\ bar_now.view = panes[p].view
            /\ bar_now.url = panes[p].url /\ bar_now.loading = panes[p].loading /\ bar_now.error = panes[p].error
        BY <3>1 DEF BarFields
      <3>3. panes' = [panes EXCEPT ![p] = bar_now]
        BY <1>1, <2>1
      <3> HIDE DEF bar_now
      <3>4. panes'[p] = bar_now /\ DOMAIN panes' = BrowserPanes /\ \A q \in BrowserPanes : q # p => panes'[q] = panes[q]
        BY <2>1, <3>1, <3>3
      <3>5. \A q \in BrowserPanes : panes[q].open => DOMAIN panes[q] = BarFields
        BY <1>2 DEF PanesInv
      <3>6. QED
        BY <3>2, <3>4, <3>5
    <2>2. CASE ~(B!Open(p) /\ p \in BrowserPanes)
      <3>1. DOMAIN panes' = BrowserPanes /\ \A q \in BrowserPanes : panes'[q] = panes[q]
        BY <1>1, <1>2, <2>2 DEF PanesInv
      <3>2. QED
        BY <1>2, <3>1 DEF PanesInv
    <2>3. QED
      BY <2>1, <2>2
  <1>4. MadeInv'
    BY <1>1, <1>2 DEF MadeInv
  <1>5. PanesInv'
    BY <1>1, <1>2, <1>3 DEF PanesInv
  <1>6. NavsInv'
    <2>1. ASSUME NEW n \in navs'
          PROVE  n.pane \in BrowserPanes /\ B!Has(n.pane, n.view)' /\ ~B!Loading(n.pane)' /\ n.url \in B!Pages
      <3>1. n.pane \in BrowserPanes /\ B!Has(n.pane, n.view) /\ ~B!Loading(n.pane) /\ n.url \in B!Pages
        BY <1>1, <1>2 DEF NavsInv
      <3>2. panes'[n.pane].open /\ panes'[n.pane].view = panes[n.pane].view
        BY <1>3, <3>1 DEF B!Has, B!Open
      <3>3. QED
        BY <1>1, <3>1, <3>2 DEF B!Has, B!Loading, B!Open
    <2>2. \A n, m \in navs' : n.pane = m.pane => n = m
      BY <1>1, <1>2 DEF NavsInv
    <2>3. QED
      BY <2>1, <2>2 DEF NavsInv
  <1>7. BarInv'
    <2>1. SUFFICES ASSUME NEW q \in BrowserPanes, B!Open(q)'
                   PROVE  /\ panes'[q].loading => views'[panes'[q].view].phase \in {"asked", "started", "failed"}
                          /\ views'[panes'[q].view].phase = "started" => panes'[q].error = ""
                          /\ panes'[q].error # "" => panes'[q].error = panes'[q].url
      BY DEF BarInv
    <2>2. panes[q].open /\ B!Open(q)
      BY <1>3, <2>1 DEF B!Open
    <2>3. /\ panes'[q].view = panes[q].view /\ panes'[q].url = panes[q].url
          /\ panes'[q].loading = panes[q].loading /\ panes'[q].error = panes[q].error
      BY <1>3, <2>2
    <2>4. /\ panes[q].loading => views[panes[q].view].phase \in {"asked", "started", "failed"}
          /\ views[panes[q].view].phase = "started" => panes[q].error = ""
          /\ panes[q].error # "" => panes[q].error = panes[q].url
      BY <1>2, <2>2 DEF BarInv
    <2>5. QED
      BY <1>1, <2>3, <2>4
  <1>8. QED
    BY <1>4, <1>5, <1>6, <1>7 DEF BrowserInv, ViewsInv

LEMMA BrowserStays ==
  ASSUME BrowserInv, UNCHANGED <<panes, views, navs, made>>
  PROVE  BrowserInv'
  BY DEF BrowserInv, ViewsInv, MadeInv, PanesInv, NavsInv, BarInv, B!Has, B!Loading, B!Open

LEMMA BrowserKept ==
  ASSUME BrowserBounds, ~LoadsRace, BrowserInv, [B!BrowserNext]_(B!browserVars)
  PROVE  BrowserInv'
  <1>1. ASSUME NEW p \in BrowserPanes, B!open(p)
        PROVE  BrowserInv'
    BY <1>1, OpensKept
  <1>2. ASSUME NEW p \in BrowserPanes, B!Stop(p) \/ B!close(p)
        PROVE  BrowserInv'
    BY <1>2, StopsKept, ClosesKept
  <1>3. ASSUME NEW p \in BrowserPanes, NEW u \in B!Pages, B!NavigateBegins(p, u) \/ B!PageMoves(p, u)
        PROVE  BrowserInv'
    BY <1>3, BeginsKept, MovesKept
  <1>4. ASSUME NEW p \in BrowserPanes, B!PageStarts(p) \/ B!PageEnds(p) \/ B!PageFails(p)
        PROVE  BrowserInv'
    BY <1>4, StartsKept, EndsKept, FailsKept
  <1>5. ASSUME NEW p \in BrowserPanes, B!Poll(p)
        PROVE  BrowserInv'
    BY <1>5, BrowserStays DEF B!Poll
  <1>6. ASSUME NEW n \in navs, B!Navigates(n)
        PROVE  BrowserInv'
    BY <1>6, NavigatesKept
  <1>7. ASSUME NEW u \in Local, B!ServerTurns(u)
        PROVE  BrowserInv'
    BY <1>7, BrowserStays DEF B!ServerTurns
  <1>8. CASE UNCHANGED B!browserVars
    BY <1>8, BrowserStays DEF B!browserVars
  <1>9. QED
    BY <1>1, <1>2, <1>3, <1>4, <1>5, <1>6, <1>7, <1>8, DrainsKept DEF B!BrowserNext

LEMMA BrowserInitially ==
  ASSUME BrowserBounds, B!BrowserInit
  PROVE  BrowserInv
  <1>1. /\ panes = [p \in BrowserPanes |-> B!NoPane] /\ views = [v \in 1..MaxViews |-> B!NoView] /\ navs = {}
        /\ made = 0
    BY DEF B!BrowserInit
  <1>2. \A p \in BrowserPanes : panes[p].open = FALSE
    BY <1>1 DEF B!NoPane
  <1>3. MadeInv
    BY <1>1 DEF MadeInv, B!NoView, Webviews
  <1>4. PanesInv
    BY <1>1, <1>2 DEF PanesInv
  <1>5. NavsInv /\ BarInv
    BY <1>1, <1>2 DEF NavsInv, BarInv, B!Open
  <1>6. QED
    BY <1>3, <1>4, <1>5 DEF BrowserInv, ViewsInv

(* A bar that says loading has a page under way, or one that failed with    *)
(* nothing reported, and the error in a bar is about the address it shows:  *)
(* open, navigate, Stop, close, the webview's Started and Finished and the  *)
(* polls of any panes, while loads and navigations of a pane do not overlap. *)
THEOREM BarsTell ==
  ASSUME BrowserBounds
  PROVE  B!BrowserSpec => [](B!LoadingIsReal /\ B!ErrorAtRest)
  <1> DEFINE Inv == ~LoadsRace => BrowserInv
  <1>1. B!BrowserInit => Inv
    BY BrowserInitially
  <1>2. Inv /\ [B!BrowserNext]_(B!browserVars) => Inv'
    BY BrowserKept
  <1>3. Inv => B!LoadingIsReal /\ B!ErrorAtRest
    BY DEF BrowserInv, BarInv, B!LoadingIsReal, B!ErrorAtRest, B!ErrorIsOfUrl
  <1> HIDE DEF Inv
  <1>4. QED
    BY <1>1, <1>2, <1>3, PTL DEF B!BrowserSpec

-----------------------------------------------------------------------------
(* Dictation                                                               *)

CONSTANTS HISTORY_LIMIT, MaxDictations, MaxPieces, DictationDowns, DictationRaces
VARIABLES voice, ctl, voice_in, voice_out, late, shown, starting, history, typed, strays,
          dictations, pieces, voice_downs

T == INSTANCE Dictation WITH MaxDowns <- DictationDowns, Racing <- DictationRaces, helper <- voice, stdin <- voice_in,
                             stdout <- voice_out, begun <- dictations, downs <- voice_downs

Controls == {"idle", "listening", "busy"}
Lines == [type : {"ready", "phase", "transcript", "toggle", "insert"}, id : Nat, words : Nat, of : Nat,
          continues : BOOLEAN, phase : Controls]
Works == [n : Nat, of : Nat, last : BOOLEAN]
Controllers == [phase : Controls, dictation : Nat, spoke : BOOLEAN, outstanding : Int,
                pending : SUBSET [id : Nat, n : Nat, of : Nat], work : Seq(Works), ids : Nat]
Entered == [piece : Nat, words : Nat]

DictationTypes ==
  /\ ctl \in Controllers
  /\ voice_in \in Seq(Lines) /\ voice_out \in Seq(Lines) /\ late \in Seq(Lines)
  /\ shown \in [helper : {"Starting", "Running", "Crashed"}, phase : Controls]
  /\ typed \in Seq(Entered) /\ strays \in SUBSET Nat /\ dictations \in Nat /\ pieces \in Nat
  /\ ctl.dictation <= dictations /\ (ctl.phase = "listening" => ctl.dictation # 0)
  /\ voice # "up" => ctl = T!Booted

\* A line with the words of a piece, and one whose piece is still to be typed
Says(l) == l.type \in {"insert", "transcript"}
Awaited(n) == \E p \in ctl.pending : p.n = n
Told(l) == Says(l) /\ Awaited(l.words)

BeforeWork(n) == n <= pieces /\ \A j \in DOMAIN ctl.work : n < ctl.work[j].n
LineBefore(a, b) == Told(a) /\ Told(b) => a.words < b.words

\* Pieces go from the work to the lines in the order of their numbers
WorkInv ==
  /\ \A i \in DOMAIN ctl.work : ctl.work[i].n <= pieces /\ ctl.work[i].of \in 1 .. dictations
  /\ \A i, j \in DOMAIN ctl.work : i < j => ctl.work[i].n < ctl.work[j].n
  /\ \A p \in ctl.pending : BeforeWork(p.n)

LinesInv ==
  /\ \A i \in DOMAIN voice_in : Says(voice_in[i]) => BeforeWork(voice_in[i].words)
  /\ \A i \in DOMAIN voice_out : Says(voice_out[i]) => BeforeWork(voice_out[i].words)
  /\ \A i \in DOMAIN late : Says(late[i]) => BeforeWork(late[i].words) /\ ~Awaited(late[i].words)
  /\ \A i, j \in DOMAIN voice_in : i < j => LineBefore(voice_in[i], voice_in[j])
  /\ \A i, j \in DOMAIN voice_out : i < j => LineBefore(voice_out[i], voice_out[j])
  /\ \A i \in DOMAIN voice_in, j \in DOMAIN voice_out : LineBefore(voice_in[i], voice_out[j])

\* What is typed was said before what is still to be typed
Own(e) == e.words = e.piece
TypedInv ==
  /\ \A k \in DOMAIN typed : Own(typed[k]) \/ typed[k].words \in strays
  /\ \A i, j \in DOMAIN typed : i < j /\ Own(typed[i]) /\ Own(typed[j]) => typed[i].piece < typed[j].piece
  /\ \A k \in DOMAIN typed : Own(typed[k]) => BeforeWork(typed[k].piece)
  /\ \A i \in DOMAIN voice_in, k \in DOMAIN typed :
       Told(voice_in[i]) /\ Own(typed[k]) => typed[k].piece < voice_in[i].words
  /\ \A i \in DOMAIN voice_out, k \in DOMAIN typed :
       Told(voice_out[i]) /\ Own(typed[k]) => typed[k].piece < voice_out[i].words

OrderInv == WorkInv /\ LinesInv /\ TypedInv

\* A line waits under the id of the piece whose words it says
Matches(l) == l.id <= ctl.ids /\ \A p \in ctl.pending : p.id = l.id <=> p.n = l.words

\* The lines of the helper that runs match; those of one that was switched off are
\* strays, and no piece of the helper that runs is one
KeysInv ==
  /\ \A p \in ctl.pending : p.id <= ctl.ids /\ p.n \notin strays
  /\ voice \in {"boot", "off"} => voice_out = <<>>
  /\ voice = "up" => \A i \in DOMAIN voice_out : Says(voice_out[i]) => Matches(voice_out[i])
  /\ \A i \in DOMAIN voice_in : Says(voice_in[i]) => voice_in[i].words \in strays \/ Matches(voice_in[i])
  /\ \A i \in DOMAIN late : late[i].type = "transcript" => late[i].words \in strays
  /\ \A n \in strays : BeforeWork(n)

-----------------------------------------------------------------------------
\* What the helper does by itself, but for hearing a piece and typing one
Works1(w) == w \in Works /\ w.n = pieces + 1 /\ w.of = ctl.dictation

WorkStep ==
  \/ ctl'.work = ctl.work /\ pieces' = pieces
  \/ ctl.work # <<>> /\ ctl'.work = Tail(ctl.work) /\ pieces' = pieces
  \/ /\ ctl.phase = "listening" /\ ctl'.dictation = ctl.dictation /\ pieces' = pieces + 1
     /\ \E w \in Works : Works1(w) /\ ctl'.work = Append(ctl.work, w)

TalkStep ==
  \/ /\ ctl'.dictation = ctl.dictation /\ ctl'.spoke = ctl.spoke /\ dictations' = dictations
     /\ ctl'.phase # "idle" => ctl.phase # "idle"
  \/ ctl'.dictation = 0 /\ ctl'.phase = "idle" /\ dictations' = dictations
  \/ /\ ctl'.dictation = dictations + 1 /\ ctl'.spoke = FALSE /\ dictations' = dictations + 1
     /\ ctl'.work = ctl.work /\ (DictationRaces \/ ctl.work = <<>>)

PhaseSaid(c) ==
  IF c.phase = ctl.phase THEN voice_out' = voice_out ELSE voice_out' = Append(voice_out, T!PhaseLine(c.phase))

\* The words of the line that is read are typed, for a piece that waits no more
InsertStep ==
  /\ voice_in # <<>> /\ voice_in' = Tail(voice_in) /\ Says(Head(voice_in))
  /\ \E p \in ctl.pending :
       p.id = Head(voice_in).id /\ typed' = Append(typed, [piece |-> p.n, words |-> Head(voice_in).words])
  /\ \A p \in ctl'.pending : p.id # Head(voice_in).id
  /\ ctl'.work = ctl.work /\ pieces' = pieces

ControllerMoves ==
  /\ voice = "up" /\ ctl' \in Controllers /\ ctl'.pending \subseteq ctl.pending /\ ctl'.ids = ctl.ids
  /\ PhaseSaid(ctl') /\ WorkStep /\ TalkStep
  /\ ctl'.phase = "listening" => ctl'.dictation # 0
  /\ voice_in' = voice_in \/ (voice_in # <<>> /\ voice_in' = Tail(voice_in))
  /\ typed' = typed \/ InsertStep
  /\ UNCHANGED <<voice, late, shown, starting, history, strays>>

LEMMA LinesAre ==
  /\ T!Ready \in Lines /\ T!Ready.type = "ready"
  /\ \A p \in Controls : T!PhaseLine(p) \in Lines /\ T!PhaseLine(p).type = "phase" /\ T!PhaseLine(p).phase = p
  /\ \A k, n, d \in Nat, c \in BOOLEAN :
       /\ T!Transcript(k, n, d, c) \in Lines /\ T!Transcript(k, n, d, c).type = "transcript"
       /\ T!Transcript(k, n, d, c).id = k /\ T!Transcript(k, n, d, c).words = n
       /\ T!Transcript(k, n, d, c).of = d /\ T!Transcript(k, n, d, c).continues = c
  /\ T!Toggle \in Lines /\ T!Toggle.type = "toggle"
  /\ \A k, n \in Nat :
       /\ T!InsertLine(k, n) \in Lines /\ T!InsertLine(k, n).type = "insert"
       /\ T!InsertLine(k, n).id = k /\ T!InsertLine(k, n).words = n
  <1>1. \A k, n, d \in Nat, c \in BOOLEAN :
          T!Transcript(k, n, d, c) = [type |-> "transcript", id |-> k, words |-> n, of |-> d, continues |-> c, phase |-> "idle"]
    <2> TAKE k \in Nat, n \in Nat, d \in Nat, c \in BOOLEAN
    <2>1. PICK a : a = [T!Ready EXCEPT !.type = "transcript"]
      OBVIOUS
    <2>2. PICK b : b = [a EXCEPT !.id = k]
      OBVIOUS
    <2>3. PICK e : e = [b EXCEPT !.words = n]
      OBVIOUS
    <2>4. PICK f : f = [e EXCEPT !.of = d]
      OBVIOUS
    <2>5. a = [type |-> "transcript", id |-> 0, words |-> 0, of |-> 0, continues |-> FALSE, phase |-> "idle"]
      BY <2>1 DEF T!Ready
    <2>6. b = [type |-> "transcript", id |-> k, words |-> 0, of |-> 0, continues |-> FALSE, phase |-> "idle"]
      BY <2>2, <2>5
    <2>7. e = [type |-> "transcript", id |-> k, words |-> n, of |-> 0, continues |-> FALSE, phase |-> "idle"]
      BY <2>3, <2>6
    <2>8. f = [type |-> "transcript", id |-> k, words |-> n, of |-> d, continues |-> FALSE, phase |-> "idle"]
      BY <2>4, <2>7
    <2>9. T!Transcript(k, n, d, c) = [f EXCEPT !.continues = c]
      BY <2>1, <2>2, <2>3, <2>4 DEF T!Transcript
    <2>10. QED
      BY <2>8, <2>9
  <1>2. \A k, n \in Nat :
          T!InsertLine(k, n) = [type |-> "insert", id |-> k, words |-> n, of |-> 0, continues |-> FALSE, phase |-> "idle"]
    <2> TAKE k \in Nat, n \in Nat
    <2>1. PICK a : a = [T!Ready EXCEPT !.type = "insert"]
      OBVIOUS
    <2>2. PICK b : b = [a EXCEPT !.id = k]
      OBVIOUS
    <2>3. a = [type |-> "insert", id |-> 0, words |-> 0, of |-> 0, continues |-> FALSE, phase |-> "idle"]
      BY <2>1 DEF T!Ready
    <2>4. b = [type |-> "insert", id |-> k, words |-> 0, of |-> 0, continues |-> FALSE, phase |-> "idle"]
      BY <2>2, <2>3
    <2>5. T!InsertLine(k, n) = [b EXCEPT !.words = n]
      BY <2>1, <2>2 DEF T!InsertLine
    <2>6. QED
      BY <2>4, <2>5
  <1>3. /\ T!Ready \in Lines /\ T!Ready.type = "ready"
        /\ T!Toggle \in Lines /\ T!Toggle.type = "toggle"
    BY DEF T!Ready, T!Toggle, Lines, Controls
  <1>4. \A p \in Controls : T!PhaseLine(p) \in Lines /\ T!PhaseLine(p).type = "phase" /\ T!PhaseLine(p).phase = p
    BY DEF T!Ready, T!PhaseLine, Lines, Controls
  <1>5. \A k, n, d \in Nat, c \in BOOLEAN :
          /\ T!Transcript(k, n, d, c) \in Lines /\ T!Transcript(k, n, d, c).type = "transcript"
          /\ T!Transcript(k, n, d, c).id = k /\ T!Transcript(k, n, d, c).words = n
          /\ T!Transcript(k, n, d, c).of = d /\ T!Transcript(k, n, d, c).continues = c
    BY <1>1 DEF Lines, Controls
  <1>6. \A k, n \in Nat :
          /\ T!InsertLine(k, n) \in Lines /\ T!InsertLine(k, n).type = "insert"
          /\ T!InsertLine(k, n).id = k /\ T!InsertLine(k, n).words = n
    <2> TAKE k \in Nat, n \in Nat
    <2>1. PICK l : l = T!InsertLine(k, n)
      OBVIOUS
    <2>2. l = [type |-> "insert", id |-> k, words |-> n, of |-> 0, continues |-> FALSE, phase |-> "idle"]
      BY <1>2, <2>1
    <2>3. l \in Lines /\ l.type = "insert" /\ l.id = k /\ l.words = n
      BY <2>2 DEF Lines, Controls
    <2>4. QED
      BY <2>1, <2>3
  <1>7. QED
    BY <1>3, <1>4, <1>5, <1>6

LEMMA BecomesIs ==
  ASSUME NEW c, DictationTypes, T!Becomes(c, <<>>)
  PROVE  ctl' = c /\ PhaseSaid(c)
  <1>1. voice_out \o <<>> = voice_out /\ voice_out \in Seq(Lines)
    BY ConcatEmptySeq DEF DictationTypes
  <1>2. \A l : voice_out \o <<l>> = Append(voice_out, l)
    BY <1>1
  <1>3. QED
    BY <1>1, <1>2 DEF T!Becomes, PhaseSaid

LEMMA SettleIs ==
  ASSUME NEW c \in Controllers
  PROVE  /\ T!settle(c) \in Controllers
         /\ T!settle(c).pending = c.pending /\ T!settle(c).work = c.work /\ T!settle(c).ids = c.ids
         /\ T!settle(c).dictation = c.dictation /\ T!settle(c).spoke = c.spoke
         /\ T!settle(c).phase # "idle" => c.phase # "idle"
         /\ T!settle(c).phase = "listening" => c.phase = "listening"
         /\ c.phase = "listening" => T!settle(c) = c
  BY DEF T!settle, Controllers, Controls

LEMMA SettlePhase ==
  ASSUME NEW c \in Controllers
  PROVE  T!settle(c).phase \in {"idle", c.phase}
  BY DEF T!settle, Controllers, Controls

LEMMA EnqueuedIs ==
  ASSUME DictationTypes, NEW c \in Controllers, NEW last \in BOOLEAN, c.work = ctl.work, c.dictation = ctl.dictation
  PROVE  /\ T!Enqueued(c, last) \in Controllers
         /\ T!Enqueued(c, last).pending = c.pending
         /\ \E w \in Works : Works1(w) /\ T!Enqueued(c, last).work = Append(ctl.work, w)
         /\ T!Enqueued(c, last).dictation = c.dictation /\ T!Enqueued(c, last).spoke = c.spoke
         /\ T!Enqueued(c, last).phase = c.phase /\ T!Enqueued(c, last).ids = c.ids
  <1> DEFINE w == [n |-> pieces + 1, of |-> c.dictation, last |-> last]
  <1>1. w \in Works /\ Works1(w)
    BY DEF DictationTypes, Works, Works1, Controllers
  <1>2. Append(c.work, w) \in Seq(Works)
    BY <1>1 DEF Controllers
  <1>3. T!Enqueued(c, last) = [c EXCEPT !.outstanding = c.outstanding + 1, !.work = Append(c.work, w)]
    BY DEF T!Enqueued
  <1> HIDE DEF w
  <1>4. c.outstanding + 1 \in Int
    BY DEF Controllers
  <1>5. LET e == T!Enqueued(c, last) IN
        /\ e \in Controllers /\ e.pending = c.pending /\ e.work = Append(c.work, w) /\ e.dictation = c.dictation
        /\ e.spoke = c.spoke /\ e.phase = c.phase /\ e.ids = c.ids
    <2>1. PICK o, left, e : o = c.outstanding + 1 /\ left = Append(c.work, w) /\ e = T!Enqueued(c, last)
      OBVIOUS
    <2>2. e = [c EXCEPT !.outstanding = o, !.work = left]
      BY <2>1, <1>3
    <2>3. PICK d : d = [c EXCEPT !.outstanding = o]
      OBVIOUS
    <2>4. d = [phase |-> c.phase, dictation |-> c.dictation, spoke |-> c.spoke, outstanding |-> o,
               pending |-> c.pending, work |-> c.work, ids |-> c.ids]
      BY <2>3 DEF Controllers
    <2>5. e = [d EXCEPT !.work = left]
      BY <2>2, <2>3
    <2>6. e = [phase |-> c.phase, dictation |-> c.dictation, spoke |-> c.spoke, outstanding |-> o,
               pending |-> c.pending, work |-> left, ids |-> c.ids]
      BY <2>4, <2>5
    <2>7. o \in Int /\ left \in Seq(Works)
      BY <2>1, <1>2, <1>4
    <2>8. QED
      BY <2>1, <2>6, <2>7 DEF Controllers
  <1>6. QED
    BY <1>1, <1>5

\* A tap begins a dictation or ends the one that listens
LEMMA TappedIs ==
  ASSUME DictationTypes, T!Tapped
  PROVE  /\ ctl' \in Controllers /\ ctl'.pending \subseteq ctl.pending /\ ctl'.ids = ctl.ids
         /\ PhaseSaid(ctl') /\ WorkStep /\ TalkStep
         /\ ctl'.phase = "listening" => ctl'.dictation # 0
  <1>1. CASE /\ ctl.phase = "idle" /\ T!Settled(ctl) /\ dictations' = dictations + 1
             /\ T!Becomes(T!start(ctl), <<>>) /\ UNCHANGED pieces
    <2>1. ctl' = T!start(ctl) /\ PhaseSaid(ctl')
      BY <1>1, BecomesIs
    <2>2. T!start(ctl) = [ctl EXCEPT !.phase = "listening", !.dictation = dictations + 1, !.outstanding = 0, !.spoke = FALSE]
      BY DEF T!start
    <2>3. /\ ctl' \in Controllers /\ ctl'.pending = ctl.pending /\ ctl'.work = ctl.work
          /\ ctl'.dictation = dictations + 1 /\ ctl'.spoke = FALSE /\ ctl'.ids = ctl.ids
      <3>1. ctl' = [phase |-> "listening", dictation |-> dictations + 1, spoke |-> FALSE, outstanding |-> 0,
                    pending |-> ctl.pending, work |-> ctl.work, ids |-> ctl.ids]
        BY <2>1, <2>2 DEF DictationTypes, Controllers
      <3>2. QED
        BY <3>1 DEF DictationTypes, Controllers, Controls
    <2>4. WorkStep
      BY <1>1, <2>3 DEF WorkStep
    <2>5. TalkStep
      BY <1>1, <2>3 DEF TalkStep, T!Settled
    <2>6. ctl'.dictation # 0
      BY <2>3 DEF DictationTypes
    <2>7. QED
      BY <2>1, <2>3, <2>4, <2>5, <2>6
  <1>2. ASSUME ctl.phase = "listening", NEW rest \in BOOLEAN, T!Becomes(T!finish(ctl, rest), <<>>),
               pieces' = IF rest THEN pieces + 1 ELSE pieces, UNCHANGED dictations
        PROVE  /\ ctl' \in Controllers /\ ctl'.pending \subseteq ctl.pending /\ ctl'.ids = ctl.ids
               /\ PhaseSaid(ctl') /\ WorkStep /\ TalkStep
               /\ ctl'.phase = "listening" => ctl'.dictation # 0
    <2>1. ctl' = T!finish(ctl, rest) /\ PhaseSaid(ctl')
      BY <1>2, BecomesIs
    <2> DEFINE b == [ctl EXCEPT !.phase = "busy"]
               d == [ctl EXCEPT !.phase = "idle"]
    <2>2. /\ b \in Controllers /\ b.pending = ctl.pending /\ b.work = ctl.work /\ b.dictation = ctl.dictation
          /\ b.spoke = ctl.spoke /\ b.phase = "busy" /\ b.ids = ctl.ids
          /\ d \in Controllers /\ d.pending = ctl.pending /\ d.work = ctl.work /\ d.dictation = ctl.dictation
          /\ d.spoke = ctl.spoke /\ d.phase = "idle" /\ d.ids = ctl.ids
      BY DEF DictationTypes, Controllers, Controls
    <2>3. ctl' = IF rest THEN T!settle(T!Enqueued(b, TRUE))
                 ELSE IF ~ctl.spoke /\ ctl.outstanding = 0 THEN d ELSE T!settle(b)
      BY <2>1 DEF T!finish
    <2> HIDE DEF b, d
    <2>4. CASE rest
      <3>1. PICK w \in Works : Works1(w) /\ T!Enqueued(b, TRUE).work = Append(ctl.work, w)
        BY <2>2, EnqueuedIs
      <3>2. /\ ctl' \in Controllers /\ ctl'.pending = ctl.pending /\ ctl'.work = Append(ctl.work, w)
            /\ ctl'.dictation = ctl.dictation /\ ctl'.spoke = ctl.spoke /\ ctl'.phase # "listening" /\ ctl'.ids = ctl.ids
        <4> DEFINE q == T!Enqueued(b, TRUE)
        <4>1. /\ q \in Controllers /\ q.pending = ctl.pending /\ q.dictation = ctl.dictation /\ q.spoke = ctl.spoke
              /\ q.phase = "busy" /\ q.ids = ctl.ids
          BY <2>2, EnqueuedIs
        <4>2. q.work = Append(ctl.work, w) /\ ctl' = T!settle(q)
          BY <2>3, <2>4, <3>1
        <4> HIDE DEF q
        <4>3. QED
          BY <4>1, <4>2, SettleIs
      <3>3. WorkStep
        BY <1>2, <2>4, <3>1, <3>2 DEF WorkStep
      <3>4. TalkStep
        BY <1>2, <3>2 DEF TalkStep
      <3>5. QED
        BY <2>1, <3>2, <3>3, <3>4
    <2>5. CASE ~rest
      <3>1. /\ ctl' \in Controllers /\ ctl'.pending = ctl.pending /\ ctl'.work = ctl.work
            /\ ctl'.dictation = ctl.dictation /\ ctl'.spoke = ctl.spoke /\ ctl'.phase # "listening" /\ ctl'.ids = ctl.ids
        BY <2>2, <2>3, <2>5, SettleIs
      <3>2. QED
        BY <1>2, <2>1, <2>5, <3>1 DEF WorkStep, TalkStep
    <2>6. QED
      BY <2>4, <2>5
  <1>3. QED
    BY <1>1, <1>2 DEF T!Tapped

LEMMA TapIs ==
  ASSUME DictationTypes, T!Tap
  PROVE  ControllerMoves
  BY TappedIs DEF T!Tap, T!app, ControllerMoves

LEMMA CancelIs ==
  ASSUME DictationTypes, T!Cancel
  PROVE  ControllerMoves
  <1>1. PhaseSaid(ctl') /\ ctl' = [ctl EXCEPT !.phase = "idle", !.dictation = 0, !.pending = {}]
    BY BecomesIs DEF T!Cancel
  <1>2. QED
    BY <1>1 DEF T!Cancel, T!app, ControllerMoves, DictationTypes, Controllers, Controls, WorkStep, TalkStep

LEMMA TypeOnPauseIs ==
  ASSUME DictationTypes, T!TypeOnPause
  PROVE  ControllerMoves
  <1>1. PhaseSaid(ctl') /\ ctl' = T!Enqueued(ctl, FALSE)
    BY BecomesIs DEF T!TypeOnPause
  <1>2. PICK w \in Works : Works1(w) /\ T!Enqueued(ctl, FALSE).work = Append(ctl.work, w)
    BY EnqueuedIs DEF DictationTypes
  <1>3. /\ ctl' \in Controllers /\ ctl'.pending = ctl.pending /\ ctl'.work = Append(ctl.work, w)
        /\ ctl'.dictation = ctl.dictation /\ ctl'.spoke = ctl.spoke /\ ctl'.phase = ctl.phase /\ ctl'.ids = ctl.ids
    BY <1>1, <1>2, EnqueuedIs DEF DictationTypes
  <1>4. QED
    BY <1>1, <1>2, <1>3 DEF T!TypeOnPause, T!app, ControllerMoves, WorkStep, TalkStep, DictationTypes


\* What is left of the work, whatever else a transcription changes
LEMMA RestIs ==
  ASSUME DictationTypes, ctl.work # <<>>
  PROVE  LET c == [ctl EXCEPT !.work = Tail(ctl.work)] IN
         /\ c \in Controllers /\ c.pending = ctl.pending /\ c.work = Tail(ctl.work) /\ c.dictation = ctl.dictation
         /\ c.spoke = ctl.spoke /\ c.phase = ctl.phase /\ c.ids = ctl.ids
         /\ c = [phase |-> ctl.phase, dictation |-> ctl.dictation, spoke |-> ctl.spoke, outstanding |-> ctl.outstanding,
                 pending |-> ctl.pending, work |-> Tail(ctl.work), ids |-> ctl.ids]
         /\ Head(ctl.work) \in Works
  <1>1. PICK left : left = Tail(ctl.work)
    OBVIOUS
  <1>2. left \in Seq(Works) /\ Head(ctl.work) \in Works
    BY <1>1, HeadTailProperties DEF DictationTypes, Controllers
  <1>3. PICK c : c = [ctl EXCEPT !.work = left]
    OBVIOUS
  <1>4. c = [phase |-> ctl.phase, dictation |-> ctl.dictation, spoke |-> ctl.spoke, outstanding |-> ctl.outstanding,
             pending |-> ctl.pending, work |-> left, ids |-> ctl.ids]
    BY <1>3 DEF DictationTypes, Controllers
  <1>5. c \in Controllers
    BY <1>2, <1>4 DEF DictationTypes, Controllers
  <1>6. c.pending = ctl.pending /\ c.work = left /\ c.dictation = ctl.dictation /\ c.spoke = ctl.spoke /\ c.phase = ctl.phase
        /\ c.ids = ctl.ids
    BY <1>4
  <1>7. c = [ctl EXCEPT !.work = Tail(ctl.work)]
    BY <1>1, <1>3
  <1>8. QED
    BY <1>1, <1>2, <1>4, <1>5, <1>6, <1>7

HeardStep ==
  /\ voice = "up" /\ ctl.work # <<>> /\ Head(ctl.work) \in Works /\ Head(ctl.work).of = ctl.dictation
  /\ ctl' \in Controllers /\ ctl'.phase = ctl.phase /\ ctl'.dictation = ctl.dictation /\ ctl'.spoke = TRUE
  /\ ctl'.pending = ctl.pending \cup {[id |-> ctl.ids + 1, n |-> Head(ctl.work).n, of |-> Head(ctl.work).of]}
  /\ ctl'.work = Tail(ctl.work) /\ ctl'.ids = ctl.ids + 1
  /\ voice_out' = Append(voice_out, T!Transcript(ctl.ids + 1, Head(ctl.work).n, Head(ctl.work).of, ctl.spoke))
  /\ UNCHANGED <<voice, voice_in, late, shown, starting, history, strays, typed, dictations, pieces>>

LEMMA TranscribeIs ==
  ASSUME DictationTypes, T!Transcribe
  PROVE  ControllerMoves \/ HeardStep
  <1> DEFINE p == Head(ctl.work)
  <1>1. PICK c : c = [ctl EXCEPT !.work = Tail(ctl.work)]
    OBVIOUS
  <1>2. /\ voice = "up" /\ ctl.work # <<>>
        /\ IF p.of = ctl.dictation THEN T!Heard(p, c) ELSE T!Becomes(c, <<>>)
        /\ UNCHANGED <<voice, voice_in, typed, dictations, pieces, late, shown, starting, history, strays>>
    BY <1>1 DEF T!Transcribe, T!Transcribed, T!app
  <1>3. /\ c \in Controllers /\ c.pending = ctl.pending /\ c.work = Tail(ctl.work) /\ c.dictation = ctl.dictation
        /\ c.spoke = ctl.spoke /\ c.phase = ctl.phase /\ c.ids = ctl.ids /\ p \in Works
    BY <1>1, <1>2, RestIs
  <1>4. c = [phase |-> ctl.phase, dictation |-> ctl.dictation, spoke |-> ctl.spoke, outstanding |-> ctl.outstanding,
             pending |-> ctl.pending, work |-> Tail(ctl.work), ids |-> ctl.ids]
    BY <1>1, <1>2, RestIs
  <1>5. ASSUME NEW e \in Controllers, T!Becomes(e, <<>>), e.pending = ctl.pending, e.work = Tail(ctl.work),
               e.dictation = ctl.dictation, e.spoke = ctl.spoke, e.phase \in {"idle", ctl.phase}, e.ids = ctl.ids
        PROVE  ControllerMoves
    <2>1. ctl' = e /\ PhaseSaid(ctl')
      BY <1>5, BecomesIs
    <2>2. ctl'.phase = "listening" => ctl'.dictation # 0
      BY <1>5, <2>1 DEF DictationTypes
    <2>3. QED
      BY <1>2, <1>5, <2>1, <2>2 DEF ControllerMoves, WorkStep, TalkStep
  <1> DEFINE less == [c EXCEPT !.outstanding = c.outstanding - 1]
             idle == [less EXCEPT !.phase = "idle"]
  <1>6. /\ less \in Controllers /\ less.pending = ctl.pending /\ less.work = Tail(ctl.work) /\ less.dictation = ctl.dictation
        /\ less.spoke = ctl.spoke /\ less.phase = ctl.phase /\ less.ids = ctl.ids
    <2>1. PICK o : o = c.outstanding - 1
      OBVIOUS
    <2>2. o \in Int
      BY <1>3, <2>1 DEF Controllers
    <2>3. less = [c EXCEPT !.outstanding = o]
      BY <2>1
    <2> HIDE DEF less
    <2>4. less = [phase |-> c.phase, dictation |-> c.dictation, spoke |-> c.spoke, outstanding |-> o,
                 pending |-> c.pending, work |-> c.work, ids |-> c.ids]
      BY <1>3, <2>3 DEF Controllers
    <2>5. QED
      BY <1>3, <2>2, <2>4 DEF Controllers
  <1> HIDE DEF less
  <1>7. /\ idle \in Controllers /\ idle.pending = ctl.pending /\ idle.work = Tail(ctl.work) /\ idle.dictation = ctl.dictation
        /\ idle.spoke = ctl.spoke /\ idle.phase = "idle" /\ idle.ids = ctl.ids
    BY <1>6 DEF Controllers, Controls
  <1> HIDE DEF idle
  <1>8. /\ T!settle(less) \in Controllers /\ T!settle(less).pending = ctl.pending /\ T!settle(less).work = Tail(ctl.work)
        /\ T!settle(less).dictation = ctl.dictation /\ T!settle(less).spoke = ctl.spoke
        /\ T!settle(less).phase \in {"idle", ctl.phase} /\ T!settle(less).ids = ctl.ids
    BY <1>6, SettleIs, SettlePhase
  <1>9. CASE p.of # ctl.dictation
    BY <1>2, <1>3, <1>5, <1>9
  <1>10. CASE p.of = ctl.dictation /\ (T!Becomes(idle, <<>>) \/ T!Becomes(T!settle(less), <<>>))
    BY <1>5, <1>7, <1>8, <1>10
  <1>11. CASE /\ p.of = ctl.dictation
              /\ ctl' = [c EXCEPT !.spoke = TRUE, !.ids = c.ids + 1,
                                 !.pending = c.pending \cup {[id |-> c.ids + 1, n |-> p.n, of |-> p.of]}]
              /\ voice_out' = Append(voice_out, T!Transcript(c.ids + 1, p.n, p.of, c.spoke))
    <2>1. PICK d : d = [c EXCEPT !.spoke = TRUE]
      OBVIOUS
    <2>2. PICK q, k : k = ctl.ids + 1 /\ q = ctl.pending \cup {[id |-> k, n |-> p.n, of |-> p.of]}
      OBVIOUS
    <2>3. k \in Nat /\ q \in SUBSET [id : Nat, n : Nat, of : Nat]
      <3>1. k \in Nat
        BY <2>2 DEF DictationTypes, Controllers
      <3>2. [id |-> k, n |-> p.n, of |-> p.of] \in [id : Nat, n : Nat, of : Nat]
        BY <1>3, <3>1 DEF Works
      <3>3. ctl.pending \in SUBSET [id : Nat, n : Nat, of : Nat]
        BY DEF DictationTypes, Controllers
      <3>4. QED
        BY <2>2, <3>1, <3>2, <3>3
    <2>4. d = [phase |-> ctl.phase, dictation |-> ctl.dictation, spoke |-> TRUE, outstanding |-> ctl.outstanding,
               pending |-> ctl.pending, work |-> Tail(ctl.work), ids |-> ctl.ids]
      BY <1>4, <2>1
    <2>5. PICK b : b = [d EXCEPT !.ids = k]
      OBVIOUS
    <2>9. b = [phase |-> ctl.phase, dictation |-> ctl.dictation, spoke |-> TRUE, outstanding |-> ctl.outstanding,
               pending |-> ctl.pending, work |-> Tail(ctl.work), ids |-> k]
      BY <2>4, <2>5
    <2>10. ctl' = [b EXCEPT !.pending = q]
      BY <1>3, <1>11, <2>1, <2>2, <2>5
    <2>6. ctl' = [phase |-> ctl.phase, dictation |-> ctl.dictation, spoke |-> TRUE, outstanding |-> ctl.outstanding,
                  pending |-> q, work |-> Tail(ctl.work), ids |-> k]
      BY <2>9, <2>10
    <2>7. ctl' \in Controllers
      BY <1>3, <2>3, <2>6 DEF DictationTypes, Controllers
    <2>8. QED
      BY <1>2, <1>3, <1>11, <2>2, <2>6, <2>7 DEF HeardStep
  <1>12. QED
    <2>1. CASE p.of = ctl.dictation
      <3>1. T!Heard(p, c)
        BY <1>2, <2>1
      <3>2. \/ /\ ctl' = [c EXCEPT !.spoke = TRUE, !.ids = c.ids + 1,
                                 !.pending = c.pending \cup {[id |-> c.ids + 1, n |-> p.n, of |-> p.of]}]
               /\ voice_out' = Append(voice_out, T!Transcript(c.ids + 1, p.n, p.of, c.spoke))
            \/ T!Becomes(idle, <<>>) \/ T!Becomes(T!settle(less), <<>>)
        BY <3>1 DEF T!Heard, less, idle
      <3>3. QED
        BY <1>10, <1>11, <2>1, <3>2
    <2>2. QED
      BY <1>9, <2>1

\* A piece is typed, or given up: one is outstanding less
LEMMA GivenUpIs ==
  ASSUME DictationTypes, NEW gone \in SUBSET ctl.pending,
         T!Becomes(T!settle([ctl EXCEPT !.pending = ctl.pending \ gone, !.outstanding = ctl.outstanding - 1]), <<>>)
  PROVE  /\ ctl' \in Controllers /\ ctl'.pending = ctl.pending \ gone /\ ctl'.work = ctl.work
         /\ ctl'.dictation = ctl.dictation /\ ctl'.spoke = ctl.spoke /\ ctl'.phase \in {"idle", ctl.phase}
         /\ PhaseSaid(ctl') /\ ctl'.ids = ctl.ids
  <1>1. PICK q : q = ctl.pending \ gone
    OBVIOUS
  <1>2. PICK o : o = ctl.outstanding - 1
    OBVIOUS
  <1>3. q \in SUBSET [id : Nat, n : Nat, of : Nat] /\ o \in Int
    BY <1>1, <1>2 DEF DictationTypes, Controllers
  <1>4. PICK d : d = [ctl EXCEPT !.pending = q]
    OBVIOUS
  <1>5. d = [phase |-> ctl.phase, dictation |-> ctl.dictation, spoke |-> ctl.spoke, outstanding |-> ctl.outstanding,
             pending |-> q, work |-> ctl.work, ids |-> ctl.ids]
    BY <1>4 DEF DictationTypes, Controllers
  <1>6. PICK e : e = [d EXCEPT !.outstanding = o]
    OBVIOUS
  <1>7. e = [phase |-> ctl.phase, dictation |-> ctl.dictation, spoke |-> ctl.spoke, outstanding |-> o,
             pending |-> q, work |-> ctl.work, ids |-> ctl.ids]
    BY <1>5, <1>6
  <1>8. e = [ctl EXCEPT !.pending = ctl.pending \ gone, !.outstanding = ctl.outstanding - 1]
    BY <1>1, <1>2, <1>4, <1>6
  <1>9. e \in Controllers
    BY <1>3, <1>7 DEF DictationTypes, Controllers
  <1>10. ctl' = T!settle(e) /\ PhaseSaid(ctl')
    BY <1>8, BecomesIs
  <1>11. e.phase = ctl.phase /\ e.pending = q /\ e.work = ctl.work /\ e.dictation = ctl.dictation /\ e.spoke = ctl.spoke
         /\ e.ids = ctl.ids
    BY <1>7
  <1>12. QED
    BY <1>1, <1>9, <1>10, <1>11, SettleIs, SettlePhase

LEMMA InsertTimeoutIs ==
  ASSUME DictationTypes, T!InsertTimeout
  PROVE  ControllerMoves
  <1>1. PICK p \in ctl.pending :
          T!Becomes(T!settle([ctl EXCEPT !.pending = ctl.pending \ {p}, !.outstanding = ctl.outstanding - 1]), <<>>)
    BY DEF T!InsertTimeout
  <1>2. /\ ctl' \in Controllers /\ ctl'.pending = ctl.pending \ {p} /\ ctl'.work = ctl.work
        /\ ctl'.dictation = ctl.dictation /\ ctl'.spoke = ctl.spoke /\ ctl'.phase \in {"idle", ctl.phase}
        /\ PhaseSaid(ctl') /\ ctl'.ids = ctl.ids
    BY <1>1, GivenUpIs
  <1>3. /\ voice = "up" /\ UNCHANGED <<voice, voice_in, typed, dictations, pieces, late, shown, starting, history, strays>>
    BY DEF T!InsertTimeout, T!app
  <1>4. QED
    BY <1>2, <1>3 DEF ControllerMoves, WorkStep, TalkStep, DictationTypes

LEMMA HandleIs ==
  ASSUME DictationTypes, T!Handle
  PROVE  ControllerMoves
  <1>1. /\ voice = "up" /\ voice_in # <<>> /\ voice_in' = Tail(voice_in)
        /\ UNCHANGED <<voice, late, shown, starting, history, strays>>
    BY DEF T!Handle, T!app
  <1>2. CASE Head(voice_in).type = "insert" /\ T!insert(Head(voice_in).id, Head(voice_in).words) /\ UNCHANGED <<dictations, pieces>>
    <2> DEFINE n == Head(voice_in).words
               gone == {p \in ctl.pending : p.id = Head(voice_in).id}
               chosen == CHOOSE p \in gone : TRUE
    <2>1. CASE gone = {}
      <3>1. T!Becomes(ctl, <<>>) /\ UNCHANGED typed
        BY <1>2, <2>1 DEF T!insert, T!Awaiting
      <3>2. ctl' = ctl /\ PhaseSaid(ctl')
        BY <3>1, BecomesIs
      <3>3. QED
        BY <1>1, <1>2, <3>1, <3>2 DEF ControllerMoves, WorkStep, TalkStep, DictationTypes
    <2>2. CASE gone # {}
      <3>1. /\ T!Becomes(T!settle([ctl EXCEPT !.pending = ctl.pending \ gone, !.outstanding = ctl.outstanding - 1]), <<>>)
            /\ typed' = Append(typed, [piece |-> chosen.n, words |-> n])
        BY <1>2, <2>2 DEF T!insert, T!Awaiting, T!TypedFor
      <3>2. /\ ctl' \in Controllers /\ ctl'.pending = ctl.pending \ gone /\ ctl'.work = ctl.work
            /\ ctl'.dictation = ctl.dictation /\ ctl'.spoke = ctl.spoke /\ ctl'.phase \in {"idle", ctl.phase}
            /\ PhaseSaid(ctl') /\ ctl'.ids = ctl.ids
        BY <3>1, GivenUpIs
      <3>5. chosen \in gone
        BY <2>2
      <3>6. chosen \in ctl.pending /\ chosen.id = Head(voice_in).id
        BY <3>5
      <3> HIDE DEF chosen
      <3>7. \A p \in ctl'.pending : p.id # Head(voice_in).id
        BY <3>2
      <3>3. InsertStep
        BY <1>1, <1>2, <3>1, <3>2, <3>6, <3>7 DEF InsertStep, Says
      <3>4. QED
        BY <1>1, <1>2, <3>2, <3>3 DEF ControllerMoves, WorkStep, TalkStep, DictationTypes
    <2>3. QED
      BY <2>1, <2>2
  <1>3. CASE Head(voice_in).type = "toggle" /\ T!Tapped /\ UNCHANGED typed
    BY <1>1, <1>3, TappedIs DEF ControllerMoves
  <1>4. CASE UNCHANGED <<ctl, voice_out, typed, dictations, pieces>>
    BY <1>1, <1>4 DEF ControllerMoves, PhaseSaid, WorkStep, TalkStep, DictationTypes
  <1>5. QED
    BY <1>2, <1>3, <1>4 DEF T!Handle

LEMMA HelperIs ==
  ASSUME DictationTypes, T!Tap \/ T!Cancel \/ T!TypeOnPause \/ T!Transcribe \/ T!Handle \/ T!InsertTimeout
  PROVE  ControllerMoves \/ HeardStep
  BY TapIs, CancelIs, TypeOnPauseIs, TranscribeIs, HandleIs, InsertTimeoutIs

-----------------------------------------------------------------------------
(* What is typed comes in the order in which it was said                     *)

LEMMA MovesTyped ==
  ASSUME DictationTypes, ControllerMoves
  PROVE  DictationTypes'
  <1>1. voice_in' \in Seq(Lines)
    <2>1. voice_in \in Seq(Lines)
      BY DEF DictationTypes
    <2>2. voice_in # <<>> => Tail(voice_in) \in Seq(Lines)
      BY <2>1, HeadTailProperties
    <2>3. QED
      BY <2>1, <2>2 DEF ControllerMoves
  <1>2. voice_out' \in Seq(Lines)
    <2>1. ctl'.phase \in Controls /\ PhaseSaid(ctl')
      BY DEF ControllerMoves, Controllers
    <2>2. T!PhaseLine(ctl'.phase) \in Lines
      BY <2>1, LinesAre
    <2>3. voice_out' = voice_out \/ voice_out' = Append(voice_out, T!PhaseLine(ctl'.phase))
      BY <2>1 DEF PhaseSaid
    <2>4. voice_out \in Seq(Lines)
      BY DEF DictationTypes
    <2>5. QED
      BY <2>2, <2>3, <2>4
  <1>3. typed' \in Seq(Entered)
    <2>1. CASE InsertStep
      <3>1. Head(voice_in) \in Lines
        BY <2>1, HeadTailProperties DEF InsertStep, DictationTypes
      <3>2. \A p \in ctl.pending : [piece |-> p.n, words |-> Head(voice_in).words] \in Entered
        BY <3>1 DEF DictationTypes, Controllers, Lines, Entered
      <3>3. typed \in Seq(Entered) /\ \E e \in Entered : typed' = Append(typed, e)
        BY <2>1, <3>2 DEF InsertStep, DictationTypes
      <3>4. QED
        BY <3>3
    <2>2. QED
      BY <2>1 DEF ControllerMoves, DictationTypes
  <1>4. pieces' \in Nat /\ dictations' \in Nat /\ ctl'.dictation <= dictations'
    BY DEF ControllerMoves, DictationTypes, WorkStep, TalkStep
  <1>5. QED
    BY <1>1, <1>2, <1>3, <1>4 DEF ControllerMoves, DictationTypes

LEMMA HeardTyped ==
  ASSUME DictationTypes, HeardStep
  PROVE  DictationTypes'
  <1>1. voice_out' \in Seq(Lines)
    <2>3. ctl.ids + 1 \in Nat /\ Head(ctl.work).n \in Nat /\ Head(ctl.work).of \in Nat /\ ctl.spoke \in BOOLEAN
      BY DEF HeardStep, DictationTypes, Works, Controllers
    <2>1. T!Transcript(ctl.ids + 1, Head(ctl.work).n, Head(ctl.work).of, ctl.spoke) \in Lines
      BY <2>3, LinesAre
    <2>2. QED
      BY <2>1 DEF HeardStep, DictationTypes
  <1>2. QED
    BY <1>1 DEF HeardStep, DictationTypes

\* The lines of t that say something are lines of s, in their order
Within(t, s) ==
  /\ \A i \in DOMAIN t : Says(t[i]) => \E k \in DOMAIN s : s[k] = t[i]
  /\ \A i, j \in DOMAIN t : i < j /\ Says(t[i]) /\ Says(t[j]) =>
       \E k, l \in DOMAIN s : k < l /\ s[k] = t[i] /\ s[l] = t[j]

LEMMA WithinIs ==
  ASSUME NEW s \in Seq(Lines)
  PROVE  /\ Within(s, s) /\ Within(<<>>, s)
         /\ s # <<>> => Within(Tail(s), s)
         /\ \A l \in Lines : ~Says(l) => Within(Append(s, l), s)
  <1>1. Within(s, s) /\ Within(<<>>, s)
    BY DEF Within
  <1>2. ASSUME s # <<>>, NEW t, t = Tail(s)
        PROVE  Within(t, s)
    <2>1. /\ Len(t) = Len(s) - 1 /\ DOMAIN t = 1 .. Len(t) /\ DOMAIN s = 1 .. Len(s)
          /\ \A i \in DOMAIN t : t[i] = s[i + 1] /\ i + 1 \in DOMAIN s
      BY <1>2
    <2>2. QED
      BY <2>1 DEF Within
  <1>3. ASSUME NEW l \in Lines, ~Says(l), NEW t, t = Append(s, l)
        PROVE  Within(t, s)
    <2>1. \A i \in DOMAIN t : (i \in DOMAIN s /\ t[i] = s[i]) \/ t[i] = l
      BY <1>3
    <2>2. QED
      BY <1>3, <2>1 DEF Within
  <1>4. QED
    BY <1>1, <1>2, <1>3

LEMMA JoinedLines ==
  ASSUME NEW s \in Seq(Lines), NEW t \in Seq(Lines), NEW u, u = s \o t
  PROVE  \A i \in DOMAIN u : (\E k \in DOMAIN s : u[i] = s[k]) \/ \E k \in DOMAIN t : u[i] = t[k]
  <1>1. /\ Len(s) \in Nat /\ Len(t) \in Nat /\ DOMAIN s = 1 .. Len(s) /\ DOMAIN t = 1 .. Len(t)
        /\ DOMAIN u = 1 .. Len(s) + Len(t)
        /\ \A i \in DOMAIN u : u[i] = IF i <= Len(s) THEN s[i] ELSE t[i - Len(s)]
    OBVIOUS
  <1>2. \A i \in 1 .. Len(s) + Len(t) : (i <= Len(s) /\ i \in 1 .. Len(s)) \/ (~(i <= Len(s)) /\ i - Len(s) \in 1 .. Len(t))
    BY <1>1
  <1>3. QED
    BY <1>1, <1>2

WorkFrom ==
  /\ \A i \in DOMAIN ctl'.work :
       \/ \E k \in DOMAIN ctl.work : ctl.work[k] = ctl'.work[i]
       \/ ctl'.work[i].n = pieces + 1 /\ pieces' = pieces + 1 /\ ctl'.work[i].of \in 1 .. dictations
  /\ \A i, j \in DOMAIN ctl'.work : i < j =>
       \/ \E k, l \in DOMAIN ctl.work : k < l /\ ctl.work[k] = ctl'.work[i] /\ ctl.work[l] = ctl'.work[j]
       \/ ctl'.work[j].n = pieces + 1 /\ \E k \in DOMAIN ctl.work : ctl.work[k] = ctl'.work[i]

LEMMA WorkIs ==
  ASSUME DictationTypes, WorkStep
  PROVE  WorkFrom /\ pieces <= pieces'
  <1>1. ctl.work \in Seq(Works) /\ pieces \in Nat
    BY DEF DictationTypes, Controllers
  <1>2. CASE ctl'.work = ctl.work /\ pieces' = pieces
    BY <1>1, <1>2 DEF WorkFrom
  <1>3. CASE ctl.work # <<>> /\ ctl'.work = Tail(ctl.work) /\ pieces' = pieces
    <2> DEFINE u == ctl.work
               v == ctl'.work
    <2>1. \A i \in DOMAIN v : v[i] = u[i + 1] /\ i + 1 \in DOMAIN u /\ i \in Nat
      BY <1>1, <1>3
    <2>2. \A i \in DOMAIN v : \E k \in DOMAIN u : u[k] = v[i]
      BY <2>1
    <2>3. \A i, j \in DOMAIN v : i < j => \E k, l \in DOMAIN u : k < l /\ u[k] = v[i] /\ u[l] = v[j]
      <3> SUFFICES ASSUME NEW i \in DOMAIN v, NEW j \in DOMAIN v, i < j
                   PROVE  \E k, l \in DOMAIN u : k < l /\ u[k] = v[i] /\ u[l] = v[j]
        OBVIOUS
      <3>1. i + 1 < j + 1
        BY <2>1
      <3>2. QED
        BY <2>1, <3>1
    <2>4. QED
      BY <1>1, <1>3, <2>2, <2>3 DEF WorkFrom
  <1>4. ASSUME ctl.phase = "listening", NEW w \in Works, Works1(w), ctl'.work = Append(ctl.work, w), pieces' = pieces + 1
        PROVE  WorkFrom /\ pieces <= pieces'
    <2>1. w.n = pieces + 1 /\ w.of \in 1 .. dictations
      BY <1>4 DEF Works1, DictationTypes, Controllers
    <2>2. \A i \in DOMAIN ctl'.work :
            (i \in DOMAIN ctl.work /\ ctl'.work[i] = ctl.work[i]) \/ (i = Len(ctl.work) + 1 /\ ctl'.work[i] = w)
      BY <1>1, <1>4
    <2>3. \A i, j \in DOMAIN ctl'.work : i < j => i \in DOMAIN ctl.work /\ ctl'.work[i] = ctl.work[i]
      BY <1>1, <1>4
    <2>4. \A i \in DOMAIN ctl.work : i \in Nat /\ i <= Len(ctl.work)
      BY <1>1
    <2>5. QED
      BY <1>1, <1>4, <2>1, <2>2, <2>3, <2>4 DEF WorkFrom
  <1>5. QED
    BY <1>2, <1>3, <1>4 DEF WorkStep

LEMMA WorkFollows ==
  ASSUME DictationTypes, DictationTypes', WorkFrom, pieces <= pieces'
  PROVE  \A n \in Nat : BeforeWork(n) => BeforeWork(n)'
  <1> SUFFICES ASSUME NEW n \in Nat, n <= pieces, \A j \in DOMAIN ctl.work : n < ctl.work[j].n
               PROVE  n <= pieces' /\ \A j \in DOMAIN ctl'.work : n < ctl'.work[j].n
    BY DEF BeforeWork
  <1>1. n <= pieces' /\ n < pieces + 1
    BY DEF DictationTypes
  <1>2. ASSUME NEW j \in DOMAIN ctl'.work
        PROVE  n < ctl'.work[j].n
    BY <1>1, <1>2 DEF WorkFrom
  <1>3. QED
    BY <1>1, <1>2

LEMMA OrderFollows ==
  ASSUME DictationTypes, DictationTypes', OrderInv, WorkFrom, pieces <= pieces', dictations <= dictations',
         ctl'.pending \subseteq ctl.pending,
         Within(voice_in', voice_in), Within(voice_out', voice_out), Within(late', late), strays \subseteq strays'
  PROVE  /\ WorkInv' /\ LinesInv'
         /\ typed' = typed => TypedInv'
  <1>1. \A n \in Nat :
          (n <= pieces /\ \A j \in DOMAIN ctl.work : n < ctl.work[j].n)
          => (n <= pieces' /\ \A j \in DOMAIN ctl'.work : n < ctl'.work[j].n)
    BY WorkFollows DEF BeforeWork
  <1>2. \A n : Awaited(n)' => Awaited(n)
    BY DEF Awaited
  <1>3. \A l : Told(l)' => Told(l)
    BY <1>2 DEF Told, Says
  <1>4. WorkInv'
    <2> DEFINE w == ctl.work
               v == ctl'.work
    <2>0. \A i \in DOMAIN w : w[i].n \in Nat /\ w[i].n <= pieces /\ w[i].of \in 1 .. dictations
      <3>1. ctl.work \in Seq(Works)
        BY DEF DictationTypes, Controllers
      <3>2. \A i \in DOMAIN w : w[i] \in Works
        BY <3>1
      <3>3. QED
        BY <3>2 DEF OrderInv, WorkInv, Works
    <2>5. pieces \in Nat /\ pieces' \in Nat /\ dictations \in Nat /\ dictations' \in Nat
      BY DEF DictationTypes
    <2>6. \A i, j \in DOMAIN w : i < j => w[i].n < w[j].n
      BY DEF OrderInv, WorkInv
    <2>1. \A i \in DOMAIN v : v[i].n <= pieces' /\ v[i].of \in 1 .. dictations'
      BY <2>0, <2>5 DEF WorkFrom
    <2>2. ASSUME NEW i \in DOMAIN v, NEW j \in DOMAIN v, i < j
          PROVE  v[i].n < v[j].n
      <3>1. CASE \E k, l \in DOMAIN w : k < l /\ w[k] = v[i] /\ w[l] = v[j]
        BY <2>6, <3>1
      <3>2. CASE v[j].n = pieces + 1 /\ \E k \in DOMAIN w : w[k] = v[i]
        BY <2>0, <2>5, <3>2
      <3>3. QED
        BY <2>2, <3>1, <3>2 DEF WorkFrom
    <2>3. \A p \in ctl'.pending : BeforeWork(p.n)'
      BY <1>1 DEF OrderInv, WorkInv, DictationTypes, Controllers, BeforeWork
    <2>4. QED
      BY <2>1, <2>2, <2>3 DEF WorkInv
  <1>5. /\ \A i \in DOMAIN voice_in : voice_in[i].words \in Nat
        /\ \A i \in DOMAIN voice_out : voice_out[i].words \in Nat
        /\ \A i \in DOMAIN late : late[i].words \in Nat
    <2>1. \A s \in Seq(Lines) : \A i \in DOMAIN s : s[i] \in Lines
      OBVIOUS
    <2>2. \A l \in Lines : l.words \in Nat
      BY DEF Lines
    <2>3. QED
      BY <2>1, <2>2 DEF DictationTypes
  <1>6. LinesInv'
    <2>1. \A i \in DOMAIN voice_in' : Says(voice_in'[i]) => BeforeWork(voice_in[i].words)'
      BY <1>1, <1>5 DEF OrderInv, LinesInv, Within, BeforeWork
    <2>2. \A i \in DOMAIN voice_out' : Says(voice_out'[i]) => BeforeWork(voice_out[i].words)'
      BY <1>1, <1>5 DEF OrderInv, LinesInv, Within, BeforeWork
    <2>3. \A i \in DOMAIN late' : Says(late'[i]) => BeforeWork(late[i].words)' /\ ~Awaited(late[i].words)'
      BY <1>1, <1>5 DEF OrderInv, LinesInv, Within, BeforeWork, Awaited
    <2>4. \A i, j \in DOMAIN voice_in' : i < j => LineBefore(voice_in[i], voice_in[j])'
      BY DEF OrderInv, LinesInv, Within, LineBefore, Told, Awaited, Says
    <2>5. \A i, j \in DOMAIN voice_out' : i < j => LineBefore(voice_out[i], voice_out[j])'
      BY DEF OrderInv, LinesInv, Within, LineBefore, Told, Awaited, Says
    <2>6. \A i \in DOMAIN voice_in', j \in DOMAIN voice_out' : LineBefore(voice_in[i], voice_out[j])'
      BY DEF OrderInv, LinesInv, Within, LineBefore, Told, Awaited, Says
    <2>7. QED
      BY <2>1, <2>2, <2>3, <2>4, <2>5, <2>6 DEF LinesInv, Says
  <1>7. ASSUME typed' = typed
        PROVE  TypedInv'
    <2>1. \A k \in DOMAIN typed : typed[k].piece \in Nat
      <3>1. \A k \in DOMAIN typed : typed[k] \in Entered
        BY DEF DictationTypes
      <3>2. QED
        BY <3>1 DEF Entered
    <2>2. \A k \in DOMAIN typed : Own(typed[k]) => BeforeWork(typed[k].piece)'
      BY <1>1, <1>7, <2>1 DEF OrderInv, TypedInv, BeforeWork
    <2>3. \A i \in DOMAIN voice_in', k \in DOMAIN typed :
            Told(voice_in[i])' /\ Own(typed[k]) => typed[k].piece < voice_in'[i].words
      BY DEF OrderInv, TypedInv, Within, Told, Awaited, Says
    <2>4. \A i \in DOMAIN voice_out', k \in DOMAIN typed :
            Told(voice_out[i])' /\ Own(typed[k]) => typed[k].piece < voice_out'[i].words
      BY DEF OrderInv, TypedInv, Within, Told, Awaited, Says
    <2>6. \A k \in DOMAIN typed : Own(typed[k]) \/ typed[k].words \in strays'
      BY DEF OrderInv, TypedInv
    <2>5. QED
      BY <1>7, <2>2, <2>3, <2>4, <2>6 DEF OrderInv, TypedInv, Own
  <1>8. \A n \in Nat : BeforeWork(n) => BeforeWork(n)'
    BY <1>1 DEF BeforeWork
  <1>9. QED
    BY <1>4, <1>6, <1>7, <1>8

LEMMA NumbersAre ==
  ASSUME DictationTypes
  PROVE  /\ \A i \in DOMAIN voice_in : voice_in[i] \in Lines /\ voice_in[i].words \in Nat
         /\ \A i \in DOMAIN voice_out : voice_out[i] \in Lines /\ voice_out[i].words \in Nat /\ voice_out[i].of \in Nat
         /\ \A i \in DOMAIN late : late[i] \in Lines /\ late[i].words \in Nat
         /\ \A i \in DOMAIN typed : typed[i] \in Entered /\ typed[i].piece \in Nat /\ typed[i].words \in Nat
         /\ \A i \in DOMAIN ctl.work : ctl.work[i] \in Works /\ ctl.work[i].n \in Nat /\ ctl.work[i].of \in Nat
         /\ \A p \in ctl.pending : p.n \in Nat /\ p.id \in Nat
  <1>1. \A s \in Seq(Lines) : \A i \in DOMAIN s : s[i] \in Lines
    OBVIOUS
  <1>2. \A l \in Lines : l.words \in Nat /\ l.of \in Nat
    BY DEF Lines
  <1>7. \A e \in Entered : e.piece \in Nat /\ e.words \in Nat
    BY DEF Entered
  <1>3. ctl.work \in Seq(Works) /\ ctl.pending \in SUBSET [id : Nat, n : Nat, of : Nat]
    BY DEF DictationTypes, Controllers
  <1>4. \A i \in DOMAIN ctl.work : ctl.work[i] \in Works
    BY <1>3
  <1>5. \A w \in Works : w.n \in Nat /\ w.of \in Nat
    BY DEF Works
  <1>6. QED
    BY <1>1, <1>2, <1>3, <1>4, <1>5, <1>7 DEF DictationTypes

\* The helper's own moves
LEMMA MovesOrdered ==
  ASSUME DictationTypes, DictationTypes', OrderInv, KeysInv, ControllerMoves
  PROVE  OrderInv'
  <1>1. Within(voice_in', voice_in) /\ Within(late', late)
    <2>1. voice_in \in Seq(Lines) /\ late \in Seq(Lines)
      BY DEF DictationTypes
    <2>2. late' = late /\ (voice_in' = voice_in \/ (voice_in # <<>> /\ voice_in' = Tail(voice_in)))
      BY DEF ControllerMoves
    <2>3. QED
      BY <2>1, <2>2, WithinIs
  <1>2. Within(voice_out', voice_out)
    <2>1. ctl'.phase \in Controls /\ PhaseSaid(ctl')
      BY DEF ControllerMoves, Controllers
    <2>2. T!PhaseLine(ctl'.phase) \in Lines /\ ~Says(T!PhaseLine(ctl'.phase))
      BY <2>1, LinesAre DEF Says
    <2>3. voice_out \in Seq(Lines) /\ (voice_out' = voice_out \/ voice_out' = Append(voice_out, T!PhaseLine(ctl'.phase)))
      BY <2>1 DEF PhaseSaid, DictationTypes
    <2>4. QED
      BY <2>2, <2>3, WithinIs
  <1>3. /\ WorkFrom /\ pieces <= pieces' /\ dictations <= dictations' /\ ctl'.pending \subseteq ctl.pending
        /\ strays' = strays
    BY WorkIs DEF ControllerMoves, TalkStep, DictationTypes
  <1>4. /\ WorkInv' /\ LinesInv'
        /\ typed' = typed => TypedInv'
    BY <1>1, <1>2, <1>3, OrderFollows
  <1>5. ASSUME InsertStep
        PROVE  TypedInv'
    <2> DEFINE l == Head(voice_in)
               n == l.words
    <2>1. /\ voice_in \in Seq(Lines) /\ voice_in # <<>> /\ l = voice_in[1] /\ 1 \in DOMAIN voice_in /\ l \in Lines
          /\ \A i \in DOMAIN voice_in' : i \in Nat /\ i + 1 \in DOMAIN voice_in /\ 1 < i + 1 /\ voice_in'[i] = voice_in[i + 1]
      BY <1>5 DEF InsertStep, DictationTypes
    <2>2. Says(l) /\ n \in Nat /\ BeforeWork(n)
      BY <1>5, <2>1 DEF InsertStep, OrderInv, LinesInv, Lines
    <2>3. PICK p \in ctl.pending : p.id = l.id /\ typed' = Append(typed, [piece |-> p.n, words |-> n])
      BY <1>5 DEF InsertStep
    <2>4. PICK e \in Entered : e = [piece |-> p.n, words |-> n]
      BY <2>2, NumbersAre DEF Entered
    <2>5. Own(e) <=> p.n = n
      BY <2>4 DEF Own
    <2>6. /\ Own(e) => p.n = n /\ e.piece = n /\ Told(l) /\ \A q \in ctl'.pending : q.n # n
          /\ ~Own(e) => e.words \in strays
      <3>1. l.words \in strays \/ Matches(l)
        BY <2>1, <2>2 DEF KeysInv
      <3>2. CASE Matches(l)
        <4>1. p.n = n /\ \A q \in ctl.pending : q.n = n => q.id = l.id
          BY <2>3, <3>2 DEF Matches
        <4>2. \A q \in ctl'.pending : q.n # n
          BY <1>3, <1>5, <4>1 DEF InsertStep
        <4>3. QED
          BY <2>2, <2>4, <2>5, <4>1, <4>2 DEF Told, Awaited
      <3>3. CASE l.words \in strays
        BY <2>4, <2>5, <3>3 DEF KeysInv
      <3>4. QED
        BY <3>1, <3>2, <3>3
    <2>7. /\ typed' = Append(typed, e) /\ DOMAIN typed' = 1 .. Len(typed) + 1 /\ DOMAIN typed = 1 .. Len(typed)
          /\ Len(typed) \in Nat
          /\ \A k \in DOMAIN typed : typed'[k] = typed[k]
          /\ typed'[Len(typed) + 1] = e
      <3>1. typed \in Seq(Entered) /\ typed' = Append(typed, e)
        BY <2>3, <2>4 DEF DictationTypes
      <3>2. QED
        BY <3>1
    <2>8. /\ \A k \in DOMAIN typed' : k \in DOMAIN typed \/ k = Len(typed) + 1
          /\ \A i, j \in DOMAIN typed' : i < j => i \in DOMAIN typed
      BY <2>7
    <2>9. \A k \in DOMAIN typed : Own(typed[k]) /\ Told(l) => typed[k].piece < n
      BY <2>1 DEF OrderInv, TypedInv
    <2>10. \A k \in DOMAIN typed' : Own(typed'[k]) \/ typed'[k].words \in strays'
      BY <1>3, <2>6, <2>7, <2>8 DEF OrderInv, TypedInv
    <2>11. ASSUME NEW i \in DOMAIN typed', NEW j \in DOMAIN typed', i < j, Own(typed'[i]), Own(typed'[j])
           PROVE  typed'[i].piece < typed'[j].piece
      <3>1. i \in DOMAIN typed /\ typed'[i] = typed[i]
        BY <2>7, <2>8, <2>11
      <3>2. CASE j \in DOMAIN typed
        BY <2>7, <2>11, <3>1, <3>2 DEF OrderInv, TypedInv
      <3>3. CASE j = Len(typed) + 1
        BY <2>6, <2>7, <2>9, <2>11, <3>1, <3>3
      <3>4. QED
        BY <2>8, <3>2, <3>3
    <2>12. (\A k \in DOMAIN typed : Own(typed[k]) => BeforeWork(typed[k].piece))'
      <3>1. ctl'.work = ctl.work /\ pieces' = pieces
        BY <1>5 DEF InsertStep
      <3>2. \A k \in DOMAIN typed' : Own(typed'[k]) => BeforeWork(typed'[k].piece)
        BY <2>2, <2>6, <2>7, <2>8 DEF OrderInv, TypedInv
      <3>3. QED
        BY <3>1, <3>2 DEF BeforeWork
    <2>13. ASSUME NEW m \in Lines, Says(m), \E q \in ctl'.pending : q.n = m.words,
                  Told(m) /\ Told(l) => n < m.words,
                  \A k \in DOMAIN typed : Told(m) /\ Own(typed[k]) => typed[k].piece < m.words
           PROVE  \A k \in DOMAIN typed' : Own(typed'[k]) => typed'[k].piece < m.words
      <3>1. Told(m)
        BY <1>3, <2>13 DEF Told, Awaited
      <3>2. Own(e) => e.piece < m.words
        BY <2>6, <2>13, <3>1
      <3>3. QED
        BY <2>7, <2>8, <2>13, <3>1, <3>2
    <2>14. ASSUME NEW i \in DOMAIN voice_in', Says(voice_in'[i]), \E q \in ctl'.pending : q.n = voice_in'[i].words
           PROVE  \A k \in DOMAIN typed' : Own(typed'[k]) => typed'[k].piece < voice_in'[i].words
      <3>1. PICK m \in Lines : m = voice_in'[i] /\ m = voice_in[i + 1] /\ i + 1 \in DOMAIN voice_in /\ 1 < i + 1
        BY <2>1, NumbersAre
      <3>2. Told(m) /\ Told(l) => n < m.words
        BY <2>1, <3>1 DEF OrderInv, LinesInv, LineBefore
      <3>3. \A k \in DOMAIN typed : Told(m) /\ Own(typed[k]) => typed[k].piece < m.words
        BY <3>1 DEF OrderInv, TypedInv
      <3>4. QED
        BY <2>13, <2>14, <3>1, <3>2, <3>3
    <2>15. ASSUME NEW i \in DOMAIN voice_out', Says(voice_out'[i]), \E q \in ctl'.pending : q.n = voice_out'[i].words
           PROVE  \A k \in DOMAIN typed' : Own(typed'[k]) => typed'[k].piece < voice_out'[i].words
      <3>1. PICK x \in DOMAIN voice_out : voice_out[x] = voice_out'[i]
        BY <1>2, <2>15 DEF Within
      <3>2. PICK m \in Lines : m = voice_out'[i] /\ m = voice_out[x]
        BY <3>1, NumbersAre
      <3>3. Told(m) /\ Told(l) => n < m.words
        BY <2>1, <3>2 DEF OrderInv, LinesInv, LineBefore
      <3>4. \A k \in DOMAIN typed : Told(m) /\ Own(typed[k]) => typed[k].piece < m.words
        BY <3>2 DEF OrderInv, TypedInv
      <3>5. QED
        BY <2>13, <2>15, <3>2, <3>3, <3>4
    <2> HIDE DEF l, n
    <2>16. QED
      BY <2>10, <2>11, <2>12, <2>14, <2>15 DEF TypedInv, Told, Says, Awaited, Own
  <1>6. QED
    BY <1>4, <1>5 DEF ControllerMoves, OrderInv

\* A piece that is heard comes after all that was heard before
LEMMA HeardOrdered ==
  ASSUME DictationTypes, DictationTypes', OrderInv, HeardStep
  PROVE  OrderInv'
  <1> DEFINE w == ctl.work
             p == Head(w)
             t == T!Transcript(ctl.ids + 1, p.n, p.of, ctl.spoke)
  <1>1. /\ w \in Seq(Works) /\ w # <<>> /\ p = w[1] /\ 1 \in DOMAIN w /\ p \in Works /\ p.n \in Nat /\ p.of \in Nat
        /\ \A i \in DOMAIN ctl'.work : i \in Nat /\ i + 1 \in DOMAIN w /\ 1 < i + 1 /\ ctl'.work[i] = w[i + 1]
    <2>1. w \in Seq(Works)
      BY DEF DictationTypes, Controllers
    <2>2. w # <<>> /\ ctl'.work = Tail(w) /\ p \in Works
      BY DEF HeardStep
    <2>3. p.n \in Nat /\ p.of \in Nat
      BY <2>2 DEF Works
    <2>4. p = w[1]
      BY <2>2
    <2> HIDE DEF w, p
    <2>5. QED
      BY <2>1, <2>2, <2>3, <2>4
  <1>2. p.n <= pieces /\ \A i \in DOMAIN ctl'.work : p.n < ctl'.work[i].n
    BY <1>1 DEF OrderInv, WorkInv
  <1>3. \A n \in Nat : BeforeWork(n) =>
          /\ n <= pieces /\ n < p.n
          /\ \A i \in DOMAIN ctl'.work : n < ctl'.work[i].n
    BY <1>1 DEF BeforeWork
  <1>4. t \in Lines /\ Says(t) /\ t.words = p.n
    <2> DEFINE k == ctl.ids + 1
               n == p.n
               d == p.of
               c == ctl.spoke
    <2>1. ctl \in Controllers
      BY DEF DictationTypes
    <2>2. c \in BOOLEAN /\ k \in Nat
      BY <2>1 DEF Controllers
    <2>3. n \in Nat /\ d \in Nat
      BY <1>1
    <2> HIDE DEF k, n, d, c
    <2>4. LET l == T!Transcript(k, n, d, c) IN l \in Lines /\ l.type = "transcript" /\ l.words = n
      BY <2>2, <2>3, LinesAre
    <2>5. QED
      BY <2>4 DEF Says, k, n, d, c
  <1>5. /\ UNCHANGED <<voice_in, late, typed, strays, dictations, pieces>>
        /\ ctl'.pending = ctl.pending \cup {[id |-> ctl.ids + 1, n |-> p.n, of |-> p.of]}
    BY DEF HeardStep
  <1>6. /\ Len(voice_out) \in Nat /\ \A i \in DOMAIN voice_out : voice_out'[i] = voice_out[i] /\ i <= Len(voice_out) /\ i \in Nat
        /\ voice_out'[Len(voice_out) + 1] = t
        /\ \A i \in DOMAIN voice_out' : i \in DOMAIN voice_out \/ i = Len(voice_out) + 1
    <2>1. voice_out \in Seq(Lines) /\ voice_out' = Append(voice_out, t)
      BY DEF HeardStep, DictationTypes
    <2> HIDE DEF t
    <2>2. QED
      BY <2>1
  <1>7. ASSUME NEW l, Says(l), BeforeWork(l.words), l.words \in Nat
        PROVE  /\ (\E q \in ctl'.pending : q.n = l.words) => Told(l)
               /\ l.words < p.n
    BY <1>3, <1>5, <1>7 DEF Told, Awaited
  <1> HIDE DEF p, w, t
  <1>8. WorkInv'
    <2>1. \A i \in DOMAIN ctl'.work : ctl'.work[i].n <= pieces /\ ctl'.work[i].of \in 1 .. dictations
      BY <1>1 DEF OrderInv, WorkInv, w
    <2>2. \A i, j \in DOMAIN ctl'.work : i < j => ctl'.work[i].n < ctl'.work[j].n
      <3>1. \A i, j \in DOMAIN w : i < j => w[i].n < w[j].n
        BY DEF OrderInv, WorkInv, w
      <3>2. \A i, j \in DOMAIN ctl'.work : i < j => i + 1 < j + 1
        BY <1>1
      <3>3. QED
        BY <1>1, <3>1, <3>2
    <2>3. \A q \in ctl'.pending : q.n <= pieces /\ \A i \in DOMAIN ctl'.work : q.n < ctl'.work[i].n
      BY <1>2, <1>3, <1>5, NumbersAre DEF OrderInv, WorkInv
    <2>4. QED
      BY <1>5, <2>1, <2>2, <2>3 DEF WorkInv, BeforeWork
  <1>9. LinesInv'
    <2>1. \A i \in DOMAIN voice_in : Says(voice_in[i]) =>
            voice_in[i].words <= pieces /\ \A j \in DOMAIN ctl'.work : voice_in[i].words < ctl'.work[j].n
      BY <1>3, NumbersAre DEF OrderInv, LinesInv
    <2>2. \A i \in DOMAIN voice_out' : Says(voice_out'[i]) =>
            voice_out'[i].words <= pieces /\ \A j \in DOMAIN ctl'.work : voice_out'[i].words < ctl'.work[j].n
      BY <1>2, <1>3, <1>4, <1>6, NumbersAre DEF OrderInv, LinesInv
    <2>3. \A i \in DOMAIN late : Says(late[i]) =>
            /\ late[i].words <= pieces /\ \A j \in DOMAIN ctl'.work : late[i].words < ctl'.work[j].n
            /\ ~\E q \in ctl'.pending : q.n = late[i].words
      BY <1>3, <1>7, NumbersAre DEF OrderInv, LinesInv, Told
    <2> DEFINE Waits(l) == Says(l) /\ \E q \in ctl'.pending : q.n = l.words
    <2>4. \A i \in DOMAIN voice_in : Waits(voice_in[i]) => Told(voice_in[i]) /\ voice_in[i].words < p.n
      BY <1>7, NumbersAre DEF OrderInv, LinesInv
    <2>5. \A i \in DOMAIN voice_out : Waits(voice_out[i]) => Told(voice_out[i]) /\ voice_out[i].words < p.n
      BY <1>7, NumbersAre DEF OrderInv, LinesInv
    <2>6. \A i, j \in DOMAIN voice_in : i < j /\ Waits(voice_in[i]) /\ Waits(voice_in[j]) => voice_in[i].words < voice_in[j].words
      BY <2>4 DEF OrderInv, LinesInv, LineBefore
    <2>7. ASSUME NEW i \in DOMAIN voice_out', NEW j \in DOMAIN voice_out', i < j, Waits(voice_out'[i]), Waits(voice_out'[j])
          PROVE  voice_out'[i].words < voice_out'[j].words
      <3>1. i \in DOMAIN voice_out /\ voice_out'[i] = voice_out[i]
        BY <1>6, <2>7
      <3>2. CASE j \in DOMAIN voice_out
        BY <1>6, <2>5, <2>7, <3>1, <3>2 DEF OrderInv, LinesInv, LineBefore
      <3>3. CASE j = Len(voice_out) + 1
        BY <1>4, <1>6, <2>5, <2>7, <3>1, <3>3
      <3>4. QED
        BY <1>6, <3>2, <3>3
    <2>8. ASSUME NEW i \in DOMAIN voice_in, NEW j \in DOMAIN voice_out', Waits(voice_in[i]), Waits(voice_out'[j])
          PROVE  voice_in[i].words < voice_out'[j].words
      <3>1. CASE j \in DOMAIN voice_out
        BY <1>6, <2>4, <2>5, <2>8, <3>1 DEF OrderInv, LinesInv, LineBefore
      <3>2. CASE j = Len(voice_out) + 1
        BY <1>4, <1>6, <2>4, <2>8, <3>2
      <3>3. QED
        BY <1>6, <3>1, <3>2
    <2>9. QED
      BY <1>5, <2>1, <2>2, <2>3, <2>6, <2>7, <2>8 DEF LinesInv, BeforeWork, LineBefore, Told, Awaited, Says
  <1>10. TypedInv'
    <2>1. \A k \in DOMAIN typed : Own(typed[k]) =>
            /\ typed[k].piece <= pieces /\ typed[k].piece < p.n
            /\ \A j \in DOMAIN ctl'.work : typed[k].piece < ctl'.work[j].n
      BY <1>3, NumbersAre DEF OrderInv, TypedInv
    <2>2. \A i \in DOMAIN voice_in, k \in DOMAIN typed :
            Says(voice_in[i]) /\ (\E q \in ctl'.pending : q.n = voice_in[i].words) /\ Own(typed[k])
              => typed[k].piece < voice_in[i].words
      BY <1>7, NumbersAre DEF OrderInv, TypedInv, LinesInv
    <2>3. \A i \in DOMAIN voice_out', k \in DOMAIN typed :
            Says(voice_out'[i]) /\ (\E q \in ctl'.pending : q.n = voice_out'[i].words) /\ Own(typed[k])
              => typed[k].piece < voice_out'[i].words
      BY <1>4, <1>6, <1>7, <2>1, NumbersAre DEF OrderInv, TypedInv, LinesInv
    <2>4. QED
      BY <1>5, <2>1, <2>2, <2>3 DEF OrderInv, TypedInv, BeforeWork, Told, Awaited, Says, Own
  <1>11. QED
    BY <1>8, <1>9, <1>10 DEF OrderInv

\* The app reads a line: one that says a piece is answered by its insert
LEMMA LineIs ==
  ASSUME DictationTypes, NEW l \in Lines, T!OnLine(l)
  PROVE  /\ \/ voice_in' = voice_in
            \/ /\ l.type = "transcript" /\ Says(l) /\ voice \in {"boot", "up"}
               /\ voice_in' = Append(voice_in, T!InsertLine(l.id, l.words))
         /\ voice_in' \in Seq(Lines)
         /\ shown' \in [helper : {"Starting", "Running", "Crashed"}, phase : Controls]
  <1>1. \/ voice_in' = voice_in
        \/ /\ l.type = "transcript" /\ Says(l) /\ voice \in {"boot", "up"}
           /\ voice_in' = Append(voice_in, T!InsertLine(l.id, l.words))
    BY DEF T!OnLine, T!Sent, Says
  <1>2. T!InsertLine(l.id, l.words) \in Lines
    <2>1. l.id \in Nat /\ l.words \in Nat
      BY DEF Lines
    <2>2. QED
      BY <2>1, LinesAre
  <1>3. voice_in \in Seq(Lines)
    BY DEF DictationTypes
  <1>4. voice_in' \in Seq(Lines)
    BY <1>1, <1>2, <1>3
  <1>5. l.phase \in Controls
    BY DEF Lines
  <1>6. shown' \in [helper : {"Starting", "Running", "Crashed"}, phase : Controls]
    BY <1>5 DEF T!OnLine, DictationTypes
  <1>7. QED
    BY <1>1, <1>4, <1>6

LEMMA ReadTyped ==
  ASSUME DictationTypes, T!ReadLine \/ T!ReadLate
  PROVE  DictationTypes'
  <1>1. CASE T!ReadLine
    <2>1. Head(voice_out) \in Lines /\ voice_out' \in Seq(Lines)
      BY <1>1, HeadTailProperties DEF T!ReadLine, DictationTypes
    <2>2. QED
      BY <1>1, <2>1, LineIs DEF T!ReadLine, DictationTypes
  <1>2. CASE T!ReadLate
    <2>1. Head(late) \in Lines /\ late' \in Seq(Lines)
      BY <1>2, HeadTailProperties DEF T!ReadLate, DictationTypes
    <2>2. QED
      BY <1>2, <2>1, LineIs DEF T!ReadLate, DictationTypes
  <1>3. QED
    BY <1>1, <1>2

\* What a line said is said by the insert that answers it
LEMMA Answered ==
  ASSUME DictationTypes, NEW l \in Lines, Says(l), voice_in' = Append(voice_in, T!InsertLine(l.id, l.words))
  PROVE  /\ Len(voice_in) \in Nat /\ DOMAIN voice_in = 1 .. Len(voice_in)
         /\ \A i \in DOMAIN voice_in' : i \in DOMAIN voice_in \/ i = Len(voice_in) + 1
         /\ \A i \in DOMAIN voice_in : voice_in'[i] = voice_in[i]
         /\ voice_in'[Len(voice_in) + 1].words = l.words /\ Says(voice_in'[Len(voice_in) + 1])
         /\ voice_in'[Len(voice_in) + 1].id = l.id
  <1> DEFINE a == T!InsertLine(l.id, l.words)
  <1>1. l.id \in Nat /\ l.words \in Nat
    BY DEF Lines
  <1>2. a \in Lines /\ a.words = l.words /\ a.id = l.id /\ Says(a)
    BY <1>1, LinesAre DEF Says
  <1>3. voice_in \in Seq(Lines) /\ voice_in' = Append(voice_in, a)
    BY DEF DictationTypes
  <1> HIDE DEF a
  <1>4. /\ Len(voice_in) \in Nat /\ DOMAIN voice_in = 1 .. Len(voice_in)
        /\ \A i \in DOMAIN voice_in' : i \in DOMAIN voice_in \/ i = Len(voice_in) + 1
        /\ \A i \in DOMAIN voice_in : voice_in'[i] = voice_in[i]
        /\ voice_in'[Len(voice_in) + 1] = a
    BY <1>2, <1>3
  <1>5. QED
    BY <1>2, <1>4

LEMMA ReadOrdered ==
  ASSUME DictationTypes, DictationTypes', OrderInv, T!ReadLine
  PROVE  OrderInv'
  <1> DEFINE l == Head(voice_out)
  <1>1. /\ voice_out \in Seq(Lines) /\ voice_out # <<>> /\ voice_out' = Tail(voice_out)
        /\ UNCHANGED <<ctl, late, typed, strays, dictations, pieces>> /\ T!OnLine(l)
    BY DEF T!ReadLine, DictationTypes
  <1>2. /\ l = voice_out[1] /\ 1 \in DOMAIN voice_out /\ l \in Lines
        /\ \A i \in DOMAIN voice_out' : i \in Nat /\ i + 1 \in DOMAIN voice_out /\ 1 < i + 1 /\ voice_out'[i] = voice_out[i + 1]
    BY <1>1
  <1>3. Within(voice_out', voice_out) /\ Within(late', late)
    BY <1>1, WithinIs DEF DictationTypes
  <1>4. WorkFrom /\ pieces <= pieces' /\ dictations <= dictations' /\ ctl'.pending \subseteq ctl.pending
    BY <1>1 DEF WorkFrom, DictationTypes
  <1>5. CASE voice_in' = voice_in
    <2>1. Within(voice_in', voice_in)
      BY <1>5, WithinIs DEF DictationTypes
    <2>2. QED
      BY <1>1, <1>3, <1>4, <2>1, OrderFollows DEF OrderInv
  <1>6. CASE Says(l) /\ voice_in' = Append(voice_in, T!InsertLine(l.id, l.words))
    <2> DEFINE top == Len(voice_in) + 1
    <2> HIDE DEF l
    <2>1. /\ Len(voice_in) \in Nat /\ DOMAIN voice_in = 1 .. Len(voice_in)
          /\ \A i \in DOMAIN voice_in' : i \in DOMAIN voice_in \/ i = top
          /\ \A i \in DOMAIN voice_in : voice_in'[i] = voice_in[i]
          /\ voice_in'[top].words = l.words /\ Says(voice_in'[top])
      BY <1>2, <1>6, Answered
    <2>2. BeforeWork(l.words) /\ (Awaited(l.words) => Told(l))
      BY <1>2, <1>6 DEF OrderInv, LinesInv, Told
    <2>3. WorkInv'
      BY <1>1 DEF OrderInv, WorkInv, BeforeWork
    <2>4. \A i \in DOMAIN voice_in' : Says(voice_in'[i]) => BeforeWork(voice_in'[i].words)
      BY <2>1, <2>2 DEF OrderInv, LinesInv
    <2>5. \A i \in DOMAIN voice_out' : Says(voice_out'[i]) => BeforeWork(voice_out'[i].words)
      BY <1>2 DEF OrderInv, LinesInv
    <2>6. ASSUME NEW i \in DOMAIN voice_in', NEW j \in DOMAIN voice_in', i < j
          PROVE  LineBefore(voice_in'[i], voice_in'[j])
      <3>1. i \in DOMAIN voice_in
        <4>1. j <= Len(voice_in) + 1 /\ i \in Nat /\ i < Len(voice_in) + 1
          BY <2>1, <2>6
        <4>2. QED
          BY <2>1, <2>6, <4>1
      <3>2. CASE j \in DOMAIN voice_in
        BY <2>1, <2>6, <3>1, <3>2 DEF OrderInv, LinesInv
      <3>3. CASE j = top
        <4>1. LineBefore(voice_in[i], l)
          BY <1>2, <3>1 DEF OrderInv, LinesInv
        <4>2. QED
          BY <1>6, <2>1, <3>1, <3>3, <4>1 DEF LineBefore, Told
      <3>4. QED
        BY <2>1, <3>2, <3>3
    <2>7. \A i, j \in DOMAIN voice_out' : i < j => LineBefore(voice_out'[i], voice_out'[j])
      <3>1. \A i, j \in DOMAIN voice_out' : i < j => i + 1 < j + 1
        BY <1>2
      <3>2. QED
        BY <1>2, <3>1 DEF OrderInv, LinesInv
    <2>8. ASSUME NEW i \in DOMAIN voice_in', NEW j \in DOMAIN voice_out'
          PROVE  LineBefore(voice_in'[i], voice_out'[j])
      <3>1. CASE i \in DOMAIN voice_in
        BY <1>2, <2>1, <3>1 DEF OrderInv, LinesInv
      <3>2. CASE i = top
        <4>1. LineBefore(l, voice_out'[j])
          BY <1>2 DEF OrderInv, LinesInv
        <4>2. QED
          BY <1>6, <2>1, <3>2, <4>1 DEF LineBefore, Told
      <3>3. QED
        BY <2>1, <3>1, <3>2
    <2>9. LinesInv'
      BY <1>1, <2>4, <2>5, <2>6, <2>7, <2>8 DEF OrderInv, LinesInv, BeforeWork, LineBefore, Told, Awaited
    <2>10. \A i \in DOMAIN voice_in', k \in DOMAIN typed :
             Told(voice_in'[i]) /\ Own(typed[k]) => typed[k].piece < voice_in'[i].words
      <3>1. \A k \in DOMAIN typed : Told(l) /\ Own(typed[k]) => typed[k].piece < l.words
        BY <1>2 DEF OrderInv, TypedInv
      <3>2. QED
        BY <1>6, <2>1, <3>1 DEF OrderInv, TypedInv, Told
    <2>11. \A i \in DOMAIN voice_out', k \in DOMAIN typed :
             Told(voice_out'[i]) /\ Own(typed[k]) => typed[k].piece < voice_out'[i].words
      BY <1>2 DEF OrderInv, TypedInv
    <2>12. TypedInv'
      BY <1>1, <2>10, <2>11 DEF OrderInv, TypedInv, BeforeWork, Told, Awaited, Own
    <2>13. QED
      BY <2>3, <2>9, <2>12 DEF OrderInv
  <1>7. QED
    BY <1>1, <1>2, <1>5, <1>6, LineIs

\* No line of a helper that was switched off says a piece that is still awaited
LEMMA LateOrdered ==
  ASSUME DictationTypes, DictationTypes', OrderInv, T!ReadLate
  PROVE  OrderInv'
  <1> DEFINE l == Head(late)
  <1>1. /\ late \in Seq(Lines) /\ late # <<>> /\ late' = Tail(late)
        /\ UNCHANGED <<ctl, voice_out, typed, strays, dictations, pieces>> /\ T!OnLine(l)
    BY DEF T!ReadLate, DictationTypes
  <1>2. l = late[1] /\ 1 \in DOMAIN late /\ l \in Lines
    BY <1>1
  <1>3. Within(voice_out', voice_out) /\ Within(late', late)
    BY <1>1, WithinIs DEF DictationTypes
  <1>4. WorkFrom /\ pieces <= pieces' /\ dictations <= dictations' /\ ctl'.pending \subseteq ctl.pending
    BY <1>1 DEF WorkFrom, DictationTypes
  <1>5. CASE voice_in' = voice_in
    <2>1. Within(voice_in', voice_in)
      BY <1>5, WithinIs DEF DictationTypes
    <2>2. QED
      BY <1>1, <1>3, <1>4, <2>1, OrderFollows DEF OrderInv
  <1>6. CASE Says(l) /\ voice_in' = Append(voice_in, T!InsertLine(l.id, l.words))
    <2> DEFINE top == Len(voice_in) + 1
    <2> HIDE DEF l
    <2>1. /\ Len(voice_in) \in Nat /\ DOMAIN voice_in = 1 .. Len(voice_in)
          /\ \A i \in DOMAIN voice_in' : i \in DOMAIN voice_in \/ i = top
          /\ \A i \in DOMAIN voice_in : voice_in'[i] = voice_in[i]
          /\ voice_in'[top].words = l.words /\ Says(voice_in'[top])
      BY <1>2, <1>6, Answered
    <2>2. BeforeWork(l.words) /\ ~Awaited(l.words)
      BY <1>2, <1>6 DEF OrderInv, LinesInv
    <2>3. ~Told(voice_in'[top])
      BY <2>1, <2>2 DEF Told
    <2>4. WorkInv'
      BY <1>1 DEF OrderInv, WorkInv, BeforeWork
    <2>5. \A i \in DOMAIN voice_in' : Says(voice_in'[i]) => BeforeWork(voice_in'[i].words)
      BY <2>1, <2>2 DEF OrderInv, LinesInv
    <2>6. \A i \in DOMAIN late' : Says(late'[i]) => BeforeWork(late'[i].words) /\ ~Awaited(late'[i].words)
      BY <1>3 DEF Within, OrderInv, LinesInv
    <2>7. \A i, j \in DOMAIN voice_in' : i < j => LineBefore(voice_in'[i], voice_in'[j])
      BY <2>1, <2>3 DEF LineBefore, OrderInv, LinesInv
    <2>8. \A i \in DOMAIN voice_in', j \in DOMAIN voice_out : LineBefore(voice_in'[i], voice_out[j])
      BY <2>1, <2>3 DEF LineBefore, OrderInv, LinesInv
    <2>9. LinesInv'
      BY <1>1, <2>5, <2>6, <2>7, <2>8 DEF OrderInv, LinesInv, BeforeWork, LineBefore, Told, Awaited
    <2>10. \A i \in DOMAIN voice_in', k \in DOMAIN typed :
             Told(voice_in'[i]) /\ Own(typed[k]) => typed[k].piece < voice_in'[i].words
      BY <2>1, <2>3 DEF OrderInv, TypedInv
    <2>11. TypedInv'
      BY <1>1, <2>10 DEF OrderInv, TypedInv, BeforeWork, Told, Awaited, Own
    <2>12. QED
      BY <2>4, <2>9, <2>11 DEF OrderInv
  <1>7. QED
    BY <1>1, <1>2, <1>5, <1>6, LineIs

\* Everything but the helper at work and the lines that are read
RestStep ==
  /\ ctl' = ctl \/ ctl' = T!Booted
  /\ voice' # "up" => ctl' = T!Booted
  /\ voice_in' \in {voice_in, <<>>, Append(voice_in, T!Toggle)}
  /\ voice_out' \in {voice_out, <<>>, Append(voice_out, T!Ready)}
  /\ \/ late' = late /\ strays' = strays
     \/ /\ late' = late \o voice_out /\ ctl' = T!Booted /\ voice_in' = <<>> /\ voice_out' = <<>>
        /\ strays' = strays \cup {voice_out[i].words : i \in {k \in DOMAIN voice_out : voice_out[k].type = "transcript"}}
  /\ UNCHANGED <<typed, dictations, pieces>>

RestActions ==
  \/ T!ToggleCommand \/ T!Forget \/ T!Boot \/ T!Crash \/ T!Down \/ T!SwitchOff \/ T!SwitchOn \/ T!ShowStarting
  \/ UNCHANGED T!dvars

LEMMA RestActionsAre ==
  ASSUME DictationTypes, RestActions
  PROVE  RestStep /\ shown' \in [helper : {"Starting", "Running", "Crashed"}, phase : Controls]
  <1>1. CASE T!ToggleCommand
    BY <1>1 DEF T!ToggleCommand, T!app, RestStep, DictationTypes
  <1>2. CASE T!Forget
    BY <1>2 DEF T!Forget, RestStep, DictationTypes
  <1>3. CASE T!Boot
    BY <1>3 DEF T!Boot, T!app, RestStep, DictationTypes
  <1>4. CASE T!Crash
    BY <1>4 DEF T!Crash, T!app, RestStep, DictationTypes
  <1>5. CASE T!Down
    BY <1>5 DEF T!Down, RestStep, DictationTypes, Controls
  <1>6. CASE T!SwitchOff
    BY <1>6 DEF T!SwitchOff, T!Transcripts, RestStep, DictationTypes
  <1>7. CASE T!SwitchOn
    BY <1>7 DEF T!SwitchOn, RestStep, DictationTypes
  <1>8. CASE T!ShowStarting
    BY <1>8 DEF T!ShowStarting, RestStep, DictationTypes
  <1>9. CASE UNCHANGED T!dvars
    BY <1>9 DEF T!dvars, RestStep, DictationTypes
  <1>10. QED
    BY <1>1, <1>2, <1>3, <1>4, <1>5, <1>6, <1>7, <1>8, <1>9 DEF RestActions

LEMMA BootedIs ==
  /\ T!Booted \in Controllers /\ T!Booted.pending = {} /\ T!Booted.work = <<>>
  /\ T!Booted.dictation = 0 /\ T!Booted.phase = "idle"
  BY DEF T!Booted, Controllers, Controls

LEMMA RestTyped ==
  ASSUME DictationTypes, RestStep, shown' \in [helper : {"Starting", "Running", "Crashed"}, phase : Controls]
  PROVE  DictationTypes'
  <1>1. \A s \in Seq(Lines), l \in Lines : Append(s, l) \in Seq(Lines) /\ <<>> \in Seq(Lines)
    OBVIOUS
  <1>2. T!Toggle \in Lines /\ T!Ready \in Lines /\ voice_in \in Seq(Lines) /\ voice_out \in Seq(Lines) /\ late \in Seq(Lines)
    BY LinesAre DEF DictationTypes
  <1>3. late \o voice_out \in Seq(Lines)
    BY <1>2, ConcatProperties
  <1>4. voice_in' \in Seq(Lines) /\ voice_out' \in Seq(Lines) /\ late' \in Seq(Lines)
    <2>1. Append(voice_in, T!Toggle) \in Seq(Lines) /\ Append(voice_out, T!Ready) \in Seq(Lines) /\ <<>> \in Seq(Lines)
      BY <1>1, <1>2
    <2>2. QED
      BY <1>2, <1>3, <2>1, Zenon DEF RestStep
  <1>5. ctl' \in Controllers /\ ctl'.dictation <= dictations /\ (ctl'.phase = "listening" => ctl'.dictation # 0)
    BY BootedIs DEF RestStep, DictationTypes
  <1>6. strays' \in SUBSET Nat
    <2>1. strays \in SUBSET Nat /\ \A i \in DOMAIN voice_out : voice_out[i].words \in Nat
      BY NumbersAre DEF DictationTypes
    <2>2. PICK said : said = {voice_out[i].words : i \in {k \in DOMAIN voice_out : voice_out[k].type = "transcript"}}
      OBVIOUS
    <2>3. said \in SUBSET Nat
      BY <2>1, <2>2
    <2>4. strays' = strays \/ strays' = strays \cup said
      BY <2>2 DEF RestStep
    <2>5. QED
      BY <2>1, <2>3, <2>4
  <1>7. QED
    BY <1>4, <1>5, <1>6 DEF RestStep, DictationTypes

LEMMA RestOrdered ==
  ASSUME DictationTypes, DictationTypes', OrderInv, RestStep
  PROVE  OrderInv'
  <1>1. Within(voice_in', voice_in)
    <2>1. T!Toggle \in Lines /\ ~Says(T!Toggle) /\ voice_in \in Seq(Lines)
      BY LinesAre DEF DictationTypes, Says
    <2>2. voice_in' \in {voice_in, <<>>, Append(voice_in, T!Toggle)}
      BY DEF RestStep
    <2>3. QED
      BY <2>1, <2>2, WithinIs
  <1>2. Within(voice_out', voice_out)
    <2>1. T!Ready \in Lines /\ ~Says(T!Ready) /\ voice_out \in Seq(Lines)
      BY LinesAre DEF DictationTypes, Says
    <2>2. voice_out' \in {voice_out, <<>>, Append(voice_out, T!Ready)}
      BY DEF RestStep
    <2>3. QED
      BY <2>1, <2>2, WithinIs
  <1>3. WorkFrom /\ pieces <= pieces' /\ dictations <= dictations' /\ ctl'.pending \subseteq ctl.pending
    <2>1. UNCHANGED <<dictations, pieces>> /\ dictations \in Nat /\ pieces \in Nat
      BY DEF RestStep, DictationTypes
    <2>2. CASE ctl' = ctl
      BY <2>1, <2>2 DEF WorkFrom
    <2>3. CASE ctl' = T!Booted
      BY <2>1, <2>3, BootedIs DEF WorkFrom
    <2>4. QED
      BY <2>2, <2>3 DEF RestStep
  <1>4. CASE late' = late
    <2>1. Within(late', late)
      BY <1>4, WithinIs DEF DictationTypes
    <2>2. QED
      BY <1>1, <1>2, <1>3, <2>1, OrderFollows DEF RestStep, OrderInv
  <1>5. CASE late' = late \o voice_out /\ ctl' = T!Booted /\ voice_in' = <<>> /\ voice_out' = <<>>
    <2>1. ctl'.work = <<>> /\ ctl'.pending = {} /\ UNCHANGED <<typed, dictations, pieces>>
      BY <1>5, BootedIs DEF RestStep
    <2>2. \A i \in DOMAIN late' : \/ \E k \in DOMAIN late : late'[i] = late[k]
                                  \/ \E k \in DOMAIN voice_out : late'[i] = voice_out[k]
      <3>1. late \in Seq(Lines) /\ voice_out \in Seq(Lines) /\ late' = late \o voice_out
        BY <1>5 DEF DictationTypes
      <3>2. PICK u : u = late'
        OBVIOUS
      <3>3. \A i \in DOMAIN u : (\E k \in DOMAIN late : u[i] = late[k]) \/ \E k \in DOMAIN voice_out : u[i] = voice_out[k]
        BY <3>1, <3>2, JoinedLines
      <3>4. QED
        BY <3>2, <3>3
    <2>3. \A i \in DOMAIN late' : Says(late'[i]) => late'[i].words <= pieces
      BY <2>2 DEF OrderInv, LinesInv, BeforeWork
    <2>4. \A k \in DOMAIN typed : /\ Own(typed[k]) => typed[k].piece <= pieces
                                  /\ Own(typed[k]) \/ typed[k].words \in strays'
      BY DEF OrderInv, TypedInv, BeforeWork, RestStep
    <2>5. WorkInv' /\ LinesInv' /\ TypedInv'
      BY <1>5, <2>1, <2>3, <2>4 DEF OrderInv, WorkInv, LinesInv, TypedInv, BeforeWork, LineBefore, Told, Awaited, Own
    <2>6. QED
      BY <2>5 DEF OrderInv
  <1>6. QED
    BY <1>4, <1>5 DEF RestStep

-----------------------------------------------------------------------------
(* Every line waits under the id of its piece, or is a stray                 *)

LEMMA MatchesFollow ==
  ASSUME ctl'.pending \subseteq ctl.pending, ctl'.ids = ctl.ids, NEW l, Matches(l)
  PROVE  Matches(l)'
  BY DEF Matches

LEMMA StraysFollow ==
  ASSUME DictationTypes, KeysInv, WorkStep \/ (ctl'.work \in {ctl.work, <<>>} /\ pieces' = pieces), DictationTypes'
  PROVE  \A n \in strays : BeforeWork(n)'
  <1>1. CASE WorkStep
    <2>1. \A n \in Nat : BeforeWork(n) => BeforeWork(n)'
      BY <1>1, WorkIs, WorkFollows
    <2>2. QED
      BY <2>1 DEF KeysInv, DictationTypes
  <1>2. CASE ctl'.work \in {ctl.work, <<>>} /\ pieces' = pieces
    BY <1>2 DEF KeysInv, BeforeWork
  <1>3. QED
    BY <1>1, <1>2

LEMMA KeysByMoves ==
  ASSUME DictationTypes, DictationTypes', KeysInv, ControllerMoves
  PROVE  KeysInv'
  <1>1. /\ voice = "up" /\ voice' = "up" /\ ctl'.pending \subseteq ctl.pending /\ ctl'.ids = ctl.ids
        /\ strays' = strays /\ late' = late
    BY DEF ControllerMoves
  <1>2. \A l : Matches(l) => Matches(l)'
    BY <1>1, MatchesFollow
  <1>3. Within(voice_in', voice_in)
    BY WithinIs DEF ControllerMoves, DictationTypes
  <1>4. Within(voice_out', voice_out)
    <2>1. ctl'.phase \in Controls /\ PhaseSaid(ctl')
      BY DEF ControllerMoves, Controllers
    <2>2. T!PhaseLine(ctl'.phase) \in Lines /\ ~Says(T!PhaseLine(ctl'.phase))
      BY <2>1, LinesAre DEF Says
    <2>3. voice_out \in Seq(Lines) /\ (voice_out' = voice_out \/ voice_out' = Append(voice_out, T!PhaseLine(ctl'.phase)))
      BY <2>1 DEF PhaseSaid, DictationTypes
    <2>4. QED
      BY <2>2, <2>3, WithinIs
  <1>5. \A n \in strays : BeforeWork(n)'
    BY StraysFollow DEF ControllerMoves
  <1>6. \A i \in DOMAIN voice_out' : Says(voice_out'[i]) => Matches(voice_out[i])'
    <2> SUFFICES ASSUME NEW i \in DOMAIN voice_out', Says(voice_out'[i])
                 PROVE  Matches(voice_out[i])'
      OBVIOUS
    <2>1. PICK l : l = voice_out'[i] /\ Matches(l)
      BY <1>1, <1>4 DEF KeysInv, Within
    <2>2. Matches(l)'
      BY <1>2, <2>1
    <2>3. QED
      BY <2>1, <2>2 DEF Matches
  <1>7. \A i \in DOMAIN voice_in' : Says(voice_in'[i]) => voice_in'[i].words \in strays \/ Matches(voice_in[i])'
    <2> SUFFICES ASSUME NEW i \in DOMAIN voice_in', Says(voice_in'[i]), voice_in'[i].words \notin strays
                 PROVE  Matches(voice_in[i])'
      OBVIOUS
    <2>1. PICK l : l = voice_in'[i] /\ Matches(l)
      BY <1>3 DEF KeysInv, Within
    <2>2. Matches(l)'
      BY <1>2, <2>1
    <2>3. QED
      BY <2>1, <2>2 DEF Matches
  <1>8. \A p \in ctl'.pending : p.id <= ctl'.ids /\ p.n \notin strays
    BY <1>1 DEF KeysInv
  <1>9. \A i \in DOMAIN late : late[i].type = "transcript" => late[i].words \in strays
    BY DEF KeysInv
  <1>10. QED
    BY <1>1, <1>5, <1>6, <1>7, <1>8, <1>9 DEF KeysInv, Says

\* A new id is more than any that waits, and a new piece comes after all of them
LEMMA KeysByHeard ==
  ASSUME DictationTypes, DictationTypes', OrderInv, KeysInv, HeardStep
  PROVE  KeysInv'
  <1> DEFINE p == Head(ctl.work)
             k == ctl.ids + 1
             t == T!Transcript(k, p.n, p.of, ctl.spoke)
  <1>1. /\ ctl.work \in Seq(Works) /\ ctl.work # <<>> /\ p \in Works /\ p.n \in Nat /\ p.of \in Nat
        /\ p = ctl.work[1] /\ 1 \in DOMAIN ctl.work
    <2>1. ctl.work \in Seq(Works)
      BY DEF DictationTypes, Controllers
    <2>2. ctl.work # <<>> /\ p \in Works
      BY DEF HeardStep
    <2>3. p.n \in Nat /\ p.of \in Nat
      BY <2>2 DEF Works
    <2>4. p = ctl.work[1] /\ 1 \in DOMAIN ctl.work
      BY <2>1, <2>2
    <2>5. QED
      BY <2>1, <2>2, <2>3, <2>4
  <1>2. ctl.ids \in Nat /\ k \in Nat /\ ctl.spoke \in BOOLEAN
    <2>1. ctl \in Controllers
      BY DEF DictationTypes
    <2>2. QED
      BY <2>1 DEF Controllers
  <1>3. \A n \in Nat : BeforeWork(n) => n < p.n
    BY <1>1 DEF BeforeWork
  <1>4. t \in Lines /\ t.id = k /\ t.words = p.n
    <2>1. p.n \in Nat /\ p.of \in Nat /\ ctl.spoke \in BOOLEAN /\ k \in Nat
      BY <1>1, <1>2
    <2> HIDE DEF p, k
    <2>2. QED
      BY <2>1, LinesAre
  <1>5. /\ ctl'.pending = ctl.pending \cup {[id |-> k, n |-> p.n, of |-> p.of]} /\ ctl'.ids = k
        /\ UNCHANGED <<voice, voice_in, late, strays>> /\ voice = "up"
        /\ voice_out' = Append(voice_out, t)
    BY DEF HeardStep
  <1>6. \A n \in strays : BeforeWork(n)'
    <2>1. WorkStep
      BY DEF HeardStep, WorkStep
    <2>2. QED
      BY <2>1, StraysFollow
  <1>7. \A q \in ctl.pending : q.id \in Nat /\ q.id < k /\ q.n < p.n
    BY <1>2, <1>3, NumbersAre DEF KeysInv, OrderInv, WorkInv
  <1> HIDE DEF p, k, t
  <1>8. \A l \in Lines : Matches(l) /\ BeforeWork(l.words) => Matches(l)'
    <2> SUFFICES ASSUME NEW l \in Lines, Matches(l), BeforeWork(l.words)
                 PROVE  Matches(l)'
      OBVIOUS
    <2>1. l.id \in Nat /\ l.words \in Nat
      BY DEF Lines
    <2>2. l.id <= ctl.ids /\ l.id < k /\ l.words < p.n
      BY <1>2, <1>3, <2>1 DEF Matches, k
    <2>3. \A q \in ctl'.pending : q.id = l.id <=> q.n = l.words
      BY <1>1, <1>2, <1>5, <2>1, <2>2 DEF Matches
    <2>4. l.id <= ctl'.ids
      BY <1>2, <1>5, <2>1, <2>2
    <2>5. QED
      BY <2>3, <2>4 DEF Matches
  <1>9. t.id <= ctl'.ids /\ \A q \in ctl'.pending : q.id = t.id <=> q.n = t.words
    BY <1>1, <1>2, <1>4, <1>5, <1>7, NumbersAre
  <1>10. \A q \in ctl'.pending : q.id <= ctl'.ids /\ q.n \notin strays
    <2>1. p.n \notin strays
      BY <1>1, <1>3 DEF KeysInv
    <2>2. QED
      BY <1>2, <1>5, <1>7, <2>1 DEF KeysInv
  <1>11. \A i \in DOMAIN voice_out : Says(voice_out[i]) => (Matches(voice_out[i]) /\ BeforeWork(voice_out[i].words))
    BY <1>5 DEF KeysInv, OrderInv, LinesInv
  <1>12. \A i \in DOMAIN voice_out' : Says(voice_out'[i]) => Matches(voice_out[i])'
    <2> SUFFICES ASSUME NEW i \in DOMAIN voice_out', Says(voice_out'[i])
                 PROVE  Matches(voice_out[i])'
      OBVIOUS
    <2>1. (i \in DOMAIN voice_out /\ voice_out'[i] = voice_out[i]) \/ voice_out'[i] = t
      BY <1>4, <1>5 DEF DictationTypes
    <2>2. CASE i \in DOMAIN voice_out /\ voice_out'[i] = voice_out[i]
      <3>1. PICK l \in Lines : l = voice_out[i] /\ Matches(l) /\ BeforeWork(l.words)
        BY <1>11, <2>2, NumbersAre
      <3>2. Matches(l)'
        BY <1>8, <3>1
      <3>3. QED
        BY <2>2, <3>1, <3>2 DEF Matches
    <2>3. CASE voice_out'[i] = t
      BY <1>9, <2>3 DEF Matches
    <2>4. QED
      BY <2>1, <2>2, <2>3
  <1>13. \A i \in DOMAIN voice_in : Says(voice_in[i]) => voice_in[i].words \in strays \/ Matches(voice_in[i])'
    <2> SUFFICES ASSUME NEW i \in DOMAIN voice_in, Says(voice_in[i]), voice_in[i].words \notin strays
                 PROVE  Matches(voice_in[i])'
      OBVIOUS
    <2>1. PICK l \in Lines : l = voice_in[i] /\ Matches(l) /\ BeforeWork(l.words)
      BY NumbersAre DEF KeysInv, OrderInv, LinesInv
    <2>2. Matches(l)'
      BY <1>8, <2>1
    <2>3. QED
      BY <1>5, <2>1, <2>2 DEF Matches
  <1>14. \A i \in DOMAIN late : late[i].type = "transcript" => late[i].words \in strays
    BY DEF KeysInv
  <1>15. QED
    BY <1>5, <1>6, <1>10, <1>12, <1>13, <1>14 DEF KeysInv, Says

LEMMA KeysByReading ==
  ASSUME DictationTypes, KeysInv, T!ReadLine \/ T!ReadLate
  PROVE  KeysInv'
  <1>1. /\ UNCHANGED <<voice, ctl, strays, pieces>>
        /\ voice_out \in Seq(Lines) /\ late \in Seq(Lines) /\ voice_in \in Seq(Lines)
    BY DEF T!ReadLine, T!ReadLate, DictationTypes
  <1>2. PICK l \in Lines :
          /\ T!OnLine(l)
          /\ l.type = "transcript" /\ voice \in {"boot", "up"} => l.words \in strays \/ Matches(l)
          /\ Within(voice_out', voice_out)
          /\ \A i \in DOMAIN late' : \E k \in DOMAIN late : late'[i] = late[k]
          /\ voice_out = <<>> => voice_out' = <<>>
    <2>1. CASE T!ReadLine
      <3>1. PICK l \in Lines : l = Head(voice_out) /\ l = voice_out[1] /\ 1 \in DOMAIN voice_out
        BY <1>1, <2>1 DEF T!ReadLine
      <3>2. voice_out' = Tail(voice_out) /\ voice_out # <<>> /\ T!OnLine(l) /\ late' = late
        BY <2>1, <3>1 DEF T!ReadLine
      <3>3. Within(voice_out', voice_out)
        BY <1>1, <3>2, WithinIs
      <3>4. l.type = "transcript" /\ voice \in {"boot", "up"} => Matches(l)
        BY <3>1, <3>2 DEF KeysInv, Says
      <3>5. QED
        BY <3>2, <3>3, <3>4
    <2>2. CASE T!ReadLate
      <3>1. PICK l \in Lines : l = Head(late) /\ l = late[1] /\ 1 \in DOMAIN late
        BY <1>1, <2>2 DEF T!ReadLate
      <3>2. late' = Tail(late) /\ late # <<>> /\ T!OnLine(l) /\ voice_out' = voice_out
        BY <2>2, <3>1 DEF T!ReadLate
      <3>3. Within(voice_out', voice_out)
        BY <1>1, <3>2, WithinIs
      <3>4. l.type = "transcript" => l.words \in strays
        BY <3>1 DEF KeysInv
      <3>5. \A i \in DOMAIN late' : \E k \in DOMAIN late : late'[i] = late[k]
        BY <1>1, <3>2
      <3>6. QED
        BY <3>2, <3>3, <3>4, <3>5
    <2>3. QED
      BY <2>1, <2>2
  <1>3. \A i \in DOMAIN voice_in' : Says(voice_in'[i]) => voice_in'[i].words \in strays \/ Matches(voice_in'[i])
    <2>1. CASE voice_in' = voice_in
      BY <2>1 DEF KeysInv
    <2>2. CASE /\ l.type = "transcript" /\ Says(l) /\ voice \in {"boot", "up"}
               /\ voice_in' = Append(voice_in, T!InsertLine(l.id, l.words))
      <3>1. /\ \A i \in DOMAIN voice_in' : i \in DOMAIN voice_in \/ i = Len(voice_in) + 1
            /\ \A i \in DOMAIN voice_in : voice_in'[i] = voice_in[i]
            /\ voice_in'[Len(voice_in) + 1].words = l.words /\ voice_in'[Len(voice_in) + 1].id = l.id
        BY <2>2, Answered
      <3>2. l.words \in strays \/ Matches(l)
        BY <1>2, <2>2
      <3>3. QED
        BY <3>1, <3>2 DEF KeysInv, Matches
    <2>3. QED
      BY <1>2, <2>1, <2>2, LineIs
  <1>4. \A i \in DOMAIN voice_out' : Says(voice_out'[i]) => \E k \in DOMAIN voice_out : voice_out[k] = voice_out'[i]
    BY <1>2 DEF Within
  <1>5. voice = "up" => \A i \in DOMAIN voice_out' : Says(voice_out'[i]) => Matches(voice_out'[i])
    BY <1>4 DEF KeysInv
  <1>6. \A i \in DOMAIN late' : late'[i].type = "transcript" => late'[i].words \in strays
    BY <1>2 DEF KeysInv
  <1>7. voice \in {"boot", "off"} => voice_out' = <<>>
    BY <1>2 DEF KeysInv
  <1>8. QED
    BY <1>1, <1>3, <1>5, <1>6, <1>7 DEF KeysInv, Matches, BeforeWork, Says

LEMMA KeysByRest ==
  ASSUME DictationTypes, DictationTypes', OrderInv, KeysInv, RestActions
  PROVE  KeysInv'
  <1>1. RestStep
    BY RestActionsAre
  <1>2. \A n \in strays : BeforeWork(n)'
    <2>1. ctl'.work \in {ctl.work, <<>>} /\ pieces' = pieces
      BY <1>1, BootedIs DEF RestStep
    <2>2. QED
      BY <2>1, StraysFollow
  <1>3. CASE T!ToggleCommand
    <2>1. T!Toggle \in Lines /\ ~Says(T!Toggle) /\ voice_in \in Seq(Lines)
      BY LinesAre DEF DictationTypes, Says
    <2>2. /\ UNCHANGED <<voice, ctl, voice_out, late, strays, pieces>> /\ voice_in' = Append(voice_in, T!Toggle)
      BY <1>3 DEF T!ToggleCommand, T!app
    <2>3. \A i \in DOMAIN voice_in' : Says(voice_in'[i]) => i \in DOMAIN voice_in /\ voice_in'[i] = voice_in[i]
      BY <2>1, <2>2
    <2>4. QED
      BY <2>2, <2>3 DEF KeysInv, Matches, BeforeWork, Says
  <1>4. CASE T!Forget \/ T!ShowStarting \/ UNCHANGED T!dvars
    <2>1. UNCHANGED <<voice, ctl, voice_in, voice_out, late, strays, pieces>>
      BY <1>4 DEF T!Forget, T!ShowStarting, T!dvars
    <2>2. QED
      BY <2>1 DEF KeysInv, Matches, BeforeWork, Says
  <1>5. CASE T!Boot
    <2>1. /\ voice_out = <<>> /\ voice' = "up" /\ voice_out' = Append(voice_out, T!Ready)
          /\ UNCHANGED <<ctl, voice_in, late, strays, pieces>>
      BY <1>5 DEF T!Boot, T!app, KeysInv
    <2>2. T!Ready \in Lines /\ ~Says(T!Ready)
      BY LinesAre DEF Says
    <2>3. \A i \in DOMAIN voice_out' : ~Says(voice_out'[i])
      BY <2>1, <2>2
    <2>4. QED
      BY <2>1, <2>3 DEF KeysInv, Matches, BeforeWork, Says
  <1>6. CASE T!Crash
    BY <1>2, <1>6, BootedIs DEF T!Crash, T!app, KeysInv
  <1>7. CASE T!Down \/ T!SwitchOn
    <2>1. /\ voice_out = <<>> /\ voice' = "boot" /\ UNCHANGED <<ctl, voice_in, voice_out, late, strays, pieces>>
      BY <1>7 DEF T!Down, T!SwitchOn, KeysInv
    <2>2. QED
      BY <2>1 DEF KeysInv, Matches, BeforeWork, Says
  <1>8. CASE T!SwitchOff
    <2> DEFINE said == {voice_out[i].words : i \in {k \in DOMAIN voice_out : voice_out[k].type = "transcript"}}
    <2>1. /\ voice' = "off" /\ ctl' = T!Booted /\ voice_in' = <<>> /\ voice_out' = <<>> /\ late' = late \o voice_out
          /\ strays' = strays \cup said /\ pieces' = pieces
      BY <1>8 DEF T!SwitchOff, T!Transcripts
    <2>2. \A i \in DOMAIN late' : late'[i].type = "transcript" => late'[i].words \in strays'
      <3>1. late \in Seq(Lines) /\ voice_out \in Seq(Lines)
        BY DEF DictationTypes
      <3>2. \A i \in DOMAIN late' : \/ \E k \in DOMAIN late : late'[i] = late[k]
                                    \/ \E k \in DOMAIN voice_out : late'[i] = voice_out[k]
        BY <2>1, <3>1, JoinedLines
      <3>3. QED
        BY <2>1, <3>2 DEF KeysInv
    <2>3. \A n \in strays' : BeforeWork(n)'
      <3>1. \A i \in DOMAIN voice_out : voice_out[i].type = "transcript" => voice_out[i].words <= pieces
        BY DEF OrderInv, LinesInv, Says, BeforeWork
      <3>2. \A n \in strays : n <= pieces
        BY DEF KeysInv, BeforeWork
      <3>3. \A n \in strays' : n <= pieces
        BY <2>1, <3>1, <3>2
      <3>4. QED
        BY <2>1, <3>3, BootedIs DEF BeforeWork
    <2> HIDE DEF said
    <2>4. QED
      BY <2>1, <2>2, <2>3, BootedIs DEF KeysInv
  <1>9. QED
    BY <1>3, <1>4, <1>5, <1>6, <1>7, <1>8 DEF RestActions

LEMMA DictationInitially ==
  ASSUME T!DictationInit
  PROVE  DictationTypes /\ OrderInv /\ KeysInv
  <1>1. /\ ctl = T!Booted /\ voice_in = <<>> /\ voice_out = <<>> /\ late = <<>> /\ typed = <<>> /\ dictations = 0
        /\ pieces = 0 /\ strays = {}
    BY DEF T!DictationInit
  <1>2. DictationTypes
    BY <1>1, BootedIs DEF T!DictationInit, DictationTypes, Controls
  <1>3. OrderInv
    BY <1>1, BootedIs DEF OrderInv, WorkInv, LinesInv, TypedInv, BeforeWork
  <1>4. KeysInv
    BY <1>1, BootedIs DEF KeysInv
  <1>5. QED
    BY <1>2, <1>3, <1>4

LEMMA DictationKept ==
  ASSUME DictationTypes, OrderInv, KeysInv, [T!DictationNext]_(T!dvars)
  PROVE  DictationTypes' /\ OrderInv' /\ KeysInv'
  <1>1. CASE ControllerMoves
    BY <1>1, MovesTyped, MovesOrdered, KeysByMoves
  <1>2. CASE HeardStep
    BY <1>2, HeardTyped, HeardOrdered, KeysByHeard
  <1>3. CASE T!ReadLine
    BY <1>3, ReadTyped, ReadOrdered, KeysByReading
  <1>4. CASE T!ReadLate
    BY <1>4, ReadTyped, LateOrdered, KeysByReading
  <1>5. CASE RestActions
    BY <1>5, RestActionsAre, RestTyped, RestOrdered, KeysByRest
  <1>6. QED
    BY <1>1, <1>2, <1>3, <1>4, <1>5, HelperIs DEF T!DictationNext, RestActions

\* "Typed in the order they were said", and for the piece they were said in, but
\* for the words of a helper that was switched off before they were read: over
\* pauses, cancels, transcribers that fail, answers that come after their timeout,
\* and crashes and switches of the feature at any moment, each helper counting its
\* ids anew, with any number of pieces said.
THEOREM TypedInOrder == T!DictationSpec => []T!TypedAsSaid
  <1> DEFINE Inv == DictationTypes /\ OrderInv /\ KeysInv
  <1>1. T!DictationInit => Inv
    BY DictationInitially
  <1>2. Inv /\ [T!DictationNext]_(T!dvars) => Inv'
    BY DictationKept
  <1>3. Inv => T!TypedAsSaid
    BY DEF OrderInv, TypedInv, Own, T!TypedAsSaid
  <1> HIDE DEF Inv
  <1>4. QED
    BY <1>1, <1>2, <1>3, PTL DEF T!DictationSpec

-----------------------------------------------------------------------------
(* The phase that is shown                                                   *)

\* What is shown once the lines of s are read
LastPhase(s, seen, p) ==
  \/ seen = p /\ \A i \in DOMAIN s : s[i].type # "phase"
  \/ \E i \in DOMAIN s : /\ s[i].type = "phase" /\ s[i].phase = p
                         /\ \A j \in DOMAIN s : i < j => s[j].type # "phase"

WillRun ==
  \/ shown.helper = "Running" /\ ~starting
  \/ \E i \in DOMAIN voice_out : voice_out[i].type = "ready"

PhaseInv ==
  /\ late = <<>>
  /\ voice = "up" => LastPhase(voice_out, shown.phase, ctl.phase) /\ WillRun
  /\ voice \in {"boot", "off"} => voice_out = <<>> /\ shown.phase = "idle"

LEMMA LastAppended ==
  ASSUME NEW s \in Seq(Lines), NEW l \in Lines, NEW seen, NEW p
  PROVE  /\ l.type = "phase" => LastPhase(Append(s, l), seen, l.phase)
         /\ l.type # "phase" /\ LastPhase(s, seen, p) => LastPhase(Append(s, l), seen, p)
         /\ l.type = "ready" => \E i \in DOMAIN Append(s, l) : Append(s, l)[i].type = "ready"
         /\ (\E i \in DOMAIN s : s[i].type = "ready") => \E i \in DOMAIN Append(s, l) : Append(s, l)[i].type = "ready"
  <1>1. PICK t : t = Append(s, l)
    OBVIOUS
  <1>2. /\ DOMAIN s = 1 .. Len(s) /\ Len(s) \in Nat /\ DOMAIN t = 1 .. Len(s) + 1
        /\ \A i \in DOMAIN s : i \in DOMAIN t /\ t[i] = s[i] /\ i < Len(s) + 1
        /\ Len(s) + 1 \in DOMAIN t /\ t[Len(s) + 1] = l
        /\ \A i \in DOMAIN t : i \in DOMAIN s \/ i = Len(s) + 1
    BY <1>1
  <1>3. \A i \in DOMAIN t : ~(Len(s) + 1 < i)
    BY <1>2
  <1>4. l.type = "phase" => LastPhase(t, seen, l.phase)
    BY <1>2, <1>3 DEF LastPhase
  <1>5. ASSUME l.type # "phase", LastPhase(s, seen, p)
        PROVE  LastPhase(t, seen, p)
    <2>1. CASE seen = p /\ \A i \in DOMAIN s : s[i].type # "phase"
      BY <1>2, <1>5, <2>1 DEF LastPhase
    <2>2. CASE \E i \in DOMAIN s : /\ s[i].type = "phase" /\ s[i].phase = p
                                   /\ \A j \in DOMAIN s : i < j => s[j].type # "phase"
      BY <1>2, <1>5, <2>2 DEF LastPhase
    <2>3. QED
      BY <1>5, <2>1, <2>2 DEF LastPhase
  <1>6. /\ l.type = "ready" => \E i \in DOMAIN t : t[i].type = "ready"
        /\ (\E i \in DOMAIN s : s[i].type = "ready") => \E i \in DOMAIN t : t[i].type = "ready"
    BY <1>2
  <1>7. QED
    BY <1>1, <1>4, <1>5, <1>6

LEMMA LastRead ==
  ASSUME NEW s \in Seq(Lines), s # <<>>, NEW seen, NEW p, LastPhase(s, seen, p)
  PROVE  /\ Head(s).type = "phase" => LastPhase(Tail(s), Head(s).phase, p)
         /\ Head(s).type # "phase" => LastPhase(Tail(s), seen, p)
         /\ (\E i \in DOMAIN s : s[i].type = "ready") =>
              Head(s).type = "ready" \/ \E i \in DOMAIN Tail(s) : Tail(s)[i].type = "ready"
  <1>1. PICK t, h : t = Tail(s) /\ h = Head(s)
    OBVIOUS
  <1>2. /\ h = s[1] /\ 1 \in DOMAIN s /\ DOMAIN s \subseteq Nat
        /\ \A i \in DOMAIN t : i \in Nat /\ i + 1 \in DOMAIN s /\ t[i] = s[i + 1] /\ 1 < i + 1
        /\ \A i \in DOMAIN s : i = 1 \/ (i - 1 \in DOMAIN t /\ s[i] = t[i - 1])
    BY <1>1
  <1>3. \A i, j \in DOMAIN t : i < j => i + 1 < j + 1
    BY <1>2
  <1>4. ASSUME seen = p, \A i \in DOMAIN s : s[i].type # "phase"
        PROVE  h.type # "phase" /\ LastPhase(t, seen, p)
    BY <1>2, <1>4 DEF LastPhase
  <1>5. ASSUME NEW i \in DOMAIN s, s[i].type = "phase", s[i].phase = p, \A j \in DOMAIN s : i < j => s[j].type # "phase"
        PROVE  /\ h.type = "phase" => LastPhase(t, h.phase, p)
               /\ h.type # "phase" => LastPhase(t, seen, p)
    <2>1. CASE i = 1
      <3>1. \A j \in DOMAIN t : t[j].type # "phase"
        BY <1>2, <1>5, <2>1
      <3>2. QED
        BY <1>2, <1>5, <2>1, <3>1 DEF LastPhase
    <2>2. CASE i # 1
      <3>1. i - 1 \in DOMAIN t /\ t[i - 1] = s[i]
        BY <1>2, <2>2
      <3>2. \A j \in DOMAIN t : i - 1 < j => i < j + 1
        BY <1>2
      <3>3. \A j \in DOMAIN t : i - 1 < j => t[j].type # "phase"
        BY <1>2, <1>5, <3>2
      <3>4. QED
        BY <1>5, <3>1, <3>3 DEF LastPhase
    <2>3. QED
      BY <2>1, <2>2
  <1>6. /\ h.type = "phase" => LastPhase(t, h.phase, p)
        /\ h.type # "phase" => LastPhase(t, seen, p)
    BY <1>1, <1>4, <1>5 DEF LastPhase
  <1>7. (\E i \in DOMAIN s : s[i].type = "ready") => h.type = "ready" \/ \E i \in DOMAIN t : t[i].type = "ready"
    BY <1>2
  <1>8. QED
    BY <1>1, <1>6, <1>7

LEMMA PhaseByHelper ==
  ASSUME DictationTypes, PhaseInv, ControllerMoves \/ HeardStep
  PROVE  PhaseInv'
  <1>1. voice = "up" /\ UNCHANGED <<voice, late, shown, starting>> /\ voice_out \in Seq(Lines)
    BY DEF ControllerMoves, HeardStep, DictationTypes
  <1>2. LastPhase(voice_out, shown.phase, ctl.phase) /\ WillRun
    BY <1>1 DEF PhaseInv
  <1>3. CASE ControllerMoves
    <2>1. ctl'.phase \in Controls /\ PhaseSaid(ctl')
      BY <1>3 DEF ControllerMoves, Controllers
    <2>2. CASE voice_out' = voice_out /\ ctl'.phase = ctl.phase
      BY <1>1, <1>2, <2>2 DEF PhaseInv, WillRun
    <2>3. CASE voice_out' = Append(voice_out, T!PhaseLine(ctl'.phase))
      <3>1. PICK l \in Lines : l = T!PhaseLine(ctl'.phase) /\ l.type = "phase" /\ l.phase = ctl'.phase
        BY <2>1, LinesAre
      <3>2. voice_out' = Append(voice_out, l)
        BY <2>3, <3>1
      <3>3. LastPhase(voice_out', shown.phase, ctl'.phase)
        BY <1>1, <3>1, <3>2, LastAppended
      <3>4. (\E i \in DOMAIN voice_out : voice_out[i].type = "ready") => \E i \in DOMAIN voice_out' : voice_out'[i].type = "ready"
        BY <1>1, <3>2, LastAppended
      <3>5. WillRun'
        BY <1>1, <1>2, <3>4 DEF WillRun
      <3>6. QED
        BY <1>1, <3>3, <3>5 DEF PhaseInv
    <2>4. QED
      BY <2>1, <2>2, <2>3 DEF PhaseSaid
  <1>4. CASE HeardStep
    <2>1. PICK l \in Lines : voice_out' = Append(voice_out, l) /\ l.type # "phase"
      <3>1. Head(ctl.work).n \in Nat /\ Head(ctl.work).of \in Nat /\ ctl.spoke \in BOOLEAN /\ ctl.ids + 1 \in Nat
        <4>1. ctl \in Controllers
          BY DEF DictationTypes
        <4>2. Head(ctl.work) \in Works
          BY <1>4 DEF HeardStep
        <4>3. QED
          BY <4>1, <4>2 DEF Works, Controllers
      <3>2. PICK k, n, d \in Nat, c \in BOOLEAN :
              k = ctl.ids + 1 /\ n = Head(ctl.work).n /\ d = Head(ctl.work).of /\ c = ctl.spoke
        BY <3>1
      <3>3. T!Transcript(k, n, d, c) \in Lines /\ T!Transcript(k, n, d, c).type = "transcript"
        BY LinesAre
      <3>4. QED
        BY <1>4, <3>2, <3>3 DEF HeardStep
    <2>2. LastPhase(voice_out', shown.phase, ctl.phase)
      BY <1>1, <1>2, <2>1, LastAppended
    <2>3. (\E i \in DOMAIN voice_out : voice_out[i].type = "ready") => \E i \in DOMAIN voice_out' : voice_out'[i].type = "ready"
      BY <1>1, <2>1, LastAppended
    <2>4. WillRun'
      BY <1>1, <1>2, <2>3 DEF WillRun
    <2>5. ctl'.phase = ctl.phase
      BY <1>4 DEF HeardStep
    <2>6. QED
      BY <1>1, <2>2, <2>4, <2>5 DEF PhaseInv
  <1>5. QED
    BY <1>3, <1>4

LEMMA PhaseByRead ==
  ASSUME DictationTypes, PhaseInv, T!ReadLine, ~starting
  PROVE  PhaseInv'
  <1> DEFINE h == Head(voice_out)
  <1>1. /\ voice_out \in Seq(Lines) /\ voice_out # <<>> /\ voice_out' = Tail(voice_out) /\ h \in Lines
        /\ UNCHANGED <<voice, ctl, late, starting>> /\ T!OnLine(h)
    BY HeadTailProperties DEF T!ReadLine, DictationTypes
  <1>2. CASE voice = "up"
    <2>1. LastPhase(voice_out, shown.phase, ctl.phase) /\ WillRun
      BY <1>2 DEF PhaseInv
    <2>2. /\ h.type = "phase" => LastPhase(voice_out', h.phase, ctl.phase)
          /\ h.type # "phase" => LastPhase(voice_out', shown.phase, ctl.phase)
          /\ (\E i \in DOMAIN voice_out : voice_out[i].type = "ready")
               => h.type = "ready" \/ \E i \in DOMAIN voice_out' : voice_out'[i].type = "ready"
      BY <1>1, <2>1, LastRead
    <2> HIDE DEF h
    <2>3. /\ h.type = "phase" => shown'.phase = h.phase /\ shown'.helper = shown.helper
          /\ h.type = "ready" => shown'.phase = shown.phase /\ shown'.helper = "Running"
          /\ h.type \notin {"phase", "ready"} => shown' = shown
      BY <1>1 DEF T!OnLine, DictationTypes
    <2>4. LastPhase(voice_out', shown'.phase, ctl'.phase)
      BY <1>1, <2>2, <2>3
    <2>5. WillRun'
      BY <1>1, <2>1, <2>2, <2>3 DEF WillRun
    <2>6. QED
      BY <1>1, <1>2, <2>4, <2>5 DEF PhaseInv
  <1>3. CASE voice # "up"
    BY <1>1, <1>3 DEF PhaseInv
  <1>4. QED
    BY <1>2, <1>3

LEMMA PhaseByRest ==
  ASSUME ~DictationRaces, DictationTypes, PhaseInv, RestActions
  PROVE  PhaseInv'
  <1>1. CASE T!ToggleCommand \/ T!Forget \/ UNCHANGED T!dvars
    BY <1>1 DEF T!ToggleCommand, T!Forget, T!dvars, T!app, PhaseInv, WillRun
  <1>2. CASE T!Boot
    <2>1. voice_out = <<>> /\ shown.phase = "idle" /\ ctl = T!Booted /\ voice_out' = Append(<<>>, T!Ready)
          /\ UNCHANGED <<ctl, late, shown, starting>>
      BY <1>2 DEF T!Boot, T!app, PhaseInv, DictationTypes
    <2>2. PICK l \in Lines : l = T!Ready /\ l.type = "ready"
      BY LinesAre
    <2>3. LastPhase(<<>>, shown.phase, "idle") /\ <<>> \in Seq(Lines)
      BY <2>1 DEF LastPhase
    <2>4. LastPhase(voice_out', shown.phase, "idle") /\ \E i \in DOMAIN voice_out' : voice_out'[i].type = "ready"
      BY <2>1, <2>2, <2>3, LastAppended
    <2>5. QED
      BY <1>2, <2>1, <2>4, BootedIs DEF T!Boot, PhaseInv, WillRun
  <1>3. CASE T!Crash
    BY <1>3 DEF T!Crash, T!app, PhaseInv
  <1>4. CASE T!Down
    BY <1>4 DEF T!Down, PhaseInv
  <1>5. CASE T!SwitchOff
    <2>1. shown.phase = "idle" /\ voice_out = <<>> /\ late = <<>>
      BY <1>5 DEF T!SwitchOff, T!Calm
    <2>2. QED
      BY <1>5, <2>1 DEF T!SwitchOff, PhaseInv
  <1>6. CASE T!SwitchOn
    BY <1>6 DEF T!SwitchOn, PhaseInv
  <1>7. CASE T!ShowStarting
    BY <1>7 DEF T!ShowStarting, PhaseInv, WillRun, DictationTypes
  <1>8. QED
    BY <1>1, <1>2, <1>3, <1>4, <1>5, <1>6, <1>7 DEF RestActions

LEMMA PhaseKept ==
  ASSUME ~DictationRaces, DictationTypes, PhaseInv, [T!DictationNext]_(T!dvars)
  PROVE  PhaseInv'
  <1>1. ~T!ReadLate
    BY DEF T!ReadLate, PhaseInv
  <1>2. QED
    BY <1>1, HelperIs, PhaseByHelper, PhaseByRead, PhaseByRest DEF T!DictationNext, RestActions

\* Once every line is read the title bar shows the helper as running, and in the
\* phase it is in: over dictations, crashes and restarts, and over switches of
\* the feature that are made while nothing is said, shown or on its way.
THEOREM PhaseIsShown ==
  ASSUME ~DictationRaces
  PROVE  T!DictationSpec => []T!PhaseShown
  <1> DEFINE Inv == DictationTypes /\ OrderInv /\ KeysInv /\ PhaseInv
  <1>1. T!DictationInit => Inv
    <2>1. T!DictationInit => PhaseInv
      BY DEF T!DictationInit, PhaseInv
    <2>2. QED
      BY <2>1, DictationInitially
  <1>2. Inv /\ [T!DictationNext]_(T!dvars) => Inv'
    BY DictationKept, PhaseKept
  <1>3. Inv => T!PhaseShown
    BY DEF DictationTypes, PhaseInv, LastPhase, WillRun, T!PhaseShown
  <1> HIDE DEF Inv
  <1>4. QED
    BY <1>1, <1>2, <1>3, PTL DEF T!DictationSpec

-----------------------------------------------------------------------------
(* The history                                                               *)

Entries == [of : SUBSET Nat, pieces : Seq(Nat)]
Words(l) == l.type = "transcript"
NewestIs(d) == history # <<>> /\ history[1].of = {d}

\* What the history, the lines that are not read and the Controller hold of the
\* dictations, each in the order in which it will be recorded
EntryIs(e) ==
  /\ \E d \in 1 .. dictations : e.of = {d}
  /\ \A j, k \in DOMAIN e.pieces : j < k => e.pieces[j] < e.pieces[k]
  /\ \A k \in DOMAIN e.pieces : BeforeWork(e.pieces[k])
NewerThan(e, f) == \A c, d \in Nat : e.of = {c} /\ f.of = {d} => d < c
EntryBefore(e, l) ==
  /\ \A k \in DOMAIN e.pieces : e.pieces[k] < l.words
  /\ \A d \in Nat : e.of = {d} => d <= l.of /\ (~l.continues => d < l.of)
WordsBefore(a, b) == a.words < b.words /\ a.of <= b.of /\ (~b.continues => a.of < b.of)
Continues(i) ==
  \/ NewestIs(voice_out[i].of)
  \/ \E j \in DOMAIN voice_out : j < i /\ Words(voice_out[j]) /\ voice_out[j].of = voice_out[i].of

EntriesInv ==
  /\ history \in Seq(Entries)
  /\ \A i \in DOMAIN history : EntryIs(history[i])
  /\ \A i, j \in DOMAIN history : i < j => NewerThan(history[i], history[j])

UnreadInv ==
  /\ \A i \in DOMAIN history, j \in DOMAIN voice_out : Words(voice_out[j]) => EntryBefore(history[i], voice_out[j])
  /\ \A j \in DOMAIN voice_out : Words(voice_out[j]) =>
       voice_out[j].of \in 1 .. dictations /\ (voice_out[j].continues => Continues(j))
  /\ \A i, j \in DOMAIN voice_out :
       i < j /\ Words(voice_out[i]) /\ Words(voice_out[j]) => WordsBefore(voice_out[i], voice_out[j])

SpokenInv ==
  LET d == ctl.dictation IN
  d # 0 =>
    /\ \A i \in DOMAIN history, c \in Nat : history[i].of = {c} => c <= d /\ (~ctl.spoke => c < d)
    /\ \A j \in DOMAIN voice_out : Words(voice_out[j]) => voice_out[j].of <= d /\ (~ctl.spoke => voice_out[j].of < d)
    /\ ctl.spoke /\ (ctl.phase # "idle" \/ ctl.work # <<>>) =>
         NewestIs(d) \/ \E j \in DOMAIN voice_out : Words(voice_out[j]) /\ voice_out[j].of = d

HistoryInv == EntriesInv /\ UnreadInv /\ SpokenInv

\* The same words, in the same places
SameWords(t, s) ==
  /\ \A j \in DOMAIN s : j \in DOMAIN t /\ t[j] = s[j]
  /\ \A j \in DOMAIN t : Words(t[j]) => j \in DOMAIN s

LEMMA SameWordsIs ==
  ASSUME NEW s \in Seq(Lines)
  PROVE  /\ SameWords(s, s)
         /\ \A l \in Lines : ~Words(l) => SameWords(Append(s, l), s)
  <1>1. SameWords(s, s)
    BY DEF SameWords
  <1>2. ASSUME NEW l \in Lines, ~Words(l), NEW t, t = Append(s, l)
        PROVE  SameWords(t, s)
    <2>1. /\ DOMAIN s = 1 .. Len(s) /\ Len(s) \in Nat
          /\ \A j \in DOMAIN s : j \in DOMAIN t /\ t[j] = s[j]
          /\ \A j \in DOMAIN t : j \in DOMAIN s \/ j = Len(s) + 1
          /\ t[Len(s) + 1] = l
      BY <1>2
    <2>2. QED
      BY <1>2, <2>1 DEF SameWords
  <1>3. QED
    BY <1>1, <1>2

\* Whom the Controller listens to next
Continuing ==
  \/ ctl'.dictation = 0
  \/ /\ ctl'.dictation = ctl.dictation /\ ctl'.spoke = ctl.spoke
     /\ (ctl'.phase # "idle" \/ ctl'.work # <<>>) => (ctl.phase # "idle" \/ ctl.work # <<>>)
  \/ ctl'.dictation = dictations + 1 /\ ctl'.spoke = FALSE

LEMMA HistoryFollows ==
  ASSUME DictationTypes, HistoryInv, history' = history, SameWords(voice_out', voice_out),
         dictations' \in Nat, dictations <= dictations', \A n \in Nat : BeforeWork(n) => BeforeWork(n)', Continuing
  PROVE  HistoryInv'
  <1>1. history \in Seq(Entries) /\ \A i \in DOMAIN history : history[i] \in Entries
    BY DEF HistoryInv, EntriesInv
  <1>2. \A e \in Entries : EntryIs(e) => EntryIs(e)'
    <2> SUFFICES ASSUME NEW e \in Entries, EntryIs(e)
                 PROVE  EntryIs(e)'
      OBVIOUS
    <2>1. \A k \in DOMAIN e.pieces : e.pieces[k] \in Nat
      BY DEF Entries
    <2>2. \A k \in DOMAIN e.pieces : BeforeWork(e.pieces[k])'
      BY <2>1 DEF EntryIs
    <2>3. \A d \in 1 .. dictations : d \in 1 .. dictations'
      BY DEF DictationTypes
    <2>4. QED
      BY <2>2, <2>3 DEF EntryIs
  <1>3. EntriesInv'
    <2>1. \A i \in DOMAIN history : EntryIs(history[i])'
      BY <1>1, <1>2 DEF HistoryInv, EntriesInv
    <2>2. \A i, j \in DOMAIN history : i < j => NewerThan(history[i], history[j])
      BY DEF HistoryInv, EntriesInv
    <2>3. history' \in Seq(Entries)
      BY <1>1
    <2>4. (\A i \in DOMAIN history : EntryIs(history[i]))'
      BY <2>1
    <2>5. (\A i, j \in DOMAIN history : i < j => NewerThan(history[i], history[j]))'
      BY <2>2 DEF NewerThan
    <2>6. QED
      BY <2>3, <2>4, <2>5, Zenon DEF EntriesInv
  <1>4. \A j \in DOMAIN voice_out' : Words(voice_out'[j]) => j \in DOMAIN voice_out /\ voice_out[j] = voice_out'[j]
    BY DEF SameWords
  <1>5. \A j \in DOMAIN voice_out : j \in DOMAIN voice_out' /\ voice_out'[j] = voice_out[j]
    BY DEF SameWords
  <1>6. \A d : NewestIs(d) => NewestIs(d)'
    BY DEF NewestIs
  <1>7. UnreadInv'
    <2>1. \A i \in DOMAIN history, j \in DOMAIN voice_out' : Words(voice_out'[j]) => EntryBefore(history[i], voice_out'[j])
      BY <1>4 DEF HistoryInv, UnreadInv
    <2>2. ASSUME NEW j \in DOMAIN voice_out', Words(voice_out'[j])
          PROVE  /\ voice_out'[j].of \in 1 .. dictations'
                 /\ voice_out'[j].continues =>
                      \/ NewestIs(voice_out[j].of)
                      \/ \E k \in DOMAIN voice_out' : k < j /\ Words(voice_out'[k]) /\ voice_out'[k].of = voice_out'[j].of
      <3>1. j \in DOMAIN voice_out /\ voice_out[j] = voice_out'[j]
        BY <1>4, <2>2
      <3>2. voice_out[j].of \in 1 .. dictations /\ (voice_out[j].continues => Continues(j))
        BY <2>2, <3>1 DEF HistoryInv, UnreadInv
      <3>3. \A d \in 1 .. dictations : d \in 1 .. dictations'
        BY DEF DictationTypes
      <3>4. QED
        BY <1>5, <3>1, <3>2, <3>3 DEF Continues
    <2>3. \A i, j \in DOMAIN voice_out' :
            i < j /\ Words(voice_out'[i]) /\ Words(voice_out'[j]) => WordsBefore(voice_out'[i], voice_out'[j])
      BY <1>4 DEF HistoryInv, UnreadInv
    <2>4. QED
      BY <1>4, <2>1, <2>2, <2>3 DEF UnreadInv, EntryBefore, WordsBefore, Words, Continues, NewestIs
  <1>8. SpokenInv'
    <2>1. CASE ctl'.dictation = 0
      BY <2>1 DEF SpokenInv
    <2>2. CASE /\ ctl'.dictation = ctl.dictation /\ ctl'.spoke = ctl.spoke
               /\ (ctl'.phase # "idle" \/ ctl'.work # <<>>) => (ctl.phase # "idle" \/ ctl.work # <<>>)
      BY <1>4, <1>5, <2>2 DEF HistoryInv, SpokenInv, Words, NewestIs
    <2>3. CASE ctl'.dictation = dictations + 1 /\ ctl'.spoke = FALSE
      <3>1. \A i \in DOMAIN history, c \in Nat : history[i].of = {c} => c < dictations + 1
        <4> SUFFICES ASSUME NEW i \in DOMAIN history, NEW c \in Nat, history[i].of = {c}
                     PROVE  c < dictations + 1
          OBVIOUS
        <4>1. PICK d \in 1 .. dictations : history[i].of = {d}
          BY DEF HistoryInv, EntriesInv, EntryIs
        <4>2. c = d
          BY <4>1
        <4>3. QED
          BY <4>1, <4>2 DEF DictationTypes
      <3>2. \A j \in DOMAIN voice_out' : Words(voice_out'[j]) =>
              voice_out'[j].of < dictations + 1 /\ voice_out'[j].of <= dictations + 1
        <4>1. \A d \in 1 .. dictations : d < dictations + 1 /\ d <= dictations + 1
          BY DEF DictationTypes
        <4>2. QED
          BY <1>4, <4>1 DEF HistoryInv, UnreadInv
      <3>3. dictations \in Nat /\ \A c \in Nat : c < dictations + 1 => c <= dictations + 1
        BY DEF DictationTypes
      <3>4. QED
        BY <2>3, <3>1, <3>2, <3>3 DEF SpokenInv, Words
    <2>4. QED
      BY <2>1, <2>2, <2>3 DEF Continuing
  <1>9. QED
    BY <1>3, <1>7, <1>8 DEF HistoryInv

LEMMA HistoryByMoves ==
  ASSUME DictationTypes, DictationTypes', HistoryInv, ControllerMoves
  PROVE  HistoryInv'
  <1>1. SameWords(voice_out', voice_out)
    <2>1. ctl'.phase \in Controls /\ PhaseSaid(ctl')
      BY DEF ControllerMoves, Controllers
    <2>2. T!PhaseLine(ctl'.phase) \in Lines /\ ~Words(T!PhaseLine(ctl'.phase))
      BY <2>1, LinesAre DEF Words
    <2>3. voice_out \in Seq(Lines) /\ (voice_out' = voice_out \/ voice_out' = Append(voice_out, T!PhaseLine(ctl'.phase)))
      BY <2>1 DEF PhaseSaid, DictationTypes
    <2>4. QED
      BY <2>2, <2>3, SameWordsIs
  <1>2. \A n \in Nat : BeforeWork(n) => BeforeWork(n)'
    BY WorkIs, WorkFollows DEF ControllerMoves
  <1>3. dictations' \in Nat /\ dictations <= dictations'
    BY DEF ControllerMoves, TalkStep, DictationTypes
  <1>4. Continuing
    <2>1. ctl'.work # <<>> => ctl.work # <<>> \/ ctl.phase = "listening"
      BY DEF ControllerMoves, WorkStep, DictationTypes, Controllers
    <2>2. QED
      BY <2>1 DEF ControllerMoves, TalkStep, Continuing
  <1>5. QED
    BY <1>1, <1>2, <1>3, <1>4, HistoryFollows DEF ControllerMoves

\* What is heard belongs to the dictation the Controller is in, and goes on with
\* an entry only if that is the newest, now or once the lines are read
LEMMA HistoryByHeard ==
  ASSUME DictationTypes, DictationTypes', OrderInv, HistoryInv, HeardStep
  PROVE  HistoryInv'
  <1> DEFINE w == ctl.work
             p == Head(w)
             t == T!Transcript(ctl.ids + 1, p.n, p.of, ctl.spoke)
             top == Len(voice_out) + 1
  <1>1. w \in Seq(Works) /\ w # <<>> /\ ctl'.work = Tail(w) /\ p \in Works /\ p.n \in Nat /\ p.of \in Nat /\ ctl.spoke \in BOOLEAN
    <2>1. w \in Seq(Works) /\ ctl.spoke \in BOOLEAN
      BY DEF DictationTypes, Controllers
    <2>2. w # <<>> /\ ctl'.work = Tail(w) /\ p \in Works
      BY DEF HeardStep
    <2>3. QED
      BY <2>1, <2>2 DEF Works
  <1>2. p = w[1] /\ 1 \in DOMAIN w
    BY <1>1
  <1>3. \A n \in Nat : BeforeWork(n) => n < p.n
    BY <1>2 DEF BeforeWork
  <1>4. p.of = ctl.dictation /\ p.of \in 1 .. dictations /\ p.of # 0
    <2>1. p.of \in 1 .. dictations
      BY <1>2 DEF OrderInv, WorkInv
    <2>2. QED
      BY <2>1 DEF HeardStep, DictationTypes
  <1>5. \A n \in Nat : BeforeWork(n) => BeforeWork(n)'
    <2>1. WorkStep
      BY DEF HeardStep, WorkStep
    <2>2. QED
      BY <2>1, WorkIs, WorkFollows
  <1>6. t \in Lines /\ Words(t) /\ t.words = p.n /\ t.of = p.of /\ t.continues = ctl.spoke
    <2>4. ctl \in Controllers
      BY DEF DictationTypes
    <2>1. ctl.ids + 1 \in Nat
      BY <2>4 DEF Controllers
    <2>2. p.n \in Nat /\ p.of \in Nat /\ ctl.spoke \in BOOLEAN
      BY <1>1
    <2> HIDE DEF p
    <2>3. QED
      BY <2>1, <2>2, LinesAre DEF Words
  <1>7. voice_out \in Seq(Lines) /\ voice_out' = Append(voice_out, t)
    BY DEF HeardStep, DictationTypes
  <1>8. /\ UNCHANGED <<history, dictations, pieces>> /\ ctl'.dictation = ctl.dictation /\ ctl'.spoke = TRUE
    BY DEF HeardStep
  <1> HIDE DEF t, p, w
  <1>9. /\ Len(voice_out) \in Nat /\ DOMAIN voice_out = 1 .. Len(voice_out) /\ top \in DOMAIN voice_out' /\ voice_out'[top] = t
        /\ \A j \in DOMAIN voice_out : j \in DOMAIN voice_out' /\ voice_out'[j] = voice_out[j] /\ j < top
        /\ \A j \in DOMAIN voice_out' : j \in DOMAIN voice_out \/ j = top
        /\ \A i, j \in DOMAIN voice_out' : i < j => i \in DOMAIN voice_out
    BY <1>7
  <1> HIDE DEF top
  <1>10. \A j \in DOMAIN voice_out : Words(voice_out[j]) =>
           voice_out[j].of \in 1 .. dictations /\ voice_out[j].of <= p.of /\ (~ctl.spoke => voice_out[j].of < p.of)
    BY <1>4 DEF HistoryInv, UnreadInv, SpokenInv
  <1>11. \A i \in DOMAIN history, c \in Nat : history[i].of = {c} => c <= p.of /\ (~ctl.spoke => c < p.of)
    BY <1>4 DEF HistoryInv, SpokenInv
  <1>12. ctl.spoke => NewestIs(p.of) \/ \E j \in DOMAIN voice_out : Words(voice_out[j]) /\ voice_out[j].of = p.of
    BY <1>1, <1>4 DEF HistoryInv, SpokenInv, w
  <1>13. /\ history \in Seq(Entries)
         /\ \A i \in DOMAIN history :
              history[i] \in Entries /\ \A k \in DOMAIN history[i].pieces : history[i].pieces[k] \in Nat
    <2>1. history \in Seq(Entries)
      BY DEF HistoryInv, EntriesInv
    <2>2. \A i \in DOMAIN history : history[i] \in Entries
      BY <2>1
    <2>3. \A e \in Entries : \A k \in DOMAIN e.pieces : e.pieces[k] \in Nat
      BY DEF Entries
    <2>4. QED
      BY <2>1, <2>2, <2>3
  <1>14. EntriesInv'
    <2>1. \A i \in DOMAIN history : EntryIs(history[i])'
      <3> SUFFICES ASSUME NEW i \in DOMAIN history
                   PROVE  EntryIs(history[i])'
        OBVIOUS
      <3>1. EntryIs(history[i])
        BY DEF HistoryInv, EntriesInv
      <3>2. \A k \in DOMAIN history[i].pieces : BeforeWork(history[i].pieces[k])'
        BY <1>5, <1>8, <1>13, <3>1 DEF EntryIs, BeforeWork
      <3>3. QED
        BY <1>8, <3>1, <3>2 DEF EntryIs, BeforeWork
    <2>2. QED
      BY <1>8, <2>1 DEF HistoryInv, EntriesInv, NewerThan
  <1>15. UnreadInv'
    <2>1. \A i \in DOMAIN history : EntryBefore(history[i], t)
      <3> SUFFICES ASSUME NEW i \in DOMAIN history
                   PROVE  EntryBefore(history[i], t)
        OBVIOUS
      <3>1. \A k \in DOMAIN history[i].pieces : history[i].pieces[k] < p.n
        BY <1>3, <1>13 DEF HistoryInv, EntriesInv, EntryIs
      <3>2. QED
        BY <1>6, <1>11, <3>1 DEF EntryBefore
    <2>2. \A i \in DOMAIN history, j \in DOMAIN voice_out' : Words(voice_out'[j]) => EntryBefore(history[i], voice_out'[j])
      BY <1>9, <2>1 DEF HistoryInv, UnreadInv
    <2>3. \A j \in DOMAIN voice_out : Words(voice_out[j]) => WordsBefore(voice_out[j], t)
      <3> SUFFICES ASSUME NEW j \in DOMAIN voice_out, Words(voice_out[j])
                   PROVE  WordsBefore(voice_out[j], t)
        OBVIOUS
      <3>1. BeforeWork(voice_out[j].words) /\ voice_out[j].words \in Nat
        BY NumbersAre DEF OrderInv, LinesInv, Says, Words
      <3>2. QED
        BY <1>3, <1>6, <1>10, <3>1 DEF WordsBefore
    <2>4. \A i, j \in DOMAIN voice_out' :
            i < j /\ Words(voice_out'[i]) /\ Words(voice_out'[j]) => WordsBefore(voice_out'[i], voice_out'[j])
      BY <1>9, <2>3 DEF HistoryInv, UnreadInv
    <2>5. ASSUME NEW j \in DOMAIN voice_out', Words(voice_out'[j])
          PROVE  /\ voice_out'[j].of \in 1 .. dictations
                 /\ voice_out'[j].continues =>
                      \/ NewestIs(voice_out'[j].of)
                      \/ \E k \in DOMAIN voice_out' : k < j /\ Words(voice_out'[k]) /\ voice_out'[k].of = voice_out'[j].of
      <3>1. CASE j \in DOMAIN voice_out
        BY <1>9, <2>5, <3>1 DEF HistoryInv, UnreadInv, Continues
      <3>2. CASE j = top
        BY <1>4, <1>6, <1>9, <1>12, <3>2
      <3>3. QED
        BY <1>9, <3>1, <3>2
    <2>6. QED
      BY <1>8, <2>2, <2>4, <2>5 DEF UnreadInv, EntryBefore, WordsBefore, Words, Continues, NewestIs
  <1>16. SpokenInv'
    <2>1. \A j \in DOMAIN voice_out' : Words(voice_out'[j]) => voice_out'[j].of <= p.of
      BY <1>4, <1>6, <1>9, <1>10
    <2>2. \E j \in DOMAIN voice_out' : Words(voice_out'[j]) /\ voice_out'[j].of = p.of
      BY <1>6, <1>9
    <2>3. QED
      BY <1>4, <1>8, <1>11, <2>1, <2>2 DEF SpokenInv, Words
  <1>17. QED
    BY <1>14, <1>15, <1>16 DEF HistoryInv

LEMMA HistoryByRest ==
  ASSUME ~DictationRaces, DictationTypes, DictationTypes', HistoryInv, RestActions, ~T!Forget
  PROVE  HistoryInv'
  <1>1. RestStep
    BY RestActionsAre
  <1>2. history' = history /\ (voice_out' = voice_out \/ voice_out' = Append(voice_out, T!Ready))
    BY DEF RestActions, T!ToggleCommand, T!Boot, T!Crash, T!Down, T!SwitchOff, T!SwitchOn, T!ShowStarting,
           T!app, T!dvars, T!Calm
  <1>3. SameWords(voice_out', voice_out)
    <2>1. T!Ready \in Lines /\ ~Words(T!Ready) /\ voice_out \in Seq(Lines)
      BY LinesAre DEF DictationTypes, Words
    <2>2. QED
      BY <1>2, <2>1, SameWordsIs
  <1>4. Continuing
    BY <1>1, BootedIs DEF RestStep, Continuing
  <1>5. \A n \in Nat : BeforeWork(n) => BeforeWork(n)'
    BY <1>1, BootedIs DEF RestStep, BeforeWork
  <1>6. dictations' \in Nat /\ dictations <= dictations'
    BY <1>1 DEF RestStep, DictationTypes
  <1>7. QED
    BY <1>2, <1>3, <1>4, <1>5, <1>6, HistoryFollows

\* Some of the entries of s, in their order
PartOf(t, s) ==
  /\ t \in Seq(Entries)
  /\ \A i \in DOMAIN t : \E k \in DOMAIN s : s[k] = t[i]
  /\ \A i, j \in DOMAIN t : i < j => \E k, l \in DOMAIN s : k < l /\ s[k] = t[i] /\ s[l] = t[j]

LEMMA RemovedIs ==
  ASSUME NEW s \in Seq(Entries), NEW i \in DOMAIN s
  PROVE  PartOf(T!RemoveAt(s, i), s)
  <1>1. PICK a, b, t : a = SubSeq(s, 1, i - 1) /\ b = SubSeq(s, i + 1, Len(s)) /\ t = a \o b /\ t = T!RemoveAt(s, i)
    BY DEF T!RemoveAt
  <1>2. i \in 1 .. Len(s) /\ Len(s) \in Nat /\ DOMAIN s = 1 .. Len(s) /\ \A k \in 1 .. Len(s) : s[k] \in Entries
    OBVIOUS
  <1>3. a \in Seq(Entries) /\ Len(a) = i - 1 /\ \A k \in 1 .. i - 1 : a[k] = s[k]
    <2>1. i - 1 \in Int /\ 1 \in Int /\ \A k \in 1 .. i - 1 : s[k] \in Entries
      BY <1>2
    <2>2. /\ a \in Seq(Entries) /\ Len(a) = (IF 1 <= i - 1 THEN (i - 1) - 1 + 1 ELSE 0)
          /\ \A k \in 1 .. (i - 1) - 1 + 1 : a[k] = s[1 + k - 1]
      BY <1>1, <2>1, SubSeqProperties
    <2>3. QED
      BY <1>2, <2>2
  <1>4. b \in Seq(Entries) /\ Len(b) = Len(s) - i /\ \A k \in 1 .. Len(s) - i : b[k] = s[i + k]
    <2>1. i + 1 \in Int /\ Len(s) \in Int /\ \A k \in i + 1 .. Len(s) : s[k] \in Entries
      BY <1>2
    <2>2. /\ b \in Seq(Entries) /\ Len(b) = (IF i + 1 <= Len(s) THEN Len(s) - (i + 1) + 1 ELSE 0)
          /\ \A k \in 1 .. Len(s) - (i + 1) + 1 : b[k] = s[i + 1 + k - 1]
      BY <1>1, <2>1, SubSeqProperties
    <2>3. (IF i + 1 <= Len(s) THEN Len(s) - (i + 1) + 1 ELSE 0) = Len(s) - i
      BY <1>2
    <2>4. \A k \in 1 .. Len(s) - i : k \in 1 .. Len(s) - (i + 1) + 1 /\ i + 1 + k - 1 = i + k
      BY <1>2
    <2>5. QED
      BY <2>2, <2>3, <2>4
  <1>5. t \in Seq(Entries) /\ Len(t) = Len(s) - 1 /\ DOMAIN t = 1 .. Len(s) - 1
        /\ \A k \in 1 .. Len(s) - 1 : t[k] = IF k < i THEN s[k] ELSE s[k + 1]
    <2>1. t \in Seq(Entries) /\ Len(t) = Len(a) + Len(b)
          /\ \A k \in 1 .. Len(a) + Len(b) : t[k] = IF k <= Len(a) THEN a[k] ELSE b[k - Len(a)]
      <3>1. a \in Seq(Entries) /\ b \in Seq(Entries) /\ t = a \o b
        BY <1>1, <1>3, <1>4
      <3>2. QED
        BY <3>1, ConcatProperties
    <2>2. \A k \in 1 .. Len(s) - 1 :
            /\ k < i => k <= i - 1 /\ k \in 1 .. i - 1
            /\ ~(k < i) => ~(k <= i - 1) /\ k - (i - 1) \in 1 .. Len(s) - i /\ i + (k - (i - 1)) = k + 1
      BY <1>2
    <2>3. Len(a) + Len(b) = Len(s) - 1
      BY <1>2, <1>3, <1>4
    <2>4. \A k \in 1 .. Len(s) - 1 : t[k] = IF k < i THEN s[k] ELSE s[k + 1]
      BY <1>3, <1>4, <2>1, <2>2, <2>3
    <2>5. QED
      BY <2>1, <2>3, <2>4
  <1>6. \A k \in DOMAIN t : /\ k \in DOMAIN s /\ k + 1 \in DOMAIN s
                            /\ t[k] = IF k < i THEN s[k] ELSE s[k + 1]
    BY <1>2, <1>5
  <1>7. \A k \in DOMAIN t : \E x \in DOMAIN s : s[x] = t[k]
    BY <1>6
  <1>8. ASSUME NEW j \in DOMAIN t, NEW k \in DOMAIN t, j < k
        PROVE  \E x, y \in DOMAIN s : x < y /\ s[x] = t[j] /\ s[y] = t[k]
    <2>1. j \in Nat /\ k \in Nat /\ i \in Nat
      BY <1>2, <1>5
    <2>2. CASE k < i
      BY <1>6, <1>8, <2>1, <2>2
    <2>3. CASE ~(k < i) /\ j < i
      <3>1. j < k + 1
        BY <1>8, <2>1
      <3>2. QED
        BY <1>6, <2>3, <3>1
    <2>4. CASE ~(j < i)
      <3>1. j + 1 < k + 1 /\ ~(k < i)
        BY <1>8, <2>1, <2>4
      <3>2. QED
        BY <1>6, <2>4, <3>1
    <2>5. QED
      BY <2>2, <2>3, <2>4
  <1>9. PartOf(t, s)
    BY <1>5, <1>7, <1>8 DEF PartOf
  <1>10. QED
    BY <1>1, <1>9

LEMMA HistoryByForget ==
  ASSUME ~DictationRaces, DictationTypes, HistoryInv, T!Forget
  PROVE  HistoryInv'
  <1>1. /\ ctl.phase = "idle" /\ ctl.work = <<>> /\ voice_out = <<>>
        /\ UNCHANGED <<ctl, voice_out, dictations, pieces>>
    BY DEF T!Forget, T!Calm, T!Settled
  <1>2. history \in Seq(Entries)
    BY DEF HistoryInv, EntriesInv
  <1>3. PartOf(history', history)
    <2>1. PartOf(<<>>, history)
      BY DEF PartOf
    <2>2. PICK keep \in {<<>>} \cup {T!RemoveAt(history, i) : i \in DOMAIN history} : history' = keep
      BY DEF T!Forget
    <2>3. \A i \in DOMAIN history : PartOf(T!RemoveAt(history, i), history)
      BY <1>2, RemovedIs
    <2>4. QED
      BY <2>1, <2>2, <2>3
  <1>4. \A i \in DOMAIN history' : \E k \in DOMAIN history : history[k] = history'[i]
    BY <1>3 DEF PartOf
  <1>5. EntriesInv'
    <2>1. \A i \in DOMAIN history' : EntryIs(history'[i])
      BY <1>4 DEF HistoryInv, EntriesInv
    <2>2. \A i, j \in DOMAIN history' : i < j => NewerThan(history'[i], history'[j])
      BY <1>3 DEF PartOf, HistoryInv, EntriesInv
    <2>3. QED
      BY <1>1, <1>3, <2>1, <2>2 DEF EntriesInv, PartOf, EntryIs, NewerThan, BeforeWork
  <1>6. UnreadInv' /\ SpokenInv'
    BY <1>1, <1>4 DEF HistoryInv, UnreadInv, SpokenInv
  <1>7. QED
    BY <1>5, <1>6 DEF HistoryInv

\* The line is recorded in an entry that becomes, or stays, the newest
Recorded(f, l) ==
  /\ history' \in Seq(Entries) /\ history' # <<>> /\ history'[1] = f
  /\ f.of = {l.of} /\ \A k \in DOMAIN f.pieces : f.pieces[k] <= l.words /\ BeforeWork(f.pieces[k])
  /\ \A j, k \in DOMAIN f.pieces : j < k => f.pieces[j] < f.pieces[k]
  /\ \E off \in {0, 1} : \A i \in DOMAIN history' :
       i # 1 => i \in Nat /\ 1 < i /\ i - off \in DOMAIN history /\ history'[i] = history[i - off]
                /\ NewerThan(f, history[i - off])

LEMMA FirstReplaced ==
  ASSUME NEW s \in Seq(Entries), s # <<>>, NEW f \in Entries, NEW t, t = [s EXCEPT ![1] = f]
  PROVE  /\ t \in Seq(Entries) /\ t # <<>> /\ t[1] = f /\ DOMAIN t = DOMAIN s
         /\ \A i \in DOMAIN s : i # 1 => t[i] = s[i] /\ i \in Nat /\ 1 < i /\ i - 0 = i
  <1>1. t = [s EXCEPT ![1] = f]
    OBVIOUS
  <1>2. DOMAIN s = 1 .. Len(s) /\ Len(s) \in Nat
    BY LenProperties
  <1>3. 1 \in 1 .. Len(s)
    OBVIOUS
  <1>4. /\ t \in Seq(Entries) /\ Len(t) = Len(s)
        /\ \A j \in 1 .. Len(s) : t[j] = IF j = 1 THEN f ELSE s[j]
    BY <1>1, <1>3, ExceptSeq
  <1>5. DOMAIN t = 1 .. Len(s)
    BY <1>4, LenProperties
  <1>6. t # <<>>
    BY <1>2, <1>3, <1>4
  <1>7. \A i \in 1 .. Len(s) : i # 1 => i \in Nat /\ 1 < i /\ i - 0 = i
    BY <1>2
  <1>8. QED
    BY <1>1, <1>2, <1>3, <1>4, <1>5, <1>6, <1>7

LEMMA Joined ==
  ASSUME DictationTypes, OrderInv, HistoryInv, NEW l \in Lines, voice_out # <<>>, l = voice_out[1], Words(l),
         l.continues, history # <<>>, history' = T!record_dictation(l.words, l.of, l.continues)
  PROVE  \E f \in Entries : Recorded(f, l)
  <1>1. /\ history \in Seq(Entries) /\ 1 \in DOMAIN history /\ DOMAIN history = 1 .. Len(history)
        /\ \A i \in DOMAIN history : history[i] \in Entries
    BY DEF HistoryInv, EntriesInv
  <1>2. 1 \in DOMAIN voice_out /\ ~\E j \in DOMAIN voice_out : j < 1
    BY DEF DictationTypes
  <1>3. history[1].of = {l.of}
    BY <1>2 DEF HistoryInv, UnreadInv, Continues, NewestIs
  <1>4. l.words \in Nat /\ BeforeWork(l.words)
    BY <1>2 DEF OrderInv, LinesInv, Says, Words, Lines
  <1>5. PICK e \in Entries : e = history[1]
    BY <1>1
  <1>6. PICK q \in Seq(Nat) : q = Append(e.pieces, l.words)
    <2>1. e.pieces \in Seq(Nat)
      BY DEF Entries
    <2>2. Append(e.pieces, l.words) \in Seq(Nat)
      BY <1>4, <2>1, AppendProperties
    <2>3. QED
      BY <2>2
  <1>7. PICK f \in Entries : f = [of |-> e.of, pieces |-> q]
    BY DEF Entries
  <1>8. history' = [history EXCEPT ![1] = f]
    <2>1. history' = [history EXCEPT ![1] = [of |-> history[1].of \cup {l.of}, pieces |-> Append(history[1].pieces, l.words)]]
      BY DEF T!record_dictation
    <2>2. [of |-> history[1].of \cup {l.of}, pieces |-> Append(history[1].pieces, l.words)] = f
      BY <1>3, <1>5, <1>6, <1>7
    <2>3. QED
      BY <2>1, <2>2
  <1>9. /\ history' \in Seq(Entries) /\ history' # <<>> /\ history'[1] = f /\ DOMAIN history' = DOMAIN history
        /\ \A i \in DOMAIN history : i # 1 => history'[i] = history[i] /\ i \in Nat /\ 1 < i /\ i - 0 = i
    <2>1. history \in Seq(Entries) /\ history # <<>>
      BY <1>1
    <2>2. PICK t : t = [history EXCEPT ![1] = f]
      OBVIOUS
    <2>3. /\ t \in Seq(Entries) /\ t # <<>> /\ t[1] = f /\ DOMAIN t = DOMAIN history
          /\ \A i \in DOMAIN history : i # 1 => t[i] = history[i] /\ i \in Nat /\ 1 < i /\ i - 0 = i
      BY <2>1, <2>2, FirstReplaced
    <2>4. history' = t
      BY <1>8, <2>2
    <2>5. QED
      BY <2>3, <2>4
  <1>10. f.of = {l.of} /\ f.of = e.of /\ f.pieces = q
    BY <1>3, <1>5, <1>7
  <1>11. /\ \A k \in DOMAIN e.pieces : e.pieces[k] \in Nat /\ e.pieces[k] < l.words /\ BeforeWork(e.pieces[k])
         /\ \A j, k \in DOMAIN e.pieces : j < k => e.pieces[j] < e.pieces[k]
    <2>1. \A k \in DOMAIN e.pieces : e.pieces[k] \in Nat
      BY DEF Entries
    <2>2. EntryIs(e) /\ EntryBefore(e, l)
      BY <1>1, <1>2, <1>5 DEF HistoryInv, EntriesInv, UnreadInv
    <2>3. QED
      BY <2>1, <2>2 DEF EntryIs, EntryBefore
  <1>12. /\ \A k \in DOMAIN q : k \in Nat /\ (k \in DOMAIN e.pieces \/ k = Len(e.pieces) + 1) /\ k <= Len(e.pieces) + 1
         /\ \A k \in DOMAIN e.pieces : q[k] = e.pieces[k]
         /\ q[Len(e.pieces) + 1] = l.words
         /\ \A j, k \in DOMAIN q : j < k => j \in DOMAIN e.pieces
    <2>1. e.pieces \in Seq(Nat)
      BY DEF Entries
    <2>2. QED
      BY <1>4, <1>6, <2>1
  <1>13. /\ \A k \in DOMAIN q : q[k] <= l.words /\ BeforeWork(q[k])
         /\ \A j, k \in DOMAIN q : j < k => q[j] < q[k]
    <2>1. PICK n, top : n \in Nat /\ n = l.words /\ top = Len(e.pieces) + 1
      BY <1>4
    <2>2. ASSUME NEW k \in DOMAIN q
          PROVE  q[k] <= l.words /\ BeforeWork(q[k])
      <3>1. CASE k \in DOMAIN e.pieces
        BY <1>11, <1>12, <2>1, <3>1
      <3>2. CASE k = top
        BY <1>4, <1>12, <2>1, <3>2
      <3>3. QED
        BY <1>12, <2>1, <3>1, <3>2
    <2>3. ASSUME NEW j \in DOMAIN q, NEW k \in DOMAIN q, j < k
          PROVE  q[j] < q[k]
      <3>1. j \in DOMAIN e.pieces /\ q[j] = e.pieces[j]
        BY <1>12, <2>3
      <3>2. CASE k \in DOMAIN e.pieces
        BY <1>11, <1>12, <2>3, <3>1, <3>2
      <3>3. CASE k = top
        BY <1>11, <1>12, <2>1, <3>1, <3>3
      <3>4. QED
        BY <1>12, <2>1, <3>2, <3>3
    <2>4. QED
      BY <2>2, <2>3
  <1>14. \A i \in DOMAIN history : i # 1 => NewerThan(f, history[i])
    <2>1. \A i \in DOMAIN history : i # 1 => NewerThan(e, history[i])
      BY <1>1, <1>5, <1>9 DEF HistoryInv, EntriesInv
    <2>2. QED
      BY <1>10, <2>1 DEF NewerThan
  <1>15. \A i \in DOMAIN history' :
           i # 1 => i \in Nat /\ 1 < i /\ i - 0 \in DOMAIN history /\ history'[i] = history[i - 0] /\ NewerThan(f, history[i - 0])
    BY <1>9, <1>14
  <1>16. \E off \in {0, 1} : \A i \in DOMAIN history' :
           i # 1 => i \in Nat /\ 1 < i /\ i - off \in DOMAIN history /\ history'[i] = history[i - off]
                    /\ NewerThan(f, history[i - off])
    BY <1>15
  <1>17. /\ \A k \in DOMAIN f.pieces : f.pieces[k] <= l.words /\ BeforeWork(f.pieces[k])
         /\ \A j, k \in DOMAIN f.pieces : j < k => f.pieces[j] < f.pieces[k]
    BY <1>10, <1>13
  <1>18. Recorded(f, l)
    <2>1. f.of = {l.of} /\ history' \in Seq(Entries) /\ history' # <<>> /\ history'[1] = f
      BY <1>9, <1>10
    <2>2. QED
      BY <1>16, <1>17, <2>1 DEF Recorded
  <1>19. QED
    BY <1>18

LEMMA Begun ==
  ASSUME HISTORY_LIMIT \in Nat \ {0}, DictationTypes, OrderInv, HistoryInv, NEW l \in Lines, voice_out # <<>>,
         l = voice_out[1], Words(l), ~(l.continues /\ history # <<>>), history' = T!record_dictation(l.words, l.of, l.continues)
  PROVE  \E f \in Entries : Recorded(f, l)
  <1>1. /\ history \in Seq(Entries) /\ DOMAIN history = 1 .. Len(history) /\ Len(history) \in Nat
        /\ \A i \in DOMAIN history : history[i] \in Entries
    BY DEF HistoryInv, EntriesInv
  <1>2. 1 \in DOMAIN voice_out
    BY DEF DictationTypes
  <1>3. l.words \in Nat /\ l.of \in Nat /\ BeforeWork(l.words)
    BY <1>2 DEF OrderInv, LinesInv, Says, Words, Lines
  <1>4. PICK f \in Entries : f = [of |-> {l.of}, pieces |-> <<l.words>>]
    <2>1. <<l.words>> \in Seq(Nat) /\ {l.of} \in SUBSET Nat
      BY <1>3
    <2>2. QED
      BY <2>1 DEF Entries
  <1>5. PICK all : all = <<f>> \o history
    OBVIOUS
  <1>6. /\ all \in Seq(Entries) /\ Len(all) = Len(history) + 1 /\ all[1] = f
        /\ \A i \in 1 .. Len(all) : i # 1 => i \in Nat /\ 1 < i /\ i - 1 \in DOMAIN history /\ all[i] = history[i - 1]
    BY <1>1, <1>5
  <1>7. PICK m \in 1 .. Len(all) : m = T!Min({HISTORY_LIMIT, Len(all)})
    <2>1. T!Min({HISTORY_LIMIT, Len(all)}) = IF HISTORY_LIMIT <= Len(all) THEN HISTORY_LIMIT ELSE Len(all)
      BY <1>1, <1>6 DEF T!Min
    <2>2. QED
      BY <1>1, <1>6, <2>1
  <1>8. history' = SubSeq(all, 1, m)
    BY <1>4, <1>5, <1>7 DEF T!record_dictation
  <1>9. /\ m \in Nat /\ 1 <= m /\ m <= Len(all) /\ Len(all) \in Nat
        /\ \A i \in 1 .. m : i \in 1 .. Len(all) /\ i \in 1 .. m - 1 + 1 /\ 1 + i - 1 = i /\ all[i] \in Entries
    <2>1. m \in Nat /\ 1 <= m /\ m <= Len(all) /\ Len(all) \in Nat
      BY <1>1, <1>6, <1>7
    <2>2. \A i \in 1 .. m : i \in 1 .. Len(all) /\ i \in 1 .. m - 1 + 1 /\ 1 + i - 1 = i
      BY <2>1
    <2>3. \A i \in 1 .. Len(all) : all[i] \in Entries
      BY <1>6
    <2>4. QED
      BY <2>1, <2>2, <2>3
  <1>10. /\ history' \in Seq(Entries) /\ history' # <<>> /\ history'[1] = f
         /\ \A i \in DOMAIN history' : i # 1 => i \in Nat /\ 1 < i /\ i - 1 \in DOMAIN history /\ history'[i] = history[i - 1]
    <2>1. m \in Int /\ 1 \in Int /\ \A i \in 1 .. m : all[i] \in Entries
      BY <1>9
    <2>2. /\ history' \in Seq(Entries) /\ Len(history') = (IF 1 <= m THEN m - 1 + 1 ELSE 0)
          /\ \A i \in 1 .. m - 1 + 1 : history'[i] = all[1 + i - 1]
      BY <1>8, <2>1, SubSeqProperties
    <2>3. Len(history') = m
      <3>1. (IF 1 <= m THEN m - 1 + 1 ELSE 0) = m
        BY <1>9
      <3>2. QED
        BY <2>2, <3>1
    <2>4. DOMAIN history' = 1 .. m
      BY <2>2, <2>3
    <2>5. \A i \in 1 .. m : history'[i] = all[i]
      BY <1>9, <2>2
    <2>6. 1 \in 1 .. m
      BY <1>9
    <2>7. history' # <<>>
      BY <2>4, <2>6
    <2>8. QED
      BY <1>6, <1>9, <2>2, <2>4, <2>5, <2>6, <2>7
  <1>11. /\ f.of = {l.of} /\ \A k \in DOMAIN f.pieces : f.pieces[k] <= l.words /\ BeforeWork(f.pieces[k])
         /\ \A j, k \in DOMAIN f.pieces : j < k => f.pieces[j] < f.pieces[k]
    BY <1>3, <1>4
  <1>12. \A i \in DOMAIN history : NewerThan(f, history[i])
    <2> SUFFICES ASSUME NEW i \in DOMAIN history, NEW c \in Nat, NEW d \in Nat, f.of = {c}, history[i].of = {d}
                 PROVE  d < c
      BY DEF NewerThan
    <2>1. history # <<>>
      OBVIOUS
    <2>2. EntryBefore(history[i], l)
      BY <1>2 DEF HistoryInv, UnreadInv
    <2>3. d < l.of
      BY <2>1, <2>2 DEF EntryBefore
    <2>4. c = l.of
      BY <1>11
    <2>5. QED
      BY <2>3, <2>4
  <1>13. \A i \in DOMAIN history' :
           i # 1 => i \in Nat /\ 1 < i /\ i - 1 \in DOMAIN history /\ history'[i] = history[i - 1] /\ NewerThan(f, history[i - 1])
    BY <1>10, <1>12
  <1>14. QED
    BY <1>10, <1>11, <1>13 DEF Recorded

LEMMA RecordedKeeps ==
  ASSUME DictationTypes, HistoryInv, voice_out # <<>>, voice_out' = Tail(voice_out), NEW l \in Lines, l = voice_out[1],
         Words(l), NEW f \in Entries, Recorded(f, l), UNCHANGED <<ctl, dictations, pieces>>
  PROVE  HistoryInv'
  <1>1. /\ voice_out \in Seq(Lines) /\ 1 \in DOMAIN voice_out
        /\ \A j \in DOMAIN voice_out' : j \in Nat /\ j + 1 \in DOMAIN voice_out /\ 1 < j + 1 /\ voice_out'[j] = voice_out[j + 1]
        /\ \A j \in DOMAIN voice_out : j \in Nat /\ (j = 1 \/ (j - 1 \in DOMAIN voice_out' /\ voice_out'[j - 1] = voice_out[j]))
    <2>1. voice_out \in Seq(Lines)
      BY DEF DictationTypes
    <2>2. QED
      BY <2>1
  <1>2. l.of \in 1 .. dictations /\ l.of \in Nat /\ f.of = {l.of}
    <2>1. l.of \in 1 .. dictations
      BY <1>1 DEF HistoryInv, UnreadInv
    <2>2. QED
      BY <2>1 DEF Recorded
  <1>3. PICK off \in {0, 1} : \A i \in DOMAIN history' :
           i # 1 => i \in Nat /\ 1 < i /\ i - off \in DOMAIN history /\ history'[i] = history[i - off]
                    /\ NewerThan(f, history[i - off])
    BY DEF Recorded
  <1>4. history' \in Seq(Entries) /\ history' # <<>> /\ history'[1] = f /\ 1 \in DOMAIN history' /\ DOMAIN history' \subseteq Nat
    BY DEF Recorded
  <1>5. \A i \in DOMAIN history' : history'[i] = f \/ \E k \in DOMAIN history : history'[i] = history[k] /\ NewerThan(f, history[k])
    BY <1>3, <1>4
  <1>6. EntryIs(f)
    BY <1>2 DEF Recorded, EntryIs
  <1>7. EntriesInv'
    <2>1. \A i \in DOMAIN history' : EntryIs(history'[i])
      BY <1>5, <1>6 DEF HistoryInv, EntriesInv
    <2>2. ASSUME NEW i \in DOMAIN history', NEW j \in DOMAIN history', i < j
          PROVE  NewerThan(history'[i], history'[j])
      <3>1. j # 1
        BY <1>3, <1>4, <2>2
      <3>2. CASE i = 1
        BY <1>3, <1>4, <3>1, <3>2
      <3>3. CASE i # 1
        <4>1. /\ i - off \in DOMAIN history /\ j - off \in DOMAIN history
              /\ history'[i] = history[i - off] /\ history'[j] = history[j - off]
          BY <1>3, <3>1, <3>3
        <4>2. i - off < j - off
          BY <1>4, <2>2
        <4>3. QED
          BY <4>1, <4>2 DEF HistoryInv, EntriesInv
      <3>4. QED
        BY <3>2, <3>3
    <2>3. QED
      BY <1>4, <2>1, <2>2 DEF EntriesInv, EntryIs, NewerThan, BeforeWork
  <1>8. \A j \in DOMAIN voice_out' : Words(voice_out'[j]) =>
          /\ WordsBefore(l, voice_out'[j]) /\ voice_out'[j].of \in 1 .. dictations
          /\ voice_out'[j].of \in Nat /\ voice_out'[j].words \in Nat
    <2> SUFFICES ASSUME NEW j \in DOMAIN voice_out', Words(voice_out'[j])
                 PROVE  /\ WordsBefore(l, voice_out'[j]) /\ voice_out'[j].of \in 1 .. dictations
                        /\ voice_out'[j].of \in Nat /\ voice_out'[j].words \in Nat
      OBVIOUS
    <2>1. j + 1 \in DOMAIN voice_out /\ voice_out'[j] = voice_out[j + 1] /\ 1 < j + 1
      BY <1>1
    <2>2. WordsBefore(l, voice_out'[j]) /\ voice_out'[j].of \in 1 .. dictations
      BY <1>1, <2>1 DEF HistoryInv, UnreadInv
    <2>3. QED
      BY <2>1, <2>2, NumbersAre
  <1>9. /\ NewestIs(l.of)'
        /\ \A d \in Nat : NewestIs(d) /\ l.of <= d => d = l.of
    <2>1. NewestIs(l.of)'
      BY <1>2, <1>4 DEF NewestIs
    <2>2. ASSUME NEW d \in Nat, NewestIs(d), l.of <= d
          PROVE  d = l.of
      <3>1. 1 \in DOMAIN history /\ history[1].of = {d}
        BY <2>2 DEF NewestIs, HistoryInv, EntriesInv
      <3>2. EntryBefore(history[1], l)
        BY <1>1, <3>1 DEF HistoryInv, UnreadInv
      <3>3. d <= l.of
        BY <3>1, <3>2 DEF EntryBefore
      <3>4. QED
        BY <1>2, <2>2, <3>3
    <2>3. QED
      BY <2>1, <2>2
  <1>10. UnreadInv'
    <2>1. ASSUME NEW i \in DOMAIN history', NEW j \in DOMAIN voice_out', Words(voice_out'[j])
          PROVE  EntryBefore(history'[i], voice_out'[j])
      <3>1. CASE history'[i] = f
        <4>1. WordsBefore(l, voice_out'[j]) /\ voice_out'[j].of \in Nat /\ voice_out'[j].words \in Nat
          BY <1>8, <2>1
        <4>2. \A k \in DOMAIN f.pieces : f.pieces[k] \in Nat /\ f.pieces[k] <= l.words
          <5>1. f.pieces \in Seq(Nat)
            BY DEF Entries
          <5>2. QED
            BY <5>1 DEF Recorded
        <4>3. l.words \in Nat
          BY DEF Lines
        <4>4. \A k \in DOMAIN f.pieces : f.pieces[k] < voice_out'[j].words
          BY <4>1, <4>2, <4>3 DEF WordsBefore
        <4>5. \A d \in Nat : f.of = {d} => d = l.of
          BY <1>2
        <4>6. QED
          BY <1>2, <3>1, <4>1, <4>4, <4>5 DEF WordsBefore, EntryBefore
      <3>2. CASE \E k \in DOMAIN history : history'[i] = history[k]
        BY <1>1, <2>1, <3>2 DEF HistoryInv, UnreadInv
      <3>3. QED
        BY <1>5, <3>1, <3>2
    <2>2. ASSUME NEW j \in DOMAIN voice_out', Words(voice_out'[j]), voice_out'[j].continues
          PROVE  \/ voice_out'[j].of = l.of
                 \/ \E k \in DOMAIN voice_out' : k < j /\ Words(voice_out'[k]) /\ voice_out'[k].of = voice_out'[j].of
      <3>1. j + 1 \in DOMAIN voice_out /\ voice_out'[j] = voice_out[j + 1] /\ j \in Nat
        BY <1>1
      <3>2. Continues(j + 1)
        BY <2>2, <3>1 DEF HistoryInv, UnreadInv
      <3>3. l.of <= voice_out'[j].of /\ voice_out'[j].of \in Nat
        BY <1>8, <2>2 DEF WordsBefore
      <3>4. CASE NewestIs(voice_out[j + 1].of)
        BY <1>9, <3>1, <3>3, <3>4
      <3>5. ASSUME NEW k \in DOMAIN voice_out, k < j + 1, Words(voice_out[k]), voice_out[k].of = voice_out[j + 1].of
            PROVE  \/ voice_out'[j].of = l.of
                   \/ \E n \in DOMAIN voice_out' : n < j /\ Words(voice_out'[n]) /\ voice_out'[n].of = voice_out'[j].of
        <4>1. CASE k = 1
          BY <3>1, <3>5, <4>1
        <4>2. CASE k # 1
          <5>1. k - 1 \in DOMAIN voice_out' /\ voice_out'[k - 1] = voice_out[k] /\ k - 1 < j
            BY <1>1, <3>1, <3>5, <4>2
          <5>2. QED
            BY <3>1, <3>5, <5>1
        <4>3. QED
          BY <4>1, <4>2
      <3>6. QED
        BY <3>2, <3>4, <3>5 DEF Continues
    <2>3. \A i, j \in DOMAIN voice_out' :
            i < j /\ Words(voice_out'[i]) /\ Words(voice_out'[j]) => WordsBefore(voice_out'[i], voice_out'[j])
      <3>1. \A i, j \in DOMAIN voice_out' : i < j => i + 1 < j + 1
        BY <1>1
      <3>2. QED
        BY <1>1, <3>1 DEF HistoryInv, UnreadInv
    <2>4. \A j \in DOMAIN voice_out' : Words(voice_out'[j]) /\ voice_out'[j].continues =>
            \/ history' # <<>> /\ history'[1].of = {voice_out'[j].of}
            \/ \E k \in DOMAIN voice_out' : k < j /\ Words(voice_out'[k]) /\ voice_out'[k].of = voice_out'[j].of
      BY <1>2, <1>4, <2>2
    <2>5. \A j \in DOMAIN voice_out' : Words(voice_out'[j]) => voice_out'[j].of \in 1 .. dictations
      BY <1>8
    <2>6. dictations' = dictations
      OBVIOUS
    <2>7. QED
      BY <2>1, <2>3, <2>4, <2>5, <2>6 DEF UnreadInv, EntryBefore, WordsBefore, Words, Continues, NewestIs
  <1>11. SpokenInv'
    <2> SUFFICES ASSUME ctl.dictation # 0
                 PROVE  /\ \A i \in DOMAIN history', c \in Nat : history'[i].of = {c} =>
                             c <= ctl.dictation /\ (~ctl.spoke => c < ctl.dictation)
                        /\ \A j \in DOMAIN voice_out' : Words(voice_out'[j]) =>
                             voice_out'[j].of <= ctl.dictation /\ (~ctl.spoke => voice_out'[j].of < ctl.dictation)
                        /\ ctl.spoke /\ (ctl.phase # "idle" \/ ctl.work # <<>>) =>
                             \/ history' # <<>> /\ history'[1].of = {ctl.dictation}
                             \/ \E j \in DOMAIN voice_out' : Words(voice_out'[j]) /\ voice_out'[j].of = ctl.dictation
      BY DEF SpokenInv, Words, NewestIs
    <2>1. l.of <= ctl.dictation /\ (~ctl.spoke => l.of < ctl.dictation)
      BY <1>1 DEF HistoryInv, SpokenInv
    <2>2. \A i \in DOMAIN history', c \in Nat : history'[i].of = {c} =>
             c <= ctl.dictation /\ (~ctl.spoke => c < ctl.dictation)
      <3>1. \A c \in Nat : f.of = {c} => c = l.of
        BY <1>2
      <3>2. QED
        BY <1>5, <2>1, <3>1 DEF HistoryInv, SpokenInv
    <2>3. \A j \in DOMAIN voice_out' : Words(voice_out'[j]) =>
             voice_out'[j].of <= ctl.dictation /\ (~ctl.spoke => voice_out'[j].of < ctl.dictation)
      BY <1>1 DEF HistoryInv, SpokenInv
    <2>4. ASSUME ctl.spoke, ctl.phase # "idle" \/ ctl.work # <<>>
          PROVE  \/ l.of = ctl.dictation
                 \/ \E j \in DOMAIN voice_out' : Words(voice_out'[j]) /\ voice_out'[j].of = ctl.dictation
      <3>1. ctl.dictation \in Nat
        BY DEF DictationTypes, Controllers
      <3>2. CASE NewestIs(ctl.dictation)
        BY <1>9, <2>1, <3>1, <3>2
      <3>3. CASE \E j \in DOMAIN voice_out : Words(voice_out[j]) /\ voice_out[j].of = ctl.dictation
        BY <1>1, <3>3
      <3>4. QED
        BY <2>4, <3>2, <3>3 DEF HistoryInv, SpokenInv
    <2>5. QED
      BY <1>2, <1>4, <2>2, <2>3, <2>4
  <1>12. QED
    BY <1>7, <1>10, <1>11 DEF HistoryInv

LEMMA OtherRead ==
  ASSUME DictationTypes, HistoryInv, voice_out # <<>>, voice_out' = Tail(voice_out), ~Words(voice_out[1]),
         UNCHANGED <<ctl, history, dictations, pieces>>
  PROVE  HistoryInv'
  <1>1. /\ 1 \in DOMAIN voice_out
        /\ \A j \in DOMAIN voice_out' : j \in Nat /\ j + 1 \in DOMAIN voice_out /\ 1 < j + 1 /\ voice_out'[j] = voice_out[j + 1]
        /\ \A j \in DOMAIN voice_out : j \in Nat /\ (j = 1 \/ (j - 1 \in DOMAIN voice_out' /\ voice_out'[j - 1] = voice_out[j]))
    <2>1. voice_out \in Seq(Lines)
      BY DEF DictationTypes
    <2>2. QED
      BY <2>1
  <1>2. EntriesInv'
    <2>1. EntriesInv
      BY DEF HistoryInv
    <2>2. \A n : BeforeWork(n)' <=> BeforeWork(n)
      BY DEF BeforeWork
    <2>3. ASSUME NEW i \in DOMAIN history PROVE EntryIs(history[i])'
      BY <2>1, <2>2 DEF EntriesInv, EntryIs
    <2>4. ASSUME NEW i \in DOMAIN history, NEW j \in DOMAIN history, i < j PROVE NewerThan(history[i], history[j])'
      BY <2>1, <2>4 DEF EntriesInv, NewerThan
    <2>5. QED
      BY <2>1, <2>3, <2>4 DEF EntriesInv
  <1>3. UnreadInv'
    <2>1. \A i \in DOMAIN history, j \in DOMAIN voice_out' : Words(voice_out'[j]) => EntryBefore(history[i], voice_out'[j])
      BY <1>1 DEF HistoryInv, UnreadInv
    <2>2. \A j \in DOMAIN voice_out' : Words(voice_out'[j]) => voice_out'[j].of \in 1 .. dictations
      BY <1>1 DEF HistoryInv, UnreadInv
    <2>3. ASSUME NEW j \in DOMAIN voice_out', Words(voice_out'[j]), voice_out'[j].continues
          PROVE  \/ NewestIs(voice_out'[j].of)
                 \/ \E k \in DOMAIN voice_out' : k < j /\ Words(voice_out'[k]) /\ voice_out'[k].of = voice_out'[j].of
      <3>1. j + 1 \in DOMAIN voice_out /\ voice_out'[j] = voice_out[j + 1] /\ j \in Nat
        BY <1>1
      <3>2. Continues(j + 1)
        BY <2>3, <3>1 DEF HistoryInv, UnreadInv
      <3>3. ASSUME NEW k \in DOMAIN voice_out, k < j + 1, Words(voice_out[k]), voice_out[k].of = voice_out[j + 1].of
            PROVE  \E n \in DOMAIN voice_out' : n < j /\ Words(voice_out'[n]) /\ voice_out'[n].of = voice_out'[j].of
        <4>1. k - 1 \in DOMAIN voice_out' /\ voice_out'[k - 1] = voice_out[k] /\ k - 1 < j
          BY <1>1, <3>1, <3>3
        <4>2. QED
          BY <3>1, <3>3, <4>1
      <3>4. QED
        BY <3>1, <3>2, <3>3 DEF Continues
    <2>4. \A i, j \in DOMAIN voice_out' :
            i < j /\ Words(voice_out'[i]) /\ Words(voice_out'[j]) => WordsBefore(voice_out'[i], voice_out'[j])
      <3>1. \A i, j \in DOMAIN voice_out' : i < j => i + 1 < j + 1
        BY <1>1
      <3>2. QED
        BY <1>1, <3>1 DEF HistoryInv, UnreadInv
    <2>5. UNCHANGED <<history, dictations>>
      OBVIOUS
    <2>6. QED
      BY <2>1, <2>2, <2>3, <2>4, <2>5 DEF UnreadInv, EntryBefore, WordsBefore, Words, Continues, NewestIs
  <1>4. SpokenInv'
    <2> SUFFICES ASSUME ctl.dictation # 0
                 PROVE  /\ \A i \in DOMAIN history, c \in Nat : history[i].of = {c} =>
                             c <= ctl.dictation /\ (~ctl.spoke => c < ctl.dictation)
                        /\ \A j \in DOMAIN voice_out' : Words(voice_out'[j]) =>
                             voice_out'[j].of <= ctl.dictation /\ (~ctl.spoke => voice_out'[j].of < ctl.dictation)
                        /\ ctl.spoke /\ (ctl.phase # "idle" \/ ctl.work # <<>>) =>
                             \/ NewestIs(ctl.dictation)
                             \/ \E j \in DOMAIN voice_out' : Words(voice_out'[j]) /\ voice_out'[j].of = ctl.dictation
      BY DEF SpokenInv, Words, NewestIs
    <2>1. \A j \in DOMAIN voice_out' : Words(voice_out'[j]) =>
             voice_out'[j].of <= ctl.dictation /\ (~ctl.spoke => voice_out'[j].of < ctl.dictation)
      BY <1>1 DEF HistoryInv, SpokenInv
    <2>2. ASSUME NEW j \in DOMAIN voice_out, Words(voice_out[j]), voice_out[j].of = ctl.dictation
          PROVE  \E k \in DOMAIN voice_out' : Words(voice_out'[k]) /\ voice_out'[k].of = ctl.dictation
      BY <1>1, <2>2
    <2>3. QED
      BY <2>1, <2>2 DEF HistoryInv, SpokenInv
  <1>5. QED
    BY <1>2, <1>3, <1>4 DEF HistoryInv

LEMMA CardinalityOfOne ==
  \A x : T!Cardinality({x}) = 1
  <1>1. \A x : Cardinality({x}) = 1
    BY FS_Singleton
  <1>2. QED
    BY <1>1 DEF T!Cardinality, Cardinality

LEMMA HistoryByRead ==
  ASSUME HISTORY_LIMIT \in Nat \ {0}, ~DictationRaces, DictationTypes, OrderInv, HistoryInv, T!ReadLine
  PROVE  HistoryInv'
  <1>1. /\ voice_out # <<>> /\ voice_out' = Tail(voice_out) /\ T!OnLine(Head(voice_out))
        /\ UNCHANGED <<ctl, dictations, pieces>>
    BY DEF T!ReadLine
  <1>2. PICK l \in Lines : l = voice_out[1] /\ l = Head(voice_out)
    BY <1>1 DEF DictationTypes
  <1>3. CASE Words(l)
    <2>1. history' = T!record_dictation(l.words, l.of, l.continues)
      BY <1>1, <1>2, <1>3 DEF T!OnLine, Words
    <2>2. \E f \in Entries : Recorded(f, l)
      BY <1>1, <1>2, <1>3, <2>1, Joined, Begun
    <2>3. QED
      BY <1>1, <1>2, <1>3, <2>2, RecordedKeeps
  <1>4. CASE ~Words(l)
    <2>1. history' = history
      BY <1>1, <1>2, <1>4 DEF T!OnLine, Words
    <2>2. QED
      BY <1>1, <1>2, <1>4, <2>1, OtherRead
  <1>5. QED
    BY <1>3, <1>4

LEMMA HistoryKept ==
  ASSUME HISTORY_LIMIT \in Nat \ {0}, ~DictationRaces, DictationTypes, OrderInv, KeysInv, PhaseInv, HistoryInv,
         [T!DictationNext]_(T!dvars)
  PROVE  HistoryInv'
  <1>1. DictationTypes'
    BY DictationKept
  <1>2. ~T!ReadLate
    BY DEF T!ReadLate, PhaseInv
  <1>3. CASE ControllerMoves
    BY <1>1, <1>3, HistoryByMoves
  <1>4. CASE HeardStep
    BY <1>1, <1>4, HistoryByHeard
  <1>5. CASE T!ReadLine
    BY <1>5, HistoryByRead
  <1>6. CASE T!Forget
    BY <1>6, HistoryByForget
  <1>7. CASE RestActions /\ ~T!Forget
    BY <1>1, <1>7, HistoryByRest
  <1>8. QED
    BY <1>2, <1>3, <1>4, <1>5, <1>6, <1>7, HelperIs DEF T!DictationNext, RestActions

\* "Pieces of one dictation are one entry" of the history, in the order in which
\* they were said, and no dictation has two entries: over pauses, cancels, pieces
\* in which nothing is heard, crashes and restarts with lines that are not read
\* yet, and a history of any positive length, while the user forgets entries,
\* switches the feature and begins to dictate when the last dictation is done.
THEOREM OneEntryEach ==
  ASSUME HISTORY_LIMIT \in Nat \ {0}, ~DictationRaces
  PROVE  T!DictationSpec => []T!PiecesTogether
  <1> DEFINE Inv == DictationTypes /\ OrderInv /\ KeysInv /\ PhaseInv /\ HistoryInv
  <1>1. T!DictationInit => Inv
    <2>1. T!DictationInit => PhaseInv
      BY DEF T!DictationInit, PhaseInv
    <2>2. T!DictationInit => HistoryInv
      BY BootedIs DEF T!DictationInit, HistoryInv, EntriesInv, UnreadInv, SpokenInv
    <2>3. QED
      BY <2>1, <2>2, DictationInitially
  <1>2. Inv /\ [T!DictationNext]_(T!dvars) => Inv'
    BY DictationKept, PhaseKept, HistoryKept
  <1>3. Inv => T!PiecesTogether
    <2> SUFFICES ASSUME DictationTypes, EntriesInv
                 PROVE  T!PiecesTogether
      BY DEF HistoryInv
    <2>1. \A i \in DOMAIN history : \E d \in Nat : history[i].of = {d}
      <3>1. \A d \in 1 .. dictations : d \in Nat
        BY DEF DictationTypes
      <3>2. QED
        BY <3>1 DEF EntriesInv, EntryIs
    <2>2. \A i \in DOMAIN history : T!Cardinality(history[i].of) = 1
      BY <2>1, CardinalityOfOne
    <2>3. \A i \in DOMAIN history : i \in Nat
      BY DEF EntriesInv
    <2>4. ASSUME NEW i \in DOMAIN history, NEW j \in DOMAIN history, i < j
          PROVE  history[i].of # history[j].of
      <3>1. PICK d \in Nat : history[i].of = {d}
        BY <2>1
      <3>2. NewerThan(history[i], history[j])
        BY <2>4 DEF EntriesInv
      <3>3. QED
        BY <3>1, <3>2 DEF NewerThan
    <2>5. \A i, j \in DOMAIN history : i # j => history[i].of # history[j].of
      <3>1. \A i, j \in DOMAIN history : i # j => i < j \/ j < i
        BY <2>3
      <3>2. QED
        BY <2>4, <3>1
    <2>6. QED
      BY <2>2, <2>5 DEF EntriesInv, EntryIs, T!PiecesTogether
  <1> HIDE DEF Inv
  <1>4. QED
    BY <1>1, <1>2, <1>3, PTL DEF T!DictationSpec

-----------------------------------------------------------------------------
(* Meeting recording                                                         *)

CONSTANTS MaxMeetings, RecordingDowns, MaxCalls, RecordingRaces
VARIABLES enabled, recorder, phase, folder, rec_begun, meeting, saves, mic, watched, timers,
          process, rec_in, rec_out, tape, jobs, talk, heard, rec_downs, talks

M == INSTANCE Voice WITH MaxDowns <- RecordingDowns, Racing <- RecordingRaces, helper <- recorder, begun <- rec_begun,
                         stdin <- rec_in, stdout <- rec_out, call <- talk, downs <- rec_downs, calls <- talks

MeetingBounds == MaxMeetings \in Nat /\ MaxCalls \in Nat

Orders == {m \in [type : {"record", "stop", "transcribe"}, folder : 0 .. MaxMeetings] : m.type = "stop" \/ m.folder # 0}
Reports == {m \in [type : {"ready", "mic", "stopped", "transcript", "error"}, folder : Nat] :
              m.type \in {"ready", "mic"} \/ m.folder \in M!Folders}

MeetingTypes ==
  /\ recorder \in {"Starting", "Running", "Crashed"}
  /\ phase \in {"Idle", "Recording", "Paused", "Saving"} /\ folder \in 0 .. MaxMeetings /\ (folder = 0 <=> phase = "Idle")
  /\ rec_begun \in 0 .. MaxMeetings
  /\ meeting \in [M!Folders -> M!Unfinished \cup {"none", "done", "failed", "trashed"}]
  /\ saves \subseteq M!Folders
  /\ rec_in \in Seq(Orders) /\ rec_out \in Seq(Reports)
  /\ tape \in 0 .. MaxMeetings /\ jobs \in Seq(M!Folders)

LEMMA LineTypes ==
  ASSUME MeetingBounds
  PROVE  /\ \A f \in M!Folders : f \in 0 .. MaxMeetings /\ f # 0
         /\ \A f \in M!Folders : M!Msg("record", f) \in Orders /\ M!Msg("transcribe", f) \in Orders
         /\ M!Msg("stop", 0) \in Orders
         /\ \A t \in {"stopped", "transcript", "error"}, f \in M!Folders : M!Msg(t, f) \in Reports
         /\ M!Msg("ready", 0) \in Reports
         /\ \A n \in {0, 1} : M!Msg("mic", n) \in Reports
  BY DEF MeetingBounds, Orders, Reports, M!Msg, M!Folders

LEMMA MsgIs ==
  ASSUME NEW t, NEW f
  PROVE  M!Msg(t, f).type = t /\ M!Msg(t, f).folder = f
  BY DEF M!Msg

\* The instance's own copies of the libraries' operators
LEMMA LeftListed ==
  ASSUME NEW S, IsFiniteSet(S)
  PROVE  M!Cardinality(S) \in Nat /\ M!SetToSeq(S) \in [1 .. M!Cardinality(S) -> S]
  <1>1. M!Cardinality(S) = Cardinality(S)
    BY DEF M!Cardinality, Cardinality, M!IsFiniteSet, IsFiniteSet
  <1>2. PICK f \in [1 .. Cardinality(S) -> S] : \A a, b \in 1 .. Cardinality(S) : f[a] = f[b] => a = b
    BY FS_CardinalityType DEF ExistsBijection, Bijection, Injection, IsInjective
  <1>3. M!IsInjective(f)
    BY <1>2 DEF M!IsInjective
  <1>4. M!SetToSeq(S) \in [1 .. M!Cardinality(S) -> S]
    BY <1>1, <1>2, <1>3 DEF M!SetToSeq
  <1>5. QED
    BY <1>1, <1>4, FS_CardinalityType

LEMMA FreshIs ==
  ASSUME MeetingBounds, M!Fresh # {}
  PROVE  M!Min(M!Fresh) \in M!Fresh
  <1>1. M!Fresh \subseteq Nat
    BY DEF M!Fresh, M!Folders, MeetingBounds
  <1>2. PICK m \in M!Fresh : \A n \in M!Fresh : ~(<<n, m>> \in OpToRel(<, Nat))
    BY <1>1, NatLessThanWellFounded, WFMin
  <1>3. \A n \in M!Fresh : m <= n
    <2>1. \A n \in M!Fresh : ~(n < m)
      BY <1>1, <1>2 DEF OpToRel
    <2>2. QED
      BY <1>1, <2>1
  <1>4. QED
    BY <1>2, <1>3 DEF M!Min

-----------------------------------------------------------------------------
\* What the app does to a recording, apart from what it answers
AppStays == UNCHANGED <<rec_in, folder, phase, rec_begun, meeting>>

Sent(m) == rec_in' = IF process = "up" THEN Append(rec_in, m) ELSE rec_in

StartFails(f) == meeting[f] = "none" /\ meeting' = [meeting EXCEPT ![f] = "recording"]
                 /\ UNCHANGED <<rec_in, folder, phase, rec_begun>>

Starts(f, two_steps) ==
  /\ meeting[f] = "none" /\ meeting' = [meeting EXCEPT ![f] = "recording"] /\ Sent(M!Msg("record", f))
  /\ phase = "Idle"
  /\ IF two_steps THEN rec_begun' = f /\ UNCHANGED <<folder, phase>>
     ELSE folder' = f /\ phase' = "Recording" /\ UNCHANGED rec_begun

Stops ==
  /\ M!is_recording /\ phase' = "Saving" /\ Sent(M!Msg("stop", 0)) /\ UNCHANGED <<folder, rec_begun>>
  /\ meeting' = [f \in M!Folders |-> IF f = folder /\ meeting[f] # "trashed" THEN "transcribing" ELSE meeting[f]]

LEMMA SendsIs ==
  ASSUME MeetingTypes, NEW m \in Orders, M!Sends(<<m>>)
  PROVE  Sent(m)
  BY AppendIsConcat DEF M!Sends, Sent, MeetingTypes

LEMMA StartIs ==
  ASSUME MeetingBounds, MeetingTypes, M!CanStart, NEW sent, NEW two_steps, M!recording_start(sent, two_steps)
  PROVE  \E f \in M!Folders : StartFails(f) \/ Starts(f, two_steps)
  <1>1. PICK f : f = M!Min(M!Fresh)
    OBVIOUS
  <1>2. f \in M!Folders /\ meeting[f] = "none" /\ phase = "Idle"
    BY <1>1, FreshIs DEF M!CanStart, M!Fresh
  <1>3. meeting' = [meeting EXCEPT ![f] = "recording"]
    BY <1>1 DEF M!recording_start
  <1>4. CASE ~sent
    BY <1>2, <1>3, <1>4 DEF M!recording_start, StartFails
  <1>5. CASE sent
    <2>1. Sent(M!Msg("record", f))
      BY <1>1, <1>2, <1>5, SendsIs, LineTypes DEF M!recording_start
    <2>2. IF two_steps THEN rec_begun' = f /\ UNCHANGED <<folder, phase>>
          ELSE folder' = f /\ phase' = "Recording" /\ UNCHANGED rec_begun
      BY <1>1, <1>5 DEF M!recording_start, M!Shown
    <2>3. QED
      BY <1>2, <1>3, <2>1, <2>2 DEF Starts
  <1>6. QED
    BY <1>4, <1>5

LEMMA StopIs ==
  ASSUME MeetingBounds, MeetingTypes, M!is_recording, NEW sent, M!recording_stop(sent), UNCHANGED <<folder, rec_begun>>
  PROVE  AppStays \/ Stops
  <1>1. CASE ~sent
    BY <1>1 DEF M!recording_stop, AppStays
  <1>2. CASE sent
    BY <1>2, SendsIs, LineTypes DEF M!recording_stop, Stops
  <1>3. QED
    BY <1>1, <1>2

-----------------------------------------------------------------------------
\* Orders and reports under way, by what they say and where they stand
Has(s, t, f) == \E i \in DOMAIN s : s[i].type = t /\ s[i].folder = f
StopFrom(s, i) == \E j \in DOMAIN s : i <= j /\ s[j].type = "stop"
Kept(p) == p \in {"Recording", "Paused"}
NoRecord(s) == \A i \in DOMAIN s : s[i].type # "record"

\* At most one order to record is under way, to the folder f; in a phase p that
\* does not record a stop comes behind it
OneRecord(s, f, p) ==
  \A i \in DOMAIN s : s[i].type = "record" =>
    /\ s[i].folder = f /\ (Kept(p) \/ StopFrom(s, i))
    /\ \A j \in DOMAIN s : s[j].type = "record" => i = j

LEMMA Joins ==
  ASSUME NEW S, NEW s \in Seq(S), NEW l \in S
  PROVE  LET t == Append(s, l) IN
         /\ \A y, f : Has(t, y, f) <=> Has(s, y, f) \/ (l.type = y /\ l.folder = f)
         /\ StopFrom(s, 1) => StopFrom(t, 1)
         /\ l.type = "stop" => StopFrom(t, 1)
         /\ l.type # "record" /\ NoRecord(s) => NoRecord(t)
         /\ \A f, p : l.type # "record" /\ OneRecord(s, f, p) => OneRecord(t, f, p)
         /\ \A f, p, q : l.type = "stop" /\ OneRecord(s, f, p) => OneRecord(t, f, q)
         /\ l.type = "record" /\ NoRecord(s) => OneRecord(t, l.folder, "Recording")
  <1>1. PICK t : t = Append(s, l)
    OBVIOUS
  <1>2. PICK k \in Nat : k = Len(s)
    OBVIOUS
  <1>3. /\ DOMAIN s = 1 .. k /\ DOMAIN t = 1 .. k + 1 /\ t[k + 1] = l
        /\ \A i \in 1 .. k : i \in 1 .. k + 1 /\ i <= k + 1 /\ t[i] = s[i]
        /\ \A i \in 1 .. k + 1 : i \in 1 .. k \/ i = k + 1
        /\ k + 1 \in 1 .. k + 1 /\ 1 <= k + 1
    BY <1>1, <1>2
  <1>4. \A y, f : Has(t, y, f) <=> Has(s, y, f) \/ (l.type = y /\ l.folder = f)
    BY <1>3, Zenon DEF Has
  <1>5. \A i : StopFrom(s, i) => StopFrom(t, i)
    BY <1>3 DEF StopFrom
  <1>6. l.type = "stop" => \A i \in 1 .. k + 1 : StopFrom(t, i)
    BY <1>3 DEF StopFrom
  <1>7. l.type # "record" /\ NoRecord(s) => NoRecord(t)
    BY <1>3 DEF NoRecord
  <1>8. \A f, p : l.type # "record" /\ OneRecord(s, f, p) => OneRecord(t, f, p)
    BY <1>3, <1>5 DEF OneRecord
  <1>9. \A f, p, q : l.type = "stop" /\ OneRecord(s, f, p) => OneRecord(t, f, q)
    BY <1>3, <1>6 DEF OneRecord
  <1>10. l.type = "record" /\ NoRecord(s) => OneRecord(t, l.folder, "Recording")
    BY <1>3 DEF OneRecord, NoRecord, Kept
  <1>11. l.type = "stop" => StopFrom(t, 1)
    BY <1>3 DEF StopFrom
  <1>12. QED
    BY <1>1, <1>4, <1>5, <1>7, <1>8, <1>9, <1>10, <1>11

LEMMA Leaves ==
  ASSUME NEW S, NEW s \in Seq(S), s # <<>>
  PROVE  LET h == Head(s)
             t == Tail(s) IN
         /\ h \in S /\ t \in Seq(S)
         /\ Has(s, h.type, h.folder)
         /\ \A y, f : Has(t, y, f) => Has(s, y, f)
         /\ h.type # "stop" /\ StopFrom(s, 1) => StopFrom(t, 1)
         /\ NoRecord(s) => NoRecord(t) /\ h.type # "record"
         /\ \A f, p : OneRecord(s, f, p) => OneRecord(t, f, p)
         /\ \A f, p : OneRecord(s, f, p) /\ h.type = "record" => h.folder = f /\ NoRecord(t) /\ (Kept(p) \/ StopFrom(t, 1))
  <1>1. PICK h, t : h = Head(s) /\ t = Tail(s)
    OBVIOUS
  <1>2. PICK k \in Nat : k = Len(s)
    OBVIOUS
  <1>3. k # 0 /\ h \in S /\ t \in Seq(S) /\ h = s[1] /\ Len(t) = k - 1 /\ \A i \in 1 .. k - 1 : t[i] = s[i + 1]
    BY <1>1, <1>2, EmptySeq, HeadTailProperties
  <1>4. DOMAIN s = 1 .. k /\ DOMAIN t = 1 .. k - 1 /\ 1 \in 1 .. k
    BY <1>2, <1>3
  <1>5. \A i \in 1 .. k : i = 1 \/ (i - 1 \in 1 .. k - 1 /\ t[i - 1] = s[i] /\ 1 <= i - 1)
    <2>1. \A i \in 1 .. k : i = 1 \/ (i - 1 \in 1 .. k - 1 /\ (i - 1) + 1 = i /\ 1 <= i - 1)
      OBVIOUS
    <2>2. QED
      BY <2>1, <1>3
  <1>6. \A i \in 1 .. k - 1 : i + 1 \in 1 .. k /\ t[i] = s[i + 1] /\ i + 1 # 1
    BY <1>3
  <1>7. \A y, f : Has(t, y, f) => Has(s, y, f)
    BY <1>4, <1>6 DEF Has
  <1>8. Has(s, h.type, h.folder)
    BY <1>3, <1>4 DEF Has
  <1>9. \A i \in 1 .. k - 1 : StopFrom(s, i + 1) => StopFrom(t, i)
    <2>1. SUFFICES ASSUME NEW i \in 1 .. k - 1, StopFrom(s, i + 1)
                   PROVE  StopFrom(t, i)
      OBVIOUS
    <2>2. PICK j \in 1 .. k : i + 1 <= j /\ s[j].type = "stop"
      BY <2>1, <1>4 DEF StopFrom
    <2>3. j - 1 \in 1 .. k - 1 /\ t[j - 1] = s[j] /\ i <= j - 1
      BY <2>2, <1>5
    <2>4. QED
      BY <2>2, <2>3, <1>4 DEF StopFrom
  <1>10. h.type # "stop" /\ StopFrom(s, 1) => StopFrom(t, 1)
    BY <1>3, <1>4, <1>5 DEF StopFrom
  <1>11. NoRecord(s) => NoRecord(t) /\ h.type # "record"
    BY <1>3, <1>4, <1>6 DEF NoRecord
  <1>12. ASSUME NEW f, NEW p, OneRecord(s, f, p)
         PROVE  OneRecord(t, f, p)
    <2>1. ASSUME NEW i \in 1 .. k - 1, t[i].type = "record"
          PROVE  /\ t[i].folder = f /\ (Kept(p) \/ StopFrom(t, i))
                 /\ \A j \in 1 .. k - 1 : t[j].type = "record" => i = j
      <3>1. /\ s[i + 1].folder = f /\ (Kept(p) \/ StopFrom(s, i + 1))
            /\ \A j \in 1 .. k : s[j].type = "record" => i + 1 = j
        BY <2>1, <1>4, <1>6, <1>12 DEF OneRecord
      <3>2. \A j \in 1 .. k - 1 : t[j].type = "record" => i + 1 = j + 1
        BY <3>1, <1>6
      <3>3. QED
        BY <3>1, <3>2, <1>6, <1>9
    <2>2. QED
      BY <2>1, <1>4, Zenon DEF OneRecord
  <1>13. ASSUME NEW f, NEW p, OneRecord(s, f, p), h.type = "record"
         PROVE  h.folder = f /\ NoRecord(t) /\ (Kept(p) \/ StopFrom(t, 1))
    <2>1. /\ s[1].folder = f /\ (Kept(p) \/ StopFrom(s, 1)) /\ \A j \in 1 .. k : s[j].type = "record" => 1 = j
      BY <1>3, <1>4, <1>13 DEF OneRecord
    <2>2. NoRecord(t)
      BY <2>1, <1>4, <1>6 DEF NoRecord
    <2>3. QED
      BY <2>1, <2>2, <1>3, <1>10, <1>13
  <1>14. QED
    BY <1>1, <1>3, <1>7, <1>8, <1>10, <1>11, <1>12, <1>13

\* Recordings that a crash left are transcribed, nothing more
LEMMA RecoverIs ==
  ASSUME MeetingBounds, MeetingTypes, M!recover
  PROVE  /\ rec_in' \in Seq(Orders)
         /\ process # "up" => rec_in' = rec_in
         /\ \A f \in M!Folders : Has(rec_in', "transcribe", f) =>
              Has(rec_in, "transcribe", f) \/ (f # folder /\ meeting[f] # "none")
         /\ StopFrom(rec_in, 1) => StopFrom(rec_in', 1)
         /\ NoRecord(rec_in) => NoRecord(rec_in')
         /\ \A f, p : OneRecord(rec_in, f, p) => OneRecord(rec_in', f, p)
  <1>1. PICK left : left = {f \in M!Folders : meeting[f] \in M!Unfinished /\ f # folder}
    OBVIOUS
  <1>2. PICK c, n : n = M!Cardinality(left) /\ c = [i \in 1 .. n |-> M!Msg("transcribe", M!SetToSeq(left)[i])]
    OBVIOUS
  <1>3. IsFiniteSet(left)
    <2>1. IsFiniteSet(M!Folders)
      BY FS_Interval DEF M!Folders, MeetingBounds
    <2>2. QED
      BY <1>1, <2>1, FS_Subset
  <1>4. n \in Nat /\ \A i \in 1 .. n : M!SetToSeq(left)[i] \in left
    BY <1>2, <1>3, LeftListed
  <1>5. \A i \in 1 .. n : c[i] \in Orders /\ c[i].type = "transcribe" /\ c[i].folder \in left
    BY <1>1, <1>2, <1>4, LineTypes, MsgIs
  <1>6. c \in Seq(Orders) /\ Len(c) = n /\ DOMAIN c = 1 .. n
    BY <1>2, <1>4, <1>5
  <1>7. M!Sends(c)
    BY <1>1, <1>2 DEF M!recover
  <1>8. CASE process # "up"
    BY <1>7, <1>8 DEF M!Sends, MeetingTypes
  <1>9. CASE process = "up"
    <2>1. PICK s, t, k : s = rec_in /\ t = rec_in' /\ k = Len(s)
      OBVIOUS
    <2>2. s \in Seq(Orders) /\ k \in Nat /\ t = s \o c
      BY <1>7, <1>9, <2>1 DEF M!Sends, MeetingTypes
    <2>3. t \in Seq(Orders) /\ Len(t) = k + n /\ \A i \in 1 .. k + n : t[i] = IF i <= k THEN s[i] ELSE c[i - k]
      BY <2>1, <2>2, <1>6, ConcatProperties
    <2>4. DOMAIN s = 1 .. k /\ DOMAIN t = 1 .. k + n
      BY <2>1, <2>2, <2>3, <1>4
    <2>5. \A i \in 1 .. k : i \in 1 .. k + n /\ t[i] = s[i]
      BY <2>2, <2>3, <1>4
    <2>6. \A i \in 1 .. k + n : i \in 1 .. k \/ (t[i].type = "transcribe" /\ t[i].folder \in left)
      <3>1. \A i \in 1 .. k + n : i \in 1 .. k \/ (i - k \in 1 .. n /\ ~(i <= k))
        BY <2>2, <1>4
      <3>2. QED
        BY <3>1, <2>3, <1>5
    <2>7. \A f \in M!Folders : Has(t, "transcribe", f) => Has(s, "transcribe", f) \/ f \in left
      BY <2>4, <2>5, <2>6, Zenon DEF Has
    <2>8. \A f \in left : f # folder /\ meeting[f] # "none"
      BY <1>1 DEF M!Unfinished
    <2>9. \A i : StopFrom(s, i) => StopFrom(t, i)
      BY <2>4, <2>5 DEF StopFrom
    <2>10. NoRecord(s) => NoRecord(t)
      BY <2>4, <2>5, <2>6 DEF NoRecord
    <2>11. \A f, p : OneRecord(s, f, p) => OneRecord(t, f, p)
      BY <2>4, <2>5, <2>6, <2>9 DEF OneRecord
    <2>12. QED
      BY <1>9, <2>1, <2>3, <2>7, <2>8, <2>9, <2>10, <2>11
  <1>10. QED
    BY <1>8, <1>9

LEMMA RecordsAre ==
  ASSUME NEW s, NEW f, NEW p, NEW q
  PROVE  /\ OneRecord(s, f, p) /\ Kept(q) => OneRecord(s, f, q)
         /\ NoRecord(s) => OneRecord(s, f, q)
         /\ MeetingTypes /\ OneRecord(rec_in, 0, p) => NoRecord(rec_in)
  <1>1. OneRecord(s, f, p) /\ Kept(q) => OneRecord(s, f, q)
    BY DEF OneRecord
  <1>2. NoRecord(s) => OneRecord(s, f, q)
    BY DEF OneRecord, NoRecord
  <1>3. MeetingTypes /\ OneRecord(rec_in, 0, p) => NoRecord(rec_in)
    <2>1. MeetingTypes => \A i \in DOMAIN rec_in : rec_in[i].type = "record" => rec_in[i].folder # 0
      BY DEF MeetingTypes, Orders
    <2>2. QED
      BY <2>1 DEF OneRecord, NoRecord
  <1>4. QED
    BY <1>1, <1>2, <1>3

-----------------------------------------------------------------------------
\* A recording that is stopped, or never began, and is not the current one for long
Over(f) ==
  \/ f \in saves \/ \E i \in DOMAIN jobs : jobs[i] = f
  \/ Has(rec_in, "transcribe", f)
  \/ Has(rec_out, "stopped", f) \/ Has(rec_out, "transcript", f) \/ Has(rec_out, "error", f)

\* The helper records only into the current folder, and does or will do so only
\* while it is shown or a stop is under way; a folder is taken once
TapeInv ==
  /\ rec_begun = 0 /\ (~enabled => process = "off")
  /\ process # "up" => rec_in = <<>> /\ tape = 0 /\ jobs = <<>>
  /\ \A f \in M!Folders : Over(f) \/ f = folder => meeting[f] # "none"
  /\ OneRecord(rec_in, folder, phase)
  /\ tape # 0 => tape = folder /\ NoRecord(rec_in) /\ (Kept(phase) \/ StopFrom(rec_in, 1))
  /\ tape # 0 \/ ~NoRecord(rec_in) => ~Over(folder)

\* What an action of the app leaves of the helper's side
Hears ==
  /\ UNCHANGED <<enabled, process, tape, jobs>> /\ saves' \subseteq saves
  /\ \A y, f : Has(rec_out', y, f) => Has(rec_out, y, f)

LEMMA SaidOver ==
  ASSUME Hears, UNCHANGED rec_in
  PROVE  \A f : Over(f)' => Over(f)
  BY DEF Hears, Over

LEMMA EmptyHas ==
  ASSUME NEW y, NEW f
  PROVE  ~Has(<<>>, y, f) /\ NoRecord(<<>>)
  BY DEF Has, NoRecord

LEMMA SentIs ==
  ASSUME MeetingTypes, NEW m \in Orders, Sent(m), m.type # "transcribe"
  PROVE  /\ \A f : Has(rec_in', "transcribe", f) => Has(rec_in, "transcribe", f)
         /\ process # "up" => rec_in' = rec_in
         /\ process = "up" => rec_in' = Append(rec_in, m)
  <1>1. CASE process = "up"
    BY <1>1, Joins DEF Sent, MeetingTypes
  <1>2. CASE process # "up"
    BY <1>2 DEF Sent
  <1>3. QED
    BY <1>1, <1>2

LEMMA StartKeeps ==
  ASSUME MeetingBounds, MeetingTypes, TapeInv, Hears, NEW f \in M!Folders, NEW two_steps, ~two_steps, Starts(f, two_steps)
  PROVE  TapeInv'
  <1> DEFINE m == M!Msg("record", f)
  <1>1. m \in Orders /\ m.type = "record" /\ m.folder = f /\ f # 0
    BY LineTypes, MsgIs
  <1>2. folder' = f /\ phase' = "Recording" /\ rec_begun' = rec_begun /\ meeting[f] = "none" /\ Sent(m)
        /\ meeting' = [meeting EXCEPT ![f] = "recording"] /\ phase = "Idle" /\ folder = 0
    BY DEF Starts, MeetingTypes
  <1> HIDE DEF m
  <1>3. NoRecord(rec_in) /\ tape = 0
    BY <1>2, RecordsAre DEF TapeInv
  <1>4. /\ \A g : Has(rec_in', "transcribe", g) => Has(rec_in, "transcribe", g)
        /\ process # "up" => rec_in' = rec_in
        /\ process = "up" => rec_in' = Append(rec_in, m)
    BY <1>1, <1>2, SentIs
  <1>5. \A g : Over(g)' => Over(g)
    BY <1>4 DEF Hears, Over
  <1>6. ~Over(f)' /\ \A g \in M!Folders : Over(g)' \/ g = f => meeting'[g] # "none"
    BY <1>2, <1>5 DEF TapeInv, MeetingTypes
  <1>7. OneRecord(rec_in', f, "Recording")
    <2>1. CASE process = "up"
      BY <1>1, <1>3, <1>4, <2>1, Joins DEF MeetingTypes
    <2>2. CASE process # "up"
      BY <1>3, <1>4, <2>2, RecordsAre
    <2>3. QED
      BY <2>1, <2>2
  <1>8. OneRecord(rec_in, folder, phase)'
    BY <1>2, <1>7
  <1>9. ~Over(folder)'
    BY <1>2, <1>6 DEF Over
  <1>10. (\A g \in M!Folders : Over(g) \/ g = folder => meeting[g] # "none")'
    BY <1>2, <1>6 DEF M!Folders
  <1>11. QED
    BY <1>2, <1>3, <1>4, <1>8, <1>9, <1>10 DEF TapeInv, Hears

LEMMA StopKeeps ==
  ASSUME MeetingBounds, MeetingTypes, TapeInv, Hears, Stops
  PROVE  TapeInv'
  <1> DEFINE m == M!Msg("stop", 0)
  <1>1. m \in Orders /\ m.type = "stop"
    BY LineTypes, MsgIs
  <1>2. /\ folder' = folder /\ phase' = "Saving" /\ rec_begun' = rec_begun /\ Sent(m)
        /\ \A f \in M!Folders : meeting[f] # "none" => meeting'[f] # "none"
    BY DEF Stops
  <1> HIDE DEF m
  <1>3. /\ \A g : Has(rec_in', "transcribe", g) => Has(rec_in, "transcribe", g)
        /\ process # "up" => rec_in' = rec_in
        /\ process = "up" => rec_in' = Append(rec_in, m)
    BY <1>1, <1>2, SentIs
  <1>4. \A g : Over(g)' => Over(g)
    BY <1>3 DEF Hears, Over
  <1>5. \A g \in M!Folders : Over(g)' \/ g = folder => meeting'[g] # "none"
    BY <1>2, <1>4 DEF TapeInv
  <1>6. OneRecord(rec_in', folder, "Saving") /\ (NoRecord(rec_in) => NoRecord(rec_in')) /\ (tape # 0 => StopFrom(rec_in', 1))
    <2>1. CASE process = "up"
      BY <1>1, <1>3, <2>1, Joins DEF MeetingTypes, TapeInv
    <2>2. CASE process # "up"
      <3>1. rec_in' = <<>> /\ NoRecord(rec_in') /\ tape = 0
        BY <1>3, <2>2, EmptyHas DEF TapeInv
      <3>2. QED
        BY <3>1, RecordsAre
    <2>3. QED
      BY <2>1, <2>2
  <1>7. OneRecord(rec_in, folder, phase)'
    BY <1>2, <1>6
  <1>8. ~Over(folder) => ~Over(folder)'
    BY <1>2, <1>4 DEF Over
  <1>9. (\A g \in M!Folders : Over(g) \/ g = folder => meeting[g] # "none")'
    BY <1>2, <1>5 DEF M!Folders
  <1>10. QED
    BY <1>2, <1>3, <1>6, <1>7, <1>8, <1>9 DEF TapeInv, Hears

\* Steps that leave the recording that is shown and what is ordered
LEMMA RestKeeps ==
  ASSUME MeetingTypes, TapeInv, Hears, UNCHANGED <<rec_in, folder, rec_begun>>,
         Kept(phase) => Kept(phase'), \A f \in M!Folders : meeting[f] # "none" => meeting'[f] # "none"
  PROVE  TapeInv'
  <1>1. \A f : Over(f)' => Over(f)
    BY SaidOver
  <1>2. OneRecord(rec_in', folder', phase')
    BY RecordsAre DEF TapeInv, OneRecord
  <1>3. ~Over(folder) => ~Over(folder)'
    BY <1>1 DEF Over
  <1>4. (\A g \in M!Folders : Over(g) \/ g = folder => meeting[g] # "none")'
    BY <1>1 DEF TapeInv, M!Folders
  <1>5. QED
    BY <1>2, <1>3, <1>4 DEF TapeInv, Hears

\* The end of a recording that is over
LEMMA EndKeeps ==
  ASSUME MeetingBounds, MeetingTypes, TapeInv, Hears, NEW f \in M!Folders, NEW s, s # "none", Over(f), M!Ends(f, s),
         UNCHANGED <<rec_in, rec_begun>>
  PROVE  TapeInv'
  <1>1. \A g \in M!Folders : meeting[g] # "none" => meeting'[g] # "none"
    BY DEF M!Ends, MeetingTypes
  <1>2. CASE f # folder
    <2>1. folder' = folder /\ phase' = phase
      BY <1>2 DEF M!Ends
    <2>2. QED
      BY <1>1, <2>1, RestKeeps
  <1>3. CASE f = folder
    <2>1. folder' = 0 /\ phase' = "Idle"
      BY <1>3 DEF M!Ends, M!Shown
    <2>2. tape = 0 /\ NoRecord(rec_in)
      BY <1>3 DEF TapeInv
    <2>3. OneRecord(rec_in', folder', phase')
      BY <2>2, RecordsAre
    <2>4. \A g : Over(g)' => Over(g)
      BY SaidOver
    <2>5. (\A g \in M!Folders : Over(g) \/ g = folder => meeting[g] # "none")'
      BY <1>1, <2>1, <2>4, LineTypes DEF TapeInv, M!Folders
    <2>6. QED
      BY <2>2, <2>3, <2>5 DEF TapeInv, Hears
  <1>4. QED
    BY <1>2, <1>3

LEMMA FailKeeps ==
  ASSUME MeetingTypes, TapeInv, Hears, NEW f, StartFails(f)
  PROVE  TapeInv'
  <1>1. \A g \in M!Folders : meeting[g] # "none" => meeting'[g] # "none"
    BY DEF StartFails, MeetingTypes
  <1>2. QED
    BY <1>1, RestKeeps DEF StartFails

LEMMA CommandsKeep ==
  ASSUME MeetingBounds, MeetingTypes, TapeInv, ~RecordingRaces,
         \/ M!StartCommand \/ M!StartShown \/ M!Pause \/ M!StopCommand \/ M!TimerFires
         \/ \E f \in M!Folders : M!Delete(f) \/ M!SaveEnds(f)
  PROVE  TapeInv'
  <1>1. CASE M!StartCommand
    <2>1. Hears
      BY <1>1 DEF M!StartCommand, Hears
    <2>2. \E f \in M!Folders : StartFails(f) \/ Starts(f, RecordingRaces)
      BY <1>1, StartIs DEF M!StartCommand
    <2>3. QED
      BY <2>1, <2>2, StartKeeps, FailKeeps
  <1>2. CASE M!StartShown
    BY <1>2 DEF M!StartShown, TapeInv
  <1>3. CASE M!Pause
    BY <1>3, RestKeeps DEF M!Pause, M!is_recording, M!helperSide, Hears, Kept
  <1>4. CASE M!StopCommand
    <2>1. Hears
      BY <1>4 DEF M!StopCommand, Hears
    <2>2. AppStays \/ Stops
      BY <1>4, StopIs DEF M!StopCommand
    <2>3. QED
      BY <2>1, <2>2, StopKeeps, RestKeeps DEF AppStays
  <1>5. CASE M!TimerFires
    <2>1. Hears
      BY <1>5 DEF M!TimerFires, Hears
    <2>2. AppStays \/ Stops
      <3>1. CASE ~watched /\ M!is_recording
        BY <1>5, <3>1, StopIs DEF M!TimerFires
      <3>2. CASE ~(~watched /\ M!is_recording)
        BY <1>5, <3>2 DEF M!TimerFires, AppStays
      <3>3. QED
        BY <3>1, <3>2
    <2>3. QED
      BY <2>1, <2>2, StopKeeps, RestKeeps DEF AppStays
  <1>6. ASSUME NEW f \in M!Folders, M!Delete(f)
        PROVE  TapeInv'
    <2>1. Hears /\ UNCHANGED <<rec_in, folder, rec_begun, phase>>
      BY <1>6 DEF M!Delete, M!helperSide, Hears
    <2>2. \A g \in M!Folders : meeting[g] # "none" => meeting'[g] # "none"
      BY <1>6 DEF M!Delete, MeetingTypes
    <2>3. QED
      BY <2>1, <2>2, RestKeeps
  <1>7. ASSUME NEW f \in M!Folders, M!SaveEnds(f)
        PROVE  TapeInv'
    <2>1. Hears /\ UNCHANGED <<rec_in, rec_begun>> /\ M!Ends(f, "done") /\ Over(f)
      BY <1>7 DEF M!SaveEnds, M!helperSide, Hears, Over
    <2>2. QED
      BY <2>1, EndKeeps
  <1>8. QED
    BY <1>1, <1>2, <1>3, <1>4, <1>5, <1>6, <1>7

\* What a change of who holds the microphone leads to
LEMMA MicIs ==
  ASSUME MeetingBounds, MeetingTypes, NEW held \in BOOLEAN, M!LineMic(held)
  PROVE  /\ UNCHANGED <<recorder, saves>>
         /\ AppStays \/ \E f \in M!Folders : StartFails(f) \/ Starts(f, FALSE)
         /\ timers' = timers \/ (~held /\ timers' = timers + 1)
  <1>1. PICK auto \in BOOLEAN :
         CASE watched /\ ~held ->
                /\ watched' = FALSE /\ timers' = timers + 1
                /\ UNCHANGED <<rec_in, folder, phase, rec_begun, meeting>>
           [] ~watched /\ held /\ M!is_recording ->
                watched' = TRUE /\ UNCHANGED <<timers, rec_in, folder, phase, rec_begun, meeting>>
           [] ~watched /\ held /\ ~M!is_recording /\ auto ->
                /\ UNCHANGED timers
                /\ IF M!CanStart
                   THEN \E sent \in M!SendOutcomes : M!recording_start(sent, FALSE) /\ watched' = sent
                   ELSE UNCHANGED <<watched, rec_in, folder, phase, rec_begun, meeting>>
           [] OTHER -> UNCHANGED <<watched, timers, rec_in, folder, phase, rec_begun, meeting>>
    BY DEF M!LineMic
  <1>2. UNCHANGED <<recorder, saves>>
    BY DEF M!LineMic
  <1>3. CASE watched /\ ~held
    BY <1>1, <1>2, <1>3 DEF AppStays
  <1>4. CASE ~watched /\ held /\ M!is_recording
    BY <1>1, <1>2, <1>4 DEF AppStays
  <1>5. CASE ~watched /\ held /\ ~M!is_recording /\ auto
    <2>1. timers' = timers
      BY <1>1, <1>5
    <2>2. CASE M!CanStart
      <3>1. PICK sent \in M!SendOutcomes : M!recording_start(sent, FALSE)
        BY <1>1, <1>5, <2>2
      <3>2. QED
        BY <1>2, <2>1, <2>2, <3>1, StartIs
    <2>3. CASE ~M!CanStart
      BY <1>1, <1>2, <1>5, <2>3 DEF AppStays
    <2>4. QED
      BY <2>2, <2>3
  <1>6. CASE /\ ~(watched /\ ~held) /\ ~(~watched /\ held /\ M!is_recording)
             /\ ~(~watched /\ held /\ ~M!is_recording /\ auto)
    BY <1>1, <1>2, <1>6 DEF AppStays
  <1>7. QED
    BY <1>3, <1>4, <1>5, <1>6

LEMMA ReadKeeps ==
  ASSUME MeetingBounds, MeetingTypes, TapeInv, M!ReadLine
  PROVE  TapeInv'
  <1>1. PICK h : h = Head(rec_out)
    OBVIOUS
  <1>2. /\ h \in Reports /\ Has(rec_out, h.type, h.folder)
        /\ rec_out' = Tail(rec_out) /\ \A y, f : Has(rec_out', y, f) => Has(rec_out, y, f)
    BY <1>1, Leaves DEF M!ReadLine, MeetingTypes
  <1>3. UNCHANGED <<enabled, process, tape, jobs>>
    BY DEF M!ReadLine
  <1>4. CASE h.type = "ready"
    <2>1. M!recover /\ UNCHANGED <<phase, folder, rec_begun, meeting, saves>>
      BY <1>1, <1>4 DEF M!ReadLine, M!LineReady
    <2>2. \A f \in M!Folders : Over(f)' => Over(f) \/ (f # folder /\ meeting[f] # "none")
      BY <1>2, <1>3, <2>1, RecoverIs DEF Over
    <2>3. (\A g \in M!Folders : Over(g) \/ g = folder => meeting[g] # "none")'
      BY <2>1, <2>2 DEF TapeInv, M!Folders
    <2>4. OneRecord(rec_in', folder', phase')
      BY <2>1, RecoverIs DEF TapeInv
    <2>5. tape # 0 \/ ~NoRecord(rec_in') => ~Over(folder)'
      <3>1. tape # 0 \/ ~NoRecord(rec_in') => (tape # 0 \/ ~NoRecord(rec_in)) /\ folder \in M!Folders
        <4>1. folder = 0 => tape = 0 /\ NoRecord(rec_in)
          BY RecordsAre DEF TapeInv
        <4>2. folder # 0 => folder \in M!Folders
          BY DEF MeetingTypes, M!Folders, MeetingBounds
        <4>3. QED
          BY <4>1, <4>2, <2>1, RecoverIs
      <3>2. folder \in M!Folders /\ ~Over(folder) => ~Over(folder)'
        <4>1. folder \in M!Folders => (Has(rec_in', "transcribe", folder) => Has(rec_in, "transcribe", folder))
          BY <2>1, RecoverIs
        <4>2. QED
          BY <4>1, <1>2, <1>3, <2>1 DEF Over
      <3>3. QED
        BY <3>1, <3>2 DEF TapeInv
    <2>6. /\ process # "up" => rec_in' = rec_in
          /\ NoRecord(rec_in) => NoRecord(rec_in')
          /\ StopFrom(rec_in, 1) => StopFrom(rec_in', 1)
      BY <2>1, RecoverIs
    <2>7. QED
      BY <1>3, <2>1, <2>3, <2>4, <2>5, <2>6 DEF TapeInv
  <1>5. CASE h.type = "mic"
    <2>1. M!LineMic(h.folder = 1)
      BY <1>1, <1>5 DEF M!ReadLine
    <2>2. /\ UNCHANGED <<recorder, saves>>
          /\ AppStays \/ \E f \in M!Folders : StartFails(f) \/ Starts(f, FALSE)
      BY <2>1, MicIs
    <2>3. Hears
      BY <1>2, <1>3, <2>2 DEF Hears
    <2>4. QED
      BY <2>2, <2>3, RestKeeps, StartKeeps, FailKeeps DEF AppStays
  <1>6. CASE h.type = "stopped"
    <2>1. PICK f \in M!Folders : f = h.folder
      BY <1>2, <1>6 DEF Reports
    <2>2. M!Sends(<<M!Msg("transcribe", f)>>) /\ UNCHANGED <<phase, folder, rec_begun, meeting, saves>>
      BY <1>1, <1>6, <2>1 DEF M!ReadLine, M!LineStopped
    <2>3. Over(f)
      BY <1>2, <1>6, <2>1 DEF Over
    <2>4. PICK m \in Orders : m = M!Msg("transcribe", f)
      BY LineTypes
    <2>5. m.type = "transcribe" /\ m.folder = f /\ Sent(m)
      BY <2>2, <2>4, SendsIs, MsgIs
    <2>6. /\ \A g : Has(rec_in', "transcribe", g) => Has(rec_in, "transcribe", g) \/ g = f
          /\ process # "up" => rec_in' = rec_in
          /\ NoRecord(rec_in) => NoRecord(rec_in')
          /\ StopFrom(rec_in, 1) => StopFrom(rec_in', 1)
          /\ OneRecord(rec_in, folder, phase) => OneRecord(rec_in', folder, phase)
      <3>1. CASE process = "up"
        BY <2>5, <3>1, Joins DEF Sent, MeetingTypes
      <3>2. CASE process # "up"
        BY <2>5, <3>2 DEF Sent
      <3>3. QED
        BY <3>1, <3>2
    <2>7. \A g : Over(g)' => Over(g)
      BY <1>2, <1>3, <2>2, <2>3, <2>6 DEF Over
    <2>8. (\A g \in M!Folders : Over(g) \/ g = folder => meeting[g] # "none")'
      BY <2>2, <2>7 DEF TapeInv, M!Folders
    <2>9. ~Over(folder) => ~Over(folder)'
      BY <2>2, <2>7 DEF Over
    <2>10. OneRecord(rec_in, folder, phase)'
      BY <2>2, <2>6 DEF TapeInv
    <2>11. QED
      BY <1>3, <2>2, <2>6, <2>8, <2>9, <2>10 DEF TapeInv
  <1>7. CASE h.type = "transcript"
    <2>1. PICK f \in M!Folders : f = h.folder
      BY <1>2, <1>7 DEF Reports
    <2>2. /\ saves' \subseteq saves \cup {f} /\ UNCHANGED <<rec_in, phase, folder, rec_begun, meeting>>
      BY <1>1, <1>7, <2>1 DEF M!ReadLine, M!LineTranscript
    <2>3. Over(f)
      BY <1>2, <1>7, <2>1 DEF Over
    <2>4. \A g : Over(g)' => Over(g)
      BY <1>2, <1>3, <2>2, <2>3 DEF Over
    <2>5. (\A g \in M!Folders : Over(g) \/ g = folder => meeting[g] # "none")'
      BY <2>2, <2>4 DEF TapeInv, M!Folders
    <2>6. ~Over(folder) => ~Over(folder)'
      BY <2>2, <2>4 DEF Over
    <2>7. OneRecord(rec_in, folder, phase)'
      BY <2>2 DEF TapeInv
    <2>8. QED
      BY <1>3, <2>2, <2>5, <2>6, <2>7 DEF TapeInv
  <1>8. CASE h.type = "error"
    <2>1. PICK f \in M!Folders : f = h.folder
      BY <1>2, <1>8 DEF Reports
    <2>2. M!Ends(f, "failed") /\ UNCHANGED <<rec_in, rec_begun, saves>>
      BY <1>1, <1>8, <2>1 DEF M!ReadLine, M!LineError
    <2>3. Over(f) /\ Hears
      BY <1>2, <1>3, <1>8, <2>1, <2>2 DEF Over, Hears
    <2>4. QED
      BY <2>2, <2>3, EndKeeps
  <1>9. QED
    BY <1>2, <1>4, <1>5, <1>6, <1>7, <1>8 DEF Reports

\* Without a helper nothing is recorded, and nothing is on its way to it
LEMMA DownKeeps ==
  ASSUME MeetingTypes, TapeInv, process' # "up", rec_in' = <<>>, tape' = 0, jobs' = <<>>, rec_begun' = 0,
         ~enabled' => process' = "off", folder' \in {0, folder}, meeting' = meeting, saves' \subseteq saves,
         rec_out' \in {<<>>, rec_out}
  PROVE  TapeInv'
  <1>1. \A g : Over(g)' => Over(g)
    BY EmptyHas DEF Over
  <1>2. (\A g \in M!Folders : Over(g) \/ g = folder => meeting[g] # "none")'
    <2>1. \A g \in M!Folders : g # 0
      BY DEF M!Folders
    <2>2. QED
      BY <1>1, <2>1 DEF TapeInv, M!Folders
  <1>3. NoRecord(rec_in)' /\ OneRecord(rec_in, folder, phase)'
    BY EmptyHas, RecordsAre DEF NoRecord
  <1>4. QED
    BY <1>2, <1>3 DEF TapeInv

LEMMA SupervisorKeeps ==
  ASSUME MeetingBounds, MeetingTypes, TapeInv, ~RecordingRaces,
         M!Spawn \/ M!HelperCrashes \/ M!Down \/ M!Apply \/ M!Restart
  PROVE  TapeInv'
  <1>1. CASE M!Spawn
    <2>1. /\ process # "up" /\ process' = "up" /\ rec_in' = <<>> /\ UNCHANGED <<tape, jobs, enabled, folder, rec_begun, saves, meeting>>
          /\ rec_out' = Append(rec_out, M!Msg("ready", 0)) /\ enabled
      BY <1>1 DEF M!Spawn, M!appSide, TapeInv
    <2>2. \A y, f : y # "ready" => (Has(rec_out', y, f) => Has(rec_out, y, f))
      BY <2>1, Joins, LineTypes, MsgIs DEF MeetingTypes
    <2>3. \A g : Over(g)' => Over(g)
      BY <2>1, <2>2, EmptyHas DEF Over
    <2>4. (\A g \in M!Folders : Over(g) \/ g = folder => meeting[g] # "none")'
      BY <2>1, <2>3 DEF TapeInv, M!Folders
    <2>5. NoRecord(rec_in)' /\ OneRecord(rec_in, folder, phase)'
      BY <2>1, EmptyHas, RecordsAre
    <2>6. QED
      BY <2>1, <2>4, <2>5 DEF TapeInv
  <1>2. CASE M!HelperCrashes
    BY <1>2, DownKeeps DEF M!HelperCrashes, M!Gone, M!appSide, TapeInv
  <1>3. CASE M!Down
    BY <1>3, DownKeeps DEF M!Down, M!Shown, TapeInv
  <1>4. CASE M!Apply
    BY <1>4, DownKeeps DEF M!Apply, M!Gone, TapeInv
  <1>5. CASE M!Restart
    BY <1>5, DownKeeps DEF M!Restart, M!Gone, M!Shown, TapeInv
  <1>6. QED
    BY <1>1, <1>2, <1>3, <1>4, <1>5

\* What the helper leaves of the app's side
Helps == UNCHANGED <<enabled, phase, folder, rec_begun, meeting, saves>> /\ process = "up" /\ process' = "up"

LEMMA HelpKeeps ==
  ASSUME TapeInv, Helps, \A g \in M!Folders : Over(g)' => Over(g), ~Over(folder) => ~Over(folder)',
         OneRecord(rec_in', folder, phase),
         tape' # 0 => tape' = folder /\ NoRecord(rec_in') /\ (Kept(phase) \/ StopFrom(rec_in', 1)),
         tape' # 0 \/ ~NoRecord(rec_in') => tape # 0 \/ ~NoRecord(rec_in)
  PROVE  TapeInv'
  <1>1. (\A g \in M!Folders : Over(g) \/ g = folder => meeting[g] # "none")'
    BY DEF TapeInv, Helps, M!Folders
  <1>2. OneRecord(rec_in, folder, phase)'
    BY DEF Helps
  <1>3. QED
    BY <1>1, <1>2 DEF TapeInv, Helps

LEMMA JobsAre ==
  ASSUME NEW S, NEW s \in Seq(S), NEW x \in S
  PROVE  /\ \A i \in DOMAIN Append(s, x) : Append(s, x)[i] = x \/ \E j \in DOMAIN s : s[j] = Append(s, x)[i]
         /\ s # <<>> => Head(s) \in S /\ (\E j \in DOMAIN s : s[j] = Head(s))
         /\ s # <<>> => Tail(s) \in Seq(S) /\ \A i \in DOMAIN Tail(s) : \E j \in DOMAIN s : s[j] = Tail(s)[i]
  <1>1. \A i \in DOMAIN Append(s, x) : Append(s, x)[i] = x \/ \E j \in DOMAIN s : s[j] = Append(s, x)[i]
    <2>1. \A i \in 1 .. Len(s) + 1 : i \in 1 .. Len(s) \/ i = Len(s) + 1
      OBVIOUS
    <2>2. QED
      BY <2>1, AppendProperties
  <1>2. s # <<>> => Head(s) \in S /\ (\E j \in DOMAIN s : s[j] = Head(s))
    BY EmptySeq, HeadTailProperties
  <1>3. s # <<>> => Tail(s) \in Seq(S) /\ \A i \in DOMAIN Tail(s) : \E j \in DOMAIN s : s[j] = Tail(s)[i]
    <2>1. SUFFICES ASSUME s # <<>>, NEW i \in 1 .. Len(s) - 1
                   PROVE  i + 1 \in 1 .. Len(s) /\ s[i + 1] = Tail(s)[i]
      BY HeadTailProperties
    <2>2. QED
      BY HeadTailProperties
  <1>4. QED
    BY <1>1, <1>2, <1>3

LEMMA TakesKeep ==
  ASSUME MeetingBounds, MeetingTypes, TapeInv, M!Takes
  PROVE  TapeInv'
  <1>1. PICK h : h = Head(rec_in)
    OBVIOUS
  <1>2. /\ h \in Orders /\ Has(rec_in, h.type, h.folder) /\ rec_in' = Tail(rec_in)
        /\ \A y, f : Has(rec_in', y, f) => Has(rec_in, y, f)
        /\ h.type # "stop" /\ StopFrom(rec_in, 1) => StopFrom(rec_in', 1)
        /\ NoRecord(rec_in) => NoRecord(rec_in') /\ h.type # "record"
        /\ \A f, p : OneRecord(rec_in, f, p) => OneRecord(rec_in', f, p)
        /\ \A f, p : OneRecord(rec_in, f, p) /\ h.type = "record" =>
             h.folder = f /\ NoRecord(rec_in') /\ (Kept(p) \/ StopFrom(rec_in', 1))
    BY <1>1, Leaves DEF M!Takes, MeetingTypes
  <1>3. Helps
    BY DEF M!Takes, M!appSide, Helps
  <1>4. OneRecord(rec_in', folder, phase)
    BY <1>2 DEF TapeInv
  <1>5. CASE h.type = "record"
    <2>1. h.folder = folder /\ NoRecord(rec_in') /\ (Kept(phase) \/ StopFrom(rec_in', 1)) /\ ~NoRecord(rec_in) /\ tape = 0
      BY <1>2, <1>5 DEF TapeInv
    <2>2. folder \in M!Folders
      BY <1>2, <1>5, <2>1 DEF Orders, M!Folders, MeetingBounds
    <2>3. UNCHANGED jobs /\ (\/ tape' = folder /\ rec_out' = rec_out
                             \/ tape' = tape /\ rec_out' = Append(rec_out, M!Msg("error", folder)))
      BY <1>1, <1>5, <2>1 DEF M!Takes
    <2>4. CASE tape' = folder /\ rec_out' = rec_out
      <3>1. \A g : Over(g)' => Over(g)
        BY <1>2, <1>3, <2>3, <2>4 DEF Over, Helps
      <3>2. ~Over(folder) => ~Over(folder)'
        BY <1>3, <3>1 DEF Helps, Over
      <3>3. QED
        BY <1>3, <1>4, <2>1, <2>4, <3>1, <3>2, HelpKeeps
    <2>5. CASE tape' = tape /\ rec_out' = Append(rec_out, M!Msg("error", folder))
      <3>1. \A y, f : Has(rec_out', y, f) => Has(rec_out, y, f) \/ f = folder
        BY <2>2, <2>5, Joins, LineTypes, MsgIs DEF MeetingTypes
      <3>2. \A g : Over(g)' => Over(g) \/ g = folder
        BY <1>2, <1>3, <2>3, <3>1 DEF Over, Helps
      <3>3. (\A g \in M!Folders : Over(g) \/ g = folder => meeting[g] # "none")'
        BY <1>3, <3>2 DEF TapeInv, Helps, M!Folders
      <3>4. QED
        BY <1>3, <1>4, <2>1, <2>5, <3>3 DEF TapeInv, Helps
    <2>6. QED
      BY <2>3, <2>4, <2>5
  <1>6. CASE h.type = "stop"
    <2>1. tape' = 0 /\ UNCHANGED jobs /\ rec_out' = IF tape = 0 THEN rec_out ELSE Append(rec_out, M!Msg("stopped", tape))
      BY <1>1, <1>6 DEF M!Takes
    <2>2. CASE tape = 0
      <3>1. \A g : Over(g)' => Over(g)
        BY <1>2, <1>3, <2>1, <2>2 DEF Over, Helps
      <3>2. ~Over(folder) => ~Over(folder)'
        BY <1>3, <3>1 DEF Helps, Over
      <3>3. QED
        BY <1>2, <1>3, <1>4, <2>1, <3>1, <3>2, HelpKeeps
    <2>3. CASE tape # 0
      <3>1. tape = folder /\ tape \in M!Folders /\ NoRecord(rec_in')
        BY <1>2, <2>3 DEF TapeInv, MeetingTypes, M!Folders, MeetingBounds
      <3>2. \A y, f : Has(rec_out', y, f) => Has(rec_out, y, f) \/ f = folder
        BY <2>1, <2>3, <3>1, Joins, LineTypes, MsgIs DEF MeetingTypes
      <3>3. \A g : Over(g)' => Over(g) \/ g = folder
        BY <1>2, <1>3, <2>1, <3>2 DEF Over, Helps
      <3>4. (\A g \in M!Folders : Over(g) \/ g = folder => meeting[g] # "none")'
        BY <1>3, <3>3 DEF TapeInv, Helps, M!Folders
      <3>5. QED
        BY <1>3, <1>4, <2>1, <3>1, <3>4 DEF TapeInv, Helps
    <2>4. QED
      BY <2>2, <2>3
  <1>7. CASE h.type = "transcribe"
    <2>1. PICK f \in M!Folders : f = h.folder
      BY <1>2, <1>7 DEF Orders, M!Folders, MeetingBounds
    <2>2. jobs' = Append(jobs, f) /\ UNCHANGED <<tape, rec_out>>
      BY <1>1, <1>7, <2>1 DEF M!Takes
    <2>3. Over(f)
      BY <1>2, <1>7, <2>1 DEF Over
    <2>4. \A i \in DOMAIN jobs' : jobs'[i] = f \/ \E j \in DOMAIN jobs : jobs[j] = jobs'[i]
      BY <2>2, JobsAre DEF MeetingTypes
    <2>5. \A g : Over(g)' => Over(g)
      BY <1>2, <1>3, <2>2, <2>3, <2>4 DEF Over, Helps
    <2>6. ~Over(folder) => ~Over(folder)'
      BY <1>3, <2>5 DEF Helps, Over
    <2>7. tape' # 0 => tape' = folder /\ NoRecord(rec_in') /\ (Kept(phase) \/ StopFrom(rec_in', 1))
      BY <1>2, <1>7, <2>2 DEF TapeInv
    <2>8. QED
      BY <1>2, <1>3, <1>4, <2>2, <2>5, <2>6, <2>7, HelpKeeps
  <1>8. QED
    BY <1>2, <1>5, <1>6, <1>7 DEF Orders

LEMMA HelperKeeps ==
  ASSUME MeetingBounds, MeetingTypes, TapeInv, M!Transcribes \/ M!CallChanges \/ M!pollMicrophone
  PROVE  TapeInv'
  <1>1. CASE M!Transcribes
    <2>1. PICK f \in M!Folders, t \in {"transcript", "error"} :
            jobs # <<>> /\ f = Head(jobs) /\ rec_out' = Append(rec_out, M!Msg(t, f))
      BY <1>1, JobsAre DEF M!Transcribes, MeetingTypes
    <2>2. Helps /\ jobs' = Tail(jobs) /\ UNCHANGED <<rec_in, tape>>
      BY <1>1 DEF M!Transcribes, M!appSide, Helps
    <2>3. /\ \A i \in DOMAIN jobs' : \E j \in DOMAIN jobs : jobs[j] = jobs'[i]
          /\ \E j \in DOMAIN jobs : jobs[j] = f
      BY <2>1, <2>2, JobsAre DEF MeetingTypes
    <2>4. \A y, g : Has(rec_out', y, g) => Has(rec_out, y, g) \/ g = f
      BY <2>1, Joins, LineTypes, MsgIs DEF MeetingTypes
    <2>5. \A g : Over(g)' => Over(g)
      BY <2>2, <2>3, <2>4 DEF Over, Helps
    <2>6. ~Over(folder) => ~Over(folder)'
      BY <2>2, <2>5 DEF Helps, Over
    <2>7. QED
      BY <2>2, <2>5, <2>6, HelpKeeps DEF TapeInv
  <1>2. CASE M!CallChanges
    <2>1. Hears /\ UNCHANGED <<rec_in, folder, phase, rec_begun, meeting>>
      BY <1>2 DEF M!CallChanges, M!appSide, Hears
    <2>2. QED
      BY <2>1, RestKeeps
  <1>3. CASE M!pollMicrophone
    <2>1. Helps /\ UNCHANGED <<rec_in, tape, jobs>> /\ \E n \in {0, 1} : rec_out' = Append(rec_out, M!Msg("mic", n))
      BY <1>3 DEF M!pollMicrophone, M!appSide, Helps
    <2>2. \A y, g : y # "mic" => (Has(rec_out', y, g) => Has(rec_out, y, g))
      BY <2>1, Joins, LineTypes, MsgIs DEF MeetingTypes
    <2>3. \A g : Over(g)' => Over(g)
      BY <2>1, <2>2 DEF Over, Helps
    <2>4. ~Over(folder) => ~Over(folder)'
      BY <2>1, <2>3 DEF Helps, Over
    <2>5. QED
      BY <2>1, <2>3, <2>4, HelpKeeps DEF TapeInv
  <1>4. QED
    BY <1>1, <1>2, <1>3

LEMMA TapeKept ==
  ASSUME MeetingBounds, MeetingTypes, ~RecordingRaces, TapeInv, [M!VoiceNext]_(M!voiceVars)
  PROVE  TapeInv'
  <1>1. CASE UNCHANGED M!voiceVars
    BY <1>1, RestKeeps DEF M!voiceVars, M!appSide, M!helperSide, Hears
  <1>2. CASE M!VoiceNext
    BY <1>2, CommandsKeep, ReadKeeps, SupervisorKeeps, TakesKeep, HelperKeeps DEF M!VoiceNext
  <1>3. QED
    BY <1>1, <1>2

-----------------------------------------------------------------------------
\* The types, with every switch
LEMMA OrderTypes ==
  ASSUME MeetingTypes, NEW m \in Orders, Sent(m)
  PROVE  rec_in' \in Seq(Orders)
  BY DEF Sent, MeetingTypes

\* A recording is begun or ended as the types have it
Shows == folder' \in 0 .. MaxMeetings /\ phase' \in {"Idle", "Recording", "Paused", "Saving"}
         /\ (folder' = 0 <=> phase' = "Idle") /\ rec_begun' \in 0 .. MaxMeetings
         /\ meeting' \in [M!Folders -> M!Unfinished \cup {"none", "done", "failed", "trashed"}]
         /\ rec_in' \in Seq(Orders)

LEMMA ShowTypes ==
  ASSUME MeetingBounds, MeetingTypes,
         \/ AppStays \/ Stops
         \/ \E f \in M!Folders : StartFails(f) \/ \E two_steps \in {FALSE, RecordingRaces} : Starts(f, two_steps)
  PROVE  Shows
  <1>1. CASE AppStays
    BY <1>1 DEF AppStays, MeetingTypes, Shows
  <1>2. CASE Stops
    <2>1. rec_in' \in Seq(Orders)
      BY <1>2, LineTypes, OrderTypes DEF Stops
    <2>2. QED
      BY <1>2, <2>1 DEF Stops, MeetingTypes, Shows, M!is_recording, M!Unfinished
  <1>3. ASSUME NEW f \in M!Folders, StartFails(f)
        PROVE  Shows
    BY <1>3 DEF StartFails, MeetingTypes, Shows, M!Unfinished
  <1>4. ASSUME NEW f \in M!Folders, NEW two_steps, Starts(f, two_steps)
        PROVE  Shows
    <2>1. rec_in' \in Seq(Orders) /\ f \in 0 .. MaxMeetings /\ f # 0
      BY <1>4, LineTypes, OrderTypes DEF Starts
    <2>2. QED
      BY <1>4, <2>1 DEF Starts, MeetingTypes, Shows, M!Unfinished
  <1>5. QED
    BY <1>1, <1>2, <1>3, <1>4

LEMMA EndTypes ==
  ASSUME MeetingTypes, NEW f \in M!Folders, NEW s \in {"done", "failed"}, M!Ends(f, s), UNCHANGED <<rec_in, rec_begun>>,
         MeetingBounds
  PROVE  Shows
  <1>1. meeting' \in [M!Folders -> M!Unfinished \cup {"none", "done", "failed", "trashed"}]
    BY DEF M!Ends, MeetingTypes
  <1>2. folder' \in 0 .. MaxMeetings /\ phase' \in {"Idle", "Recording", "Paused", "Saving"} /\ (folder' = 0 <=> phase' = "Idle")
    BY DEF M!Ends, M!Shown, MeetingTypes, MeetingBounds
  <1>3. QED
    BY <1>1, <1>2 DEF Shows, MeetingTypes

LEMMA CommandsTyped ==
  ASSUME MeetingBounds, MeetingTypes,
         \/ M!StartCommand \/ M!StartShown \/ M!Pause \/ M!StopCommand \/ M!TimerFires
         \/ \E f \in M!Folders : M!Delete(f) \/ M!SaveEnds(f)
  PROVE  MeetingTypes'
  <1>1. CASE M!StartCommand
    <2>1. Shows
      BY <1>1, StartIs, ShowTypes DEF M!StartCommand
    <2>2. QED
      BY <1>1, <2>1 DEF M!StartCommand, MeetingTypes, Shows, M!Folders, M!Unfinished
  <1>2. CASE M!StartShown
    BY <1>2 DEF M!StartShown, M!Shown, M!helperSide, MeetingTypes, MeetingBounds, M!Folders, M!Unfinished
  <1>3. CASE M!Pause
    BY <1>3 DEF M!Pause, M!is_recording, M!helperSide, MeetingTypes, M!Folders, M!Unfinished
  <1>4. CASE M!StopCommand
    <2>1. AppStays \/ Stops
      BY <1>4, StopIs DEF M!StopCommand
    <2>2. Shows
      BY <2>1, ShowTypes
    <2>3. QED
      BY <1>4, <2>2 DEF M!StopCommand, MeetingTypes, Shows, M!Folders, M!Unfinished
  <1>5. CASE M!TimerFires
    <2>1. AppStays \/ Stops
      <3>1. CASE ~watched /\ M!is_recording
        BY <1>5, <3>1, StopIs DEF M!TimerFires
      <3>2. CASE ~(~watched /\ M!is_recording)
        BY <1>5, <3>2 DEF M!TimerFires, AppStays
      <3>3. QED
        BY <3>1, <3>2
    <2>2. Shows
      BY <2>1, ShowTypes
    <2>3. QED
      BY <1>5, <2>2 DEF M!TimerFires, MeetingTypes, Shows, M!Folders, M!Unfinished
  <1>6. ASSUME NEW f \in M!Folders, M!Delete(f)
        PROVE  MeetingTypes'
    BY <1>6 DEF M!Delete, M!helperSide, MeetingTypes, M!Folders, M!Unfinished
  <1>7. ASSUME NEW f \in M!Folders, M!SaveEnds(f)
        PROVE  MeetingTypes'
    <2>1. Shows
      BY <1>7, EndTypes DEF M!SaveEnds, M!helperSide
    <2>2. QED
      BY <1>7, <2>1 DEF M!SaveEnds, M!helperSide, MeetingTypes, Shows, M!Folders, M!Unfinished
  <1>8. QED
    BY <1>1, <1>2, <1>3, <1>4, <1>5, <1>6, <1>7

LEMMA ReadsTyped ==
  ASSUME MeetingBounds, MeetingTypes, M!ReadLine
  PROVE  MeetingTypes'
  <1>1. PICK h : h = Head(rec_out)
    OBVIOUS
  <1>2. h \in Reports /\ rec_out' \in Seq(Reports)
    BY <1>1, Leaves DEF M!ReadLine, MeetingTypes
  <1>3. UNCHANGED <<tape, jobs>>
    BY DEF M!ReadLine
  <1>4. Shows /\ saves' \subseteq M!Folders /\ recorder' \in {"Starting", "Running", "Crashed"}
    <2>1. CASE h.type = "ready"
      <3>1. M!LineReady
        BY <1>1, <2>1 DEF M!ReadLine
      <3>2. rec_in' \in Seq(Orders)
        BY <3>1, RecoverIs DEF M!LineReady
      <3>3. QED
        BY <3>1, <3>2 DEF M!LineReady, MeetingTypes, Shows
    <2>2. CASE h.type = "mic"
      <3>1. M!LineMic(h.folder = 1)
        BY <1>1, <2>2 DEF M!ReadLine
      <3>2. UNCHANGED <<recorder, saves>> /\ Shows
        BY <3>1, MicIs, ShowTypes
      <3>3. QED
        BY <3>2 DEF MeetingTypes
    <2>3. CASE h.type = "stopped"
      <3>1. M!LineStopped(h.folder) /\ h.folder \in M!Folders
        BY <1>1, <1>2, <2>3 DEF M!ReadLine, Reports
      <3>2. rec_in' \in Seq(Orders)
        BY <3>1, LineTypes, SendsIs, OrderTypes DEF M!LineStopped
      <3>3. QED
        BY <3>1, <3>2 DEF M!LineStopped, MeetingTypes, Shows
    <2>4. CASE h.type = "transcript"
      <3>1. M!LineTranscript(h.folder) /\ h.folder \in M!Folders
        BY <1>1, <1>2, <2>4 DEF M!ReadLine, Reports
      <3>2. QED
        BY <3>1 DEF M!LineTranscript, MeetingTypes, Shows
    <2>5. CASE h.type = "error"
      <3>1. M!LineError(h.folder) /\ h.folder \in M!Folders
        BY <1>1, <1>2, <2>5 DEF M!ReadLine, Reports
      <3>2. Shows
        BY <3>1, EndTypes DEF M!LineError
      <3>3. QED
        BY <3>1, <3>2 DEF M!LineError, MeetingTypes
    <2>6. QED
      BY <1>2, <2>1, <2>2, <2>3, <2>4, <2>5 DEF Reports
  <1>5. QED
    BY <1>2, <1>3, <1>4 DEF MeetingTypes, Shows, M!Folders, M!Unfinished

LEMMA HelperTyped ==
  ASSUME MeetingBounds, MeetingTypes,
         \/ M!Spawn \/ M!HelperCrashes \/ M!Down \/ M!Apply \/ M!Restart
         \/ M!Takes \/ M!Transcribes \/ M!CallChanges \/ M!pollMicrophone
  PROVE  MeetingTypes'
  <1>1. <<>> \in Seq(Orders) /\ <<>> \in Seq(Reports) /\ <<>> \in Seq(M!Folders) /\ 0 \in 0 .. MaxMeetings
    BY EmptySeq DEF MeetingBounds
  <1>2. ASSUME rec_in' \in Seq(Orders), rec_out' \in Seq(Reports), jobs' \in Seq(M!Folders), tape' \in 0 .. MaxMeetings,
               M!appSide' = M!appSide
        PROVE  MeetingTypes'
    BY <1>2 DEF M!appSide, MeetingTypes, M!Folders, M!Unfinished
  <1>3. CASE M!Spawn
    <2>1. rec_out' \in Seq(Reports)
      BY <1>3, LineTypes DEF M!Spawn, MeetingTypes
    <2>2. QED
      BY <1>1, <1>2, <1>3, <2>1 DEF M!Spawn, MeetingTypes
  <1>4. CASE M!HelperCrashes
    BY <1>1, <1>2, <1>4 DEF M!HelperCrashes, M!Gone, MeetingTypes
  <1>5. CASE M!Down
    BY <1>1, <1>5 DEF M!Down, M!Shown, MeetingTypes, M!Folders, M!Unfinished
  <1>6. CASE M!Apply
    BY <1>1, <1>6 DEF M!Apply, M!Gone, MeetingTypes, M!Folders, M!Unfinished
  <1>7. CASE M!Restart
    BY <1>1, <1>7 DEF M!Restart, M!Gone, M!Shown, MeetingTypes, M!Folders, M!Unfinished
  <1>8. CASE M!Takes
    <2>1. PICK h : h = Head(rec_in)
      OBVIOUS
    <2>2. h \in Orders /\ rec_in' \in Seq(Orders)
      BY <1>8, <2>1, Leaves DEF M!Takes, MeetingTypes
    <2>3. M!appSide' = M!appSide
      BY <1>8 DEF M!Takes
    <2>4. rec_out' \in Seq(Reports) /\ jobs' \in Seq(M!Folders) /\ tape' \in 0 .. MaxMeetings
      <3>1. CASE h.type = "record"
        <4>1. h.folder \in M!Folders /\ h.folder \in 0 .. MaxMeetings
          BY <2>2, <3>1 DEF Orders, M!Folders, MeetingBounds
        <4>2. PICK m \in Reports : m = M!Msg("error", h.folder)
          BY <4>1, LineTypes
        <4>3. jobs' = jobs /\ tape' \in {h.folder, tape} /\ rec_out' \in {rec_out, Append(rec_out, m)}
          BY <1>8, <2>1, <3>1, <4>2 DEF M!Takes
        <4>4. rec_out \in Seq(Reports) /\ Append(rec_out, m) \in Seq(Reports)
          BY <4>2, AppendProperties DEF MeetingTypes
        <4>5. jobs \in Seq(M!Folders) /\ tape \in 0 .. MaxMeetings
          BY DEF MeetingTypes
        <4>6. QED
          BY <4>1, <4>3, <4>4, <4>5
      <3>2. CASE h.type = "stop"
        <4>1. tape # 0 => tape \in M!Folders
          BY DEF MeetingTypes, M!Folders, MeetingBounds
        <4>2. jobs' = jobs /\ tape' = 0 /\ rec_out' = IF tape = 0 THEN rec_out ELSE Append(rec_out, M!Msg("stopped", tape))
          BY <1>8, <2>1, <3>2 DEF M!Takes
        <4>3. tape # 0 => M!Msg("stopped", tape) \in Reports
          BY <4>1, LineTypes
        <4>4. QED
          BY <1>1, <4>2, <4>3 DEF MeetingTypes
      <3>3. CASE h.type = "transcribe"
        <4>1. h.folder \in M!Folders
          BY <2>2, <3>3 DEF Orders, M!Folders, MeetingBounds
        <4>2. jobs' = Append(jobs, h.folder) /\ tape' = tape /\ rec_out' = rec_out
          BY <1>8, <2>1, <3>3 DEF M!Takes
        <4>3. QED
          BY <4>1, <4>2 DEF MeetingTypes
      <3>4. QED
        BY <2>2, <3>1, <3>2, <3>3 DEF Orders
    <2>5. QED
      BY <1>2, <2>2, <2>3, <2>4
  <1>9. CASE M!Transcribes
    <2>1. jobs' \in Seq(M!Folders) /\ \E f \in M!Folders, t \in {"transcript", "error"} : rec_out' = Append(rec_out, M!Msg(t, f))
      BY <1>9, JobsAre DEF M!Transcribes, MeetingTypes
    <2>2. rec_out' \in Seq(Reports)
      BY <2>1, LineTypes DEF MeetingTypes
    <2>3. QED
      BY <1>2, <1>9, <2>1, <2>2 DEF M!Transcribes, MeetingTypes
  <1>10. CASE M!CallChanges
    BY <1>2, <1>10 DEF M!CallChanges, MeetingTypes
  <1>11. CASE M!pollMicrophone
    <2>1. rec_out' \in Seq(Reports)
      BY <1>11, LineTypes DEF M!pollMicrophone, MeetingTypes
    <2>2. QED
      BY <1>2, <1>11, <2>1 DEF M!pollMicrophone, MeetingTypes
  <1>12. QED
    BY <1>3, <1>4, <1>5, <1>6, <1>7, <1>8, <1>9, <1>10, <1>11

LEMMA MeetingsTyped ==
  ASSUME MeetingBounds, MeetingTypes, [M!VoiceNext]_(M!voiceVars)
  PROVE  MeetingTypes'
  <1>1. CASE UNCHANGED M!voiceVars
    BY <1>1 DEF M!voiceVars, M!appSide, M!helperSide, MeetingTypes, M!Folders, M!Unfinished
  <1>2. CASE M!VoiceNext
    BY <1>2, CommandsTyped, ReadsTyped, HelperTyped DEF M!VoiceNext
  <1>3. QED
    BY <1>1, <1>2

LEMMA MeetingsInitially ==
  ASSUME MeetingBounds, M!VoiceInit
  PROVE  MeetingTypes /\ TapeInv
  <1>1. <<>> \in Seq(Orders) /\ <<>> \in Seq(Reports) /\ <<>> \in Seq(M!Folders) /\ 0 \in 0 .. MaxMeetings
    BY EmptySeq DEF MeetingBounds
  <1>2. MeetingTypes
    BY <1>1 DEF M!VoiceInit, MeetingTypes, M!Unfinished
  <1>3. \A f \in M!Folders : ~Over(f) /\ f # 0
    BY EmptyHas DEF M!VoiceInit, Over, M!Folders
  <1>4. NoRecord(rec_in) /\ OneRecord(rec_in, folder, phase)
    BY EmptyHas, RecordsAre DEF M!VoiceInit
  <1>5. TapeInv
    BY <1>3, <1>4 DEF M!VoiceInit, TapeInv
  <1>6. QED
    BY <1>2, <1>5

-----------------------------------------------------------------------------
\* Each timer is of a call that ended: the microphone was let go as often as
\* timers sleep, reports of it are unread, and one is still to be made
Falls(s) == {i \in DOMAIN s : s[i].type = "mic" /\ s[i].folder # 1}

CallsInv ==
  /\ heard \in BOOLEAN /\ talk \in BOOLEAN /\ timers \in Nat /\ talks \in Nat /\ talks <= MaxCalls
  /\ timers + Cardinality(Falls(rec_out)) <= talks
  /\ heard /\ ~talk => timers + Cardinality(Falls(rec_out)) < talks

LEMMA FallsFinite ==
  ASSUME NEW S, NEW s \in Seq(S)
  PROVE  IsFiniteSet(Falls(s)) /\ Cardinality(Falls(s)) \in Nat
  <1>1. IsFiniteSet(1 .. Len(s))
    BY FS_Interval
  <1>2. Falls(s) \in SUBSET (1 .. Len(s))
    BY DEF Falls
  <1>3. IsFiniteSet(Falls(s))
    BY <1>1, <1>2, FS_Subset
  <1>4. QED
    BY <1>3, FS_CardinalityType

LEMMA FallsJoin ==
  ASSUME NEW S, NEW s \in Seq(S), NEW l \in S
  PROVE  Cardinality(Falls(Append(s, l))) = Cardinality(Falls(s)) + (IF l.type = "mic" /\ l.folder # 1 THEN 1 ELSE 0)
  <1>0. PICK t : t = Append(s, l)
    OBVIOUS
  <1>1. PICK k \in Nat : k = Len(s)
    OBVIOUS
  <1>2. /\ DOMAIN s = 1 .. k /\ DOMAIN t = 1 .. k + 1 /\ t[k + 1] = l
        /\ \A i \in 1 .. k : i \in 1 .. k + 1 /\ t[i] = s[i]
        /\ \A i \in 1 .. k + 1 : i \in 1 .. k \/ i = k + 1
        /\ k + 1 \in 1 .. k + 1 /\ k + 1 \notin 1 .. k
    BY <1>0, <1>1
  <1>3. Falls(t) = IF l.type = "mic" /\ l.folder # 1 THEN Falls(s) \cup {k + 1} ELSE Falls(s)
    BY <1>2 DEF Falls
  <1>4. k + 1 \notin Falls(s)
    BY <1>2 DEF Falls
  <1>5. IsFiniteSet(Falls(s)) /\ Cardinality(Falls(s)) \in Nat
    BY FallsFinite
  <1>6. Cardinality(Falls(s) \cup {k + 1}) = Cardinality(Falls(s)) + 1
    BY <1>4, <1>5, FS_AddElement
  <1>7. QED
    BY <1>0, <1>3, <1>5, <1>6

LEMMA FallsLeave ==
  ASSUME NEW S, NEW s \in Seq(S), s # <<>>
  PROVE  LET h == Head(s) IN
         Cardinality(Falls(Tail(s))) + (IF h.type = "mic" /\ h.folder # 1 THEN 1 ELSE 0) <= Cardinality(Falls(s))
  <1>0. PICK k \in Nat : k = Len(s)
    OBVIOUS
  <1>1. PICK t, h : t = Tail(s) /\ h = Head(s)
    OBVIOUS
  <1>2. k # 0 /\ h = s[1] /\ t \in Seq(S) /\ Len(t) = k - 1 /\ \A i \in 1 .. k - 1 : t[i] = s[i + 1]
    BY <1>0, <1>1, EmptySeq, HeadTailProperties
  <1>3. DOMAIN s = 1 .. k /\ DOMAIN t = 1 .. k - 1 /\ 1 \in 1 .. k
    BY <1>0, <1>2
  <1> DEFINE rest == Falls(s) \ {1}
  <1>4. IsFiniteSet(Falls(s)) /\ Cardinality(Falls(s)) \in Nat
    BY FallsFinite
  <1>5. IsFiniteSet(rest) /\ Cardinality(rest) = IF 1 \in Falls(s) THEN Cardinality(Falls(s)) - 1 ELSE Cardinality(Falls(s))
    BY <1>4, FS_RemoveElement
  <1>6. Falls(t) = {i - 1 : i \in rest}
    <2>1. ASSUME NEW i \in Falls(t)
          PROVE  i + 1 \in rest /\ (i + 1) - 1 = i
      <3>1. i \in 1 .. k - 1 /\ t[i].type = "mic" /\ t[i].folder # 1
        BY <1>3, <2>1 DEF Falls
      <3>2. i + 1 \in 1 .. k /\ i + 1 # 1 /\ (i + 1) - 1 = i /\ t[i] = s[i + 1]
        BY <1>2, <3>1
      <3>3. QED
        BY <1>3, <3>1, <3>2 DEF Falls
    <2>2. ASSUME NEW i \in rest
          PROVE  i - 1 \in Falls(t)
      <3>1. i \in 1 .. k /\ i # 1 /\ s[i].type = "mic" /\ s[i].folder # 1
        BY <1>3 DEF Falls
      <3>2. i - 1 \in 1 .. k - 1 /\ (i - 1) + 1 = i
        BY <3>1
      <3>3. t[i - 1] = s[i]
        BY <1>2, <3>2
      <3>4. QED
        BY <1>3, <3>1, <3>2, <3>3 DEF Falls
    <2>3. QED
      BY <2>1, <2>2
  <1>7. Cardinality(Falls(t)) <= Cardinality(rest) /\ Cardinality(Falls(t)) \in Nat
    <2>1. [i \in rest |-> i - 1] \in Surjection(rest, Falls(t))
      BY <1>6 DEF Surjection
    <2>2. QED
      BY <1>2, <1>5, <2>1, FS_Surjection, FallsFinite DEF ExistsSurjection
  <1>8. h.type = "mic" /\ h.folder # 1 => 1 \in Falls(s)
    BY <1>2, <1>3 DEF Falls
  <1> HIDE DEF rest
  <1>9. Cardinality(rest) \in Nat
    BY <1>5, FS_CardinalityType
  <1>10. QED
    BY <1>1, <1>4, <1>5, <1>7, <1>8, <1>9

LEMMA CallsKept ==
  ASSUME MeetingBounds, MeetingTypes, CallsInv, [M!VoiceNext]_(M!voiceVars)
  PROVE  CallsInv'
  <1>1. PICK n \in Nat : n = Cardinality(Falls(rec_out))
    BY FallsFinite DEF MeetingTypes
  <1>2. /\ heard \in BOOLEAN /\ talk \in BOOLEAN /\ timers \in Nat /\ talks \in Nat /\ talks <= MaxCalls
        /\ timers + n <= talks /\ (heard /\ ~talk => timers + n < talks)
    BY <1>1 DEF CallsInv
  <1>3. ASSUME NEW k \in Nat, k = Cardinality(Falls(rec_out)'), heard' \in BOOLEAN, talk' \in BOOLEAN, timers' \in Nat,
               talks' \in Nat, talks' <= MaxCalls, timers' + k <= talks', heard' /\ ~talk' => timers' + k < talks'
        PROVE  CallsInv'
    BY <1>3 DEF CallsInv
  <1>4. ASSUME UNCHANGED <<talk, talks>>, heard' = heard \/ heard' = FALSE, timers' \in Nat, timers' <= timers,
               rec_out' \in Seq(Reports), NEW k \in Nat, k = Cardinality(Falls(rec_out')), k <= n
        PROVE  CallsInv'
    <2>1. timers' + k <= timers + n
      BY <1>2, <1>4
    <2>2. timers' + k <= talks /\ (timers + n < talks => timers' + k < talks)
      BY <1>2, <1>4, <2>1
    <2>3. heard' /\ ~talk' => heard /\ ~talk
      BY <1>2, <1>4
    <2>4. heard' \in BOOLEAN
      BY <1>2, <1>4
    <2>5. talks' <= MaxCalls /\ talk' \in BOOLEAN /\ talks' \in Nat /\ timers' + k <= talks'
      BY <1>2, <1>4, <2>2
    <2>6. heard' /\ ~talk' => timers' + k < talks'
      BY <1>2, <1>4, <2>2, <2>3
    <2>7. QED
      BY <1>3, <1>4, <2>4, <2>5, <2>6
  <1>5. ASSUME UNCHANGED <<talk, talks>>, heard' = heard \/ heard' = FALSE, timers' \in Nat, timers' <= timers,
               rec_out' = rec_out
        PROVE  CallsInv'
    <2>1. rec_out' \in Seq(Reports) /\ n = Cardinality(Falls(rec_out')) /\ n <= n
      BY <1>1, <1>5 DEF MeetingTypes
    <2>2. QED
      BY <1>4, <1>5, <2>1
  <1>6. ASSUME NEW y \in {"ready", "stopped", "transcript", "error"}, NEW f, M!Msg(y, f) \in Reports,
               rec_out' = Append(rec_out, M!Msg(y, f)), UNCHANGED <<talk, talks, heard, timers>>
        PROVE  CallsInv'
    <2>1. Cardinality(Falls(rec_out')) = n
      BY <1>1, <1>6, FallsJoin, MsgIs DEF MeetingTypes
    <2>2. rec_out' \in Seq(Reports)
      BY <1>6, AppendProperties DEF MeetingTypes
    <2>3. QED
      BY <1>2, <1>4, <1>6, <2>1, <2>2
  <1>7. CASE UNCHANGED M!voiceVars
    BY <1>2, <1>5, <1>7 DEF M!voiceVars, M!appSide, M!helperSide
  <1>8. CASE \/ M!StartCommand \/ M!StartShown \/ M!Pause \/ M!StopCommand
             \/ M!HelperCrashes \/ M!Down \/ M!Apply
             \/ \E f \in M!Folders : M!Delete(f) \/ M!SaveEnds(f)
    <2>1. UNCHANGED <<talk, talks, timers, rec_out>> /\ (heard' = heard \/ heard' = FALSE)
      BY <1>8 DEF M!StartCommand, M!StartShown, M!Pause, M!StopCommand, M!HelperCrashes, M!Down, M!Apply, M!Delete,
                  M!SaveEnds, M!appSide, M!helperSide, M!Gone
    <2>2. timers' \in Nat /\ timers' <= timers
      BY <1>2, <2>1
    <2>3. QED
      BY <1>5, <2>1, <2>2
  <1>9. CASE M!TimerFires
    BY <1>2, <1>5, <1>9 DEF M!TimerFires
  <1>10. CASE M!Restart
    <2>1. UNCHANGED <<talk, talks>> /\ heard' = FALSE /\ timers' = 0 /\ rec_out' = <<>>
      BY <1>10 DEF M!Restart, M!Gone
    <2>2. Falls(<<>>) = {}
      BY DEF Falls
    <2>3. Cardinality(Falls(rec_out')) = 0 /\ rec_out' \in Seq(Reports)
      BY <2>1, <2>2, FS_EmptySet
    <2>4. 0 \in Nat /\ 0 <= timers /\ 0 <= n
      BY <1>2
    <2>5. timers' \in Nat /\ timers' <= timers
      BY <2>1, <2>4
    <2>6. QED
      BY <1>4, <2>1, <2>3, <2>4, <2>5
  <1>11. CASE M!ReadLine
    <2>1. PICK h : h = Head(rec_out)
      OBVIOUS
    <2>2. PICK k \in Nat : k = Cardinality(Falls(rec_out'))
      BY <1>11, HeadTailProperties, FallsFinite DEF M!ReadLine, MeetingTypes
    <2>3. rec_out' \in Seq(Reports) /\ h \in Reports /\ k + (IF h.type = "mic" /\ h.folder # 1 THEN 1 ELSE 0) <= n
      BY <1>1, <1>11, <2>1, <2>2, HeadTailProperties, FallsLeave DEF M!ReadLine, MeetingTypes
    <2>4. UNCHANGED <<talk, talks, heard>>
      BY <1>11 DEF M!ReadLine
    <2>5. CASE h.type = "mic"
      <3>1. timers' = timers \/ (h.folder # 1 /\ timers' = timers + 1)
        BY <1>11, <2>1, <2>5, MicIs DEF M!ReadLine
      <3>2. timers' \in Nat /\ timers' + k <= timers + n
        <4>1. k <= n /\ (h.folder # 1 => k + 1 <= n)
          BY <2>3, <2>5
        <4>2. CASE timers' = timers
          BY <1>2, <4>1, <4>2
        <4>3. CASE h.folder # 1 /\ timers' = timers + 1
          BY <1>2, <4>1, <4>3
        <4>4. QED
          BY <3>1, <4>2, <4>3
      <3>3. timers' + k <= talks /\ (timers + n < talks => timers' + k < talks)
        <4>1. k \in Nat /\ k <= n /\ (h.folder # 1 => k + 1 <= n)
          BY <2>2, <2>3, <2>5
        <4>2. CASE timers' = timers
          <5>1. timers + k <= talks /\ (timers + n < talks => timers + k < talks)
            BY <1>2, <4>1
          <5>2. QED
            BY <4>2, <5>1
        <4>3. CASE h.folder # 1 /\ timers' = timers + 1
          <5>1. timers + 1 + k <= talks /\ (timers + n < talks => timers + 1 + k < talks)
            BY <1>2, <4>1, <4>3
          <5>2. QED
            BY <4>3, <5>1
        <4>4. QED
          BY <3>1, <4>2, <4>3
      <3>4. /\ heard' \in BOOLEAN /\ talk' \in BOOLEAN /\ talks' \in Nat /\ talks' <= MaxCalls /\ timers' + k <= talks'
            /\ heard' /\ ~talk' => timers' + k < talks'
        BY <1>2, <2>4, <3>3
      <3>5. QED
        BY <1>3, <2>2, <3>2, <3>4
    <2>6. CASE h.type # "mic"
      <3>1. timers' = timers
        BY <1>11, <2>1, <2>3, <2>6 DEF M!ReadLine, Reports, M!LineReady, M!LineStopped, M!LineTranscript, M!LineError
      <3>2. QED
        BY <1>2, <1>4, <2>2, <2>3, <2>4, <2>6, <3>1
    <2>7. QED
      BY <2>5, <2>6
  <1>12. CASE M!Spawn
    BY <1>6, <1>12, LineTypes DEF M!Spawn, M!appSide
  <1>13. CASE M!Takes
    <2>1. UNCHANGED <<talk, talks, heard, timers>>
      BY <1>13 DEF M!Takes, M!appSide
    <2>2. PICK h : h = Head(rec_in)
      OBVIOUS
    <2>3. h \in Orders
      BY <1>13, <2>2, Leaves DEF M!Takes, MeetingTypes
    <2>4. CASE rec_out' = rec_out
      BY <1>2, <1>5, <2>1, <2>4
    <2>5. CASE rec_out' # rec_out
      <3>1. CASE h.type = "record"
        <4>1. h.folder \in M!Folders
          BY <2>3, <3>1 DEF Orders, M!Folders, MeetingBounds
        <4>2. rec_out' = Append(rec_out, M!Msg("error", h.folder))
          BY <1>13, <2>2, <2>5, <3>1 DEF M!Takes
        <4>3. QED
          BY <1>6, <2>1, <4>1, <4>2, LineTypes
      <3>2. CASE h.type = "stop"
        <4>1. tape # 0 /\ rec_out' = Append(rec_out, M!Msg("stopped", tape))
          BY <1>13, <2>2, <2>5, <3>2 DEF M!Takes
        <4>2. tape \in M!Folders
          BY <4>1 DEF MeetingTypes, M!Folders, MeetingBounds
        <4>3. QED
          BY <1>6, <2>1, <4>1, <4>2, LineTypes
      <3>3. CASE h.type = "transcribe"
        BY <1>13, <2>2, <2>5, <3>3 DEF M!Takes
      <3>4. QED
        BY <2>3, <3>1, <3>2, <3>3 DEF Orders
    <2>6. QED
      BY <2>4, <2>5
  <1>14. CASE M!Transcribes
    <2>1. UNCHANGED <<talk, talks, heard, timers>>
      BY <1>14 DEF M!Transcribes, M!appSide
    <2>2. PICK f \in M!Folders, y \in {"transcript", "error"} : rec_out' = Append(rec_out, M!Msg(y, f))
      BY <1>14, JobsAre DEF M!Transcribes, MeetingTypes
    <2>3. QED
      BY <1>6, <2>1, <2>2, LineTypes
  <1>15. CASE M!CallChanges
    <2>1. talks' = talks + 1 /\ talks < MaxCalls /\ talk' = ~talk /\ UNCHANGED <<rec_out, heard, timers>>
      BY <1>15 DEF M!CallChanges, M!appSide
    <2>2. Cardinality(Falls(rec_out)') = n
      BY <1>1, <2>1
    <2>3. talk' \in BOOLEAN /\ talks' \in Nat /\ talks' <= MaxCalls
      BY <1>2, <2>1 DEF MeetingBounds
    <2>4. timers + n <= talks + 1 /\ timers + n < talks + 1
      BY <1>2
    <2>5. QED
      BY <1>2, <1>3, <2>1, <2>2, <2>3, <2>4
  <1>16. CASE M!pollMicrophone
    <2>1. /\ heard # talk /\ heard' = talk /\ UNCHANGED <<talk, talks, timers>>
          /\ rec_out' = Append(rec_out, M!Msg("mic", IF talk THEN 1 ELSE 0))
      BY <1>16 DEF M!pollMicrophone, M!appSide
    <2>2. CASE talk
      <3>1. PICK m \in Reports : m = M!Msg("mic", 1)
        BY LineTypes
      <3>2. rec_out' = Append(rec_out, m) /\ m.folder = 1
        BY <2>1, <2>2, <3>1, MsgIs
      <3>3. Cardinality(Falls(rec_out')) = n
        BY <1>1, <3>1, <3>2, FallsJoin DEF MeetingTypes
      <3>4. QED
        BY <1>2, <1>3, <2>1, <2>2, <3>3
    <2>3. CASE ~talk
      <3>1. PICK m \in Reports : m = M!Msg("mic", 0)
        BY LineTypes
      <3>2. rec_out' = Append(rec_out, m) /\ m.folder = 0 /\ m.type = "mic"
        BY <2>1, <2>3, <3>1, MsgIs
      <3>3. Cardinality(Falls(rec_out')) = n + 1
        BY <1>1, <3>1, <3>2, FallsJoin DEF MeetingTypes
      <3>4. heard
        BY <1>2, <2>1, <2>3
      <3>5. timers + (n + 1) <= talks
        BY <1>2, <2>3, <3>4
      <3>6. QED
        BY <1>2, <1>3, <2>1, <2>3, <3>3, <3>5
    <2>4. QED
      BY <2>2, <2>3
  <1>17. QED
    BY <1>7, <1>8, <1>9, <1>10, <1>11, <1>12, <1>13, <1>14, <1>15, <1>16 DEF M!VoiceNext

LEMMA CallsInitially ==
  ASSUME MeetingBounds, M!VoiceInit
  PROVE  CallsInv
  <1>1. Falls(rec_out) = {}
    BY DEF M!VoiceInit, Falls
  <1>2. Cardinality(Falls(rec_out)) = 0
    BY <1>1, FS_EmptySet
  <1>3. timers = 0 /\ talks = 0 /\ heard = FALSE /\ talk = FALSE /\ 0 <= MaxCalls
    BY DEF M!VoiceInit, MeetingBounds
  <1>4. heard \in BOOLEAN /\ talk \in BOOLEAN /\ ~heard
    BY <1>3
  <1>5. timers \in Nat /\ talks \in Nat /\ talks <= MaxCalls /\ timers + 0 <= talks
    BY <1>3
  <1>6. QED
    BY <1>2, <1>4, <1>5 DEF CallsInv

\* The status of a recording keeps its shape, and a folder is current exactly
\* while one is shown, for any number of recordings, crashes, restarts and calls,
\* recordings in use that are deleted and the feature switched off among them.
THEOREM MeetingsHaveShape ==
  ASSUME MeetingBounds
  PROVE  M!VoiceSpec => []M!VoiceTypeOK
  <1> DEFINE Inv == MeetingTypes /\ CallsInv
  <1>1. M!VoiceInit => Inv
    BY MeetingsInitially, CallsInitially
  <1>2. Inv /\ [M!VoiceNext]_(M!voiceVars) => Inv'
    BY MeetingsTyped, CallsKept
  <1>3. Inv => M!VoiceTypeOK
    <2>1. CallsInv /\ MeetingTypes => timers \in 0 .. MaxCalls
      <3>1. SUFFICES ASSUME CallsInv, MeetingTypes
                     PROVE  timers \in 0 .. MaxCalls
        OBVIOUS
      <3>2. PICK n \in Nat : n = Cardinality(Falls(rec_out))
        BY <3>1, FallsFinite DEF MeetingTypes
      <3>3. timers + n <= talks /\ timers \in Nat /\ talks \in Nat /\ talks <= MaxCalls /\ MaxCalls \in Nat
        BY <3>1, <3>2 DEF CallsInv, MeetingBounds
      <3>4. QED
        BY <3>3
    <2>2. QED
      BY <2>1 DEF MeetingTypes, M!VoiceTypeOK, M!Folders, M!Unfinished
  <1> HIDE DEF Inv
  <1>4. QED
    BY <1>1, <1>2, <1>3, PTL DEF M!VoiceSpec

\* Nobody is recorded unseen: once both sides have read what the other said, the
\* helper records only into the folder that is shown as being recorded, whatever
\* starts fail, crash and restart, while starts are not interrupted and neither
\* recordings in use are deleted nor the feature is switched off during one.
THEOREM NobodyUnseen ==
  ASSUME MeetingBounds, ~RecordingRaces
  PROVE  M!VoiceSpec => []M!TapeIsShown
  <1> DEFINE Inv == MeetingTypes /\ TapeInv
  <1>1. M!VoiceInit => Inv
    BY MeetingsInitially
  <1>2. Inv /\ [M!VoiceNext]_(M!voiceVars) => Inv'
    BY MeetingsTyped, TapeKept
  <1>3. Inv => M!TapeIsShown
    <2>1. ~StopFrom(<<>>, 1)
      BY DEF StopFrom
    <2>2. QED
      BY <2>1 DEF TapeInv, Kept, M!TapeIsShown, M!is_recording
  <1> HIDE DEF Inv
  <1>4. QED
    BY <1>1, <1>2, <1>3, PTL DEF M!VoiceSpec
=============================================================================
