----------------------------- MODULE ChatProofs -----------------------------
(***************************************************************************)
(* What Chat guarantees for any number of requests, permission cards and   *)
(* daemons, and a log of any length.                                       *)
(***************************************************************************)
EXTENDS Chat, FiniteSetTheorems, TLAPS

-----------------------------------------------------------------------------
(* What the instance is assumed to be *)

ChatBounds ==
  /\ IsFiniteSet(Prompts) /\ IsFiniteSet(Setters)
  /\ MaxLives \in Nat \ {0} /\ MaxAsks \in Nat /\ MaxSeq \in Nat /\ LogLimit \in Nat

-----------------------------------------------------------------------------
(* The invariant: types *)

Chats == [listed : BOOLEAN, closed : BOOLEAN, live : 0..MaxStarts, status : Statuses,
          session : BOOLEAN, title : Titles, titling : BOOLEAN, titler : BOOLEAN,
          asks : SUBSET (1..MaxAsks), nextAsk : Nat, cards : SUBSET (1..MaxAsks), seq : 0..MaxSeq,
          users : SUBSET (0..MaxSeq), replaying : BOOLEAN, hist : {"no", "part", "all"},
          stopping : BOOLEAN]

Infos == [session : BOOLEAN, title : Titles, seq : 0..MaxSeq]

\* A log's user messages are among its newest entries
LogKept(c) ==
  /\ \A n \in c.users : n <= c.seq
  /\ IsFiniteSet(c.users) /\ Cardinality(c.users) <= LogLimit

Steps == {"idle", "queued", "checked", "connecting", "adopting", "turn", "setting", "done"}
TaskStates == [at : Steps, tok : 0..MaxStarts]
AgentStates == [st : {"none", "starting", "loading", "up", "dying"},
                ready : BOOLEAN, cancelled : BOOLEAN]

TypesInv ==
  /\ chatUp \in 1..MaxLives /\ gen \in 0..MaxStarts
  /\ chat \in Chats /\ LogKept(chat) /\ chat.nextAsk # 0
  /\ tasks \in [Tasks -> TaskStates]
  /\ agents \in [Tokens -> AgentStates]
  /\ saves \subseteq Infos /\ saved \in Infos \cup {NoInfo}
  /\ seen \in 0..MaxSeq /\ seen <= chat.seq

-----------------------------------------------------------------------------
(* The invariant: tokens, and who has the agent that works on the chat *)

\* Every token was taken by a task, a stop or a close
Starters == {k \in Tasks : tasks[k].at \notin {"idle", "queued", "checked"}}
Bit(b) == IF b THEN 1 ELSE 0

TokensInv ==
  /\ gen <= Cardinality(Starters) + Bit(chat.stopping) + Bit(chat.closed)
  /\ chat.listed => ~chat.closed
  /\ chat.live <= gen
  /\ \A k \in Tasks : tasks[k].at \in {"connecting", "adopting", "turn", "setting"} =>
       tasks[k].tok \in 1..gen

\* Before the chat is created nothing is there
NothingYet ==
  At("create", "idle") =>
    /\ chat = NoChat /\ saves = {} /\ gen = 0 /\ seen = 0
    /\ \A k \in Tasks : At(k, "idle")
    /\ \A t \in Tokens : agents[t] = NoAgent

Active(t) == agents[t].st \in {"starting", "loading", "up"}
Handed(t) == \E k \in Tasks : tasks[k].at \in {"connecting", "adopting"} /\ tasks[k].tok = t

\* An agent at work is the chat's, or of the one task that is connecting
AgentsInv ==
  /\ \A j, k \in Connecting : j = k
  /\ Connecting # {} => chat.live = 0
  /\ \A t \in Tokens : Active(t) => chat.live = t \/ Handed(t)
  /\ \A t \in Tokens : agents[t].ready => agents[t].st \notin {"starting", "loading"}
  /\ \A k \in Tasks : At(k, "adopting") => agents[tasks[k].tok].st \notin {"starting", "loading"}
  /\ chat.live # 0 => agents[chat.live].st \notin {"starting", "loading"}
  /\ \A j, k \in Tasks :
       tasks[j].at \in {"turn", "setting"} /\ tasks[k].at \in {"connecting", "adopting"} =>
         tasks[j].tok # tasks[k].tok

ChatInv == TypesInv /\ TokensInv /\ NothingYet /\ AgentsInv

-----------------------------------------------------------------------------
(* The invariant: what a close leaves *)

ClosedInv ==
  /\ saves = {}
  /\ chat.closed =>
       /\ saved = NoInfo /\ chat.live = 0
       /\ \A k \in Tasks : tasks[k].at \notin {"checked", "adopting"}
       /\ \A k \in Tasks : At(k, "connecting") => tasks[k].tok < gen

-----------------------------------------------------------------------------
(* The invariant: the status *)

\* A connection that is handed over is one of a process
HandedInv ==
  /\ \A t \in Tokens : agents[t].ready => agents[t].st \in {"up", "dying"}
  /\ \A k \in Tasks : At(k, "adopting") => agents[tasks[k].tok].st \in {"up", "dying"}
  /\ chat.live # 0 => agents[chat.live].st \in {"up", "dying"}

TurnsInv == \A k \in Tasks : At(k, "turn") => k \in Prompts

SomeTurn == \E k \in Prompts : At(k, "turn")

\* A card is of the chat's agent, which waits for it in a turn or is ending
Attended ==
  /\ chat.live # 0
  /\ agents[chat.live].st = "up" => ~agents[chat.live].cancelled /\ Turns(chat.live) # {}

CardsInv == chat.asks # {} => Attended

StatusInv ==
  /\ \A k \in Tasks : tasks[k].at \in {"connecting", "adopting"} => is_current(tasks[k].tok)
  /\ CardsInv
  /\ chat.status = "needs" => chat.asks # {}
  /\ chat.status = "running" => SomeTurn \/ (chat.live # 0 /\ agents[chat.live].st = "dying")
  /\ chat.live = 0 /\ Connecting = {} =>
       chat.status = "disconnected" \/ (chat.status = "starting" /\ ~SomeTurn)
  /\ chat.status = "disconnected" => chat.live = 0

ServedInv == HandedInv /\ (chat.listed /\ ~chat.stopping => StatusInv)

-----------------------------------------------------------------------------
(* What the helpers do *)

LEMMA CountsAre ==
  ASSUME ChatBounds
  PROVE  /\ IsFiniteSet(Tasks) /\ Cardinality(Tasks) \in Nat
         /\ MaxStarts \in Nat /\ MaxStarts = Cardinality(Tasks) + 2
  <1>1. IsFiniteSet(Prompts \cup Setters)
    BY FS_Union DEF ChatBounds
  <1>2. IsFiniteSet({"create"})
    BY FS_Singleton
  <1>3. IsFiniteSet(Tasks)
    BY <1>1, <1>2, FS_Union DEF Tasks
  <1>4. QED
    BY <1>3, FS_CardinalityType DEF MaxStarts

\* What an event leaves of a chat
Kept(d, c) ==
  /\ d.listed = c.listed /\ d.closed = c.closed /\ d.live = c.live /\ d.session = c.session
  /\ d.title = c.title /\ d.titling = c.titling /\ d.titler = c.titler
  /\ d.nextAsk = c.nextAsk /\ d.replaying = c.replaying
  /\ d.hist = c.hist /\ d.stopping = c.stopping

LEMMA LaterIs ==
  ASSUME ChatBounds, NEW c \in Chats, NEW n \in Nat
  PROVE  Later(c, n) \in 0..MaxSeq /\ Later(c, n) >= c.seq
  BY DEF ChatBounds, Chats, Later

LEMMA EmitIs ==
  ASSUME ChatBounds, NEW c \in Chats, LogKept(c), NEW ev
  PROVE  /\ emit(c, ev) \in Chats /\ LogKept(emit(c, ev)) /\ Kept(emit(c, ev), c)
         /\ emit(c, ev).asks = c.asks /\ emit(c, ev).seq >= c.seq
         /\ emit(c, ev).status = StatusAfter(c, ev)
  <1> DEFINE d == emit(c, ev)
             us == {n \in IF ev = "user" THEN c.users \cup {c.seq} ELSE c.users : n + LogLimit > c.seq}
  <1>1. Later(c, 1) \in 0..MaxSeq /\ Later(c, 1) >= c.seq
    BY LaterIs
  <1>2. StatusAfter(c, ev) \in Statuses
    BY DEF StatusAfter, Chats, Statuses
  <1>3. c.seq \in 0..MaxSeq /\ c.users \in SUBSET (0..MaxSeq) /\ \A n \in c.users : n <= c.seq
    BY DEF Chats, LogKept
  <1>4. us \in SUBSET (0..MaxSeq) /\ \A n \in us : n <= c.seq /\ n + LogLimit > c.seq
    BY <1>3
  <1>5. IsFiniteSet(us) /\ Cardinality(us) <= LogLimit
    <2> DEFINE lo == c.seq - LogLimit + 1
               hi == c.seq
    <2>1. lo \in Int /\ hi \in Int /\ lo <= hi + 1 /\ hi - lo + 1 = LogLimit
      BY <1>3 DEF ChatBounds
    <2>2. us \subseteq lo..hi
      BY <1>3, <1>4 DEF ChatBounds
    <2> HIDE DEF us, lo, hi
    <2>3. /\ IsFiniteSet(lo..hi)
          /\ Cardinality(lo..hi) = IF lo > hi THEN 0 ELSE hi - lo + 1
      BY <2>1, FS_Interval
    <2>4. Cardinality(lo..hi) <= LogLimit
      BY <2>1, <2>3 DEF ChatBounds
    <2>5. IsFiniteSet(us) /\ Cardinality(us) <= Cardinality(lo..hi)
      BY <2>2, <2>3, FS_Subset
    <2>6. Cardinality(us) \in Nat /\ Cardinality(lo..hi) \in Nat
      BY <2>3, <2>5, FS_CardinalityType
    <2>7. QED
      BY <2>4, <2>5, <2>6 DEF ChatBounds
  <1> HIDE DEF us
  <1>6. d = [c EXCEPT !.status = StatusAfter(c, ev), !.seq = Later(c, 1), !.users = us,
                      !.cards = IF ev = "disconnected" THEN {} ELSE @]
    BY DEF emit, us
  <1> HIDE DEF d
  <1>7. d \in Chats /\ d.users = us /\ d.seq = Later(c, 1)
    BY <1>1, <1>2, <1>4, <1>6 DEF Chats
  <1>8. Kept(d, c) /\ d.asks = c.asks /\ d.status = StatusAfter(c, ev)
    BY <1>6 DEF Kept, Chats
  <1>9. LogKept(d)
    <2>1. \A n \in us : n <= Later(c, 1)
      BY <1>1, <1>3, <1>4
    <2>2. QED
      BY <2>1, <1>5, <1>7 DEF LogKept
  <1>10. QED
    BY <1>1, <1>7, <1>8, <1>9 DEF d

LEMMA SettleIs ==
  ASSUME ChatBounds, NEW c \in Chats, LogKept(c), NEW a
  PROVE  /\ settle(c, a) \in Chats /\ LogKept(settle(c, a)) /\ Kept(settle(c, a), c)
         /\ settle(c, a).asks = c.asks \ {a} /\ settle(c, a).seq >= c.seq
         /\ settle(c, a).status =
              IF c.asks \ {a} # {} THEN "needs"
              ELSE IF c.status = "needs" THEN "running" ELSE c.status
  <1> DEFINE b == [c EXCEPT !.asks = @ \ {a}, !.cards = @ \ {a}]
  <1>1. /\ b \in Chats /\ Kept(b, c) /\ b.asks = c.asks \ {a} /\ b.seq = c.seq
        /\ b.status = c.status /\ b.users = c.users
    BY DEF Chats, Kept
  <1>2. LogKept(b)
    BY <1>1 DEF LogKept
  <1>3. settle(c, a) = emit(b, "settled")
    BY DEF settle
  <1> HIDE DEF b
  <1>4. StatusAfter(b, "settled") =
          IF b.asks # {} THEN "needs" ELSE IF b.status = "needs" THEN "running" ELSE b.status
    <2>1. CASE b.asks # {}
      BY <2>1 DEF StatusAfter
    <2>2. CASE b.asks = {} /\ b.status = "needs"
      BY <2>2 DEF StatusAfter
    <2>3. CASE b.asks = {} /\ b.status # "needs"
      BY <2>3 DEF StatusAfter
    <2>4. QED
      BY <2>1, <2>2, <2>3
  <1>5. /\ emit(b, "settled") \in Chats /\ LogKept(emit(b, "settled")) /\ Kept(emit(b, "settled"), b)
        /\ emit(b, "settled").asks = b.asks /\ emit(b, "settled").seq >= b.seq
        /\ emit(b, "settled").status = StatusAfter(b, "settled")
    BY <1>1, <1>2, EmitIs
  <1>6. QED
    BY <1>1, <1>3, <1>4, <1>5 DEF Kept

LEMMA SettleAllIs ==
  ASSUME ChatBounds, NEW c \in Chats, LogKept(c)
  PROVE  /\ settle_all(c) \in Chats /\ LogKept(settle_all(c)) /\ Kept(settle_all(c), c)
         /\ settle_all(c).asks = {} /\ settle_all(c).seq >= c.seq
         /\ c.asks = {} => settle_all(c) = c
         /\ c.asks # {} => settle_all(c).status # "needs"
         /\ settle_all(c).status \in {c.status, "running"}
  <1>1. CASE c.asks = {}
    <2>1. settle_all(c) = c
      BY <1>1 DEF settle_all
    <2>2. Kept(c, c) /\ c.seq >= c.seq
      BY DEF Kept, Chats
    <2>3. QED
      BY <1>1, <2>1, <2>2
  <1>2. CASE c.asks # {}
    <2> DEFINE last == CHOOSE a \in c.asks : TRUE
               rest == c.asks \ {last}
               st == IF rest = {} THEN c.status ELSE "needs"
               most == [c EXCEPT !.asks = {last}, !.cards = @ \ rest,
                                 !.seq = Later(c, Cardinality(rest)), !.status = st]
    <2>1. last \in c.asks /\ c.asks \in SUBSET (1..MaxAsks)
      BY <1>2 DEF Chats
    <2>2. Cardinality(rest) \in Nat
      <3>1. IsFiniteSet(1..MaxAsks)
        BY FS_Interval DEF ChatBounds
      <3>2. rest \subseteq 1..MaxAsks
        BY <2>1
      <3>3. QED
        BY <3>1, <3>2, FS_Subset, FS_CardinalityType
    <2>3. settle_all(c) = settle(most, last)
      BY <1>2 DEF settle_all
    <2>4. st \in {c.status, "needs"} /\ (rest # {} => st = "needs")
      OBVIOUS
    <2>5. rest = {} \/ rest # {}
      OBVIOUS
    <2> HIDE DEF last, rest, st
    <2>6. Later(c, Cardinality(rest)) \in 0..MaxSeq /\ Later(c, Cardinality(rest)) >= c.seq
      BY <2>2, LaterIs
    <2>7. st \in Statuses
      BY <2>4 DEF Statuses, Chats
    <2>8. /\ most \in Chats /\ Kept(most, c) /\ most.asks = {last} /\ most.status = st
          /\ most.users = c.users /\ most.seq = Later(c, Cardinality(rest))
      BY <2>1, <2>6, <2>7 DEF Chats, Kept
    <2> HIDE DEF most
    <2>9. \A n \in c.users : n \in Nat /\ n <= c.seq /\ c.seq \in Nat
      BY DEF LogKept, Chats
    <2>10. \A n \in most.users : n <= most.seq
      BY <2>6, <2>8, <2>9
    <2>11. LogKept(most)
      BY <2>8, <2>10 DEF LogKept
    <2>12. /\ settle(most, last) \in Chats /\ LogKept(settle(most, last)) /\ Kept(settle(most, last), most)
           /\ settle(most, last).asks = most.asks \ {last} /\ settle(most, last).seq >= most.seq
           /\ settle(most, last).status =
                IF most.asks \ {last} # {} THEN "needs"
                ELSE IF most.status = "needs" THEN "running" ELSE most.status
      BY <2>8, <2>11, SettleIs
    <2>13. most.asks \ {last} = {}
      BY <2>8
    <2>14. settle(most, last).seq >= c.seq
      <3>1. settle(most, last).seq \in Int /\ most.seq \in Int /\ c.seq \in Int
        BY <2>8, <2>12 DEF Chats
      <3>2. QED
        BY <2>6, <2>8, <2>12, <3>1
    <2>15. Kept(settle(most, last), c)
      BY <2>8, <2>12 DEF Kept
    <2>16. /\ settle(most, last).status # "needs"
           /\ settle(most, last).status \in {c.status, "running"}
      <3>1. settle(most, last).status = IF st = "needs" THEN "running" ELSE st
        BY <2>8, <2>12, <2>13
      <3>2. QED
        BY <2>4, <3>1
    <2>17. QED
      BY <1>2, <2>3, <2>12, <2>13, <2>14, <2>15, <2>16
  <1>3. QED
    BY <1>1, <1>2

-----------------------------------------------------------------------------
(* What the steps have in common *)

\* Two chats with the same owner: an event does not change who is at work
SameOwner(d, c) ==
  d.listed = c.listed /\ d.closed = c.closed /\ d.live = c.live /\ d.stopping = c.stopping

\* A chat that may follow the one there is, with the owner of c
Follows(d, c) ==
  d \in Chats /\ LogKept(d) /\ d.nextAsk # 0 /\ d.seq >= chat.seq /\ SameOwner(d, c)

\* The files and what clients were sent are of their types
FilesInv ==
  /\ saves \subseteq Infos /\ saved \in Infos \cup {NoInfo}
  /\ seen \in 0..MaxSeq /\ seen <= chat.seq

LEMMA InfoIs ==
  ASSUME NEW c \in Chats
  PROVE  Info(c) \in Infos
  BY DEF Info, Infos, Chats

LEMMA BecomesIs ==
  ASSUME ChatBounds, TypesInv, NEW c \in Chats, c.seq >= chat.seq, c.closed = chat.closed, Becomes(c)
  PROVE  /\ chat' = c /\ FilesInv'
         /\ ~Racing => saves' = saves
         /\ c.closed => saves' = saves /\ saved' = saved
  <1>1. chat' = c
    BY DEF Becomes
  <1>2. seen' \in 0..MaxSeq /\ seen' <= c.seq
    BY DEF Becomes, TypesInv, Chats
  <1>3. /\ saves' \subseteq Infos /\ saved' \in Infos \cup {NoInfo}
        /\ ~Racing => saves' = saves
        /\ c.closed => saves' = saves /\ saved' = saved
    <2>1. CASE Changed(c)
      BY <2>1, InfoIs DEF Changed, TypesInv
    <2>2. CASE UNCHANGED <<saves, saved>>
      BY <2>2 DEF TypesInv
    <2>3. QED
      BY <2>1, <2>2 DEF Becomes
  <1>4. c.seq = chat'.seq
    BY <1>1
  <1>5. QED
    BY <1>1, <1>2, <1>3 DEF FilesInv

\* Once a task, an agent or the chat is there the chat was created
LEMMA Begun ==
  ASSUME TypesInv, NothingYet,
         \/ chat.listed \/ chat.closed \/ chat.titler \/ saves # {} \/ gen # 0
         \/ \E k \in Tasks : ~At(k, "idle")
         \/ \E t \in Tokens : agents[t].st # "none" \/ agents[t].ready
  PROVE  ~At("create", "idle")
  <1>1. NoChat.listed = FALSE /\ NoChat.closed = FALSE /\ NoChat.titler = FALSE
    BY DEF NoChat, NewChat
  <1>2. NoAgent.st = "none" /\ ~NoAgent.ready
    BY DEF NoAgent
  <1>3. QED
    BY <1>1, <1>2 DEF NothingYet

LEMMA StartersAre ==
  ASSUME ChatBounds, NEW S \in SUBSET Tasks, NEW T \in SUBSET Tasks
  PROVE  /\ Cardinality(S) \in Nat /\ Cardinality(S) <= Cardinality(Tasks)
         /\ S \subseteq T => Cardinality(S) <= Cardinality(T)
         /\ \A k \in Tasks \ S : Cardinality(S \cup {k}) = Cardinality(S) + 1
  <1>1. IsFiniteSet(Tasks)
    BY CountsAre
  <1>2. IsFiniteSet(S) /\ IsFiniteSet(T) /\ Cardinality(S) <= Cardinality(Tasks)
    BY <1>1, FS_Subset
  <1>3. S \subseteq T => Cardinality(S) <= Cardinality(T)
    BY <1>2, FS_Subset
  <1>4. \A k \in Tasks \ S : Cardinality(S \cup {k}) = Cardinality(S) + 1
    BY <1>2, FS_AddElement
  <1>5. QED
    BY <1>2, <1>3, <1>4, FS_CardinalityType

\* The tokens suffice
LEMMA TokensSuffice ==
  ASSUME ChatBounds, TypesInv, TokensInv
  PROVE  /\ gen \in Nat /\ MaxStarts \in Nat /\ Starters \subseteq Tasks
         /\ Cardinality(Starters) \in Nat /\ Cardinality(Starters) <= Cardinality(Tasks)
         /\ \A k \in Tasks \ Starters : ~chat.closed => gen + 1 \in Tokens
         /\ (~chat.stopping \/ ~chat.closed) => gen + 1 \in Tokens
  <1>1. Starters \subseteq Tasks
    BY DEF Starters
  <1>2. /\ Cardinality(Starters) \in Nat /\ Cardinality(Starters) <= Cardinality(Tasks)
        /\ \A k \in Tasks \ Starters : Cardinality(Starters) + 1 <= Cardinality(Tasks)
    <2>1. \A k \in Tasks \ Starters : Starters \cup {k} \subseteq Tasks
      BY <1>1
    <2>2. \A k \in Tasks \ Starters : Cardinality(Starters \cup {k}) <= Cardinality(Tasks)
      BY <2>1, StartersAre
    <2>3. QED
      BY <1>1, <2>2, StartersAre
  <1>3. gen <= Cardinality(Starters) + Bit(chat.stopping) + Bit(chat.closed)
    BY DEF TokensInv
  <1>4. /\ Bit(chat.stopping) \in {0, 1} /\ Bit(chat.closed) \in {0, 1}
        /\ ~chat.closed => Bit(chat.closed) = 0
        /\ ~chat.stopping => Bit(chat.stopping) = 0
    BY DEF Bit
  <1>5. gen \in Nat /\ MaxStarts \in Nat /\ MaxStarts = Cardinality(Tasks) + 2 /\ Cardinality(Tasks) \in Nat
    BY CountsAre DEF TypesInv
  <1>6. \A k \in Tasks \ Starters : ~chat.closed => gen + 1 <= MaxStarts
    BY <1>2, <1>3, <1>4, <1>5
  <1>7. (~chat.stopping \/ ~chat.closed) => gen + 1 <= MaxStarts
    BY <1>2, <1>3, <1>4, <1>5
  <1>8. QED
    BY <1>1, <1>2, <1>5, <1>6, <1>7 DEF Tokens

\* ... and name drivers
LEMMA TokensNamed ==
  ASSUME ChatBounds, TypesInv, TokensInv
  PROVE  /\ \A k \in Tasks : tasks[k].at \in {"connecting", "adopting", "turn", "setting"} =>
              tasks[k].tok \in Tokens /\ tasks[k].tok \in 0..MaxStarts
         /\ chat.live # 0 => chat.live \in Tokens
         /\ 1..gen \subseteq Tokens
  <1>1. gen \in 0..MaxStarts /\ MaxStarts \in Nat /\ chat.live \in 0..MaxStarts
    BY CountsAre DEF TypesInv, Chats
  <1>2. 1..gen \subseteq Tokens /\ Tokens \subseteq 0..MaxStarts
    BY <1>1 DEF Tokens
  <1>3. QED
    BY <1>1, <1>2 DEF TokensInv, Tokens

LEMMA TokensKept ==
  ASSUME ChatBounds, TypesInv, TokensInv, gen' = gen,
         chat.stopping => chat'.stopping, chat.closed => chat'.closed,
         chat'.stopping \in BOOLEAN, chat'.closed \in BOOLEAN,
         chat'.listed => ~chat'.closed, chat'.live <= gen,
         \A k \in Tasks : k \in Starters => k \in Starters',
         \A k \in Tasks : tasks'[k].at \in {"connecting", "adopting", "turn", "setting"} =>
           tasks'[k].tok \in 1..gen
  PROVE  TokensInv'
  <1>1. Starters \subseteq Tasks /\ Starters' \subseteq Tasks
    BY DEF Starters
  <1>2. /\ Cardinality(Starters) <= Cardinality(Starters')
        /\ Cardinality(Starters) \in Nat /\ Cardinality(Starters') \in Nat
    <2>1. Starters \subseteq Starters'
      BY <1>1
    <2>2. QED
      BY <1>1, <2>1, StartersAre
  <1>3. /\ Bit(chat.stopping) <= Bit(chat'.stopping) /\ Bit(chat.closed) <= Bit(chat'.closed)
        /\ Bit(chat.stopping) \in Nat /\ Bit(chat.closed) \in Nat
        /\ Bit(chat'.stopping) \in Nat /\ Bit(chat'.closed) \in Nat
    BY DEF Bit, TypesInv, Chats
  <1>4. gen <= Cardinality(Starters') + Bit(chat'.stopping) + Bit(chat'.closed)
    <2>1. gen <= Cardinality(Starters) + Bit(chat.stopping) + Bit(chat.closed) /\ gen \in Nat
      BY DEF TokensInv, TypesInv
    <2>2. QED
      BY <1>2, <1>3, <2>1
  <1>5. QED
    BY <1>4 DEF TokensInv

LEMMA GotoIs ==
  ASSUME TypesInv, NEW k \in Tasks, NEW step \in Steps, NEW tok \in 0..MaxStarts, Goto(k, step, tok)
  PROVE  /\ tasks' \in [Tasks -> TaskStates]
         /\ tasks'[k].at = step /\ tasks'[k].tok = tok
         /\ \A j \in Tasks : j # k => tasks'[j] = tasks[j]
  BY DEF Goto, TypesInv, TaskStates

\* A step that only adds to the chat
LEMMA OnlyChat ==
  ASSUME ChatBounds, ChatInv, Follows(chat', chat), FilesInv', ~At("create", "idle"),
         UNCHANGED <<chatUp, gen, tasks, agents>>
  PROVE  ChatInv'
  <1>1. SameOwner(chat', chat) /\ chat' \in Chats /\ LogKept(chat') /\ chat'.nextAsk # 0
    BY DEF Follows
  <1>2. TypesInv'
    BY <1>1 DEF TypesInv, FilesInv, ChatInv
  <1>3. TokensInv'
    BY <1>1 DEF TokensInv, Starters, SameOwner, ChatInv
  <1>4. NothingYet'
    BY DEF NothingYet, At
  <1>5. AgentsInv'
    BY <1>1 DEF AgentsInv, Connecting, At, Active, Handed, SameOwner, ChatInv
  <1>6. QED
    BY <1>2, <1>3, <1>4, <1>5 DEF ChatInv

\* What a task's new connection is good for, as far as the chat goes
LEMMA ConnectedIs ==
  ASSUME ChatBounds, TypesInv, NEW k \in Tasks, NEW t \in 0..MaxStarts, NEW c \in Chats, LogKept(c),
         c.seq >= chat.seq, c.closed = chat.closed, c.nextAsk # 0, Connected(k, t, c)
  PROVE  /\ \E at \in {"turn", "setting", "done"} :
              /\ k \in Prompts <=> at = "turn"
              /\ Goto(k, at, IF at = "done" THEN 0 ELSE t)
         /\ chat'.seq >= chat.seq
         /\ chat' \in Chats /\ LogKept(chat') /\ chat'.nextAsk # 0 /\ FilesInv'
         /\ SameOwner(chat', c) /\ chat'.asks = c.asks
         /\ chat'.status = IF k \in Prompts THEN "running" ELSE c.status
         /\ ~Racing => saves' = saves
         /\ c.closed => saves' = saves /\ saved' = saved
  <1> DEFINE named == /\ c.title = "none" /\ ~has_user_message(c) /\ ~c.titling
             begun == [c EXCEPT !.titling = @ \/ named, !.titler = @ \/ named]
  <1>1. /\ begun \in Chats /\ begun.users = c.users /\ begun.seq = c.seq /\ begun.nextAsk = c.nextAsk
        /\ SameOwner(begun, c) /\ begun.asks = c.asks /\ begun.closed = c.closed
    BY DEF Chats, SameOwner
  <1>2. LogKept(begun)
    BY <1>1 DEF LogKept
  <1>3. CASE k \in Prompts
    <2>1. Goto(k, "turn", t) /\ Becomes(emit(emit(begun, "start"), "user"))
      BY <1>3 DEF Connected
    <2> HIDE DEF begun
    <2> DEFINE b == emit(begun, "start")
               d == emit(b, "user")
    <2>2. /\ b \in Chats /\ LogKept(b) /\ Kept(b, begun) /\ b.asks = begun.asks /\ b.seq >= begun.seq
          /\ b.status = StatusAfter(begun, "start")
      BY <1>1, <1>2, EmitIs
    <2> HIDE DEF b
    <2>3. /\ d \in Chats /\ LogKept(d) /\ Kept(d, b) /\ d.asks = b.asks /\ d.seq >= b.seq
          /\ d.status = StatusAfter(b, "user")
      BY <2>2, EmitIs
    <2>4. d.status = "running"
      BY <2>2, <2>3 DEF StatusAfter
    <2>5. d.seq >= chat.seq
      <3>1. d.seq \in Int /\ b.seq \in Int /\ begun.seq \in Int /\ chat.seq \in Int
        BY <1>1, <2>2, <2>3 DEF Chats, TypesInv
      <3>2. QED
        BY <1>1, <2>2, <2>3, <3>1
    <2>6. SameOwner(d, c) /\ d.asks = c.asks /\ d.closed = c.closed /\ d.nextAsk = c.nextAsk
      BY <1>1, <2>2, <2>3 DEF Kept, SameOwner
    <2>7. Becomes(d)
      BY <2>1 DEF b, d
    <2> HIDE DEF d
    <2>8. /\ chat' = d /\ FilesInv'
          /\ ~Racing => saves' = saves
          /\ d.closed => saves' = saves /\ saved' = saved
      BY <2>3, <2>5, <2>6, <2>7, BecomesIs
    <2>9. QED
      BY <1>3, <2>1, <2>3, <2>4, <2>5, <2>6, <2>8 DEF FilesInv
  <1>4. CASE k \notin Prompts
    <2>1. (k = "create" /\ Goto(k, "done", 0)) \/ (k # "create" /\ Goto(k, "setting", t))
      BY <1>4 DEF Connected
    <2>2. Becomes(c)
      BY <1>4 DEF Connected
    <2>3. /\ chat' = c /\ FilesInv'
          /\ ~Racing => saves' = saves
          /\ c.closed => saves' = saves /\ saved' = saved
      BY <2>2, BecomesIs
    <2>4. \E at \in {"setting", "done"} : Goto(k, at, IF at = "done" THEN 0 ELSE t)
      BY <2>1
    <2>5. SameOwner(chat', c) /\ FilesInv'
      BY <2>3 DEF SameOwner, FilesInv
    <2>6. QED
      BY <1>4, <2>3, <2>4, <2>5
  <1>5. QED
    BY <1>3, <1>4

LEMMA ChatFollows ==
  ASSUME TypesInv
  PROVE  Follows(chat, chat)
  BY DEF Follows, SameOwner, TypesInv, Chats

LEMMA EmitFollows ==
  ASSUME ChatBounds, TypesInv, NEW c, NEW d, Follows(d, c), NEW ev
  PROVE  /\ Follows(emit(d, ev), c) /\ emit(d, ev).asks = d.asks
         /\ emit(d, ev).status = StatusAfter(d, ev) /\ Kept(emit(d, ev), d)
  <1>1. /\ emit(d, ev) \in Chats /\ LogKept(emit(d, ev)) /\ Kept(emit(d, ev), d)
        /\ emit(d, ev).asks = d.asks /\ emit(d, ev).seq >= d.seq
        /\ emit(d, ev).status = StatusAfter(d, ev)
    BY EmitIs DEF Follows
  <1>2. emit(d, ev).seq >= chat.seq
    BY <1>1 DEF Follows, Chats, TypesInv
  <1>3. QED
    BY <1>1, <1>2 DEF Follows, Kept, SameOwner

LEMMA SettleFollows ==
  ASSUME ChatBounds, TypesInv, NEW c, NEW d, Follows(d, c), NEW a
  PROVE  /\ Follows(settle(d, a), c) /\ settle(d, a).asks = d.asks \ {a}
         /\ settle(d, a).status =
              IF d.asks \ {a} # {} THEN "needs"
              ELSE IF d.status = "needs" THEN "running" ELSE d.status
  <1>1. /\ settle(d, a) \in Chats /\ LogKept(settle(d, a)) /\ Kept(settle(d, a), d)
        /\ settle(d, a).asks = d.asks \ {a} /\ settle(d, a).seq >= d.seq
        /\ settle(d, a).status =
             IF d.asks \ {a} # {} THEN "needs"
             ELSE IF d.status = "needs" THEN "running" ELSE d.status
    BY SettleIs DEF Follows
  <1>2. settle(d, a).seq >= chat.seq
    BY <1>1 DEF Follows, Chats, TypesInv
  <1>3. QED
    BY <1>1, <1>2 DEF Follows, Kept, SameOwner

LEMMA SettleAllFollows ==
  ASSUME ChatBounds, TypesInv, NEW c, NEW d, Follows(d, c)
  PROVE  /\ Follows(settle_all(d), c) /\ settle_all(d).asks = {}
         /\ d.asks = {} => settle_all(d) = d
         /\ d.asks # {} => settle_all(d).status # "needs"
         /\ settle_all(d).status \in {d.status, "running"}
  <1>1. /\ settle_all(d) \in Chats /\ LogKept(settle_all(d)) /\ Kept(settle_all(d), d)
        /\ settle_all(d).asks = {} /\ settle_all(d).seq >= d.seq
        /\ d.asks = {} => settle_all(d) = d
        /\ d.asks # {} => settle_all(d).status # "needs"
        /\ settle_all(d).status \in {d.status, "running"}
    BY SettleAllIs DEF Follows
  <1>2. settle_all(d).seq >= chat.seq
    BY <1>1 DEF Follows, Chats, TypesInv
  <1>3. QED
    BY <1>1, <1>2 DEF Follows, Kept, SameOwner

\* The chat goes on with the owner of c; a closed one is not saved again
Told(c) ==
  /\ Follows(chat', c) /\ FilesInv'
  /\ ~Racing => saves' = saves
  /\ chat.closed => saves' = saves /\ saved' = saved

\* ... and neither its cards nor its status changed
Quiet == chat'.asks = chat.asks /\ chat'.status = chat.status

LEMMA BecomesFollows ==
  ASSUME ChatBounds, TypesInv, NEW c, NEW d, Follows(d, c), c.closed = chat.closed, Becomes(d)
  PROVE  Told(c) /\ chat' = d
  <1>1. d.closed = chat.closed /\ d \in Chats /\ d.seq >= chat.seq
    BY DEF Follows, SameOwner
  <1>2. /\ chat' = d /\ FilesInv'
        /\ ~Racing => saves' = saves
        /\ chat.closed => saves' = saves /\ saved' = saved
    BY <1>1, BecomesIs
  <1>3. Follows(chat', c)
    BY <1>2 DEF Follows
  <1>4. QED
    BY <1>2, <1>3 DEF Told

LEMMA NothingFollows ==
  ASSUME TypesInv, UNCHANGED <<chat, saves, saved, seen>>
  PROVE  Told(chat) /\ Quiet
  BY ChatFollows DEF Told, FilesInv, TypesInv, Follows, Quiet

-----------------------------------------------------------------------------
(* What each step does to the chat *)

LEMMA QuietEvent ==
  ASSUME ChatBounds, TypesInv, NEW c, NEW d, Follows(d, c), NEW ev \in {"user", "options", "title", "chunk"}
  PROVE  /\ Follows(emit(d, ev), c) /\ emit(d, ev).asks = d.asks /\ emit(d, ev).status = d.status
         /\ Kept(emit(d, ev), d)
  <1>1. StatusAfter(d, ev) = d.status
    BY DEF StatusAfter
  <1>2. QED
    BY <1>1, EmitFollows

LEMMA ReplayIs ==
  ASSUME ChatBounds, TypesInv, NEW t \in Tokens, Replay(t)
  PROVE  Told(chat) /\ Quiet
  <1> DEFINE e == emit(chat, "user")
             d == [e EXCEPT !.hist = "part"]
  <1>1. Follows(e, chat) /\ e.asks = chat.asks /\ e.status = chat.status
    BY ChatFollows, QuietEvent
  <1>2. Becomes(d)
    BY DEF Replay
  <1> HIDE DEF e
  <1>3. Follows(d, chat) /\ d.asks = e.asks /\ d.status = e.status
    BY <1>1 DEF Follows, SameOwner, Chats, LogKept
  <1> HIDE DEF d
  <1>4. QED
    BY <1>1, <1>2, <1>3, BecomesFollows DEF Quiet

LEMMA UpdateIs ==
  ASSUME ChatBounds, TypesInv, NEW t \in Tokens, NEW ev \in session_updates, Update(t, ev)
  PROVE  Told(chat) /\ Quiet
  <1> DEFINE e == emit(chat, ev)
             d == [e EXCEPT !.title = "agent"]
  <1>1. Follows(e, chat) /\ e.asks = chat.asks /\ e.status = chat.status
    BY ChatFollows, QuietEvent DEF session_updates
  <1>2. Becomes(d) \/ Becomes(chat) \/ Becomes(e)
    BY DEF Update
  <1> HIDE DEF e
  <1>3. Follows(d, chat) /\ d.asks = e.asks /\ d.status = e.status
    BY <1>1 DEF Follows, SameOwner, Chats, LogKept, Titles
  <1> HIDE DEF d
  <1>4. QED
    BY <1>1, <1>2, <1>3, ChatFollows, BecomesFollows DEF Quiet

LEMMA AskIs ==
  ASSUME ChatBounds, TypesInv, NEW t \in Tokens, NEW o \in BOOLEAN, Ask(t, o)
  PROVE  /\ Told(chat)
         /\ Quiet \/ (chat'.asks # {} /\ chat'.status = "needs")
  <1> DEFINE a == chat.nextAsk
             c == [chat EXCEPT !.nextAsk = @ + 1]
             b == [c EXCEPT !.asks = @ \cup {a}, !.cards = @ \cup {a}]
             d == emit(b, "permission")
  <1>1. a \in 1..MaxAsks
    BY DEF Ask, TypesInv, Chats, ChatBounds
  <1>2. Follows(c, chat) /\ c.asks = chat.asks /\ c.status = chat.status
    BY ChatFollows DEF Follows, SameOwner, Chats, LogKept
  <1>3. Becomes(d) \/ Becomes(c)
    BY DEF Ask
  <1> HIDE DEF a, c
  <1>4. Follows(b, chat) /\ b.asks = c.asks \cup {a}
    BY <1>1, <1>2 DEF Follows, SameOwner, Chats, LogKept
  <1> HIDE DEF b
  <1>5. Follows(d, chat) /\ d.asks = b.asks /\ d.status = StatusAfter(b, "permission")
    BY <1>4, EmitFollows
  <1>6. d.status = "needs"
    BY <1>5 DEF StatusAfter
  <1> HIDE DEF d
  <1>7. QED
    BY <1>2, <1>3, <1>4, <1>5, <1>6, BecomesFollows DEF Quiet

LEMMA AnswerIs ==
  ASSUME ChatBounds, TypesInv, NEW a, Answer(a)
  PROVE  /\ Told(chat) /\ chat'.asks = chat.asks \ {a}
         /\ chat'.status = IF chat.asks \ {a} # {} THEN "needs"
                           ELSE IF chat.status = "needs" THEN "running" ELSE chat.status
  <1> DEFINE d == settle(chat, a)
  <1>1. /\ Follows(d, chat) /\ d.asks = chat.asks \ {a}
        /\ d.status = IF chat.asks \ {a} # {} THEN "needs"
                      ELSE IF chat.status = "needs" THEN "running" ELSE chat.status
    BY ChatFollows, SettleFollows
  <1>2. Becomes(d)
    BY DEF Answer
  <1> HIDE DEF d
  <1>3. QED
    BY <1>1, <1>2, BecomesFollows

LEMMA TitleDoneIs ==
  ASSUME ChatBounds, TypesInv, TitleDone
  PROVE  Told(chat) /\ Quiet
  <1> DEFINE c == [chat EXCEPT !.titler = FALSE]
             e == emit(c, "title")
             d == [e EXCEPT !.title = "model"]
  <1>1. Becomes(d) \/ Becomes(c)
    BY DEF TitleDone
  <1>2. Follows(c, chat) /\ c.asks = chat.asks /\ c.status = chat.status
    BY ChatFollows DEF Follows, SameOwner, Chats, LogKept
  <1> HIDE DEF c
  <1>3. Follows(e, chat) /\ e.asks = c.asks /\ e.status = c.status
    BY <1>2, QuietEvent
  <1> HIDE DEF e
  <1>4. Follows(d, chat) /\ d.asks = e.asks /\ d.status = e.status
    BY <1>3 DEF Follows, SameOwner, Chats, LogKept, Titles
  <1> HIDE DEF d
  <1>5. QED
    BY <1>1, <1>2, <1>3, <1>4, BecomesFollows DEF Quiet

LEMMA CancelIs ==
  ASSUME ChatBounds, TypesInv, Cancel
  PROVE  /\ Told(chat) /\ chat'.asks = {}
         /\ chat.asks = {} => Quiet
         /\ chat.asks # {} => chat'.status # "needs"
         /\ chat'.status \in {chat.status, "running"}
  <1> DEFINE d == settle_all(chat)
  <1>1. /\ Follows(d, chat) /\ d.asks = {} /\ d.status \in {chat.status, "running"}
        /\ chat.asks = {} => d = chat
        /\ chat.asks # {} => d.status # "needs"
    BY ChatFollows, SettleAllFollows
  <1>2. Becomes(d)
    BY DEF Cancel
  <1> HIDE DEF d
  <1>3. QED
    BY <1>1, <1>2, BecomesFollows DEF Quiet

LEMMA HandshakeDoneIs ==
  ASSUME ChatBounds, TypesInv, NEW t \in Tokens, HandshakeDone(t)
  PROVE  Told(chat) /\ Quiet
  <1> DEFINE l == [chat EXCEPT !.replaying = @ /\ agents[t].st # "loading",
                        !.hist = IF agents[t].st = "loading" /\ chat.replaying
                                 THEN @ ELSE "all"]
             d == emit(l, "options")
  <1>1. Becomes(d) \/ Becomes(l)
    BY DEF HandshakeDone
  <1>2. Follows(l, chat) /\ l.asks = chat.asks /\ l.status = chat.status
    BY ChatFollows DEF Follows, SameOwner, Chats, LogKept
  <1> HIDE DEF l
  <1>3. Follows(d, chat) /\ d.asks = l.asks /\ d.status = l.status
    BY <1>2, QuietEvent
  <1> HIDE DEF d
  <1>4. QED
    BY <1>1, <1>2, <1>3, BecomesFollows DEF Quiet

LEMMA AgentStepIs ==
  ASSUME ChatBounds, TypesInv, NEW t \in Tokens, LoadSession(t) \/ HandshakeDone(t) \/ AgentFails(t)
  PROVE  Told(chat) /\ Quiet
  <1>1. \A b \in BOOLEAN : LET d == [chat EXCEPT !.replaying = b]
                           IN  Follows(d, chat) /\ d.seq = chat.seq /\ d.asks = chat.asks /\ d.status = chat.status
    <2>1. Follows(chat, chat)
      BY ChatFollows
    <2> SUFFICES ASSUME NEW b \in BOOLEAN, NEW d, d = [chat EXCEPT !.replaying = b]
                 PROVE  Follows(d, chat) /\ d.seq = chat.seq /\ d.asks = chat.asks /\ d.status = chat.status
      OBVIOUS
    <2>2. QED
      BY <2>1 DEF Follows, SameOwner, Chats, LogKept
  <1>2. ASSUME NEW b \in BOOLEAN, chat' = [chat EXCEPT !.replaying = b], UNCHANGED <<saves, saved, seen>>
        PROVE  Told(chat) /\ Quiet
    <2> DEFINE d == [chat EXCEPT !.replaying = b]
    <2>1. Follows(d, chat) /\ d.seq = chat.seq /\ d.asks = chat.asks /\ d.status = chat.status
      BY <1>1
    <2>2. chat' = d
      BY <1>2
    <2> HIDE DEF d
    <2>3. QED
      BY <1>2, <2>1, <2>2 DEF Told, Quiet, FilesInv, TypesInv, Follows
  <1>3. CASE LoadSession(t)
    <2> DEFINE b == chat.seq > 0
    <2>1. chat' = [chat EXCEPT !.replaying = b] /\ UNCHANGED <<saves, saved, seen>>
      BY <1>3 DEF LoadSession
    <2>2. b \in BOOLEAN
      OBVIOUS
    <2> HIDE DEF b
    <2>3. QED
      BY <1>2, <2>1, <2>2
  <1>4. CASE HandshakeDone(t)
    BY <1>4, HandshakeDoneIs
  <1>5. CASE AgentFails(t)
    <2> DEFINE b == chat.replaying /\ agents[t].st # "loading"
    <2>1. chat' \in {chat, [chat EXCEPT !.replaying = b]} /\ UNCHANGED <<saves, saved, seen>>
      BY <1>5 DEF AgentFails
    <2>2. b \in BOOLEAN
      OBVIOUS
    <2> HIDE DEF b
    <2>3. CASE chat' = chat
      BY <2>1, <2>3, NothingFollows
    <2>4. CASE chat' = [chat EXCEPT !.replaying = b]
      BY <1>2, <2>1, <2>2, <2>4
    <2>5. QED
      BY <2>1, <2>3, <2>4
  <1>6. QED
    BY <1>3, <1>4, <1>5

\* A driver that was left takes its connection away
LEMMA GoneIs ==
  ASSUME ChatBounds, TypesInv, NEW c, Follows(c, c), c.closed = chat.closed, c.seq = chat.seq,
         Becomes(emit(settle_all(c), "disconnected"))
  PROVE  Told(c) /\ chat'.asks = {} /\ chat'.status = "disconnected"
  <1> DEFINE e == settle_all(c)
             d == emit(e, "disconnected")
  <1>1. Follows(e, c) /\ e.asks = {}
    BY SettleAllFollows
  <1>2. Becomes(d)
    OBVIOUS
  <1> HIDE DEF e
  <1>3. Follows(d, c) /\ d.asks = e.asks /\ d.status = StatusAfter(e, "disconnected")
    BY <1>1, EmitFollows
  <1>4. d.status = "disconnected"
    BY <1>3 DEF StatusAfter
  <1> HIDE DEF d
  <1>5. QED
    BY <1>1, <1>2, <1>3, <1>4, BecomesFollows

LEMMA EndedIs ==
  ASSUME ChatBounds, TypesInv, NEW t \in Tokens, Ended(t)
  PROVE  IF chat.live = t
         THEN /\ Told([chat EXCEPT !.live = 0])
              /\ chat'.asks = {} /\ chat'.status = "disconnected"
         ELSE UNCHANGED <<chat, saves, saved, seen>>
  <1>1. CASE chat.live = t
    <2> DEFINE c == [chat EXCEPT !.live = 0]
    <2>1. Becomes(emit(settle_all(c), "disconnected"))
      BY <1>1 DEF Ended
    <2>2. Follows(c, c) /\ c.closed = chat.closed /\ c.seq = chat.seq
      BY ChatFollows, CountsAre DEF Follows, SameOwner, Chats, LogKept
    <2> HIDE DEF c
    <2>3. Told(c) /\ chat'.asks = {} /\ chat'.status = "disconnected"
      BY <2>1, <2>2, GoneIs
    <2>4. QED
      BY <1>1, <2>3 DEF c
  <1>2. CASE chat.live # t
    BY <1>2 DEF Ended
  <1>3. QED
    BY <1>1, <1>2

LEMMA ConnectionFailsIs ==
  ASSUME ChatBounds, TypesInv, NEW k \in Tasks, ConnectionFails(k)
  PROVE  /\ Told(chat)
         /\ IF is_current(tasks[k].tok) THEN chat'.asks = {} /\ chat'.status = "disconnected"
            ELSE Quiet
  <1>1. CASE is_current(tasks[k].tok)
    <2>1. Becomes(emit(settle_all(chat), "disconnected"))
      BY <1>1 DEF ConnectionFails
    <2>2. Follows(chat, chat)
      BY ChatFollows
    <2>3. QED
      BY <1>1, <2>1, <2>2, GoneIs
  <1>2. CASE ~is_current(tasks[k].tok)
    BY <1>2, NothingFollows DEF ConnectionFails
  <1>3. QED
    BY <1>1, <1>2

LEMMA TurnEndsIs ==
  ASSUME ChatBounds, TypesInv, NEW k \in Tasks, TurnEnds(k)
  PROVE  /\ Told(chat) /\ chat'.asks = chat.asks
         /\ chat'.status = IF chat.status = "disconnected" THEN "disconnected" ELSE "idle"
  <1> DEFINE d == emit(chat, "end")
  <1>1. Follows(d, chat) /\ d.asks = chat.asks /\ d.status = StatusAfter(chat, "end")
    BY ChatFollows, EmitFollows
  <1>2. StatusAfter(chat, "end") = IF chat.status = "disconnected" THEN "disconnected" ELSE "idle"
    BY DEF StatusAfter
  <1>3. Becomes(d)
    BY DEF TurnEnds
  <1> HIDE DEF d
  <1>4. QED
    BY <1>1, <1>2, <1>3, BecomesFollows

LEMMA TurnFailsIs ==
  ASSUME ChatBounds, TypesInv, NEW k \in Tasks, TurnFails(k)
  PROVE  /\ Told(chat) /\ chat'.asks = chat.asks
         /\ chat'.status = IF chat.status = "disconnected" THEN "disconnected" ELSE "idle"
  <1> DEFINE e == emit(chat, "error")
             d == emit(e, "end")
  <1>1. /\ Follows(e, chat) /\ e.asks = chat.asks /\ e.status = StatusAfter(chat, "error")
    BY ChatFollows, EmitFollows
  <1>2. StatusAfter(chat, "error") = chat.status
    BY DEF StatusAfter
  <1>3. Becomes(d)
    BY DEF TurnFails
  <1> HIDE DEF e
  <1>4. Follows(d, chat) /\ d.asks = e.asks /\ d.status = StatusAfter(e, "end")
    BY <1>1, EmitFollows
  <1>5. StatusAfter(e, "end") = IF e.status = "disconnected" THEN "disconnected" ELSE "idle"
    BY DEF StatusAfter
  <1> HIDE DEF d
  <1>6. QED
    BY <1>1, <1>2, <1>3, <1>4, <1>5, BecomesFollows

LEMMA OptionSetIs ==
  ASSUME ChatBounds, TypesInv, NEW k \in Tasks, OptionSet(k)
  PROVE  Told(chat) /\ Quiet
  <1> DEFINE d == emit(chat, "options")
  <1>1. Follows(d, chat) /\ d.asks = chat.asks /\ d.status = chat.status
    BY ChatFollows, QuietEvent
  <1>2. Becomes(d) \/ UNCHANGED <<chat, saves, saved, seen>>
    BY DEF OptionSet
  <1> HIDE DEF d
  <1>3. QED
    BY <1>1, <1>2, BecomesFollows, NothingFollows DEF Quiet

LEMMA ConnectionStartIs ==
  ASSUME ChatBounds, TypesInv, NEW k \in Tasks, ConnectionStart(k)
  PROVE  Told(chat) /\ chat'.asks = chat.asks /\ chat'.status = "starting"
  <1> DEFINE d == [chat EXCEPT !.status = "starting"]
  <1>1. Follows(d, chat) /\ d.asks = chat.asks /\ d.status = "starting"
    BY ChatFollows DEF Follows, SameOwner, Chats, LogKept, Statuses
  <1>2. Becomes(d)
    BY DEF ConnectionStart
  <1> HIDE DEF d
  <1>3. QED
    BY <1>1, <1>2, BecomesFollows

\* How far a task has come with its connection
GoesOn(k, t) ==
  \E at \in {"turn", "setting", "done"} :
    /\ k \in Prompts <=> at = "turn"
    /\ Goto(k, at, IF at = "done" THEN 0 ELSE t)

LEMMA ConnectionCheckIs ==
  ASSUME ChatBounds, TypesInv, NEW k \in Tasks, ConnectionCheck(k)
  PROVE  \/ /\ chat.closed /\ Goto(k, "done", 0) /\ UNCHANGED <<chat, saves, saved, seen>>
         \/ /\ ~chat.closed /\ chat.live = 0 /\ Goto(k, "checked", 0)
            /\ UNCHANGED <<chat, saves, saved, seen>>
         \/ /\ ~chat.closed /\ chat.live # 0 /\ GoesOn(k, chat.live) /\ Told(chat)
            /\ chat'.asks = chat.asks
            /\ chat'.status = IF k \in Prompts THEN "running" ELSE chat.status
  <1>1. CASE ~chat.closed /\ chat.live # 0
    <2>1. Connected(k, chat.live, chat)
      BY <1>1 DEF ConnectionCheck
    <2>2. /\ chat.live \in 0..MaxStarts /\ chat \in Chats /\ LogKept(chat) /\ chat.seq >= chat.seq
          /\ chat.nextAsk # 0
      BY DEF TypesInv, Chats
    <2>3. /\ GoesOn(k, chat.live)
          /\ chat' \in Chats /\ LogKept(chat') /\ chat'.nextAsk # 0 /\ FilesInv'
          /\ SameOwner(chat', chat) /\ chat'.asks = chat.asks /\ chat'.seq >= chat.seq
          /\ chat'.status = IF k \in Prompts THEN "running" ELSE chat.status
          /\ ~Racing => saves' = saves
          /\ chat.closed => saves' = saves /\ saved' = saved
      BY <2>1, <2>2, ConnectedIs DEF GoesOn
    <2>4. QED
      BY <1>1, <2>3 DEF Told, Follows
  <1>2. CASE chat.closed \/ chat.live = 0
    BY <1>2 DEF ConnectionCheck
  <1>3. QED
    BY <1>1, <1>2

LEMMA AdoptIs ==
  ASSUME ChatBounds, TypesInv, NEW k \in Tasks, tasks[k].tok \in 0..MaxStarts, Adopt(k)
  PROVE  /\ GoesOn(k, tasks[k].tok) /\ Told([chat EXCEPT !.live = tasks[k].tok])
         /\ chat'.asks = chat.asks
         /\ chat'.status = IF k \in Prompts THEN "running" ELSE "idle"
  <1> DEFINE t == tasks[k].tok
             c == [chat EXCEPT !.live = t, !.session = TRUE, !.status = "idle"]
  <1>1. Connected(k, t, c)
    BY DEF Adopt
  <1>2. /\ c \in Chats /\ LogKept(c) /\ c.seq >= chat.seq /\ c.closed = chat.closed
        /\ c.nextAsk # 0 /\ c.asks = chat.asks /\ c.status = "idle"
        /\ SameOwner(c, [chat EXCEPT !.live = t])
    <2>1. "idle" \in Statuses /\ chat \in Chats /\ LogKept(chat) /\ chat.nextAsk # 0
      BY DEF TypesInv, Statuses
    <2>2. /\ c \in Chats /\ c.seq = chat.seq /\ c.users = chat.users /\ c.closed = chat.closed
          /\ c.nextAsk = chat.nextAsk /\ c.asks = chat.asks /\ c.status = "idle"
      BY <2>1 DEF Chats
    <2>3. SameOwner(c, [chat EXCEPT !.live = t])
      BY <2>1 DEF Chats, SameOwner
    <2> HIDE DEF c
    <2>4. LogKept(c) /\ c.seq >= chat.seq
      BY <2>1, <2>2 DEF LogKept, Chats
    <2>5. QED
      BY <2>1, <2>2, <2>3, <2>4
  <1> HIDE DEF c
  <1>3. /\ GoesOn(k, t)
        /\ chat' \in Chats /\ LogKept(chat') /\ chat'.nextAsk # 0 /\ FilesInv'
        /\ SameOwner(chat', c) /\ chat'.asks = c.asks /\ chat'.seq >= chat.seq
        /\ chat'.status = IF k \in Prompts THEN "running" ELSE c.status
        /\ ~Racing => saves' = saves
        /\ c.closed => saves' = saves /\ saved' = saved
    BY <1>1, <1>2, ConnectedIs DEF GoesOn
  <1>4. SameOwner(chat', [chat EXCEPT !.live = t])
    BY <1>2, <1>3 DEF SameOwner
  <1>5. QED
    BY <1>2, <1>3, <1>4 DEF Told, Follows

-----------------------------------------------------------------------------
(* ChatInv is inductive: the steps of the tasks *)

\* A task that goes on, without a new connection to look after
LEMMA TaskMoves ==
  ASSUME ChatBounds, ChatInv, Follows(chat', chat), FilesInv', UNCHANGED <<chatUp, gen>>,
         ~At("create", "idle"),
         agents' \in [Tokens -> AgentStates],
         \A t \in Tokens : agents'[t].st = agents[t].st /\ agents'[t].ready = agents[t].ready,
         NEW k \in Tasks, NEW at \in Steps \ {"idle", "connecting", "adopting"},
         NEW tok \in 0..MaxStarts, Goto(k, at, tok),
         k \in Starters => at \in {"turn", "setting", "done"},
         at = "checked" => Connecting = {} /\ chat.live = 0,
         at \in {"turn", "setting"} =>
           /\ tok \in 1..gen
           /\ \A j \in Tasks : tasks[j].at \in {"connecting", "adopting"} /\ j # k => tasks[j].tok # tok,
         tasks[k].at \in {"connecting", "adopting"} =>
           tasks[k].tok \in Tokens /\ ~Active(tasks[k].tok)
  PROVE  ChatInv'
  <1>1. TypesInv /\ TokensInv /\ AgentsInv
    BY DEF ChatInv
  <1>2. /\ tasks' \in [Tasks -> TaskStates] /\ tasks'[k].at = at /\ tasks'[k].tok = tok
        /\ \A j \in Tasks : j # k => tasks'[j] = tasks[j]
    BY <1>1, GotoIs
  <1>3. /\ SameOwner(chat', chat) /\ chat' \in Chats /\ LogKept(chat') /\ chat'.nextAsk # 0
    BY DEF Follows
  <1>4. TypesInv'
    BY <1>1, <1>2, <1>3 DEF TypesInv, FilesInv
  <1>5. TokensInv'
    <2>1. \A j \in Tasks : j \in Starters => j \in Starters'
      BY <1>2 DEF Starters
    <2>2. \A j \in Tasks : tasks'[j].at \in {"connecting", "adopting", "turn", "setting"} =>
            tasks'[j].tok \in 1..gen
      BY <1>1, <1>2 DEF TokensInv
    <2>3. /\ chat'.stopping = chat.stopping /\ chat'.closed = chat.closed
          /\ chat'.listed = chat.listed /\ chat'.live = chat.live
          /\ chat'.stopping \in BOOLEAN /\ chat'.closed \in BOOLEAN
      BY <1>3 DEF SameOwner, Chats
    <2>4. chat'.listed => ~chat'.closed /\ chat'.live <= gen
      BY <1>1, <2>3 DEF TokensInv
    <2>5. chat'.live <= gen
      BY <1>1, <2>3 DEF TokensInv
    <2>6. QED
      BY <1>1, <2>1, <2>2, <2>3, <2>4, <2>5, TokensKept
  <1>6. NothingYet'
    BY <1>2 DEF NothingYet, At, Tasks
  <1>7. AgentsInv'
    <2>1. chat'.live = chat.live
      BY <1>3 DEF SameOwner
    <2>2. \A j \in Connecting' : j \in Connecting \/ (j = k /\ at = "checked")
      BY <1>2 DEF Connecting
    <2>3. (\A i, j \in Connecting : i = j)'
      BY <1>1, <2>2 DEF AgentsInv
    <2>4. (Connecting # {} => chat.live = 0)'
      BY <1>1, <2>1, <2>2 DEF AgentsInv
    <2>5. \A t \in Tokens : Active(t)' => Active(t)
      BY DEF Active
    <2>6. \A t \in Tokens : Active(t) /\ Handed(t) => Handed(t)'
      BY <1>2 DEF Handed
    <2>7. (\A t \in Tokens : Active(t) => chat.live = t \/ Handed(t))'
      BY <1>1, <2>1, <2>5, <2>6 DEF AgentsInv
    <2>8. (\A t \in Tokens : agents[t].ready => agents[t].st \notin {"starting", "loading"})'
      BY <1>1 DEF AgentsInv
    <2>9. (\A j \in Tasks : At(j, "adopting") => agents[tasks[j].tok].st \notin {"starting", "loading"})'
      <3>1. \A j \in Tasks : At(j, "adopting")' => j # k /\ At(j, "adopting") /\ tasks[j].tok \in Tokens
        BY <1>1, <1>2, TokensNamed DEF At
      <3>2. QED
        BY <1>1, <1>2, <3>1 DEF AgentsInv
    <2>10. (chat.live # 0 => agents[chat.live].st \notin {"starting", "loading"})'
      <3>1. chat.live # 0 => chat.live \in Tokens
        BY <1>1 DEF TypesInv, Chats, Tokens
      <3>2. QED
        BY <1>1, <2>1, <3>1 DEF AgentsInv
    <2>11. (\A i, j \in Tasks :
              tasks[i].at \in {"turn", "setting"} /\ tasks[j].at \in {"connecting", "adopting"} =>
                tasks[i].tok # tasks[j].tok)'
      BY <1>1, <1>2 DEF AgentsInv
    <2>12. QED
      BY <2>3, <2>4, <2>7, <2>8, <2>9, <2>10, <2>11 DEF AgentsInv
  <1>8. QED
    BY <1>4, <1>5, <1>6, <1>7 DEF ChatInv

\* An agent that goes on, or ends
LEMMA AgentMoves ==
  ASSUME ChatBounds, ChatInv, Follows(chat', chat), FilesInv', UNCHANGED <<chatUp, gen, tasks>>,
         ~At("create", "idle"),
         agents' \in [Tokens -> AgentStates],
         \A t \in Tokens :
           /\ Active(t)' => Active(t)
           /\ agents'[t].st \in {"starting", "loading"} => agents[t].st \in {"starting", "loading"}
           /\ agents'[t].ready => agents'[t].st \notin {"starting", "loading"}
  PROVE  ChatInv'
  <1>1. TypesInv /\ TokensInv /\ AgentsInv
    BY DEF ChatInv
  <1>2. /\ SameOwner(chat', chat) /\ chat' \in Chats /\ LogKept(chat') /\ chat'.nextAsk # 0
    BY DEF Follows
  <1>3. TypesInv'
    BY <1>1, <1>2 DEF TypesInv, FilesInv
  <1>4. TokensInv'
    BY <1>1, <1>2 DEF TokensInv, Starters, SameOwner
  <1>5. NothingYet'
    BY DEF NothingYet, At
  <1>6. AgentsInv'
    <2>1. chat'.live = chat.live
      BY <1>2 DEF SameOwner
    <2>2. \A t \in Tokens : Active(t)' => chat'.live = t \/ Handed(t)'
      BY <1>1, <2>1 DEF AgentsInv, Handed
    <2>3. \A k \in Tasks : At(k, "adopting") => tasks[k].tok \in Tokens
      BY <1>1, TokensNamed DEF At
    <2>4. \A k \in Tasks : At(k, "adopting")' => agents'[tasks'[k].tok].st \notin {"starting", "loading"}
      BY <1>1, <2>3 DEF AgentsInv, At
    <2>5. chat.live # 0 => chat.live \in Tokens
      BY <1>1 DEF TypesInv, Chats, Tokens
    <2>6. chat'.live # 0 => agents'[chat'.live].st \notin {"starting", "loading"}
      BY <1>1, <2>1, <2>5 DEF AgentsInv
    <2>7. QED
      BY <1>1, <2>1, <2>2, <2>4, <2>6 DEF AgentsInv, Connecting, At
  <1>7. QED
    BY <1>3, <1>4, <1>5, <1>6 DEF ChatInv

LEMMA RequestKeeps ==
  ASSUME ChatBounds, ChatInv, NEW k \in Tasks, Request(k)
  PROVE  ChatInv'
  <1>1. TypesInv /\ NothingYet
    BY DEF ChatInv
  <1>2. Told(chat)
    BY <1>1, NothingFollows DEF Request
  <1>3. ~At("create", "idle")
    BY <1>1, Begun DEF Request, Serving
  <1>4. /\ Goto(k, "queued", 0) /\ tasks[k].at = "idle" /\ UNCHANGED <<chatUp, gen, agents>>
        /\ 0 \in 0..MaxStarts /\ "queued" \in Steps \ {"idle", "connecting", "adopting"}
    BY CountsAre DEF Request, At, Steps
  <1>5. k \notin Starters
    BY <1>4 DEF Starters
  <1>6. agents' \in [Tokens -> AgentStates]
    BY <1>1, <1>4 DEF TypesInv
  <1>7. QED
    BY <1>2, <1>3, <1>4, <1>5, <1>6, TaskMoves DEF Told

LEMMA ConnectionCheckKeeps ==
  ASSUME ChatBounds, ChatInv, NEW k \in Tasks, ConnectionCheck(k)
  PROVE  ChatInv'
  <1>1. TypesInv /\ NothingYet /\ TokensInv /\ AgentsInv
    BY DEF ChatInv
  <1>2. /\ tasks[k].at = "queued" /\ Connecting = {} /\ UNCHANGED <<chatUp, gen, agents>>
        /\ k \notin Starters
    BY DEF ConnectionCheck, At, Starters
  <1>3. ~At("create", "idle")
    BY <1>1, <1>2, Begun DEF At
  <1>4. agents' \in [Tokens -> AgentStates] /\ 0 \in 0..MaxStarts
    BY <1>1, <1>2, CountsAre DEF TypesInv
  <1>5. \A j \in Tasks : tasks[j].at \notin {"connecting", "adopting"}
    BY <1>2 DEF Connecting
  <1>6. CASE Goto(k, "done", 0) /\ UNCHANGED <<chat, saves, saved, seen>>
    <2>1. Told(chat)
      BY <1>1, <1>6, NothingFollows
    <2>2. "done" \in Steps \ {"idle", "connecting", "adopting"}
      BY DEF Steps
    <2>3. QED
      BY <1>2, <1>3, <1>4, <1>6, <2>1, <2>2, TaskMoves DEF Told
  <1>7. CASE chat.live = 0 /\ Goto(k, "checked", 0) /\ UNCHANGED <<chat, saves, saved, seen>>
    <2>1. Told(chat)
      BY <1>1, <1>7, NothingFollows
    <2>2. "checked" \in Steps \ {"idle", "connecting", "adopting"}
      BY DEF Steps
    <2>3. QED
      BY <1>2, <1>3, <1>4, <1>7, <2>1, <2>2, TaskMoves DEF Told
  <1>8. CASE ~chat.closed /\ chat.live # 0 /\ GoesOn(k, chat.live) /\ Told(chat)
    <2>1. PICK at \in {"turn", "setting", "done"} : Goto(k, at, IF at = "done" THEN 0 ELSE chat.live)
      BY <1>8 DEF GoesOn
    <2>2. at \in Steps \ {"idle", "connecting", "adopting"}
      BY DEF Steps
    <2>3. chat.live \in 1..gen /\ chat.live \in 0..MaxStarts
      BY <1>1, <1>8 DEF TokensInv, TypesInv, Chats
    <2>4. CASE at = "done"
      BY <1>2, <1>3, <1>4, <1>5, <1>8, <2>1, <2>2, <2>4, TaskMoves DEF Told
    <2>5. CASE at \in {"turn", "setting"}
      BY <1>2, <1>3, <1>4, <1>5, <1>8, <2>1, <2>2, <2>3, <2>5, TaskMoves DEF Told
    <2>6. QED
      BY <2>4, <2>5
  <1>9. QED
    BY <1>1, <1>6, <1>7, <1>8, ConnectionCheckIs

LEMMA ConnectionFailsKeeps ==
  ASSUME ChatBounds, ChatInv, NEW k \in Tasks, ConnectionFails(k)
  PROVE  ChatInv'
  <1>1. TypesInv /\ NothingYet /\ TokensInv
    BY DEF ChatInv
  <1>2. /\ tasks[k].at = "connecting" /\ agents[tasks[k].tok] = NoAgent /\ Goto(k, "done", 0)
        /\ UNCHANGED <<chatUp, gen, agents>>
    BY DEF ConnectionFails, At
  <1>3. ~At("create", "idle")
    BY <1>1, <1>2, Begun DEF At
  <1>4. agents' \in [Tokens -> AgentStates] /\ 0 \in 0..MaxStarts
    BY <1>1, <1>2, CountsAre DEF TypesInv
  <1>5. Told(chat)
    BY <1>1, ConnectionFailsIs
  <1>6. tasks[k].tok \in Tokens /\ ~Active(tasks[k].tok)
    BY <1>1, <1>2, TokensNamed DEF Active, NoAgent
  <1>7. "done" \in Steps \ {"idle", "connecting", "adopting"}
    BY DEF Steps
  <1>8. QED
    BY <1>2, <1>3, <1>4, <1>5, <1>6, <1>7, TaskMoves DEF Told

LEMMA TurnEndsKeeps ==
  ASSUME ChatBounds, ChatInv, NEW k \in Tasks, TurnEnds(k)
  PROVE  ChatInv'
  <1>1. TypesInv /\ NothingYet /\ TokensInv
    BY DEF ChatInv
  <1>2. /\ tasks[k].at = "turn" /\ Goto(k, "done", 0) /\ UNCHANGED <<chatUp, gen>>
        /\ agents' = [agents EXCEPT ![tasks[k].tok].cancelled = @ /\ Turns(tasks[k].tok) # {k}]
    BY DEF TurnEnds, At
  <1>3. ~At("create", "idle")
    BY <1>1, <1>2, Begun DEF At
  <1>4. agents' \in [Tokens -> AgentStates] /\ 0 \in 0..MaxStarts
    <2> DEFINE t == tasks[k].tok
               b == agents[t].cancelled /\ Turns(t) # {k}
    <2>1. b \in BOOLEAN
      OBVIOUS
    <2>2. agents' = [agents EXCEPT ![t].cancelled = b]
      BY <1>2
    <2> HIDE DEF b, t
    <2>3. agents \in [Tokens -> AgentStates]
      BY <1>1 DEF TypesInv
    <2>4. agents' = [agents EXCEPT ![t] = [agents[t] EXCEPT !.cancelled = b]]
      BY <2>2
    <2>5. \A a \in AgentStates : [a EXCEPT !.cancelled = b] \in AgentStates
      BY <2>1 DEF AgentStates
    <2>6. agents' \in [Tokens -> AgentStates]
      BY <2>3, <2>4, <2>5
    <2>7. QED
      BY <2>6, CountsAre
  <1>5. \A t \in Tokens : agents'[t].st = agents[t].st /\ agents'[t].ready = agents[t].ready
    BY <1>1, <1>2 DEF TypesInv, AgentStates
  <1>6. Told(chat)
    BY <1>1, TurnEndsIs
  <1>7. "done" \in Steps \ {"idle", "connecting", "adopting"}
    BY DEF Steps
  <1>8. QED
    BY <1>2, <1>3, <1>4, <1>5, <1>6, <1>7, TaskMoves DEF Told

LEMMA CallEndsKeeps ==
  ASSUME ChatBounds, ChatInv, NEW k \in Tasks, TurnFails(k) \/ OptionSet(k)
  PROVE  ChatInv'
  <1>1. TypesInv /\ NothingYet /\ TokensInv
    BY DEF ChatInv
  <1>2. /\ tasks[k].at \in {"turn", "setting"} /\ Goto(k, "done", 0)
        /\ UNCHANGED <<chatUp, gen, agents>>
    BY DEF TurnFails, OptionSet, At
  <1>3. ~At("create", "idle")
    BY <1>1, <1>2, Begun DEF At
  <1>4. agents' \in [Tokens -> AgentStates] /\ 0 \in 0..MaxStarts
    BY <1>1, <1>2, CountsAre DEF TypesInv
  <1>5. Told(chat)
    BY <1>1, TurnFailsIs, OptionSetIs
  <1>6. "done" \in Steps \ {"idle", "connecting", "adopting"}
    BY DEF Steps
  <1>7. QED
    BY <1>2, <1>3, <1>4, <1>5, <1>6, TaskMoves DEF Told

\* A start takes the next token; no other agent is at work
LEMMA ConnectionStartKeeps ==
  ASSUME ChatBounds, ChatInv, NEW k \in Tasks, ConnectionStart(k)
  PROVE  ChatInv'
  <1>1. TypesInv /\ NothingYet /\ TokensInv /\ AgentsInv
    BY DEF ChatInv
  <1>2. /\ tasks[k].at = "checked" /\ UNCHANGED chatUp /\ gen' = gen + 1
        /\ Goto(k, "connecting", gen + 1)
    BY DEF ConnectionStart, At
  <1>3. PICK st \in {"starting", "none"} :
          agents' = [agents EXCEPT ![gen + 1] = [NoAgent EXCEPT !.st = st]]
    BY DEF ConnectionStart
  <1>4. Told(chat)
    BY <1>1, ConnectionStartIs
  <1>5. /\ SameOwner(chat', chat) /\ chat' \in Chats /\ LogKept(chat') /\ chat'.nextAsk # 0 /\ FilesInv'
    BY <1>4 DEF Told, Follows
  <1>6. k \in Connecting /\ chat.live = 0 /\ k \notin Starters
    BY <1>1, <1>2 DEF Connecting, AgentsInv, Starters
  <1>7. \A j \in Tasks : j # k => tasks[j].at \notin {"checked", "connecting", "adopting"}
    BY <1>1, <1>6 DEF AgentsInv, Connecting
  <1>8. gen + 1 \in Tokens /\ gen \in Nat /\ MaxStarts \in Nat /\ gen + 1 \in 0..MaxStarts
    <2>1. CASE ~chat.closed
      BY <1>1, <1>6, <2>1, TokensSuffice DEF Tokens
    <2>2. CASE chat.closed
      \* a start of a closed chat: the token of the close is counted, and the task is not
      <3>1. /\ gen <= Cardinality(Starters) + Bit(chat.stopping) + Bit(chat.closed)
            /\ Starters \subseteq Tasks
        BY <1>1 DEF TokensInv, Starters
      <3>2. Cardinality(Starters) + 1 <= Cardinality(Tasks) /\ Cardinality(Starters) \in Nat
        <4>1. Starters \cup {k} \subseteq Tasks /\ k \in Tasks \ Starters
          BY <1>6, <3>1
        <4>2. QED
          BY <3>1, <4>1, StartersAre
      <3>3. Bit(chat.stopping) \in {0, 1} /\ Bit(chat.closed) \in {0, 1}
        BY DEF Bit
      <3>4. QED
        BY <1>1, <3>1, <3>2, <3>3, CountsAre DEF TypesInv, Tokens
    <2>3. QED
      BY <2>1, <2>2
  <1>9. /\ tasks' \in [Tasks -> TaskStates] /\ tasks'[k].at = "connecting" /\ tasks'[k].tok = gen + 1
        /\ \A j \in Tasks : j # k => tasks'[j] = tasks[j]
    BY <1>1, <1>2, <1>8, GotoIs DEF Steps
  <1>10. /\ agents' \in [Tokens -> AgentStates]
         /\ agents'[gen + 1].st = st /\ agents'[gen + 1].ready = FALSE
         /\ \A t \in Tokens : t # gen + 1 => agents'[t] = agents[t]
    BY <1>1, <1>3, <1>8 DEF TypesInv, AgentStates, NoAgent
  <1>11. TypesInv'
    BY <1>1, <1>2, <1>5, <1>8, <1>9, <1>10 DEF TypesInv, FilesInv
  <1>12. TokensInv'
    <2>1. Starters' = Starters \cup {k} /\ Starters \subseteq Tasks
      BY <1>9 DEF Starters
    <2>2. Cardinality(Starters') = Cardinality(Starters) + 1 /\ Cardinality(Starters) \in Nat
      BY <1>6, <2>1, StartersAre
    <2>3. chat'.stopping = chat.stopping /\ chat'.closed = chat.closed
      BY <1>5 DEF SameOwner
    <2>4. Bit(chat.stopping) \in {0, 1} /\ Bit(chat.closed) \in {0, 1}
      BY DEF Bit
    <2>5. gen <= Cardinality(Starters) + Bit(chat.stopping) + Bit(chat.closed)
      BY <1>1 DEF TokensInv
    <2>6. gen' <= Cardinality(Starters') + Bit(chat'.stopping) + Bit(chat'.closed)
      BY <1>2, <1>8, <2>2, <2>3, <2>4, <2>5
    <2>7. \A j \in Tasks : tasks'[j].at \in {"connecting", "adopting", "turn", "setting"} =>
            tasks'[j].tok \in 1..gen'
      BY <1>1, <1>2, <1>8, <1>9 DEF TokensInv
    <2>8. chat'.live <= gen' /\ (chat'.listed => ~chat'.closed)
      BY <1>1, <1>2, <1>5, <1>6, <1>8 DEF TokensInv, SameOwner
    <2>9. QED
      BY <2>6, <2>7, <2>8 DEF TokensInv
  <1>13. NothingYet'
    <2>1. ~At("create", "idle")
      BY <1>1, <1>2, Begun DEF At
    <2>2. QED
      BY <1>9, <2>1 DEF NothingYet, At, Tasks
  <1>14. AgentsInv'
    <2>1. chat'.live = 0
      BY <1>5, <1>6 DEF SameOwner
    <2>2. Connecting' = {k}
      BY <1>7, <1>9 DEF Connecting
    <2>3. \A t \in Tokens : Active(t)' => t = gen + 1
      <3>1. \A t \in Tokens : ~Active(t)
        <4>1. \A t \in Tokens : ~Handed(t)
          BY <1>2, <1>7 DEF Handed
        <4>2. \A t \in Tokens : chat.live # t
          BY <1>6, <1>8 DEF Tokens
        <4>3. QED
          BY <1>1, <4>1, <4>2 DEF AgentsInv
      <3>2. QED
        BY <1>10, <3>1 DEF Active
    <2>5. \A t \in Tokens : Active(t)' => Handed(t)'
      BY <1>9, <2>3 DEF Handed
    <2>6. \A t \in Tokens : agents'[t].ready => agents'[t].st \notin {"starting", "loading"}
      BY <1>1, <1>10 DEF AgentsInv
    <2>7. \A j \in Tasks : ~At(j, "adopting")'
      BY <1>7, <1>9 DEF At
    <2>8. \A i, j \in Tasks :
            tasks'[i].at \in {"turn", "setting"} /\ tasks'[j].at \in {"connecting", "adopting"} =>
              tasks'[i].tok # tasks'[j].tok
      <3>1. \A j \in Tasks : tasks'[j].at \in {"connecting", "adopting"} => tasks'[j].tok = gen + 1
        BY <1>7, <1>9
      <3>2. \A i \in Tasks : tasks'[i].at \in {"turn", "setting"} => tasks'[i].tok \in 1..gen
        BY <1>1, <1>9 DEF TokensInv
      <3>3. QED
        BY <1>8, <3>1, <3>2
    <2>9. QED
      BY <2>1, <2>2, <2>5, <2>6, <2>7, <2>8 DEF AgentsInv
  <1>15. QED
    BY <1>11, <1>12, <1>13, <1>14 DEF ChatInv

LEMMA AdoptCheckKeeps ==
  ASSUME ChatBounds, ChatInv, NEW k \in Tasks, AdoptCheck(k)
  PROVE  ChatInv'
  <1> DEFINE t == tasks[k].tok
  <1>1. TypesInv /\ NothingYet /\ TokensInv /\ AgentsInv
    BY DEF ChatInv
  <1>2. /\ tasks[k].at = "connecting" /\ agents[t].ready /\ UNCHANGED <<chatUp, chat, gen, saves, saved, seen>>
        /\ \/ /\ Goto(k, "adopting", t)
              /\ agents' = [agents EXCEPT ![t].ready = FALSE]
           \/ /\ Goto(k, "done", 0)
              /\ agents' = [agents EXCEPT ![t].ready = FALSE,
                                          ![t].st = IF @ = "up" THEN "dying" ELSE @]
    BY DEF AdoptCheck, At
  <1>3. t \in Tokens /\ t \in 1..gen /\ t \in 0..MaxStarts /\ 0 \in 0..MaxStarts
    BY <1>1, <1>2, TokensNamed, CountsAre DEF TokensInv
  <1>4. agents[t].st \notin {"starting", "loading"}
    BY <1>1, <1>2, <1>3 DEF AgentsInv
  <1>5. ~At("create", "idle")
    BY <1>1, <1>2, Begun DEF At
  <1>6. \E at \in {"adopting", "done"} :
          /\ tasks' \in [Tasks -> TaskStates] /\ tasks'[k].at = at
          /\ at = "adopting" => tasks'[k].tok = t
          /\ at = "done" => agents'[t].st # "up"
          /\ \A j \in Tasks : j # k => tasks'[j] = tasks[j]
          /\ agents' \in [Tokens -> AgentStates] /\ agents'[t].st \notin {"starting", "loading"}
          /\ agents'[t].ready = FALSE
          /\ \A u \in Tokens : u # t => agents'[u] = agents[u]
    <2>1. CASE /\ Goto(k, "adopting", t)
               /\ agents' = [agents EXCEPT ![t].ready = FALSE]
      <3>1. /\ tasks' \in [Tasks -> TaskStates] /\ tasks'[k].at = "adopting" /\ tasks'[k].tok = t
            /\ \A j \in Tasks : j # k => tasks'[j] = tasks[j]
        BY <1>1, <1>3, <2>1, GotoIs DEF Steps
      <3>2. /\ agents' \in [Tokens -> AgentStates] /\ agents'[t].st = agents[t].st
            /\ agents'[t].ready = FALSE /\ \A u \in Tokens : u # t => agents'[u] = agents[u]
        BY <1>1, <1>3, <2>1 DEF TypesInv, AgentStates
      <3>3. QED
        BY <1>4, <3>1, <3>2
    <2>2. CASE /\ Goto(k, "done", 0)
               /\ agents' = [agents EXCEPT ![t].ready = FALSE,
                                          ![t].st = IF @ = "up" THEN "dying" ELSE @]
      <3>1. /\ tasks' \in [Tasks -> TaskStates] /\ tasks'[k].at = "done"
            /\ \A j \in Tasks : j # k => tasks'[j] = tasks[j]
        BY <1>1, <1>3, <2>2, GotoIs DEF Steps
      <3>2. /\ agents' \in [Tokens -> AgentStates]
            /\ agents'[t].st = IF agents[t].st = "up" THEN "dying" ELSE agents[t].st
            /\ agents'[t].ready = FALSE /\ \A u \in Tokens : u # t => agents'[u] = agents[u]
        BY <1>1, <1>3, <2>2 DEF TypesInv, AgentStates
      <3>3. QED
        BY <1>4, <3>1, <3>2
    <2>3. QED
      BY <1>2, <2>1, <2>2
  <1> HIDE DEF t
  <1>7. PICK at \in {"adopting", "done"} :
          /\ tasks' \in [Tasks -> TaskStates] /\ tasks'[k].at = at
          /\ at = "adopting" => tasks'[k].tok = t
          /\ at = "done" => agents'[t].st # "up"
          /\ \A j \in Tasks : j # k => tasks'[j] = tasks[j]
          /\ agents' \in [Tokens -> AgentStates] /\ agents'[t].st \notin {"starting", "loading"}
          /\ agents'[t].ready = FALSE
          /\ \A u \in Tokens : u # t => agents'[u] = agents[u]
    BY <1>6
  <1>8. TypesInv'
    BY <1>1, <1>2, <1>7 DEF TypesInv
  <1>9. TokensInv'
    <2>1. \A j \in Tasks : j \in Starters => j \in Starters'
      BY <1>7 DEF Starters
    <2>2. \A j \in Tasks : tasks'[j].at \in {"connecting", "adopting", "turn", "setting"} =>
            tasks'[j].tok \in 1..gen
      BY <1>1, <1>3, <1>7 DEF TokensInv
    <2>3. /\ chat'.stopping \in BOOLEAN /\ chat'.closed \in BOOLEAN
          /\ chat'.listed => ~chat'.closed
          /\ chat'.live <= gen
      BY <1>1, <1>2, <1>8 DEF TokensInv, TypesInv, Chats
    <2>4. QED
      BY <1>1, <1>2, <2>1, <2>2, <2>3, TokensKept
  <1>10. NothingYet'
    BY <1>5, <1>7 DEF NothingYet, At, Tasks
  <1>11. AgentsInv'
    <2>1. Connecting' \subseteq Connecting /\ k \in Connecting
      BY <1>2, <1>7 DEF Connecting, t
    <2>2. chat'.live = 0 /\ \A u \in Tokens : chat.live # u
      BY <1>1, <1>2, <2>1, CountsAre DEF AgentsInv, Tokens
    <2>3. \A j \in Tasks : j # k => tasks[j].at \notin {"checked", "connecting", "adopting"}
      BY <1>1, <2>1 DEF AgentsInv, Connecting
    <2>4. \A u \in Tokens : Active(u)' => u = t
      <3>1. \A u \in Tokens : Active(u) => u = t
        <4>1. \A u \in Tokens : Handed(u) => u = t
          BY <2>3 DEF Handed, t
        <4>2. QED
          BY <1>1, <2>2, <4>1 DEF AgentsInv
      <3>2. QED
        BY <1>7, <3>1 DEF Active
    <2>5. \A u \in Tokens : Active(u)' => Handed(u)'
      <3>1. \A u \in Tokens : Active(u)' => u = t /\ at = "adopting"
        BY <1>7, <2>4 DEF Active
      <3>2. QED
        BY <1>7, <3>1 DEF Handed
    <2>6. \A u \in Tokens : agents'[u].ready => agents'[u].st \notin {"starting", "loading"}
      BY <1>1, <1>7 DEF AgentsInv
    <2>7. \A j \in Tasks : At(j, "adopting")' => agents'[tasks'[j].tok].st \notin {"starting", "loading"}
      BY <1>7, <2>3 DEF At
    <2>8. \A i, j \in Tasks :
            tasks'[i].at \in {"turn", "setting"} /\ tasks'[j].at \in {"connecting", "adopting"} =>
              tasks'[i].tok # tasks'[j].tok
      BY <1>1, <1>2, <1>7, <2>3 DEF AgentsInv, t
    <2>9. QED
      BY <1>1, <2>1, <2>2, <2>5, <2>6, <2>7, <2>8 DEF AgentsInv
  <1>12. QED
    BY <1>8, <1>9, <1>10, <1>11 DEF ChatInv

LEMMA AdoptKeeps ==
  ASSUME ChatBounds, ChatInv, NEW k \in Tasks, Adopt(k)
  PROVE  ChatInv'
  <1> DEFINE t == tasks[k].tok
  <1>1. TypesInv /\ NothingYet /\ TokensInv /\ AgentsInv
    BY DEF ChatInv
  <1>2. tasks[k].at = "adopting" /\ UNCHANGED <<chatUp, gen, agents>>
    BY DEF Adopt, At
  <1>3. t \in Tokens /\ t \in 1..gen /\ t \in 0..MaxStarts /\ 0 \in 0..MaxStarts
    BY <1>1, <1>2, TokensNamed, CountsAre DEF TokensInv
  <1>4. agents[t].st \notin {"starting", "loading"}
    BY <1>1, <1>2, <1>3 DEF AgentsInv, At
  <1>5. ~At("create", "idle")
    BY <1>1, <1>2, Begun DEF At
  <1>6. GoesOn(k, t) /\ Told([chat EXCEPT !.live = t])
    BY <1>1, <1>3, AdoptIs
  <1>7. /\ chat' \in Chats /\ LogKept(chat') /\ chat'.nextAsk # 0 /\ FilesInv'
        /\ chat'.live = t /\ chat'.listed = chat.listed /\ chat'.closed = chat.closed
        /\ chat'.stopping = chat.stopping
    BY <1>1, <1>6 DEF Told, Follows, SameOwner, TypesInv, Chats
  <1>8. PICK at \in {"turn", "setting", "done"} : Goto(k, at, IF at = "done" THEN 0 ELSE t)
    BY <1>6 DEF GoesOn
  <1> HIDE DEF t
  <1>9. /\ tasks' \in [Tasks -> TaskStates] /\ tasks'[k].at = at
        /\ at # "done" => tasks'[k].tok = t
        /\ \A j \in Tasks : j # k => tasks'[j] = tasks[j]
    <2>1. at \in Steps
      BY DEF Steps
    <2>2. (IF at = "done" THEN 0 ELSE t) \in 0..MaxStarts
      BY <1>3
    <2>3. QED
      BY <1>1, <1>8, <2>1, <2>2, GotoIs
  <1>10. TypesInv'
    BY <1>1, <1>2, <1>7, <1>9 DEF TypesInv, FilesInv
  <1>11. TokensInv'
    <2>1. \A j \in Tasks : j \in Starters => j \in Starters'
      BY <1>9 DEF Starters
    <2>2. \A j \in Tasks : tasks'[j].at \in {"connecting", "adopting", "turn", "setting"} =>
            tasks'[j].tok \in 1..gen
      BY <1>1, <1>3, <1>9 DEF TokensInv
    <2>3. /\ chat'.stopping \in BOOLEAN /\ chat'.closed \in BOOLEAN
          /\ chat'.listed => ~chat'.closed
          /\ chat'.live <= gen
      BY <1>1, <1>3, <1>7 DEF TokensInv, Chats
    <2>4. QED
      BY <1>1, <1>2, <1>7, <2>1, <2>2, <2>3, TokensKept
  <1>12. NothingYet'
    BY <1>5, <1>9 DEF NothingYet, At, Tasks
  <1>13. AgentsInv'
    <2>1. k \in Connecting
      BY <1>2 DEF Connecting
    <2>2. chat.live = 0 /\ \A u \in Tokens : chat.live # u
      BY <1>1, <2>1, CountsAre DEF AgentsInv, Tokens
    <2>3. \A j \in Tasks : tasks'[j].at \notin {"checked", "connecting", "adopting"}
      BY <1>1, <1>9, <2>1 DEF AgentsInv, Connecting
    <2>4. \A u \in Tokens : Active(u) => u = t
      <3>1. \A u \in Tokens : Handed(u) => u = t
        BY <1>1, <2>1 DEF Handed, AgentsInv, Connecting, t
      <3>2. QED
        BY <1>1, <2>2, <3>1 DEF AgentsInv
    <2>5. \A u \in Tokens : Active(u)' => chat'.live = u
      BY <1>2, <1>7, <2>4 DEF Active
    <2>6. \A u \in Tokens : agents'[u].ready => agents'[u].st \notin {"starting", "loading"}
      BY <1>1, <1>2 DEF AgentsInv
    <2>7. agents'[chat'.live].st \notin {"starting", "loading"}
      BY <1>2, <1>4, <1>7 DEF t
    <2>8. QED
      BY <2>3, <2>5, <2>6, <2>7 DEF AgentsInv, Connecting, At
  <1>14. QED
    BY <1>10, <1>11, <1>12, <1>13 DEF ChatInv

-----------------------------------------------------------------------------
(* ChatInv is inductive: the steps of the agents *)

LEMMA AgentStepKeeps ==
  ASSUME ChatBounds, ChatInv, NEW t \in Tokens, LoadSession(t) \/ HandshakeDone(t) \/ AgentFails(t)
  PROVE  ChatInv'
  <1>1. TypesInv /\ NothingYet /\ TokensInv /\ AgentsInv
    BY DEF ChatInv
  <1>2. agents[t].st \in {"starting", "loading", "up"} /\ UNCHANGED <<chatUp, gen, tasks>>
    BY DEF LoadSession, HandshakeDone, AgentFails
  <1>3. ~At("create", "idle")
    BY <1>1, <1>2, Begun
  <1>4. Told(chat)
    BY <1>1, AgentStepIs
  <1>5. /\ agents' \in [Tokens -> AgentStates]
        /\ \A u \in Tokens : u # t => agents'[u] = agents[u]
        /\ agents'[t].st \in {"loading", "up", "dying"}
        /\ agents'[t].st = "loading" => agents[t].st = "starting" /\ agents'[t].ready = agents[t].ready
    <2>1. CASE LoadSession(t)
      BY <1>1, <2>1 DEF LoadSession, TypesInv, AgentStates
    <2>2. CASE HandshakeDone(t)
      BY <1>1, <2>2 DEF HandshakeDone, TypesInv, AgentStates
    <2>3. CASE AgentFails(t)
      BY <1>1, <2>3 DEF AgentFails, TypesInv, AgentStates
    <2>4. QED
      BY <2>1, <2>2, <2>3
  <1>6. \A u \in Tokens :
          /\ Active(u)' => Active(u)
          /\ agents'[u].st \in {"starting", "loading"} => agents[u].st \in {"starting", "loading"}
          /\ agents'[u].ready => agents'[u].st \notin {"starting", "loading"}
    BY <1>1, <1>2, <1>5 DEF Active, AgentsInv
  <1>7. QED
    BY <1>2, <1>3, <1>4, <1>5, <1>6, AgentMoves DEF Told

LEMMA CancelKeeps ==
  ASSUME ChatBounds, ChatInv, Cancel
  PROVE  ChatInv'
  <1>1. TypesInv /\ NothingYet /\ AgentsInv
    BY DEF ChatInv
  <1>2. /\ chat.listed /\ UNCHANGED <<chatUp, gen, tasks>> /\ chat.live # 0
        /\ agents' = [agents EXCEPT ![chat.live].cancelled = TRUE]
    BY DEF Cancel, Serving
  <1>3. ~At("create", "idle")
    BY <1>1, <1>2, Begun
  <1>4. Told(chat)
    BY <1>1, CancelIs
  <1>5. /\ agents' \in [Tokens -> AgentStates]
        /\ \A u \in Tokens : agents'[u].st = agents[u].st /\ agents'[u].ready = agents[u].ready
    BY <1>1, <1>2 DEF TypesInv, AgentStates
  <1>6. \A u \in Tokens :
          /\ Active(u)' => Active(u)
          /\ agents'[u].st \in {"starting", "loading"} => agents[u].st \in {"starting", "loading"}
          /\ agents'[u].ready => agents'[u].st \notin {"starting", "loading"}
    BY <1>1, <1>5 DEF Active, AgentsInv
  <1>7. QED
    BY <1>2, <1>3, <1>4, <1>5, <1>6, AgentMoves DEF Told

LEMMA SaysKeeps ==
  ASSUME ChatBounds, ChatInv,
         \/ \E t \in Tokens : \/ Replay(t)
                              \/ \E ev \in session_updates : Update(t, ev)
                              \/ \E o \in BOOLEAN : Ask(t, o)
         \/ \E a \in 1..MaxAsks : Answer(a)
         \/ TitleDone
  PROVE  ChatInv'
  <1>1. TypesInv /\ NothingYet
    BY DEF ChatInv
  <1>2. /\ UNCHANGED <<chatUp, gen, tasks, agents>>
        /\ chat.listed \/ chat.titler \/ \E t \in Tokens : agents[t].st # "none"
    BY DEF Replay, Update, Ask, Answer, TitleDone, Serving
  <1>3. ~At("create", "idle")
    BY <1>1, <1>2, Begun
  <1>4. Told(chat)
    BY <1>1, ReplayIs, UpdateIs, AskIs, AnswerIs, TitleDoneIs
  <1>5. QED
    BY <1>2, <1>3, <1>4, OnlyChat DEF Told

LEMMA SaveKeeps ==
  ASSUME ChatBounds, ChatInv, NEW info \in saves, Save(info)
  PROVE  ChatInv'
  <1>1. TypesInv /\ NothingYet
    BY DEF ChatInv
  <1>2. /\ UNCHANGED <<chatUp, chat, gen, tasks, agents, seen>>
        /\ saves' = saves \ {info} /\ saved' = info
    BY DEF Save
  <1>3. ~At("create", "idle")
    BY <1>1, Begun
  <1>4. Follows(chat', chat)
    BY <1>1, <1>2, ChatFollows
  <1>5. FilesInv'
    BY <1>1, <1>2 DEF FilesInv, TypesInv
  <1>6. QED
    BY <1>2, <1>3, <1>4, <1>5, OnlyChat

LEMMA EndedKeeps ==
  ASSUME ChatBounds, ChatInv, NEW t \in Tokens, Ended(t)
  PROVE  ChatInv'
  <1>1. TypesInv /\ NothingYet /\ TokensInv /\ AgentsInv
    BY DEF ChatInv
  <1>2. /\ agents[t].st = "dying" /\ UNCHANGED <<chatUp, gen, tasks>>
        /\ agents' = [agents EXCEPT ![t] = [NoAgent EXCEPT !.ready = agents[t].ready]]
    BY DEF Ended
  <1>3. ~At("create", "idle")
    BY <1>1, <1>2, Begun
  <1>4. /\ agents' \in [Tokens -> AgentStates] /\ agents'[t].st = "none"
        /\ \A u \in Tokens : u # t => agents'[u] = agents[u]
    BY <1>1, <1>2 DEF TypesInv, AgentStates, NoAgent
  <1>5. /\ chat' \in Chats /\ LogKept(chat') /\ chat'.nextAsk # 0 /\ FilesInv'
        /\ chat'.live = IF chat.live = t THEN 0 ELSE chat.live
        /\ chat'.listed = chat.listed /\ chat'.closed = chat.closed /\ chat'.stopping = chat.stopping
    <2>1. CASE chat.live = t
      <3>1. Told([chat EXCEPT !.live = 0])
        BY <1>1, <2>1, EndedIs
      <3>2. QED
        BY <1>1, <2>1, <3>1 DEF Told, Follows, SameOwner, TypesInv, Chats
    <2>2. CASE chat.live # t
      <3>1. UNCHANGED <<chat, saves, saved, seen>>
        BY <1>1, <2>2, EndedIs
      <3>2. QED
        BY <1>1, <2>2, <3>1 DEF TypesInv, FilesInv
    <2>3. QED
      BY <2>1, <2>2
  <1>6. TypesInv'
    BY <1>1, <1>2, <1>4, <1>5 DEF TypesInv, FilesInv
  <1>7. TokensInv'
    <2>1. chat'.live <= gen
      BY <1>1, <1>5 DEF TokensInv, TypesInv
    <2>2. QED
      BY <1>1, <1>2, <1>5, <2>1 DEF TokensInv, Starters
  <1>8. NothingYet'
    BY <1>2, <1>3 DEF NothingYet, At
  <1>9. AgentsInv'
    <2>1. \A u \in Tokens : Active(u)' => u # t /\ Active(u)
      BY <1>4 DEF Active
    <2>2. \A u \in Tokens : Active(u)' => chat'.live = u \/ Handed(u)'
      BY <1>1, <1>2, <1>5, <2>1 DEF AgentsInv, Handed
    <2>3. \A u \in Tokens : agents'[u].ready => agents'[u].st \notin {"starting", "loading"}
      BY <1>1, <1>4 DEF AgentsInv
    <2>4. \A k \in Tasks : At(k, "adopting")' => agents'[tasks'[k].tok].st \notin {"starting", "loading"}
      <3>1. \A k \in Tasks : At(k, "adopting") => tasks[k].tok \in Tokens
        BY <1>1, TokensNamed DEF At
      <3>2. QED
        BY <1>1, <1>2, <1>4, <3>1 DEF AgentsInv, At
    <2>5. chat'.live # 0 => agents'[chat'.live].st \notin {"starting", "loading"}
      BY <1>1, <1>4, <1>5, TokensNamed DEF AgentsInv
    <2>6. Connecting' = Connecting /\ (Connecting # {} => chat'.live = 0)
      BY <1>1, <1>2, <1>5 DEF Connecting, AgentsInv
    <2>7. QED
      BY <1>1, <1>2, <2>2, <2>3, <2>4, <2>5, <2>6 DEF AgentsInv
  <1>10. QED
    BY <1>6, <1>7, <1>8, <1>9 DEF ChatInv

-----------------------------------------------------------------------------
(* ChatInv is inductive: the beginning and the ends of the chat *)

LEMMA NewChatIs ==
  ASSUME ChatBounds, NEW r \in BOOLEAN
  PROVE  /\ NewChat(r) \in Chats /\ LogKept(NewChat(r)) /\ NewChat(r).nextAsk = 1
         /\ NewChat(r).seq = 0 /\ NewChat(r).live = 0 /\ ~NewChat(r).closed /\ NewChat(r).listed
         /\ ~NewChat(r).stopping /\ NewChat(r).asks = {} /\ NewChat(r).status = "starting"
         /\ NoChat \in Chats /\ LogKept(NoChat) /\ NoChat.nextAsk = 1
         /\ NoChat.seq = 0 /\ NoChat.live = 0 /\ ~NoChat.closed /\ ~NoChat.listed /\ ~NoChat.stopping
  <1>1. IsFiniteSet({}) /\ Cardinality({}) = 0
    BY FS_EmptySet
  <1>2. NewChat(r) \in Chats /\ NewChat(FALSE) \in Chats
    BY CountsAre DEF NewChat, Chats, ChatBounds, Statuses, Titles
  <1>3. NoChat \in Chats
    BY <1>2 DEF NoChat, Chats
  <1>4. \A c \in Chats : c.users = {} => LogKept(c)
    BY <1>1 DEF LogKept, ChatBounds
  <1>5. NewChat(r).users = {} /\ NoChat.users = {}
    BY DEF NewChat, NoChat
  <1>6. QED
    BY <1>2, <1>3, <1>4, <1>5 DEF NewChat, NoChat

LEMMA NoChatIs ==
  ASSUME ChatBounds
  PROVE  /\ NoChat \in Chats /\ LogKept(NoChat) /\ NoChat.nextAsk = 1
         /\ NoChat.seq = 0 /\ NoChat.live = 0 /\ ~NoChat.closed /\ ~NoChat.listed /\ ~NoChat.stopping
  <1>1. FALSE \in BOOLEAN
    OBVIOUS
  <1>2. QED
    BY <1>1, NewChatIs

LEMMA CreateKeeps ==
  ASSUME ChatBounds, ChatInv, NEW r \in BOOLEAN, Create(r)
  PROVE  ChatInv'
  <1>1. TypesInv /\ NothingYet /\ TokensInv /\ AgentsInv
    BY DEF ChatInv
  <1>2. /\ At("create", "idle") /\ chat' = NewChat(r) /\ saved' = Info(NewChat(r))
        /\ Goto("create", "queued", 0) /\ UNCHANGED <<chatUp, gen, agents, saves, seen>>
    BY DEF Create
  <1>3. /\ chat = NoChat /\ saves = {} /\ gen = 0 /\ seen = 0
        /\ \A k \in Tasks : tasks[k].at = "idle"
        /\ \A t \in Tokens : agents[t] = NoAgent
    BY <1>1, <1>2 DEF NothingYet, At
  <1>4. /\ tasks' \in [Tasks -> TaskStates] /\ tasks'["create"].at = "queued"
        /\ \A j \in Tasks : j # "create" => tasks'[j] = tasks[j]
    <2>1. "create" \in Tasks /\ "queued" \in Steps /\ 0 \in 0..MaxStarts
      BY CountsAre DEF Tasks, Steps
    <2>2. QED
      BY <1>1, <1>2, <2>1, GotoIs
  <1>5. \A k \in Tasks : tasks'[k].at \in {"idle", "queued"}
    BY <1>3, <1>4
  <1>6. TypesInv'
    BY <1>1, <1>2, <1>3, <1>4, NewChatIs, InfoIs DEF TypesInv, ChatBounds
  <1>7. TokensInv'
    <2>1. chat'.live = 0 /\ ~chat'.closed /\ ~chat'.stopping
      BY <1>2, NewChatIs
    <2>2. Starters' = {}
      BY <1>5 DEF Starters
    <2>3. gen' = 0 /\ Cardinality(Starters') = 0 /\ Bit(chat'.stopping) = 0 /\ Bit(chat'.closed) = 0
      BY <1>2, <1>3, <2>1, <2>2, FS_EmptySet DEF Bit
    <2>4. QED
      BY <1>5, <2>1, <2>3 DEF TokensInv
  <1>8. NothingYet'
    BY <1>4 DEF NothingYet, At
  <1>9. AgentsInv'
    <2>1. \A t \in Tokens : agents'[t].st = "none" /\ ~agents'[t].ready
      BY <1>2, <1>3 DEF NoAgent
    <2>2. chat'.live = 0
      BY <1>2, NewChatIs
    <2>3. QED
      BY <1>5, <2>1, <2>2 DEF AgentsInv, Connecting, Active, At
  <1>10. QED
    BY <1>6, <1>7, <1>8, <1>9 DEF ChatInv

\* A stop and a close take a token and the connection
LEMMA SupersededKeeps ==
  ASSUME ChatBounds, ChatInv, Stop \/ Close
  PROVE  ChatInv'
  <1>1. TypesInv /\ NothingYet /\ TokensInv /\ AgentsInv
    BY DEF ChatInv
  <1>2. /\ chat.listed /\ gen' = gen + 1 /\ UNCHANGED <<chatUp, tasks, saves, seen>>
        /\ agents' = [t \in Tokens |-> IF t = chat.live /\ agents[t].st = "up"
                                       THEN [agents[t] EXCEPT !.st = "dying"] ELSE agents[t]]
        /\ saved' \in {saved, NoInfo}
    BY DEF Stop, Close, Serving
  <1>3. ~At("create", "idle")
    BY <1>1, <1>2, Begun
  <1>4. /\ chat' \in Chats /\ chat'.users = chat.users /\ chat'.seq = chat.seq
        /\ chat'.nextAsk = chat.nextAsk /\ chat'.live = 0
        /\ \/ ~chat.stopping /\ chat'.stopping /\ chat'.closed = chat.closed
           \/ ~chat.closed /\ chat'.closed /\ chat'.stopping = chat.stopping
        /\ chat'.listed => ~chat'.closed
    <2>1. chat \in Chats /\ 0 \in 0..MaxStarts /\ ~chat.closed
      BY <1>1, <1>2, CountsAre DEF TypesInv, TokensInv
    <2>2. CASE Stop
      <3>1. chat' = [chat EXCEPT !.live = 0, !.stopping = TRUE] /\ ~chat.stopping
        BY <2>2 DEF Stop
      <3>2. QED
        BY <2>1, <3>1 DEF Chats
    <2>3. CASE Close
      <3>1. chat' = [chat EXCEPT !.listed = FALSE, !.closed = TRUE, !.live = 0, !.asks = {}]
        BY <2>3 DEF Close
      <3>2. QED
        BY <2>1, <3>1 DEF Chats
    <2>4. QED
      BY <1>2, <2>2, <2>3
  <1>5. LogKept(chat')
    BY <1>1, <1>4 DEF LogKept, TypesInv
  <1>6. /\ agents' \in [Tokens -> AgentStates]
        /\ \A t \in Tokens : /\ agents'[t].ready = agents[t].ready
                             /\ agents'[t].st = IF t = chat.live /\ agents[t].st = "up" THEN "dying"
                                                ELSE agents[t].st
    <2>1. \A a \in AgentStates : [a EXCEPT !.st = "dying"] \in AgentStates
      BY DEF AgentStates
    <2>2. agents' \in [Tokens -> AgentStates]
      BY <1>1, <1>2, <2>1 DEF TypesInv
    <2>3. QED
      BY <1>1, <1>2, <2>2 DEF TypesInv, AgentStates
  <1>7. gen' <= Cardinality(Starters) + Bit(chat'.stopping) + Bit(chat'.closed) /\ gen \in Nat
    <2>1. gen <= Cardinality(Starters) + Bit(chat.stopping) + Bit(chat.closed) /\ gen \in Nat
      BY <1>1 DEF TokensInv, TypesInv
    <2>2. Cardinality(Starters) \in Nat
      BY <1>1, TokensSuffice
    <2>3. /\ ~chat.stopping /\ chat'.stopping => Bit(chat.stopping) = 0 /\ Bit(chat'.stopping) = 1
          /\ ~chat.closed /\ chat'.closed => Bit(chat.closed) = 0 /\ Bit(chat'.closed) = 1
          /\ Bit(chat.stopping) \in {0, 1} /\ Bit(chat.closed) \in {0, 1}
      BY DEF Bit
    <2>4. QED
      BY <1>2, <1>4, <2>1, <2>2, <2>3 DEF Bit
  <1>8. gen' \in 0..MaxStarts
    <2>1. ~chat.stopping \/ ~chat.closed
      BY <1>4
    <2>2. QED
      BY <1>1, <1>2, <2>1, TokensSuffice DEF Tokens
  <1>9. TypesInv'
    BY <1>1, <1>2, <1>4, <1>5, <1>6, <1>8 DEF TypesInv
  <1>10. TokensInv'
    <2>1. Starters' = Starters
      BY <1>2 DEF Starters
    <2>2. \A k \in Tasks : tasks'[k].at \in {"connecting", "adopting", "turn", "setting"} =>
            tasks'[k].tok \in 1..gen'
      BY <1>1, <1>2, <1>7 DEF TokensInv
    <2>3. chat'.live <= gen'
      BY <1>2, <1>4, <1>7
    <2>4. QED
      BY <1>4, <1>7, <2>1, <2>2, <2>3 DEF TokensInv
  <1>11. NothingYet'
    BY <1>2, <1>3 DEF NothingYet, At
  <1>12. AgentsInv'
    <2>1. \A t \in Tokens : Active(t)' => Handed(t)'
      <3>1. \A t \in Tokens : Active(t)' => Active(t) /\ chat.live # t
        BY <1>1, <1>6 DEF Active, AgentsInv, Tokens
      <3>2. QED
        BY <1>1, <1>2, <3>1 DEF AgentsInv, Handed
    <2>2. \A t \in Tokens : agents'[t].ready => agents'[t].st \notin {"starting", "loading"}
      BY <1>1, <1>6 DEF AgentsInv
    <2>3. \A k \in Tasks : At(k, "adopting")' => agents'[tasks'[k].tok].st \notin {"starting", "loading"}
      <3>1. \A k \in Tasks : At(k, "adopting") => tasks[k].tok \in Tokens
        BY <1>1, TokensNamed DEF At
      <3>2. QED
        BY <1>1, <1>2, <1>6, <3>1 DEF AgentsInv, At
    <2>4. QED
      BY <1>1, <1>2, <1>4, <2>1, <2>2, <2>3 DEF AgentsInv, Connecting
  <1>13. QED
    BY <1>9, <1>10, <1>11, <1>12 DEF ChatInv

LEMMA RestartKeeps ==
  ASSUME ChatBounds, ChatInv, Restart
  PROVE  ChatInv'
  <1>1. TypesInv /\ TokensInv
    BY DEF ChatInv
  <1>2. /\ chatUp < MaxLives /\ chatUp' = chatUp + 1 /\ gen' = 0 /\ saves' = {} /\ UNCHANGED <<saved, seen>>
        /\ tasks' = [k \in Tasks |-> IF k = "create" THEN [NoTask EXCEPT !.at = "done"] ELSE NoTask]
        /\ agents' = [t \in Tokens |-> NoAgent]
    BY DEF Restart
  <1>3. /\ \A k \in Tasks : tasks'[k].at \in {"idle", "done"} /\ tasks'[k] \in TaskStates
        /\ tasks'["create"].at = "done"
    BY <1>2, CountsAre DEF NoTask, TaskStates, Steps, Tasks
  <1>4. /\ \A t \in Tokens : agents'[t].st = "none" /\ ~agents'[t].ready
        /\ agents' \in [Tokens -> AgentStates]
    BY <1>2 DEF NoAgent, AgentStates
  <1>5. /\ chat' \in Chats /\ LogKept(chat') /\ chat'.nextAsk # 0 /\ chat'.live = 0
        /\ chat'.seq >= seen
        /\ chat'.listed => ~chat'.closed
    <2>1. CASE saved = NoInfo
      <3>1. chat' = [chat EXCEPT !.listed = FALSE, !.live = 0]
        BY <2>1 DEF Restart
      <3>2. chat \in Chats /\ 0 \in 0..MaxStarts
        BY <1>1, CountsAre DEF TypesInv
      <3>3. /\ chat' \in Chats /\ chat'.users = chat.users /\ chat'.seq = chat.seq
            /\ chat'.nextAsk = chat.nextAsk /\ chat'.live = 0 /\ ~chat'.listed
        BY <3>1, <3>2 DEF Chats
      <3>4. QED
        BY <1>1, <3>3 DEF TypesInv, LogKept, Chats
    <2>2. CASE saved # NoInfo
      <3> DEFINE n == NewChat(FALSE)
                 sq == LoadedSeq(chat)
      <3>1. chat' = [n EXCEPT !.status = "disconnected", !.session = saved.session,
                       !.title = saved.title, !.seq = sq,
                       !.users = chat.users, !.cards = chat.cards, !.hist = chat.hist]
        BY <2>2 DEF Restart
      <3>2. saved \in Infos /\ chat \in Chats /\ LogKept(chat)
        BY <1>1, <2>2 DEF TypesInv
      <3>3. sq \in 0..MaxSeq /\ sq >= chat.seq
        BY <3>2 DEF LoadedSeq, Infos, Chats
      <3>4. n \in Chats /\ n.live = 0 /\ ~n.closed /\ n.nextAsk = 1
        BY NewChatIs
      <3> HIDE DEF n, sq
      <3>5. /\ chat' \in Chats /\ chat'.users = chat.users /\ chat'.seq = sq /\ chat'.live = 0
            /\ ~chat'.closed /\ chat'.nextAsk = 1
        BY <3>1, <3>2, <3>3, <3>4 DEF Chats, Infos, Statuses
      <3>6. LogKept(chat')
        BY <3>2, <3>3, <3>5 DEF LogKept, Chats
      <3>7. seen <= sq
        BY <1>1, <3>2, <3>3 DEF TypesInv, Chats
      <3>8. QED
        BY <1>1, <3>3, <3>5, <3>6, <3>7 DEF TypesInv
    <2>3. QED
      BY <2>1, <2>2
  <1>6. TypesInv'
    <2>1. chatUp' \in 1..MaxLives
      BY <1>1, <1>2 DEF TypesInv, ChatBounds
    <2>2. tasks' \in [Tasks -> TaskStates]
      BY <1>2, <1>3
    <2>3. gen' \in 0..MaxStarts
      BY <1>2, CountsAre
    <2>4. seen' <= chat'.seq
      BY <1>1, <1>2, <1>5 DEF TypesInv, Chats
    <2>5. QED
      BY <1>1, <1>2, <1>4, <1>5, <2>1, <2>2, <2>3, <2>4 DEF TypesInv
  <1>7. TokensInv'
    <2>1. Starters' \subseteq Tasks
      BY DEF Starters
    <2>2. Cardinality(Starters') \in Nat /\ Bit(chat'.stopping) \in Nat /\ Bit(chat'.closed) \in Nat
      BY <2>1, StartersAre DEF Bit
    <2>3. gen' <= Cardinality(Starters') + Bit(chat'.stopping) + Bit(chat'.closed)
      BY <1>2, <2>2
    <2>4. QED
      BY <1>2, <1>3, <1>5, <2>3 DEF TokensInv
  <1>8. NothingYet'
    BY <1>3 DEF NothingYet, At
  <1>9. AgentsInv'
    BY <1>3, <1>4, <1>5 DEF AgentsInv, Connecting, Active, At
  <1>10. QED
    BY <1>6, <1>7, <1>8, <1>9 DEF ChatInv

-----------------------------------------------------------------------------
(* What holds whatever overlaps *)

\* The steps whose effect on tasks and agents is nothing
Says ==
  \/ \E t \in Tokens : \/ Replay(t)
                       \/ \E ev \in session_updates : Update(t, ev)
                       \/ \E o \in BOOLEAN : Ask(t, o)
  \/ \E a \in 1..MaxAsks : Answer(a)
  \/ TitleDone

ChatStep ==
  \/ \E r \in BOOLEAN : Create(r)
  \/ \E k \in Tasks : \/ Request(k) \/ TurnEnds(k) \/ ConnectionCheck(k) \/ ConnectionStart(k)
                      \/ AdoptCheck(k) \/ Adopt(k) \/ ConnectionFails(k) \/ TurnFails(k) \/ OptionSet(k)
  \/ \E t \in Tokens : LoadSession(t) \/ HandshakeDone(t) \/ AgentFails(t) \/ Ended(t)
  \/ Says
  \/ \E info \in saves : Save(info)
  \/ Cancel \/ Close \/ Stop \/ Restart
  \/ UNCHANGED chatVars

LEMMA StepsAre == [ChatNext]_chatVars => ChatStep
  BY DEF ChatNext, ChatStep, TaskStep, Says, ChatIdle

LEMMA ChatInvInitially == ASSUME ChatBounds PROVE ChatInit => ChatInv
  <1> SUFFICES ASSUME ChatInit PROVE ChatInv
    OBVIOUS
  <1>1. /\ chatUp = 1 /\ chat = NoChat /\ gen = 0 /\ saves = {} /\ saved = NoInfo /\ seen = 0
        /\ \A k \in Tasks : tasks[k].at = "idle" /\ tasks[k] \in TaskStates
        /\ tasks = [k \in Tasks |-> NoTask]
        /\ \A t \in Tokens : agents[t] = NoAgent /\ agents[t].st = "none" /\ ~agents[t].ready
        /\ agents \in [Tokens -> AgentStates]
    BY CountsAre DEF ChatInit, NoTask, NoAgent, TaskStates, Steps, AgentStates
  <1>2. tasks \in [Tasks -> TaskStates]
    BY <1>1
  <1>3. TypesInv
    BY <1>1, <1>2, NoChatIs, CountsAre DEF TypesInv, ChatBounds
  <1>4. Starters = {}
    BY <1>1 DEF Starters
  <1>5. Cardinality(Starters) = 0 /\ Bit(chat.stopping) = 0 /\ Bit(chat.closed) = 0 /\ chat.live = 0
    BY <1>1, <1>4, NoChatIs, FS_EmptySet DEF Bit
  <1>6. TokensInv
    BY <1>1, <1>5, NoChatIs DEF TokensInv
  <1>7. NothingYet
    BY <1>1 DEF NothingYet, At
  <1>8. AgentsInv
    BY <1>1, <1>5 DEF AgentsInv, Connecting, Active, At
  <1>9. QED
    BY <1>3, <1>6, <1>7, <1>8 DEF ChatInv

LEMMA ChatInvKept ==
  ASSUME ChatBounds, ChatInv, [ChatNext]_chatVars
  PROVE  ChatInv'
  <1>1. CASE UNCHANGED chatVars
    BY <1>1 DEF chatVars, ChatInv, TypesInv, TokensInv, NothingYet, AgentsInv, Starters, At, Active, Handed,
                Connecting
  <1>2. CASE Says
    BY <1>2, SaysKeeps DEF Says
  <1>3. ChatStep
    BY StepsAre
  <1>4. QED
    BY <1>1, <1>2, <1>3, CreateKeeps, RequestKeeps, TurnEndsKeeps, ConnectionCheckKeeps, ConnectionStartKeeps,
       AdoptCheckKeeps, AdoptKeeps, ConnectionFailsKeeps, CallEndsKeeps, AgentStepKeeps, EndedKeeps,
       SaveKeeps, CancelKeeps, SupersededKeeps, RestartKeeps DEF ChatStep

\* Types, tokens and who has the agent, whatever handlers overlap (connection, start, close, shutdown)
THEOREM ChatInvariant ==
  ASSUME ChatBounds
  PROVE  ChatSpec => []ChatInv
  <1>1. ChatInit => ChatInv
    BY ChatInvInitially
  <1>2. ChatInv /\ [ChatNext]_chatVars => ChatInv'
    BY ChatInvKept
  <1>3. QED
    BY <1>1, <1>2, PTL DEF ChatSpec

\* The fields of the chat, its tasks and agents are of their types, and the log keeps LOG_LIMIT entries at most (emit)
THEOREM ChatTyped ==
  ASSUME ChatBounds
  PROVE  ChatSpec => []ChatTypeOK
  <1>1. ChatInv => ChatTypeOK
    BY DEF ChatInv, TypesInv, Chats, LogKept, TaskStates, AgentStates, Steps, ChatTypeOK
  <1>2. QED
    BY <1>1, ChatInvariant, PTL

\* One agent at a time works on a chat, though requests, closes, stops and failing handshakes overlap
\* (connection holds the starting lock and looks at live)
THEOREM OneAgentEach ==
  ASSUME ChatBounds
  PROVE  ChatSpec => []OneAgent
  <1>1. ChatInv => OneAgent
    <2> SUFFICES ASSUME ChatInv, NEW s \in Tokens, NEW t \in Tokens,
                        {agents[s].st, agents[t].st} \subseteq {"starting", "loading", "up"}
                 PROVE  s = t
      BY DEF OneAgent
    <2>1. Active(s) /\ Active(t)
      BY DEF Active
    <2>2. \A u \in Tokens : Active(u) => chat.live = u \/ Handed(u)
      BY DEF ChatInv, AgentsInv
    <2>3. \A u \in Tokens : Handed(u) => chat.live = 0
      BY DEF ChatInv, AgentsInv, Handed, Connecting
    <2>4. \A u \in Tokens : u # 0
      BY CountsAre DEF Tokens
    <2>5. CASE Handed(s) /\ Handed(t)
      BY <2>5 DEF ChatInv, AgentsInv, Handed, Connecting
    <2>6. QED
      BY <2>1, <2>2, <2>3, <2>4, <2>5
  <1>2. QED
    BY <1>1, ChatInvariant, PTL

\* No seq is given out twice, over restarts as well (Chats::load takes it from the log's last entry)
THEOREM SeqsOnce ==
  ASSUME ChatBounds
  PROVE  ChatSpec => []SeqNeverReused
  <1>1. ChatInv => SeqNeverReused
    BY DEF ChatInv, TypesInv, Chats, SeqNeverReused
  <1>2. QED
    BY <1>1, ChatInvariant, PTL

-----------------------------------------------------------------------------
(* What a close leaves, when no other handler comes between two of its locks *)

LEMMA SaysAre ==
  ASSUME ChatBounds, TypesInv, Says
  PROVE  Told(chat) /\ UNCHANGED <<chatUp, gen, tasks, agents>>
  <1>1. UNCHANGED <<chatUp, gen, tasks, agents>>
    BY DEF Says, Replay, Update, Ask, Answer, TitleDone
  <1>2. Told(chat)
    BY ReplayIs, UpdateIs, AskIs, AnswerIs, TitleDoneIs DEF Says
  <1>3. QED
    BY <1>1, <1>2

\* No step but a new connection's changes what a closed chat keeps
LEMMA ClosedStays ==
  ASSUME ClosedInv, ~Racing, Told(chat), gen' = gen,
         \A k \in Tasks : tasks'[k].at \in {"checked", "adopting"} => ~chat.closed \/ tasks'[k].at = tasks[k].at,
         \A k \in Tasks : tasks'[k].at = "connecting" => tasks'[k] = tasks[k]
  PROVE  ClosedInv'
  <1>1. chat'.closed = chat.closed /\ chat'.live = chat.live /\ saves' = saves
    BY DEF Told, Follows, SameOwner
  <1>2. chat.closed => saved' = saved
    BY DEF Told
  <1>3. QED
    BY <1>1, <1>2 DEF ClosedInv, At

LEMMA ClosedKept ==
  ASSUME ChatBounds, ~Racing, ChatInv, ClosedInv, ChatStep
  PROVE  ClosedInv'
  <1>1. TypesInv /\ TokensInv /\ NothingYet
    BY DEF ChatInv
  <1>2. ASSUME NEW r \in BOOLEAN, Create(r) PROVE ClosedInv'
    <2>1. ~chat'.closed /\ saves' = saves
      BY <1>2, NewChatIs DEF Create
    <2>2. QED
      BY <2>1 DEF ClosedInv
  <1>3. ASSUME NEW k \in Tasks, Request(k) PROVE ClosedInv'
    <2>1. Told(chat) /\ gen' = gen
      BY <1>1, <1>3, NothingFollows DEF Request
    <2>2. /\ tasks'[k].at = "queued" /\ \A j \in Tasks : j # k => tasks'[j] = tasks[j]
      BY <1>1, <1>3, GotoIs, CountsAre DEF Request, Steps
    <2>3. QED
      BY <2>1, <2>2, ClosedStays
  <1>4. ASSUME NEW k \in Tasks, TurnEnds(k) \/ TurnFails(k) \/ OptionSet(k) \/ ConnectionFails(k) PROVE ClosedInv'
    <2>1. Told(chat)
      BY <1>1, <1>4, TurnEndsIs, TurnFailsIs, OptionSetIs, ConnectionFailsIs
    <2>2. gen' = gen /\ Goto(k, "done", 0)
      BY <1>4 DEF TurnEnds, TurnFails, OptionSet, ConnectionFails
    <2>3. /\ tasks'[k].at = "done" /\ \A j \in Tasks : j # k => tasks'[j] = tasks[j]
      BY <1>1, <2>2, GotoIs, CountsAre DEF Steps
    <2>4. QED
      BY <2>1, <2>2, <2>3, ClosedStays
  <1>5. ASSUME NEW k \in Tasks, ConnectionCheck(k) PROVE ClosedInv'
    <2>1. Told(chat) /\ gen' = gen
      BY <1>1, <1>5, ConnectionCheckIs, NothingFollows DEF ConnectionCheck
    <2>2. \E at \in {"done", "checked", "turn", "setting"}, tok \in 0..MaxStarts :
            Goto(k, at, tok) /\ (at = "checked" => ~chat.closed)
      <3>1. 0 \in 0..MaxStarts /\ chat.live \in 0..MaxStarts
        BY <1>1, CountsAre DEF TypesInv, Chats
      <3>2. QED
        BY <1>1, <1>5, <3>1, ConnectionCheckIs DEF GoesOn
    <2>3. PICK at \in {"done", "checked", "turn", "setting"}, tok \in 0..MaxStarts :
            Goto(k, at, tok) /\ (at = "checked" => ~chat.closed)
      BY <2>2
    <2>4. /\ tasks'[k].at = at /\ \A j \in Tasks : j # k => tasks'[j] = tasks[j]
      <3>1. at \in Steps
        BY DEF Steps
      <3>2. QED
        BY <1>1, <2>3, <3>1, GotoIs
    <2>5. QED
      BY <2>1, <2>3, <2>4, ClosedStays
  <1>6. ASSUME NEW k \in Tasks, ConnectionStart(k) PROVE ClosedInv'
    <2>1. tasks[k].at = "checked"
      BY <1>6 DEF ConnectionStart, At
    <2>2. ~chat.closed
      BY <2>1 DEF ClosedInv
    <2>3. ~chat'.closed /\ saves' = saves
      BY <1>1, <1>6, <2>2, ConnectionStartIs DEF Told, Follows, SameOwner
    <2>4. QED
      BY <2>3 DEF ClosedInv
  <1>7. ASSUME NEW k \in Tasks, AdoptCheck(k) PROVE ClosedInv'
    <2>1. /\ tasks[k].at = "connecting" /\ UNCHANGED <<chat, gen, saves, saved>>
          /\ IF tasks[k].tok = gen THEN Goto(k, "adopting", tasks[k].tok) ELSE Goto(k, "done", 0)
      BY <1>7 DEF AdoptCheck, At, is_current
    <2>2. CASE chat.closed
      <3>1. tasks[k].tok < gen /\ gen \in Nat
        BY <1>1, <2>1, <2>2 DEF ClosedInv, TypesInv, At
      <3>2. tasks[k].tok # gen
        BY <1>1, <2>1, <3>1 DEF TokensInv
      <3>3. Goto(k, "done", 0)
        BY <2>1, <3>2
      <3>4. /\ tasks'[k].at = "done" /\ \A j \in Tasks : j # k => tasks'[j] = tasks[j]
        BY <1>1, <3>3, GotoIs, CountsAre DEF Steps
      <3>5. QED
        BY <2>1, <3>4 DEF ClosedInv, At
    <2>3. CASE ~chat.closed
      BY <2>1, <2>3 DEF ClosedInv
    <2>4. QED
      BY <2>2, <2>3
  <1>8. ASSUME NEW k \in Tasks, Adopt(k) PROVE ClosedInv'
    <2>1. tasks[k].at = "adopting"
      BY <1>8 DEF Adopt, At
    <2>2. ~chat.closed
      BY <2>1 DEF ClosedInv
    <2>3. tasks[k].tok \in 0..MaxStarts
      BY <1>1, <2>1, TokensNamed
    <2>4. ~chat'.closed /\ saves' = saves
      BY <1>1, <1>8, <2>2, <2>3, AdoptIs DEF Told, Follows, SameOwner, TypesInv, Chats
    <2>5. QED
      BY <2>4 DEF ClosedInv
  <1>9. ASSUME NEW t \in Tokens, LoadSession(t) \/ HandshakeDone(t) \/ AgentFails(t) PROVE ClosedInv'
    <2>1. Told(chat) /\ UNCHANGED <<gen, tasks>>
      BY <1>1, <1>9, AgentStepIs DEF LoadSession, HandshakeDone, AgentFails
    <2>2. QED
      BY <2>1, ClosedStays
  <1>10. ASSUME NEW t \in Tokens, Ended(t) PROVE ClosedInv'
    <2>1. UNCHANGED <<gen, tasks>>
      BY <1>10 DEF Ended
    <2>2. CASE chat.live = t
      <3>1. ~chat.closed
        BY <2>2, CountsAre DEF ClosedInv, Tokens
      <3>2. ~chat'.closed /\ saves' = saves
        BY <1>1, <1>10, <2>2, <3>1, EndedIs DEF Told, Follows, SameOwner, TypesInv, Chats
      <3>3. QED
        BY <3>2 DEF ClosedInv
    <2>3. CASE chat.live # t
      BY <1>1, <1>10, <2>1, <2>3, EndedIs DEF ClosedInv, At
    <2>4. QED
      BY <2>2, <2>3
  <1>11. CASE Says
    BY <1>1, <1>11, SaysAre, ClosedStays
  <1>12. ASSUME NEW info \in saves PROVE FALSE
    BY <1>12 DEF ClosedInv
  <1>13. CASE Cancel
    <2>1. Told(chat) /\ UNCHANGED <<gen, tasks>>
      BY <1>1, <1>13, CancelIs DEF Cancel
    <2>2. QED
      BY <2>1, ClosedStays
  <1>14. CASE Close
    <2>1. /\ \A k \in Tasks : tasks[k].at \notin {"checked", "adopting"}
          /\ gen' = gen + 1 /\ saved' = NoInfo /\ UNCHANGED <<tasks, saves>>
          /\ chat' = [chat EXCEPT !.listed = FALSE, !.closed = TRUE, !.live = 0, !.asks = {}]
      BY <1>14 DEF Close
    <2>2. chat'.live = 0
      BY <1>1, <2>1 DEF TypesInv, Chats
    <2>3. \A k \in Tasks : At(k, "connecting")' => tasks'[k].tok < gen'
      BY <1>1, <2>1 DEF TokensInv, TypesInv, At
    <2>4. QED
      BY <2>1, <2>2, <2>3 DEF ClosedInv
  <1>15. CASE Stop
    <2>1. chat' = [chat EXCEPT !.live = 0, !.stopping = TRUE] /\ saves' = saves /\ chat.listed
      BY <1>15 DEF Stop, Serving
    <2>2. ~chat'.closed
      BY <1>1, <2>1 DEF TypesInv, TokensInv, Chats
    <2>3. QED
      BY <2>1, <2>2 DEF ClosedInv
  <1>16. CASE Restart
    <2>1. /\ saves' = {} /\ saved' = saved
          /\ tasks' = [k \in Tasks |-> IF k = "create" THEN [NoTask EXCEPT !.at = "done"] ELSE NoTask]
      BY <1>16 DEF Restart
    <2>2. \A k \in Tasks : tasks'[k].at \in {"idle", "done"}
      BY <2>1 DEF NoTask
    <2>3. CASE saved = NoInfo
      <3>1. chat' = [chat EXCEPT !.listed = FALSE, !.live = 0]
        BY <1>16, <2>3 DEF Restart
      <3>2. chat'.live = 0
        BY <1>1, <3>1 DEF TypesInv, Chats
      <3>3. QED
        BY <2>1, <2>2, <2>3, <3>2 DEF ClosedInv, At
    <2>4. CASE saved # NoInfo
      <3> DEFINE n == NewChat(FALSE)
      <3>1. chat' = [n EXCEPT !.status = "disconnected", !.session = saved.session,
                       !.title = saved.title, !.seq = LoadedSeq(chat),
                       !.users = chat.users, !.cards = chat.cards, !.hist = chat.hist]
        BY <1>16, <2>4 DEF Restart
      <3>2. n \in Chats /\ ~n.closed
        BY NewChatIs
      <3> HIDE DEF n
      <3>3. ~chat'.closed
        BY <3>1, <3>2 DEF Chats
      <3>4. QED
        BY <2>1, <3>3 DEF ClosedInv
    <2>5. QED
      BY <2>3, <2>4
  <1>17. CASE UNCHANGED chatVars
    BY <1>17 DEF chatVars, ClosedInv, At
  <1>18. QED
    BY <1>2, <1>3, <1>4, <1>5, <1>6, <1>7, <1>8, <1>9, <1>10, <1>11, <1>12, <1>13, <1>14, <1>15, <1>16, <1>17
       DEF ChatStep

LEMMA ClosedInitially == ASSUME ChatBounds PROVE ChatInit => ClosedInv
  BY NoChatIs DEF ChatInit, ClosedInv

\* Neither files nor an agent at work come back to a closed chat through a task that still holds it (State::closed)
THEOREM ClosedForGood ==
  ASSUME ChatBounds, ~Racing
  PROVE  ChatSpec => []ClosedKeepsNothing
  <1>1. ChatInit => ClosedInv
    BY ClosedInitially
  <1>2. ChatInv /\ ClosedInv /\ [ChatNext]_chatVars => ClosedInv'
    BY ClosedKept, StepsAre
  <1>3. ChatInv /\ ClosedInv => ClosedKeepsNothing
    <2> SUFFICES ASSUME ChatInv, ClosedInv, chat.closed
                 PROVE  /\ saved = NoInfo /\ chat.live = 0
                        /\ \A t \in Tokens : Active(t) => t # gen
      BY DEF ClosedKeepsNothing, Active, is_current
    <2>1. \A t \in Tokens : Active(t) => \E k \in Tasks : At(k, "connecting") /\ tasks[k].tok = t
      BY CountsAre DEF ChatInv, AgentsInv, ClosedInv, Handed, At, Tokens
    <2>2. \A k \in Tasks : At(k, "connecting") => tasks[k].tok # gen
      BY DEF ClosedInv, ChatInv, TypesInv, TokensInv, At
    <2>3. QED
      BY <2>1, <2>2 DEF ClosedInv
  <1>4. QED
    BY <1>1, <1>2, <1>3, ChatInvariant, PTL DEF ChatSpec

-----------------------------------------------------------------------------
(* What the status says, when no other handler comes between two of a handler's locks *)

LEMMA GotoTurns ==
  ASSUME TypesInv, TurnsInv, NEW k \in Tasks, NEW at, NEW tok, Goto(k, at, tok), at = "turn" => k \in Prompts
  PROVE  TurnsInv'
  BY DEF TypesInv, TurnsInv, Goto, At

\* Only a prompt has a turn
LEMMA TurnsKept ==
  ASSUME ChatBounds, ChatInv, TurnsInv, ChatStep
  PROVE  TurnsInv'
  <1>1. TypesInv /\ TokensInv
    BY DEF ChatInv
  <1>2. ASSUME NEW r \in BOOLEAN, Create(r) PROVE TurnsInv'
    BY <1>1, <1>2, GotoTurns DEF Create, Tasks
  <1>3. ASSUME NEW k \in Tasks,
               \/ Request(k) \/ TurnEnds(k) \/ ConnectionStart(k) \/ AdoptCheck(k)
               \/ ConnectionFails(k) \/ TurnFails(k) \/ OptionSet(k)
        PROVE  TurnsInv'
    <2>1. \E at \in {"queued", "done", "connecting", "adopting"} : \E tok : Goto(k, at, tok)
      BY <1>3 DEF Request, TurnEnds, ConnectionStart, AdoptCheck, ConnectionFails, TurnFails, OptionSet
    <2>2. QED
      BY <1>1, <2>1, GotoTurns
  <1>4. ASSUME NEW k \in Tasks, ConnectionCheck(k) PROVE TurnsInv'
    <2>1. \E at : \E tok : Goto(k, at, tok) /\ (at = "turn" => k \in Prompts)
      BY <1>1, <1>4, ConnectionCheckIs DEF GoesOn
    <2>2. QED
      BY <1>1, <2>1, GotoTurns
  <1>5. ASSUME NEW k \in Tasks, Adopt(k) PROVE TurnsInv'
    <2>1. tasks[k].tok \in 0..MaxStarts
      BY <1>1, <1>5, TokensNamed DEF Adopt, At
    <2>2. \E at : \E tok : Goto(k, at, tok) /\ (at = "turn" => k \in Prompts)
      BY <1>1, <1>5, <2>1, AdoptIs DEF GoesOn
    <2>3. QED
      BY <1>1, <2>2, GotoTurns
  <1>6. ASSUME UNCHANGED tasks PROVE TurnsInv'
    BY <1>6 DEF TurnsInv, At
  <1>7. CASE Says
    BY <1>1, <1>6, <1>7, SaysAre
  <1>8. ASSUME NEW t \in Tokens, LoadSession(t) \/ HandshakeDone(t) \/ AgentFails(t) \/ Ended(t) PROVE TurnsInv'
    BY <1>6, <1>8 DEF LoadSession, HandshakeDone, AgentFails, Ended
  <1>9. ASSUME \/ \E info \in saves : Save(info)
               \/ Cancel \/ Close \/ Stop \/ UNCHANGED chatVars
        PROVE  TurnsInv'
    BY <1>6, <1>9 DEF Save, Cancel, Close, Stop, chatVars
  <1>10. CASE Restart
    <2>1. tasks' = [k \in Tasks |-> IF k = "create" THEN [NoTask EXCEPT !.at = "done"] ELSE NoTask]
      BY <1>10 DEF Restart
    <2>2. QED
      BY <2>1 DEF TurnsInv, At, NoTask
  <1>11. QED
    BY <1>2, <1>3, <1>4, <1>5, <1>7, <1>8, <1>9, <1>10 DEF ChatStep

\* An agent with a turn is the chat's own
LEMMA TurnedIsLive ==
  ASSUME ChatBounds, TypesInv, TokensInv, AgentsInv,
         NEW k \in Tasks, tasks[k].at = "turn", agents[tasks[k].tok].st = "up"
  PROVE  chat.live = tasks[k].tok /\ chat.live # 0
  <1>1. tasks[k].tok \in Tokens /\ tasks[k].tok # 0
    BY TokensNamed DEF Tokens
  <1>2. ~Handed(tasks[k].tok)
    BY DEF AgentsInv, Handed
  <1>3. QED
    BY <1>1, <1>2 DEF AgentsInv, Active

\* A connection that is there stays one of a process, unless the process is waited for
LEMMA HandedStays ==
  ASSUME ChatBounds, TypesInv, TokensInv, HandedInv, chat'.live = chat.live,
         \A t \in Tokens : agents[t].st \in {"up", "dying"} /\ t <= gen => agents'[t].st \in {"up", "dying"},
         \A t \in Tokens : agents'[t].ready => agents'[t].st \in {"up", "dying"},
         \A k \in Tasks : tasks'[k].at = "adopting" => tasks'[k] = tasks[k]
  PROVE  HandedInv'
  <1>1. /\ \A k \in Tasks : tasks[k].at = "adopting" => tasks[k].tok \in Tokens /\ tasks[k].tok <= gen
        /\ chat.live # 0 => chat.live \in Tokens /\ chat.live <= gen
    BY TokensNamed DEF TokensInv
  <1>2. QED
    BY <1>1 DEF HandedInv, At

\* What is so when neither tasks nor agents change
LEMMA ServedStays ==
  ASSUME ServedInv, Told(chat), UNCHANGED <<gen, tasks, agents>>,
         chat.listed /\ ~chat.stopping /\ StatusInv => StatusInv'
  PROVE  ServedInv'
  <1>1. chat'.live = chat.live /\ chat'.listed = chat.listed /\ chat'.stopping = chat.stopping
    BY DEF Told, Follows, SameOwner
  <1>2. QED
    BY <1>1 DEF ServedInv, HandedInv, At

LEMMA SaysServe ==
  ASSUME ChatBounds, ~Racing, ChatInv, ServedInv, Says
  PROVE  ServedInv'
  <1>1. TypesInv /\ TokensInv /\ AgentsInv
    BY DEF ChatInv
  <1>2. Told(chat) /\ UNCHANGED <<gen, tasks, agents>>
    BY <1>1, SaysAre
  <1>3. chat'.live = chat.live
    BY <1>2 DEF Told, Follows, SameOwner
  <1>4. Attended' <=> Attended
    BY <1>2, <1>3 DEF Attended, Turns, At
  <1>5. Connecting' = Connecting /\ (SomeTurn' <=> SomeTurn)
    BY <1>2 DEF Connecting, SomeTurn, At
  <1>6. \A k \in Tasks : (tasks[k].at \in {"connecting", "adopting"} => is_current(tasks[k].tok))' <=>
                         (tasks[k].at \in {"connecting", "adopting"} => is_current(tasks[k].tok))
    BY <1>2 DEF is_current
  <1>7. CASE Quiet
    <2>1. StatusInv => StatusInv'
      BY <1>2, <1>3, <1>4, <1>5, <1>6, <1>7 DEF StatusInv, CardsInv, Quiet
    <2>2. QED
      BY <1>2, <2>1, ServedStays
  <1>8. ASSUME NEW t \in Tokens, NEW o \in BOOLEAN, Ask(t, o), chat'.asks # {}, chat'.status = "needs"
        PROVE  ServedInv'
    <2>1. agents[t].st = "up" /\ ~agents[t].cancelled /\ Turns(t) # {}
      BY <1>8 DEF Ask
    <2>2. PICK k \in Prompts : tasks[k].at = "turn" /\ tasks[k].tok = t
      BY <2>1 DEF Turns, At
    <2>3. chat.live = t /\ chat.live # 0
      BY <1>1, <2>1, <2>2, TurnedIsLive DEF Tasks
    <2>4. Attended
      BY <2>1, <2>3 DEF Attended
    <2>5. StatusInv => StatusInv'
      BY <1>2, <1>3, <1>4, <1>6, <1>8, <2>3, <2>4 DEF StatusInv, CardsInv
    <2>6. QED
      BY <1>2, <2>5, ServedStays
  <1>9. ASSUME NEW a \in 1..MaxAsks, Answer(a)
        PROVE  ServedInv'
    <2>1. /\ chat.asks # {} /\ chat'.asks = chat.asks \ {a}
          /\ chat'.status = IF chat.asks \ {a} # {} THEN "needs"
                            ELSE IF chat.status = "needs" THEN "running" ELSE chat.status
      BY <1>1, <1>9, AnswerIs DEF Answer
    <2>2. ASSUME chat.listed, ~chat.stopping, StatusInv PROVE StatusInv'
      <3>1. Attended
        BY <2>1, <2>2 DEF StatusInv, CardsInv
      <3>2. chat.live # 0 /\ chat.status # "disconnected"
        BY <2>2, <3>1 DEF StatusInv, Attended
      <3>3. SomeTurn \/ agents[chat.live].st = "dying"
        <4>1. agents[chat.live].st \in {"up", "dying"}
          BY <3>2 DEF ServedInv, HandedInv
        <4>2. CASE agents[chat.live].st = "up"
          BY <3>1, <4>2 DEF Attended, Turns, SomeTurn
        <4>3. QED
          BY <4>1, <4>2
      <3>4. QED
        BY <1>2, <1>3, <1>4, <1>5, <1>6, <2>1, <2>2, <3>1, <3>2, <3>3 DEF StatusInv, CardsInv
    <2>3. QED
      BY <1>2, <2>2, ServedStays
  <1>10. QED
    BY <1>1, <1>7, <1>8, <1>9, ReplayIs, UpdateIs, AskIs, TitleDoneIs DEF Says

LEMMA CancelServes ==
  ASSUME ChatBounds, ~Racing, ChatInv, ServedInv, Cancel
  PROVE  ServedInv'
  <1>1. TypesInv /\ TokensInv /\ AgentsInv
    BY DEF ChatInv
  <1>2. /\ chat.live # 0 /\ Turns(chat.live) # {} /\ UNCHANGED <<gen, tasks>>
        /\ agents' = [agents EXCEPT ![chat.live].cancelled = TRUE]
    BY DEF Cancel
  <1>3. /\ Told(chat) /\ chat'.asks = {}
        /\ chat.asks = {} => Quiet
        /\ chat.asks # {} => chat'.status # "needs"
        /\ chat'.status \in {chat.status, "running"}
    BY <1>1, CancelIs
  <1>4. /\ chat'.live = chat.live /\ chat'.listed = chat.listed /\ chat'.stopping = chat.stopping
    BY <1>3 DEF Told, Follows, SameOwner
  <1>5. \A u \in Tokens : agents'[u].st = agents[u].st /\ agents'[u].ready = agents[u].ready
    BY <1>1, <1>2 DEF TypesInv, AgentStates
  <1>6. HandedInv'
    <2>1. \A u \in Tokens : agents'[u].ready => agents'[u].st \in {"up", "dying"}
      BY <1>5 DEF ServedInv, HandedInv
    <2>2. QED
      BY <1>1, <1>2, <1>4, <1>5, <2>1, HandedStays DEF ServedInv
  <1>7. ASSUME chat.listed, ~chat.stopping PROVE StatusInv'
    <2>1. StatusInv
      BY <1>7 DEF ServedInv
    <2>2. SomeTurn /\ SomeTurn'
      BY <1>2 DEF Turns, SomeTurn, At
    <2>3. chat'.status = "needs" => FALSE
      BY <1>3, <2>1 DEF StatusInv, Quiet
    <2>4. \A k \in Tasks : tasks'[k].at \in {"connecting", "adopting"} => tasks'[k].tok = gen'
      BY <1>2, <2>1 DEF StatusInv, is_current
    <2>5. chat'.status # "disconnected"
      BY <1>2, <1>3, <2>1 DEF StatusInv
    <2>6. QED
      BY <1>2, <1>3, <1>4, <2>2, <2>3, <2>4, <2>5 DEF StatusInv, CardsInv, is_current
  <1>8. QED
    BY <1>4, <1>6, <1>7 DEF ServedInv

LEMMA AgentStepServes ==
  ASSUME ChatBounds, ~Racing, ChatInv, ServedInv, NEW t \in Tokens,
         LoadSession(t) \/ HandshakeDone(t) \/ AgentFails(t)
  PROVE  ServedInv'
  <1>1. TypesInv /\ TokensInv /\ AgentsInv /\ HandedInv
    BY DEF ChatInv, ServedInv
  <1>2. Told(chat) /\ Quiet /\ UNCHANGED <<gen, tasks>>
    BY <1>1, AgentStepIs DEF LoadSession, HandshakeDone, AgentFails
  <1>3. /\ chat'.live = chat.live /\ chat'.listed = chat.listed /\ chat'.stopping = chat.stopping
    BY <1>2 DEF Told, Follows, SameOwner
  <1>4. /\ \A u \in Tokens : u # t => agents'[u] = agents[u]
        /\ agents[t].st \in {"up", "dying"} => agents'[t].st = "dying"
        /\ agents'[t].ready => agents'[t].st \in {"up", "dying"}
    <2>1. CASE LoadSession(t)
      BY <1>1, <2>1 DEF LoadSession, TypesInv, AgentStates, AgentsInv
    <2>2. CASE HandshakeDone(t)
      BY <1>1, <2>2 DEF HandshakeDone, TypesInv, AgentStates
    <2>3. CASE AgentFails(t)
      BY <1>1, <2>3 DEF AgentFails, TypesInv, AgentStates
    <2>4. QED
      BY <2>1, <2>2, <2>3
  <1>5. HandedInv'
    <2>1. \A u \in Tokens : agents'[u].ready => agents'[u].st \in {"up", "dying"}
      BY <1>1, <1>4 DEF HandedInv
    <2>2. \A u \in Tokens : agents[u].st \in {"up", "dying"} => agents'[u].st \in {"up", "dying"}
      BY <1>4
    <2>3. QED
      BY <1>1, <1>2, <1>3, <2>1, <2>2, HandedStays
  <1>6. ASSUME chat.listed, ~chat.stopping PROVE StatusInv'
    <2>1. StatusInv
      BY <1>6 DEF ServedInv
    <2>2. chat.live # 0 => chat.live \in Tokens /\ agents[chat.live].st \in {"up", "dying"}
      BY <1>1, TokensNamed DEF HandedInv
    <2>3. chat.live # 0 => agents'[chat.live] = agents[chat.live] \/ agents'[chat.live].st = "dying"
      BY <1>4, <2>2
    <2>4. Attended => Attended'
      BY <1>2, <1>3, <2>3 DEF Attended, Turns, At
    <2>5. Connecting' = Connecting /\ (SomeTurn' <=> SomeTurn)
      BY <1>2 DEF Connecting, SomeTurn, At
    <2>6. chat.status = "running" => SomeTurn' \/ (chat'.live # 0 /\ agents'[chat'.live].st = "dying")
      BY <1>3, <2>1, <2>3, <2>5 DEF StatusInv
    <2>7. \A k \in Tasks : tasks'[k].at \in {"connecting", "adopting"} => tasks'[k].tok = gen'
      BY <1>2, <2>1 DEF StatusInv, is_current
    <2>8. QED
      BY <1>2, <1>3, <2>1, <2>4, <2>5, <2>6, <2>7 DEF StatusInv, CardsInv, Quiet, is_current
  <1>7. QED
    BY <1>3, <1>5, <1>6 DEF ServedInv

LEMMA EndedServes ==
  ASSUME ChatBounds, ~Racing, ChatInv, ServedInv, NEW t \in Tokens, Ended(t)
  PROVE  ServedInv'
  <1>1. TypesInv /\ TokensInv /\ AgentsInv /\ HandedInv
    BY DEF ChatInv, ServedInv
  <1>2. /\ UNCHANGED <<gen, tasks>> /\ agents[t].st = "dying" /\ ~agents[t].ready
        /\ \A k \in Tasks : tasks[k] # [at |-> "adopting", tok |-> t]
        /\ agents' = [agents EXCEPT ![t] = [NoAgent EXCEPT !.ready = agents[t].ready]]
    BY DEF Ended
  <1>3. \A u \in Tokens : /\ u # t => agents'[u] = agents[u]
                          /\ u = t => ~agents'[u].ready
    BY <1>1, <1>2 DEF TypesInv, AgentStates, NoAgent
  <1>4. \A k \in Tasks : At(k, "adopting") => tasks[k].tok # t /\ tasks[k].tok \in Tokens
    <2>1. \A k \in Tasks : At(k, "adopting") /\ tasks[k].tok = t => tasks[k] = [at |-> "adopting", tok |-> t]
      BY <1>1 DEF TypesInv, TaskStates, At
    <2>2. QED
      BY <1>1, <1>2, <2>1, TokensNamed DEF At
  <1>5. Connecting' = Connecting /\ (SomeTurn' <=> SomeTurn)
    BY <1>2 DEF Connecting, SomeTurn, At
  <1>6. CASE chat.live = t
    <2>1. Told([chat EXCEPT !.live = 0]) /\ chat'.asks = {} /\ chat'.status = "disconnected"
      BY <1>1, <1>6, EndedIs
    <2>2. chat'.live = 0 /\ chat'.listed = chat.listed /\ chat'.stopping = chat.stopping
      BY <1>1, <2>1 DEF Told, Follows, SameOwner, TypesInv, Chats
    <2>3. HandedInv'
      BY <1>1, <1>2, <1>3, <1>4, <2>2 DEF HandedInv, At
    <2>4. chat.listed /\ ~chat.stopping => StatusInv'
      <3>1. \A k \in Tasks : tasks'[k].at \in {"connecting", "adopting"} =>
              (chat.listed /\ ~chat.stopping => tasks'[k].tok = gen')
        BY <1>2 DEF ServedInv, StatusInv, is_current
      <3>2. QED
        BY <2>1, <2>2, <3>1 DEF StatusInv, CardsInv, is_current
    <2>5. QED
      BY <2>2, <2>3, <2>4 DEF ServedInv
  <1>7. CASE chat.live # t
    <2>1. chat' = chat
      BY <1>1, <1>7, EndedIs
    <2>2. chat.live # 0 => agents'[chat.live] = agents[chat.live]
      BY <1>1, <1>3, <1>7, TokensNamed
    <2>3. HandedInv'
      BY <1>1, <1>2, <1>3, <1>4, <2>1, <2>2 DEF HandedInv, At
    <2>4. Attended' <=> Attended
      BY <1>2, <2>1, <2>2 DEF Attended, Turns, At
    <2>5. StatusInv => StatusInv'
      BY <1>2, <1>5, <2>1, <2>2, <2>4 DEF StatusInv, CardsInv, is_current
    <2>6. QED
      BY <2>1, <2>3, <2>5 DEF ServedInv
  <1>8. QED
    BY <1>6, <1>7

\* A task that goes on, without a new connection to look after
LEMMA TaskServes ==
  ASSUME ChatBounds, ChatInv, ServedInv, Told(chat), UNCHANGED gen,
         NEW k \in Tasks, NEW at \in Steps \ {"connecting", "adopting"}, NEW tok \in 0..MaxStarts, Goto(k, at, tok),
         \A t \in Tokens : agents'[t].st = agents[t].st /\ agents'[t].ready = agents[t].ready,
         chat.listed /\ ~chat.stopping /\ StatusInv =>
           /\ chat'.asks # {} => Attended'
           /\ chat'.status = "needs" => chat'.asks # {}
           /\ chat'.status = "running" => SomeTurn' \/ (chat'.live # 0 /\ agents'[chat'.live].st = "dying")
           /\ chat'.live = 0 /\ Connecting' = {} =>
                chat'.status = "disconnected" \/ (chat'.status = "starting" /\ ~SomeTurn')
           /\ chat'.status = "disconnected" => chat'.live = 0
  PROVE  ServedInv'
  <1>1. TypesInv /\ TokensInv /\ HandedInv
    BY DEF ChatInv, ServedInv
  <1>2. /\ chat'.live = chat.live /\ chat'.listed = chat.listed /\ chat'.stopping = chat.stopping
    BY DEF Told, Follows, SameOwner
  <1>3. /\ tasks'[k].at = at /\ \A j \in Tasks : j # k => tasks'[j] = tasks[j]
    BY <1>1, GotoIs
  <1>4. HandedInv'
    <2>1. \A u \in Tokens : agents'[u].ready => agents'[u].st \in {"up", "dying"}
      BY <1>1 DEF HandedInv
    <2>2. \A j \in Tasks : tasks'[j].at = "adopting" => tasks'[j] = tasks[j]
      BY <1>3
    <2>3. QED
      BY <1>1, <1>2, <2>1, <2>2, HandedStays
  <1>5. ASSUME chat.listed, ~chat.stopping PROVE StatusInv'
    <2>1. StatusInv
      BY <1>5 DEF ServedInv
    <2>2. \A j \in Tasks : tasks'[j].at \in {"connecting", "adopting"} => tasks'[j].tok = gen'
      BY <1>3, <2>1 DEF StatusInv, is_current
    <2>3. QED
      BY <1>5, <2>1, <2>2 DEF StatusInv, CardsInv, is_current
  <1>6. QED
    BY <1>2, <1>4, <1>5 DEF ServedInv

LEMMA RequestServes ==
  ASSUME ChatBounds, ChatInv, ServedInv, NEW k \in Tasks, Request(k)
  PROVE  ServedInv'
  <1>1. TypesInv
    BY DEF ChatInv
  <1>2. /\ tasks[k].at = "idle" /\ Goto(k, "queued", 0) /\ UNCHANGED <<gen, agents, chat>> /\ Told(chat)
        /\ 0 \in 0..MaxStarts /\ "queued" \in Steps \ {"connecting", "adopting"}
    BY <1>1, NothingFollows, CountsAre DEF Request, At, Steps
  <1>3. /\ tasks'[k].at = "queued" /\ \A j \in Tasks : j # k => tasks'[j] = tasks[j]
    BY <1>1, <1>2, GotoIs
  <1>4. Connecting' = Connecting /\ (SomeTurn' <=> SomeTurn) /\ \A t : Turns(t)' = Turns(t)
    BY <1>2, <1>3 DEF Connecting, SomeTurn, Turns, At, Tasks
  <1>5. Attended' <=> Attended
    BY <1>2, <1>4 DEF Attended
  <1>6. QED
    BY <1>2, <1>4, <1>5, TaskServes DEF StatusInv, CardsInv

LEMMA OptionSetServes ==
  ASSUME ChatBounds, ChatInv, ServedInv, NEW k \in Tasks, OptionSet(k)
  PROVE  ServedInv'
  <1>1. TypesInv
    BY DEF ChatInv
  <1>2. /\ tasks[k].at = "setting" /\ Goto(k, "done", 0) /\ UNCHANGED <<gen, agents>> /\ Told(chat) /\ Quiet
        /\ 0 \in 0..MaxStarts /\ "done" \in Steps \ {"connecting", "adopting"}
    BY <1>1, OptionSetIs, CountsAre DEF OptionSet, At, Steps
  <1>3. /\ tasks'[k].at = "done" /\ \A j \in Tasks : j # k => tasks'[j] = tasks[j]
    BY <1>1, <1>2, GotoIs
  <1>4. Connecting' = Connecting /\ (SomeTurn' <=> SomeTurn) /\ \A t : Turns(t)' = Turns(t)
    BY <1>2, <1>3 DEF Connecting, SomeTurn, Turns, At, Tasks
  <1>5. chat'.live = chat.live
    BY <1>2 DEF Told, Follows, SameOwner
  <1>6. Attended' <=> Attended
    BY <1>2, <1>4, <1>5 DEF Attended
  <1>7. QED
    BY <1>2, <1>4, <1>5, <1>6, TaskServes DEF StatusInv, CardsInv, Quiet

LEMMA TurnEndsServes ==
  ASSUME ChatBounds, ChatInv, TurnsInv, ServedInv, NEW k \in Tasks, TurnEnds(k)
  PROVE  ServedInv'
  <1> DEFINE t == tasks[k].tok
  <1>1. TypesInv /\ TokensInv /\ AgentsInv
    BY DEF ChatInv
  <1>2. /\ tasks[k].at = "turn" /\ agents[t].st = "up" /\ Goto(k, "done", 0) /\ UNCHANGED gen
        /\ chat.asks = {} \/ agents[t].cancelled \/ Turns(t) # {k}
        /\ agents' = [agents EXCEPT ![t].cancelled = @ /\ Turns(t) # {k}]
        /\ 0 \in 0..MaxStarts /\ "done" \in Steps \ {"connecting", "adopting"}
    BY CountsAre DEF TurnEnds, At, Steps
  <1>3. /\ Told(chat) /\ chat'.asks = chat.asks
        /\ chat'.status = IF chat.status = "disconnected" THEN "disconnected" ELSE "idle"
    BY <1>1, TurnEndsIs
  <1>4. chat.live = t /\ chat.live # 0 /\ t \in Tokens
    BY <1>1, <1>2, TurnedIsLive, TokensNamed
  <1>5. chat'.live = chat.live
    BY <1>3 DEF Told, Follows, SameOwner
  <1>6. /\ tasks'[k].at = "done" /\ \A j \in Tasks : j # k => tasks'[j] = tasks[j]
    BY <1>1, <1>2, GotoIs
  <1>7. \A u \in Tokens : agents'[u].st = agents[u].st /\ agents'[u].ready = agents[u].ready
    BY <1>1, <1>2 DEF TypesInv, AgentStates
  <1>8. ASSUME chat.listed, ~chat.stopping, StatusInv, chat.asks # {} PROVE Attended'
    <2>1. ~agents[t].cancelled
      BY <1>2, <1>4, <1>8 DEF StatusInv, CardsInv, Attended
    <2>2. ~agents'[t].cancelled
      BY <1>1, <1>2, <1>4, <2>1 DEF TypesInv, AgentStates
    <2>3. Turns(t) # {k} /\ k \in Turns(t)
      <3>1. Turns(t) # {}
        BY <1>2, <1>4, <1>8 DEF StatusInv, CardsInv, Attended
      <3>2. Turns(t) # {k}
        BY <1>2, <1>8, <2>1
      <3>3. k \in Prompts
        BY <1>2 DEF TurnsInv, At
      <3>4. QED
        BY <1>2, <3>2, <3>3 DEF Turns, At
    <2>4. PICK j \in Turns(t) : j # k
      BY <2>3
    <2>5. j \in Prompts /\ tasks'[j].at = "turn" /\ tasks'[j].tok = t
      BY <1>6, <2>4 DEF Turns, At, Tasks
    <2>6. \E i \in Prompts : tasks'[i].at = "turn" /\ tasks'[i].tok = chat'.live
      BY <1>4, <1>5, <2>5
    <2>7. Turns(chat.live)' # {}
      BY <2>6 DEF Turns, At
    <2>8. QED
      BY <1>4, <1>5, <2>2, <2>7 DEF Attended
  <1> HIDE DEF t
  <1>9. chat.listed /\ ~chat.stopping /\ StatusInv => chat'.status = "idle"
    BY <1>3, <1>4 DEF StatusInv
  <1>10. QED
    BY <1>2, <1>3, <1>4, <1>5, <1>7, <1>8, <1>9, TaskServes DEF StatusInv

LEMMA TurnFailsServes ==
  ASSUME ChatBounds, ChatInv, TurnsInv, ServedInv, NEW k \in Tasks, TurnFails(k)
  PROVE  ServedInv'
  <1>1. TypesInv /\ TokensInv /\ AgentsInv
    BY DEF ChatInv
  <1>2. /\ tasks[k].at = "turn" /\ agents[tasks[k].tok].st \in {"dying", "none"} /\ Goto(k, "done", 0)
        /\ UNCHANGED <<gen, agents>> /\ 0 \in 0..MaxStarts /\ "done" \in Steps \ {"connecting", "adopting"}
    BY CountsAre DEF TurnFails, At, Steps
  <1>3. /\ Told(chat) /\ chat'.asks = chat.asks
        /\ chat'.status = IF chat.status = "disconnected" THEN "disconnected" ELSE "idle"
    BY <1>1, TurnFailsIs
  <1>4. chat'.live = chat.live
    BY <1>3 DEF Told, Follows, SameOwner
  <1>5. /\ tasks'[k].at = "done" /\ \A j \in Tasks : j # k => tasks'[j] = tasks[j]
    BY <1>1, <1>2, GotoIs
  <1>6. ASSUME Attended PROVE Attended'
    <2>1. CASE agents[chat.live].st = "up"
      <3>1. PICK j \in Prompts : tasks[j].at = "turn" /\ tasks[j].tok = chat.live
        BY <1>6, <2>1 DEF Attended, Turns, At
      <3>2. j # k
        BY <1>2, <2>1, <3>1
      <3>3. \E i \in Prompts : tasks'[i].at = "turn" /\ tasks'[i].tok = chat'.live
        BY <1>4, <1>5, <3>1, <3>2 DEF Tasks
      <3>4. Turns(chat.live)' # {}
        BY <3>3 DEF Turns, At
      <3>5. QED
        BY <1>2, <1>4, <1>6, <2>1, <3>4 DEF Attended
    <2>2. CASE agents[chat.live].st # "up"
      BY <1>2, <1>4, <1>6, <2>2 DEF Attended
    <2>3. QED
      BY <2>1, <2>2
  <1>7. ASSUME chat.listed, ~chat.stopping, StatusInv
        PROVE  /\ chat'.live = 0 /\ Connecting' = {} => chat'.status = "disconnected"
               /\ chat'.status = "disconnected" => chat'.live = 0
               /\ chat'.asks # {} => Attended'
    <2>1. Connecting' = Connecting
      BY <1>2, <1>5 DEF Connecting
    <2>2. k \in Prompts => SomeTurn
      BY <1>2 DEF SomeTurn, At
    <2>3. k \in Prompts
      BY <1>2 DEF TurnsInv, At
    <2>4. QED
      BY <1>3, <1>4, <1>6, <1>7, <2>1, <2>2, <2>3 DEF StatusInv, CardsInv
  <1>8. chat'.status \notin {"needs", "running"}
    BY <1>3
  <1>9. QED
    BY <1>2, <1>3, <1>4, <1>7, <1>8, TaskServes

\* A connection is there already, or this task makes one
LEMMA ConnectionCheckServes ==
  ASSUME ChatBounds, ChatInv, ServedInv, NEW k \in Tasks, ConnectionCheck(k)
  PROVE  ServedInv'
  <1>1. TypesInv /\ TokensInv
    BY DEF ChatInv
  <1>2. /\ tasks[k].at = "queued" /\ UNCHANGED <<gen, agents>> /\ Told(chat)
        /\ 0 \in 0..MaxStarts /\ chat.live \in 0..MaxStarts
    BY <1>1, ConnectionCheckIs, NothingFollows, CountsAre DEF ConnectionCheck, At, TypesInv, Chats
  <1>3. chat'.live = chat.live
    BY <1>2 DEF Told, Follows, SameOwner
  <1>4. ASSUME NEW at \in Steps \ {"connecting", "adopting"}, NEW tok \in 0..MaxStarts, Goto(k, at, tok)
        PROVE  /\ tasks'[k].at = at /\ \A j \in Tasks : j # k => tasks'[j] = tasks[j]
               /\ SomeTurn => SomeTurn'
               /\ Attended => Attended'
    <2>1. /\ tasks'[k].at = at /\ \A j \in Tasks : j # k => tasks'[j] = tasks[j]
      BY <1>1, <1>4, GotoIs
    <2>2. \A j \in Prompts : At(j, "turn") => tasks'[j] = tasks[j]
      BY <1>2, <2>1 DEF At, Tasks
    <2>3. SomeTurn => SomeTurn'
      BY <2>2 DEF SomeTurn, At
    <2>4. Turns(chat.live) # {} => Turns(chat.live)' # {}
      <3>1. ASSUME NEW j \in Prompts, tasks[j].at = "turn", tasks[j].tok = chat.live
            PROVE  \E i \in Prompts : tasks'[i].at = "turn" /\ tasks'[i].tok = chat'.live
        BY <1>3, <2>2, <3>1 DEF At
      <3>2. QED
        BY <3>1 DEF Turns, At
    <2>5. QED
      BY <1>2, <1>3, <2>1, <2>3, <2>4 DEF Attended
  <1>5. CASE chat.closed /\ Goto(k, "done", 0) /\ UNCHANGED <<chat, saves, saved, seen>>
    <2>1. ~chat.listed /\ "done" \in Steps \ {"connecting", "adopting"}
      BY <1>1, <1>5 DEF TokensInv, Steps
    <2>2. QED
      BY <1>2, <1>5, <2>1, TaskServes
  <1>6. CASE chat.live = 0 /\ Goto(k, "checked", 0) /\ UNCHANGED <<chat, saves, saved, seen>>
    <2>1. "checked" \in Steps \ {"connecting", "adopting"}
      BY DEF Steps
    <2>2. /\ tasks'[k].at = "checked" /\ SomeTurn => SomeTurn'
      BY <1>2, <1>4, <1>6, <2>1
    <2>3. Connecting' # {}
      <3>1. tasks'[k].at = "checked"
        BY <1>2, <1>4, <1>6, <2>1
      <3>2. QED
        BY <3>1 DEF Connecting
    <2>4. SomeTurn => SomeTurn'
      BY <1>2, <1>4, <1>6, <2>1
    <2>5. chat.asks # {} /\ StatusInv => FALSE
      BY <1>6 DEF StatusInv, CardsInv, Attended
    <2>6. QED
      BY <1>2, <1>6, <2>1, <2>3, <2>4, <2>5, TaskServes DEF StatusInv
  <1>7. ASSUME /\ chat.live # 0 /\ GoesOn(k, chat.live) /\ chat'.asks = chat.asks
               /\ chat'.status = IF k \in Prompts THEN "running" ELSE chat.status
        PROVE  ServedInv'
    <2>1. PICK at \in {"turn", "setting", "done"} :
            (k \in Prompts <=> at = "turn") /\ Goto(k, at, IF at = "done" THEN 0 ELSE chat.live)
      BY <1>7 DEF GoesOn
    <2>2. at \in Steps \ {"connecting", "adopting"} /\ (IF at = "done" THEN 0 ELSE chat.live) \in 0..MaxStarts
      BY <1>2 DEF Steps
    <2>3. tasks'[k].at = at
      BY <1>4, <2>1, <2>2
    <2>4. SomeTurn => SomeTurn'
      BY <1>4, <2>1, <2>2
    <2>5. Attended => Attended'
      BY <1>4, <2>1, <2>2
    <2>6. k \in Prompts => SomeTurn'
      BY <2>1, <2>3 DEF SomeTurn, At
    <2>7. QED
      BY <1>2, <1>3, <1>7, <2>1, <2>2, <2>4, <2>5, <2>6, TaskServes DEF StatusInv, CardsInv
  <1>8. QED
    BY <1>1, <1>5, <1>6, <1>7, ConnectionCheckIs

\* The chat says Starting, and a new agent has nothing yet
LEMMA ConnectionStartServes ==
  ASSUME ChatBounds, ChatInv, ServedInv, NEW k \in Tasks, ConnectionStart(k)
  PROVE  ServedInv'
  <1>1. TypesInv /\ TokensInv /\ AgentsInv /\ HandedInv
    BY DEF ChatInv, ServedInv
  <1>2. PICK st \in {"starting", "none"} :
          /\ tasks[k].at = "checked" /\ gen' = gen + 1 /\ Goto(k, "connecting", gen + 1)
          /\ agents' = [agents EXCEPT ![gen + 1] = [NoAgent EXCEPT !.st = st]]
    BY DEF ConnectionStart, At
  <1>3. Told(chat) /\ chat'.asks = chat.asks /\ chat'.status = "starting"
    BY <1>1, ConnectionStartIs
  <1>4. /\ chat'.live = chat.live /\ chat'.listed = chat.listed /\ chat'.stopping = chat.stopping
        /\ chat'.closed = chat.closed
    BY <1>3 DEF Told, Follows, SameOwner
  <1>5. k \in Connecting /\ chat.live = 0
    BY <1>1, <1>2 DEF Connecting, AgentsInv
  <1>6. gen \in Nat /\ gen' # gen /\ tasks' = [tasks EXCEPT ![k] = [at |-> "connecting", tok |-> gen + 1]]
    BY <1>1, <1>2 DEF TypesInv, Goto
  <1>7. /\ tasks'[k].at = "connecting" /\ tasks'[k].tok = gen' /\ \A j \in Tasks : j # k => tasks'[j] = tasks[j]
    BY <1>1, <1>2, <1>6 DEF TypesInv
  <1>8. HandedInv'
    <2>1. \A t \in Tokens : /\ t <= gen => agents'[t] = agents[t]
                            /\ agents'[t] = agents[t] \/ ~agents'[t].ready
      BY <1>1, <1>2, <1>6 DEF TypesInv, AgentStates, NoAgent, Tokens
    <2>2. \A t \in Tokens : agents'[t].ready => agents'[t].st \in {"up", "dying"}
      BY <1>1, <2>1 DEF HandedInv
    <2>3. \A t \in Tokens : agents[t].st \in {"up", "dying"} /\ t <= gen => agents'[t].st \in {"up", "dying"}
      BY <2>1
    <2>4. \A j \in Tasks : tasks'[j].at = "adopting" => tasks'[j] = tasks[j]
      BY <1>7
    <2>5. QED
      BY <1>1, <1>4, <2>2, <2>3, <2>4, HandedStays
  <1>9. ASSUME chat.listed, ~chat.stopping PROVE StatusInv'
    <2>1. StatusInv
      BY <1>9 DEF ServedInv
    <2>2. \A j \in Tasks : tasks'[j].at \in {"connecting", "adopting"} => j = k
      BY <1>1, <1>5, <1>7 DEF AgentsInv, Connecting
    <2>3. \A j \in Tasks : tasks'[j].at \in {"connecting", "adopting"} => tasks'[j].tok = gen'
      BY <1>7, <2>2
    <2>4. chat'.asks = {}
      BY <1>3, <1>5, <2>1 DEF StatusInv, CardsInv, Attended
    <2>5. Connecting' # {}
      BY <1>7 DEF Connecting
    <2>6. QED
      BY <1>3, <2>3, <2>4, <2>5 DEF StatusInv, CardsInv, is_current
  <1>10. QED
    BY <1>4, <1>8, <1>9 DEF ServedInv

\* The task is handed the connection of a process that came up
LEMMA AdoptCheckServes ==
  ASSUME ChatBounds, ChatInv, ServedInv, NEW k \in Tasks, AdoptCheck(k)
  PROVE  ServedInv'
  <1> DEFINE t == tasks[k].tok
  <1>1. TypesInv /\ TokensInv /\ AgentsInv /\ HandedInv
    BY DEF ChatInv, ServedInv
  <1>2. /\ tasks[k].at = "connecting" /\ agents[t].ready /\ UNCHANGED <<chat, gen>>
        /\ t \in Tokens /\ t \in 0..MaxStarts /\ 0 \in 0..MaxStarts
    BY <1>1, TokensNamed, CountsAre DEF AdoptCheck, At
  <1>3. agents[t].st \in {"up", "dying"}
    BY <1>1, <1>2 DEF HandedInv
  <1>4. k \in Connecting /\ chat.live = 0
    BY <1>1, <1>2 DEF Connecting, AgentsInv
  <1>5. \A j \in Tasks : j # k => tasks[j].at \notin {"checked", "connecting", "adopting"}
    BY <1>1, <1>4 DEF AgentsInv, Connecting
  <1>6. \E at \in {"adopting", "done"} :
          /\ t = gen => at = "adopting"
          /\ tasks'[k].at = at /\ (at = "adopting" => tasks'[k].tok = t)
          /\ \A j \in Tasks : j # k => tasks'[j] = tasks[j]
          /\ agents'[t].st \in {"up", "dying"} /\ \A u \in Tokens : u # t => agents'[u] = agents[u]
    <2>1. CASE is_current(t)
      <3>1. Goto(k, "adopting", t) /\ agents' = [agents EXCEPT ![t].ready = FALSE]
        BY <2>1 DEF AdoptCheck
      <3>2. /\ tasks'[k].at = "adopting" /\ tasks'[k].tok = t
            /\ \A j \in Tasks : j # k => tasks'[j] = tasks[j]
        BY <1>1, <1>2, <3>1, GotoIs DEF Steps
      <3>3. agents'[t].st \in {"up", "dying"} /\ \A u \in Tokens : u # t => agents'[u] = agents[u]
        BY <1>1, <1>2, <1>3, <3>1 DEF TypesInv, AgentStates
      <3>4. QED
        BY <3>2, <3>3
    <2>2. CASE ~is_current(t)
      <3>1. /\ Goto(k, "done", 0)
            /\ agents' = [agents EXCEPT ![t].ready = FALSE, ![t].st = IF @ = "up" THEN "dying" ELSE @]
        BY <2>2 DEF AdoptCheck
      <3>2. /\ tasks'[k].at = "done" /\ \A j \in Tasks : j # k => tasks'[j] = tasks[j]
        BY <1>1, <1>2, <3>1, GotoIs DEF Steps
      <3>3. agents'[t].st \in {"up", "dying"} /\ \A u \in Tokens : u # t => agents'[u] = agents[u]
        BY <1>1, <1>2, <1>3, <3>1 DEF TypesInv, AgentStates
      <3>4. QED
        BY <2>2, <3>2, <3>3 DEF is_current
    <2>3. QED
      BY <2>1, <2>2
  <1> HIDE DEF t
  <1>7. PICK at \in {"adopting", "done"} :
          /\ t = gen => at = "adopting"
          /\ tasks'[k].at = at /\ (at = "adopting" => tasks'[k].tok = t)
          /\ \A j \in Tasks : j # k => tasks'[j] = tasks[j]
          /\ agents'[t].st \in {"up", "dying"} /\ \A u \in Tokens : u # t => agents'[u] = agents[u]
    BY <1>6
  <1>8. HandedInv'
    <2>1. \A u \in Tokens : agents'[u].ready => agents'[u].st \in {"up", "dying"}
      BY <1>1, <1>7 DEF HandedInv
    <2>2. \A j \in Tasks : tasks'[j].at = "adopting" => agents'[tasks'[j].tok].st \in {"up", "dying"}
      BY <1>5, <1>7
    <2>3. chat'.live = 0
      BY <1>2, <1>4
    <2>4. QED
      BY <2>1, <2>2, <2>3 DEF HandedInv, At
  <1>9. ASSUME chat.listed, ~chat.stopping PROVE StatusInv'
    <2>1. StatusInv
      BY <1>9 DEF ServedInv
    <2>2. at = "adopting" /\ t = gen
      BY <1>2, <1>7, <2>1 DEF StatusInv, is_current, t
    <2>3. \A j \in Tasks : tasks'[j].at \in {"connecting", "adopting"} => tasks'[j].tok = gen'
      BY <1>2, <1>5, <1>7, <2>2
    <2>4. chat.asks = {} /\ chat' = chat
      BY <1>2, <1>4, <2>1 DEF StatusInv, CardsInv, Attended
    <2>5. Connecting' # {}
      BY <1>7, <2>2 DEF Connecting
    <2>6. SomeTurn => SomeTurn'
      <3>1. \A j \in Prompts : At(j, "turn") => j # k /\ j \in Tasks
        BY <1>2 DEF At, Tasks
      <3>2. QED
        BY <1>7, <3>1 DEF SomeTurn, At
    <2>7. QED
      BY <1>4, <2>1, <2>3, <2>4, <2>5, <2>6 DEF StatusInv, CardsInv, is_current
  <1>10. QED
    BY <1>2, <1>8, <1>9 DEF ServedInv

\* The chat has the connection
LEMMA AdoptServes ==
  ASSUME ChatBounds, ChatInv, ServedInv, NEW k \in Tasks, Adopt(k)
  PROVE  ServedInv'
  <1> DEFINE t == tasks[k].tok
  <1>1. TypesInv /\ TokensInv /\ AgentsInv /\ HandedInv
    BY DEF ChatInv, ServedInv
  <1>2. /\ tasks[k].at = "adopting" /\ UNCHANGED <<gen, agents>>
        /\ t \in Tokens /\ t \in 0..MaxStarts /\ 0 \in 0..MaxStarts
    BY <1>1, TokensNamed, CountsAre DEF Adopt, At
  <1>3. agents[t].st \in {"up", "dying"} /\ t # 0
    BY <1>1, <1>2 DEF HandedInv, At, Tokens
  <1>4. k \in Connecting /\ chat.live = 0
    BY <1>1, <1>2 DEF Connecting, AgentsInv
  <1>5. /\ GoesOn(k, t) /\ Told([chat EXCEPT !.live = t]) /\ chat'.asks = chat.asks
        /\ chat'.status = IF k \in Prompts THEN "running" ELSE "idle"
    BY <1>1, <1>2, AdoptIs
  <1>6. chat'.live = t /\ chat'.listed = chat.listed /\ chat'.stopping = chat.stopping
    BY <1>1, <1>5 DEF Told, Follows, SameOwner, TypesInv, Chats
  <1>7. PICK at \in {"turn", "setting", "done"} :
          (k \in Prompts <=> at = "turn") /\ Goto(k, at, IF at = "done" THEN 0 ELSE t)
    BY <1>5 DEF GoesOn
  <1> HIDE DEF t
  <1>8. tasks'[k].at = at /\ \A j \in Tasks : j # k => tasks'[j] = tasks[j]
    <2>1. at \in Steps /\ (IF at = "done" THEN 0 ELSE t) \in 0..MaxStarts
      BY <1>2 DEF Steps
    <2>2. QED
      BY <1>1, <1>7, <2>1, GotoIs
  <1>9. \A j \in Tasks : tasks'[j].at \notin {"checked", "connecting", "adopting"}
    BY <1>1, <1>4, <1>8 DEF AgentsInv, Connecting
  <1>10. HandedInv'
    BY <1>1, <1>2, <1>3, <1>6, <1>9 DEF HandedInv, At
  <1>11. ASSUME chat.listed, ~chat.stopping PROVE StatusInv'
    <2>1. chat'.asks = {}
      BY <1>4, <1>5, <1>11 DEF ServedInv, StatusInv, CardsInv, Attended
    <2>2. k \in Prompts => SomeTurn'
      BY <1>7, <1>8 DEF SomeTurn, At
    <2>3. QED
      BY <1>3, <1>5, <1>6, <1>9, <2>1, <2>2 DEF StatusInv, CardsInv
  <1>12. QED
    BY <1>6, <1>10, <1>11 DEF ServedInv

LEMMA ConnectionFailsServes ==
  ASSUME ChatBounds, ChatInv, ServedInv, NEW k \in Tasks, ConnectionFails(k)
  PROVE  ServedInv'
  <1>1. TypesInv /\ AgentsInv
    BY DEF ChatInv
  <1>2. /\ tasks[k].at = "connecting" /\ Goto(k, "done", 0) /\ UNCHANGED <<gen, agents>>
        /\ 0 \in 0..MaxStarts /\ "done" \in Steps \ {"connecting", "adopting"}
    BY CountsAre DEF ConnectionFails, At, Steps
  <1>3. /\ Told(chat)
        /\ is_current(tasks[k].tok) => chat'.asks = {} /\ chat'.status = "disconnected"
    BY <1>1, ConnectionFailsIs
  <1>4. chat.live = 0 /\ chat'.live = chat.live
    BY <1>1, <1>2, <1>3 DEF Connecting, AgentsInv, Told, Follows, SameOwner
  <1>5. StatusInv => is_current(tasks[k].tok)
    BY <1>2 DEF StatusInv
  <1>6. QED
    BY <1>2, <1>3, <1>4, <1>5, TaskServes

LEMMA CreateServes ==
  ASSUME ChatBounds, ChatInv, NEW r \in BOOLEAN, Create(r)
  PROVE  ServedInv'
  <1>1. TypesInv /\ NothingYet
    BY DEF ChatInv
  <1>2. /\ At("create", "idle") /\ chat' = NewChat(r) /\ Goto("create", "queued", 0) /\ UNCHANGED agents
    BY DEF Create
  <1>3. /\ \A k \in Tasks : tasks[k].at = "idle"
        /\ \A t \in Tokens : agents[t] = NoAgent
    BY <1>1, <1>2 DEF NothingYet, At
  <1>4. tasks'["create"].at = "queued" /\ \A j \in Tasks : j # "create" => tasks'[j] = tasks[j]
    <2>1. "create" \in Tasks /\ "queued" \in Steps /\ 0 \in 0..MaxStarts
      BY CountsAre DEF Tasks, Steps
    <2>2. QED
      BY <1>1, <1>2, <2>1, GotoIs
  <1>5. \A k \in Tasks : tasks'[k].at \in {"idle", "queued"}
    BY <1>3, <1>4
  <1>6. chat'.live = 0 /\ chat'.asks = {} /\ chat'.status = "starting"
    BY <1>2, NewChatIs
  <1>7. HandedInv'
    BY <1>2, <1>3, <1>5, <1>6 DEF HandedInv, At, NoAgent
  <1>8. ~SomeTurn'
    BY <1>5 DEF SomeTurn, At, Tasks
  <1>9. StatusInv'
    BY <1>5, <1>6, <1>8 DEF StatusInv, CardsInv
  <1>10. QED
    BY <1>7, <1>9 DEF ServedInv

\* A stop and a close leave no status to be true
LEMMA SupersededServes ==
  ASSUME ChatBounds, ChatInv, ServedInv, Stop \/ Close
  PROVE  ServedInv'
  <1>1. TypesInv /\ TokensInv /\ HandedInv
    BY DEF ChatInv, ServedInv
  <1>2. /\ UNCHANGED tasks
        /\ agents' = [t \in Tokens |-> IF t = chat.live /\ agents[t].st = "up"
                                       THEN [agents[t] EXCEPT !.st = "dying"] ELSE agents[t]]
    BY DEF Stop, Close
  <1>3. chat'.live = 0 /\ ~(chat'.listed /\ ~chat'.stopping)
    <2>1. chat \in Chats
      BY <1>1 DEF TypesInv
    <2>2. CASE Stop
      BY <2>1, <2>2 DEF Stop, Chats
    <2>3. CASE Close
      BY <2>1, <2>3 DEF Close, Chats
    <2>4. QED
      BY <2>2, <2>3
  <1>4. \A t \in Tokens : /\ agents'[t].ready = agents[t].ready
                          /\ agents'[t].st = agents[t].st \/ agents'[t].st = "dying"
    BY <1>1, <1>2 DEF TypesInv, AgentStates
  <1>5. \A k \in Tasks : At(k, "adopting") => tasks[k].tok \in Tokens
    BY <1>1, TokensNamed DEF At
  <1>6. HandedInv'
    BY <1>1, <1>2, <1>3, <1>4, <1>5 DEF HandedInv, At
  <1>7. QED
    BY <1>3, <1>6 DEF ServedInv

LEMMA RestartServes ==
  ASSUME ChatBounds, ChatInv, Restart
  PROVE  ServedInv'
  <1>1. TypesInv
    BY DEF ChatInv
  <1>2. /\ tasks' = [k \in Tasks |-> IF k = "create" THEN [NoTask EXCEPT !.at = "done"] ELSE NoTask]
        /\ agents' = [t \in Tokens |-> NoAgent]
    BY DEF Restart
  <1>3. \A k \in Tasks : tasks'[k].at \in {"idle", "done"}
    BY <1>2 DEF NoTask
  <1>4. chat'.live = 0 /\ (chat'.listed => chat'.asks = {} /\ chat'.status = "disconnected")
    <2>1. CASE saved = NoInfo
      <3>1. chat' = [chat EXCEPT !.listed = FALSE, !.live = 0]
        BY <2>1 DEF Restart
      <3>2. QED
        BY <1>1, <3>1 DEF TypesInv, Chats
    <2>2. CASE saved # NoInfo
      <3> DEFINE n == NewChat(FALSE)
      <3>1. chat' = [n EXCEPT !.status = "disconnected", !.session = saved.session,
                       !.title = saved.title, !.seq = LoadedSeq(chat),
                       !.users = chat.users, !.cards = chat.cards, !.hist = chat.hist]
        BY <2>2 DEF Restart
      <3>2. n \in Chats /\ n.live = 0 /\ n.asks = {}
        BY NewChatIs
      <3> HIDE DEF n
      <3>3. QED
        BY <3>1, <3>2 DEF Chats
    <2>3. QED
      BY <2>1, <2>2
  <1>5. HandedInv'
    BY <1>2, <1>3, <1>4 DEF HandedInv, At, NoAgent
  <1>6. chat'.listed => StatusInv'
    BY <1>3, <1>4 DEF StatusInv, CardsInv
  <1>7. QED
    BY <1>5, <1>6 DEF ServedInv

LEMMA ServedKept ==
  ASSUME ChatBounds, ~Racing, ChatInv, ClosedInv, TurnsInv, ServedInv, ChatStep
  PROVE  ServedInv'
  <1>1. CASE UNCHANGED chatVars
    BY <1>1 DEF chatVars, ServedInv, HandedInv, StatusInv, CardsInv, Attended, SomeTurn, Turns, Connecting, At,
                is_current
  <1>2. ASSUME NEW info \in saves PROVE FALSE
    BY <1>2 DEF ClosedInv
  <1>3. QED
    BY <1>1, <1>2, CreateServes, RequestServes, TurnEndsServes, ConnectionCheckServes, ConnectionStartServes,
       AdoptCheckServes, AdoptServes, ConnectionFailsServes, TurnFailsServes, OptionSetServes,
       AgentStepServes, EndedServes, SaysServe, CancelServes, SupersededServes, RestartServes DEF ChatStep

LEMMA ServedInitially == ASSUME ChatBounds PROVE ChatInit => TurnsInv /\ ServedInv
  <1> SUFFICES ASSUME ChatInit PROVE TurnsInv /\ ServedInv
    OBVIOUS
  <1>1. chat.live = 0 /\ ~chat.listed
    BY NoChatIs DEF ChatInit
  <1>2. \A k \in Tasks : tasks[k].at = "idle"
    BY DEF ChatInit, NoTask
  <1>3. \A t \in Tokens : ~agents[t].ready
    BY DEF ChatInit, NoAgent
  <1>4. QED
    BY <1>1, <1>2, <1>3 DEF TurnsInv, ServedInv, HandedInv, At

LEMMA ServedAlways ==
  ASSUME ChatBounds, ~Racing
  PROVE  ChatSpec => [](ChatInv /\ ServedInv)
  <1>1. ChatInit => ClosedInv /\ TurnsInv /\ ServedInv
    BY ClosedInitially, ServedInitially
  <1>2. ChatInv /\ ClosedInv /\ TurnsInv /\ ServedInv /\ [ChatNext]_chatVars =>
          ClosedInv' /\ TurnsInv' /\ ServedInv'
    BY ClosedKept, TurnsKept, ServedKept, StepsAre
  <1>3. QED
    BY <1>1, <1>2, ChatInvariant, PTL DEF ChatSpec

\* The status says what is so, at every step of starting, asking, answering, failing and loading (emit's status table)
THEOREM StatusTold ==
  ASSUME ChatBounds, ~Racing
  PROVE  ChatSpec => []StatusTrue
  <1>1. ChatInv /\ ServedInv => StatusTrue
    <2> SUFFICES ASSUME ChatInv, ServedInv, chat.listed, ~chat.stopping
                 PROVE  /\ chat.status = "running" =>
                             \E t \in Tokens : Turns(t) # {} \/ agents[t].st = "dying"
                        /\ chat.status = "needs" => chat.asks # {}
                        /\ chat.status = "idle" => chat.live # 0 \/ Connecting # {}
                        /\ chat.status = "disconnected" => chat.live = 0
      BY DEF StatusTrue
    <2>1. StatusInv /\ TypesInv /\ TokensInv
      BY DEF ServedInv, ChatInv
    <2>2. \A k \in Prompts : At(k, "turn") => tasks[k].tok \in Tokens /\ k \in Turns(tasks[k].tok)
      BY <2>1, TokensNamed DEF At, Tasks, Turns
    <2>3. SomeTurn => \E t \in Tokens : Turns(t) # {}
      BY <2>2 DEF SomeTurn
    <2>4. chat.live # 0 => chat.live \in Tokens
      BY <2>1, TokensNamed
    <2>5. chat.status = "running" => \E t \in Tokens : Turns(t) # {} \/ agents[t].st = "dying"
      BY <2>1, <2>3, <2>4 DEF StatusInv
    <2>6. QED
      BY <2>1, <2>5 DEF StatusInv
  <1>2. QED
    BY <1>1, ServedAlways, PTL

\* No card waits for an agent that went away (settle_all in ended and in the failed connection)
THEOREM AsksAttended ==
  ASSUME ChatBounds, ~Racing
  PROVE  ChatSpec => []AsksHaveAgent
  <1>1. ChatInv /\ ServedInv => AsksHaveAgent
    <2> SUFFICES ASSUME ChatInv, ServedInv, chat.listed, ~chat.stopping, chat.asks # {}
                 PROVE  \E t \in Tokens : agents[t].st \in {"up", "dying"}
      BY DEF AsksHaveAgent
    <2>1. chat.live # 0
      BY DEF ServedInv, StatusInv, CardsInv, Attended
    <2>2. chat.live \in Tokens /\ agents[chat.live].st \in {"up", "dying"}
      BY <2>1, TokensNamed DEF ChatInv, ServedInv, HandedInv
    <2>3. QED
      BY <2>2
  <1>2. QED
    BY <1>1, ServedAlways, PTL

=============================================================================
