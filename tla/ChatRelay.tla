------------------------------ MODULE ChatRelay ------------------------------
(***************************************************************************)
(* The chat relay of the app (src-tauri/src/commands/chat.rs): ptyd streams*)
(* a chat once per app, from one seq; the relay fans its entries out to the*)
(* channels the windows attached.  One chat; the entries of its log are    *)
(* their seqs.  Chat::attach, ChatDetach and client_gone of ptyd are here  *)
(* too, as the other end of the connection.                                *)
(***************************************************************************)
EXTENDS Naturals, Sequences, FiniteSets, SequencesExt, FiniteSetsExt

CONSTANTS
    Channels,       \* the channels of the windows
    MaxEntries,     \* bound: entries of the chat's log
    MaxBreaks,      \* bound: connections lost
    WindowsClose    \* whether a window may go while its channel is in the relay

VARIABLES
    entries,    \* ptyd: the chat's seq
    closed,     \* ptyd: the chat is closed
    viewing,    \* ptyd: this client is among the chat's viewers
    conn,       \* the connection is up
    req, inbox, \* messages to ptyd and to the app
    viewers,    \* Relay::viewers of the chat
    next_seq,   \* of each viewer
    open,       \* the channel's window is there
    last,       \* the last seq a channel was sent, plus one
    twice,      \* channels that were sent an entry again
    op,         \* who holds `attaching`, and where
    queue,      \* who waits for it
    breaks

relayVars == <<entries, closed, viewing, conn, req, inbox, viewers, next_seq, open, last,
               twice, op, queue, breaks>>

Op(kind, ch, at) == [kind |-> kind, ch |-> ch, at |-> at, seq |-> 0]
Nobody == "nobody"
NoOp == Op("none", Nobody, "free")

RelayInit ==
    /\ entries = 0 /\ closed = FALSE /\ viewing = FALSE /\ conn = TRUE
    /\ req = <<>> /\ inbox = <<>> /\ viewers = {}
    /\ next_seq = [c \in Channels |-> 0] /\ last = [c \in Channels |-> 0]
    /\ open = [c \in Channels |-> TRUE]
    /\ twice = {} /\ op = NoOp /\ queue = {} /\ breaks = 0

daemonSide == <<entries, closed, viewing>>
appSide == <<viewers, next_seq, open, last, twice>>

-----------------------------------------------------------------------------
(* ptyd: an entry for the viewers; attach answers, then replays, then      *)
(* streams, all in the order of one outbox.                                *)
Emit ==
    /\ ~closed /\ entries < MaxEntries /\ entries' = entries + 1
    /\ inbox' = IF viewing THEN Append(inbox, entries) ELSE inbox
    /\ UNCHANGED <<closed, viewing, conn, req, op, queue, breaks>> /\ UNCHANGED appSide

(* The other messages to the app and ptyd, apart from the seqs             *)
Answered == MaxEntries
Refused == MaxEntries + 1
Removed == MaxEntries + 2
StopStream == MaxEntries + 1

Serve ==
    /\ conn /\ req # <<>> /\ req' = Tail(req)
    /\ LET from == Head(req) IN
       IF closed THEN inbox' = Append(inbox, Refused) /\ UNCHANGED viewing
       ELSE IF from = StopStream
       THEN viewing' = FALSE /\ inbox' = Append(inbox, Answered)
       ELSE /\ viewing' = TRUE
            /\ inbox' = Append(inbox, Answered) \o [i \in 1 .. entries - from |-> from + i - 1]
    /\ UNCHANGED <<entries, closed, conn, op, queue, breaks>> /\ UNCHANGED appSide

Close ==
    /\ ~closed /\ closed' = TRUE /\ viewing' = FALSE
    /\ inbox' = IF conn THEN Append(inbox, Removed) ELSE inbox
    /\ UNCHANGED <<entries, conn, req, op, queue, breaks>> /\ UNCHANGED appSide

-----------------------------------------------------------------------------
sendSkipping(n) ==
    LET fresh == {c \in viewers : n >= next_seq[c]} IN
    /\ next_seq' = [c \in Channels |-> IF c \in fresh THEN n + 2 ELSE next_seq[c]]
    /\ last' = [c \in Channels |-> IF c \in fresh THEN n + 1 ELSE last[c]]
    /\ UNCHANGED <<viewers, twice, queue>>

sendAll(n) ==
    /\ last' = [c \in Channels |-> IF c \in viewers THEN n + 1 ELSE last[c]]
    /\ twice' = twice \cup {c \in viewers : n < last[c]}
    /\ UNCHANGED <<viewers, next_seq, queue>>

(* Relay::send, on the reader task: what a viewer has seen is dropped, a   *)
(* channel that is gone leaves, and with the last one the stream is to end.*)
send(n) ==
    LET fresh == {c \in viewers : n >= next_seq[c]}
        gone == {c \in fresh : ~open[c]}
    IN  /\ viewers' = viewers \ gone
        /\ next_seq' = [c \in Channels |-> IF c \in fresh THEN n + 1 ELSE next_seq[c]]
        /\ last' = [c \in Channels |-> IF c \in fresh \ gone THEN n + 1 ELSE last[c]]
        /\ twice' = twice \cup {c \in fresh \ gone : n < last[c]}
        /\ queue' = IF viewers # {} /\ viewers' = {}
                    THEN queue \cup {Op("unwatched", Nobody, "free")} ELSE queue

ReadEntry ==
    /\ conn /\ inbox # <<>> /\ Head(inbox) < MaxEntries
    /\ send(Head(inbox)) /\ inbox' = Tail(inbox)
    /\ UNCHANGED <<conn, req, open, op, breaks>> /\ UNCHANGED daemonSide

(* A window attaches its channel from a seq on, or detaches it             *)
CallAttach(c, from) ==
    /\ open[c] /\ c \notin viewers /\ \A o \in queue \cup {op} : o.ch # c
    /\ from <= entries
    /\ queue' = queue \cup {Op("attach", c, "free")}
    /\ next_seq' = [next_seq EXCEPT ![c] = from] /\ last' = [last EXCEPT ![c] = from]
    /\ UNCHANGED <<conn, req, inbox, viewers, open, twice, op, breaks>> /\ UNCHANGED daemonSide

CallDetach(c) ==   \* or drop_webview's, when the window reloads
    /\ c \in viewers /\ open[c] /\ \A o \in queue \cup {op} : o.ch # c
    /\ queue' = queue \cup {Op("detach", c, "free")}
    /\ UNCHANGED <<conn, req, inbox, op, breaks>> /\ UNCHANGED daemonSide /\ UNCHANGED appSide

(* A window is closed: nothing says so but the channel's next send         *)
WindowCloses(c) ==
    /\ WindowsClose /\ c \in viewers /\ open[c]
    /\ open' = [open EXCEPT ![c] = FALSE]
    /\ UNCHANGED <<conn, req, inbox, viewers, next_seq, last, twice, op, queue, breaks>>
    /\ UNCHANGED daemonSide

ChatRemoved ==
    /\ conn /\ inbox # <<>> /\ Head(inbox) = Removed /\ inbox' = Tail(inbox)
    /\ viewers' = {}
    /\ UNCHANGED <<conn, req, next_seq, last, open, twice, op, queue, breaks>>
    /\ UNCHANGED daemonSide

-----------------------------------------------------------------------------
(* What goes on under the `attaching` lock.  Sending: a request to ptyd.   *)
Sending(o, m) == op' = o /\ req' = Append(req, m)
ReplayFrom(cs) == Min({next_seq[c] : c \in cs})

LockStarted(o) ==
    /\ op = NoOp /\ conn /\ o \in queue /\ queue' = queue \ {o} /\ o.kind = "attach"
    /\ viewers' = viewers \cup {o.ch}
    /\ Sending([o EXCEPT !.at = "joining"], ReplayFrom(viewers'))
    /\ UNCHANGED <<conn, inbox, next_seq, last, open, twice, breaks>> /\ UNCHANGED daemonSide

AttachUnstopped(o) ==
    \/ LockStarted(o)
    \/ /\ op = NoOp /\ conn /\ o \in queue /\ queue' = queue \ {o} /\ o.kind # "attach"
       /\ UNCHANGED <<viewers, op, req, conn, inbox, next_seq, last, open, twice, breaks>>
       /\ UNCHANGED daemonSide

DetachSilent(o) ==
    \/ LockStarted(o)
    \/ /\ op = NoOp /\ conn /\ o \in queue /\ queue' = queue \ {o} /\ o.kind # "attach"
       /\ viewers' = viewers \ {o.ch}
       /\ UNCHANGED <<op, req, conn, inbox, next_seq, last, open, twice, breaks>>
       /\ UNCHANGED daemonSide

DetachAlways(o) ==
    \/ o.kind = "attach" /\ LockStarted(o)
    \/ /\ op = NoOp /\ conn /\ o \in queue /\ queue' = queue \ {o} /\ o.kind = "detach"
       /\ viewers' = viewers \ {o.ch} /\ Sending([o EXCEPT !.at = "leaving"], StopStream)
       /\ UNCHANGED <<conn, inbox, next_seq, last, open, twice, breaks>>
       /\ UNCHANGED daemonSide

Lock(o) ==
    /\ op = NoOp /\ conn /\ o \in queue /\ queue' = queue \ {o}
    /\ CASE o.kind = "attach" ->
              IF viewers # {}
              THEN /\ Sending([o EXCEPT !.at = "stopping", !.seq = ReplayFrom(viewers \cup {o.ch})],
                              StopStream)
                   /\ UNCHANGED viewers
              ELSE /\ viewers' = {o.ch}
                   /\ Sending([o EXCEPT !.at = "joining"], ReplayFrom({o.ch}))
         [] o.kind = "detach" ->
              /\ viewers' = viewers \ {o.ch}
              /\ IF o.ch \in viewers /\ viewers' = {}
                 THEN Sending([o EXCEPT !.at = "leaving"], StopStream)
                 ELSE UNCHANGED <<op, req>>
         [] o.kind = "unwatched" ->
              /\ UNCHANGED viewers
              /\ IF viewers = {} THEN Sending([o EXCEPT !.at = "leaving"], StopStream)
                 ELSE UNCHANGED <<op, req>>
         [] o.kind = "reattach" ->
              /\ UNCHANGED viewers
              /\ IF viewers # {} THEN Sending([o EXCEPT !.at = "again"], ReplayFrom(viewers))
                 ELSE UNCHANGED <<op, req>>
    /\ UNCHANGED <<conn, inbox, next_seq, last, open, twice, breaks>> /\ UNCHANGED daemonSide

(* The reply: attach goes on to its ChatAttach, from the oldest entry a    *)
(* channel lacked before the stream was stopped; the others are done.      *)
Reply ==
    /\ conn /\ inbox # <<>> /\ Head(inbox) = Answered /\ inbox' = Tail(inbox)
    /\ IF op.at = "stopping"
       THEN /\ viewers' = viewers \cup {op.ch}
            /\ Sending([op EXCEPT !.at = "joining"], op.seq)
       ELSE op' = NoOp /\ UNCHANGED <<viewers, req>>
    /\ UNCHANGED <<conn, next_seq, last, open, twice, queue, breaks>> /\ UNCHANGED daemonSide

(* A request that is refused or fails with its connection                  *)
Fails ==
    /\ op # NoOp /\ op' = NoOp
    /\ \/ ~conn /\ UNCHANGED inbox
       \/ conn /\ inbox # <<>> /\ Head(inbox) = Refused /\ inbox' = Tail(inbox)
    /\ viewers' = CASE op.at = "joining" -> viewers \ {op.ch}
                    [] op.at = "again" -> {}
                    [] OTHER -> viewers
    /\ UNCHANGED <<conn, req, next_seq, last, open, twice, queue, breaks>>
    /\ UNCHANGED daemonSide

(* The connection is lost: ptyd forgets the client; a new one streams      *)
(* nothing until the watched chats are attached again.                     *)
Lose ==
    /\ conn /\ breaks < MaxBreaks /\ breaks' = breaks + 1
    /\ conn' = FALSE /\ viewing' = FALSE /\ req' = <<>> /\ inbox' = <<>>
    /\ UNCHANGED <<entries, closed, op, queue>> /\ UNCHANGED appSide

ReconnectOnly ==
    /\ ~conn /\ op = NoOp /\ conn' = TRUE
    /\ UNCHANGED <<req, inbox, op, queue, breaks>> /\ UNCHANGED daemonSide /\ UNCHANGED appSide

Reconnect ==
    /\ ~conn /\ op = NoOp /\ conn' = TRUE
    /\ queue' = queue \cup {Op("reattach", Nobody, "free")}
    /\ UNCHANGED <<req, inbox, op, breaks>> /\ UNCHANGED daemonSide /\ UNCHANGED appSide

RelayIdle == op = NoOp /\ queue = {} /\ conn /\ UNCHANGED relayVars

RelayNext ==
    \/ Emit \/ Close \/ Serve \/ ReadEntry \/ Reply \/ Fails \/ Lose \/ Reconnect \/ ChatRemoved
    \/ \E o \in queue : Lock(o)
    \/ \E c \in Channels :
         \/ \E from \in 0 .. MaxEntries : CallAttach(c, from)
         \/ CallDetach(c) \/ WindowCloses(c)
    \/ RelayIdle

RelayFairness ==
    /\ WF_relayVars(Serve) /\ WF_relayVars(ReadEntry) /\ WF_relayVars(Reply)
    /\ WF_relayVars(ChatRemoved) /\ WF_relayVars(Fails) /\ WF_relayVars(Reconnect)
    /\ WF_relayVars(\E o \in queue : Lock(o))

RelaySpec == RelayInit /\ [][RelayNext]_relayVars /\ RelayFairness

-----------------------------------------------------------------------------
(* The viewers, what each is told and the one operation under the lock     *)
RelayTypeOK ==
    /\ entries \in 0 .. MaxEntries /\ viewers \subseteq Channels
    /\ \A c \in Channels : next_seq[c] \in 0 .. MaxEntries
    /\ op.at \in {"free", "stopping", "joining", "leaving", "again"}
    /\ viewing => conn

(* Seqs never repeat on a channel (chat_attach), however often the stream  *)
(* is replayed for another one or after a lost connection.                 *)
NoEntryTwice == twice = {}

(* While a channel watches and nothing is under way, ptyd streams to the   *)
(* app and the channel has or is about to get every entry.                 *)
WatchedIsStreamed ==
    conn /\ ~closed /\ op = NoOp /\ queue = {} /\ viewers # {} =>
        /\ viewing
        /\ \A c \in viewers : next_seq[c] + Len(inbox) >= entries

(* A watching channel gets the whole log in the end                        *)
ChannelsCatchUp ==
    \A c \in Channels :
        c \in viewers /\ open[c] ~> closed \/ last[c] = entries \/ c \notin viewers \/ ~open[c]

(* A chat nobody watches stops streaming to the app                        *)
UnwatchedStops == viewing /\ viewers = {} ~> ~viewing \/ viewers # {}

Watching == viewers \cup {o.ch : o \in {p \in queue \cup {op} : p.kind = "attach"}}

Shown == INSTANCE LogView WITH
    Views <- Channels, Longest <- MaxEntries, log <- entries, seeing <- Watching, shown <- last

(* The relay implements the view of a log that LogView promises: what a    *)
(* step of it sends a window is the window's next entry.                   *)
ImplementsLogView == Shown!LogSpec
=============================================================================
