----------------------------- MODULE DaemonLink -----------------------------
(***************************************************************************)
(* The app's client of ptyd (src-tauri/src/daemon.rs, service.rs): finding,*)
(* upgrading, replacing or starting a daemon, the loop that connects again,*)
(* requests multiplexed by id, and the webview channels that AttachChannel *)
(* joins to the relay.  A call here is an attach of a channel of its own.  *)
(***************************************************************************)
EXTENDS Naturals, Sequences, SequencesExt, Functions

CONSTANTS
    Calls,      \* the attach calls, each with its channel
    MaxLosses   \* bound: daemons that die

VARIABLES
    socket,     \* what listens: nothing, our build, one with or without Upgrade, one that never says hello
    link,       \* where run() is
    hello,      \* the hello watch holds a value
    writer,     \* there is a writer
    wired,      \* the connection is whole
    call,       \* where each send() is
    pending,    \* the pending map
    keeps,      \* the pending entries that still have their stream
    streams,    \* the relay's channels
    page,       \* whether the channel's page is still there
    got,        \* what the channel was sent
    attached,   \* ptyd: the channels of this connection
    out, in,    \* the messages under way to the daemon and to the app
    losses

linkVars == <<socket, link, hello, writer, wired, call, pending, keeps, streams,
              page, got, attached, out, in, losses>>
wires == <<wired, attached, out, in>>
books == <<call, pending, keeps, streams, page, got>>

Sockets == {"none", "ours", "old", "older", "stuck"}
Msg(kind, r) == [kind |-> kind, r |-> r]

LinkInit ==
    /\ socket \in Sockets /\ link = "connect" /\ hello = FALSE /\ writer = FALSE
    /\ wired = FALSE /\ call = [r \in Calls |-> "idle"]
    /\ pending = {} /\ keeps = {} /\ streams = {}
    /\ page = [r \in Calls |-> TRUE] /\ got = [r \in Calls |-> "nothing"]
    /\ attached = {} /\ out = <<>> /\ in = <<>> /\ losses = 0

-----------------------------------------------------------------------------
(* connect(), step by step; what it finds may have changed since the last  *)
(* one.  A daemon of our build ends it with a connection.                  *)
At(step) == link = step
Goto(step) ==
    /\ link' = step
    /\ UNCHANGED <<hello, writer, losses>> /\ UNCHANGED wires /\ UNCHANGED books

ConnectedAnyBuild ==
    /\ socket \in {"ours", "old", "older"}
    /\ link' = "up" /\ hello' = TRUE /\ writer' = TRUE
    /\ wired' = TRUE /\ attached' = {} /\ out' = <<>> /\ in' = <<>>
    /\ UNCHANGED <<socket, losses>> /\ UNCHANGED books

Connected ==
    /\ socket = "ours"
    /\ link' = "up" /\ hello' = TRUE /\ writer' = TRUE
    /\ wired' = TRUE /\ attached' = {} /\ out' = <<>> /\ in' = <<>>
    /\ UNCHANGED <<socket, losses>> /\ UNCHANGED books

(* HELLO_TIMEOUT: a daemon of any build may be too busy to answer in time   *)
Handshake ==
    /\ At("connect")
    /\ \/ Connected
       \/ socket \in {"old", "older"} /\ Goto("upgrade") /\ UNCHANGED socket
       \/ socket # "none" /\ Goto("kill") /\ UNCHANGED socket
       \/ socket = "none" /\ Goto("start") /\ UNCHANGED socket

HandshakeAgain ==
    /\ At("kill")
    /\ \/ Connected
       \/ socket \in {"old", "older"} /\ Goto("upgrade") /\ UNCHANGED socket
       \/ socket \in {"stuck", "none"} /\ Goto("start") /\ UNCHANGED socket

(* A longer wait; a daemon that says nothing then either is killed          *)
HandshakeOrKill ==
    /\ At("kill")
    /\ \/ Connected
       \/ socket \in {"old", "older"} /\ Goto("upgrade") /\ UNCHANGED socket
       \/ socket \in {"stuck", "none"} /\ Goto("start") /\ socket' = "none"

(* Upgrade: its Ok and the hangup at exec; one that cannot only hangs up   *)
Upgrade ==
    /\ At("upgrade")
    /\ \/ socket = "old" /\ socket' = "ours" /\ Goto("upgraded")
       \/ socket # "old" /\ UNCHANGED socket /\ Goto("replace")

(* Whoever answers now is shut down, and with it its shells                *)
ShutDown ==
    /\ At("replace")
    /\ socket' = IF socket = "stuck" THEN socket ELSE "none"
    /\ Goto("start")

(* It says no hello in time, or is not gone in time: an error of connect()  *)
ShutDownLate ==
    /\ At("replace") /\ socket \notin {"stuck", "none"}
    /\ \/ socket' = socket /\ Goto("start")
       \/ socket' \in {socket, "none"} /\ Goto("backoff")

(* service::start: launchd, systemd or a detached child; a daemon that     *)
(* holds the data dir's lock keeps the new one out.                        *)
ServiceStart ==
    /\ At("start")
    /\ socket' = IF socket = "none" THEN "ours" ELSE socket
    /\ Goto("started")

ServiceFails == At("start") /\ Goto("backoff") /\ UNCHANGED socket
ConnectFails == ShutDownLate \/ ServiceFails

(* ours(): fifty tries; after an upgrade the service is the next resort    *)
Ours ==
    \/ At("upgraded") /\ (Connected \/ (socket # "ours" /\ Goto("start") /\ UNCHANGED socket))
    \/ At("started") /\ (Connected \/ (socket # "ours" /\ Goto("backoff") /\ UNCHANGED socket))

Backoff == At("backoff") /\ Goto("connect") /\ UNCHANGED socket

(* A daemon dies; its connection breaks                                    *)
DaemonDies ==
    /\ socket # "none" /\ losses < MaxLosses
    /\ losses' = losses + 1 /\ socket' = "none"
    /\ wired' = FALSE /\ attached' = {} /\ out' = <<>> /\ in' = <<>>
    /\ UNCHANGED <<link, hello, writer>> /\ UNCHANGED books

(* run() after read() returned: one lock after the other                   *)
LostHello ==
    /\ At("up") /\ ~wired /\ link' = "lost" /\ hello' = FALSE
    /\ UNCHANGED <<socket, writer, losses>> /\ UNCHANGED wires /\ UNCHANGED books

LostWriter ==
    /\ At("lost") /\ writer /\ writer' = FALSE
    /\ UNCHANGED <<socket, link, hello, losses>> /\ UNCHANGED wires /\ UNCHANGED books

LostClearPending ==
    /\ At("lost") /\ ~writer /\ link' = "connect"
    /\ pending' = {} /\ keeps' = {}
    /\ UNCHANGED <<socket, hello, writer, losses, call, page, got, streams>> /\ UNCHANGED wires

LostClear ==
    /\ At("lost") /\ ~writer /\ link' = "connect"
    /\ pending' = {} /\ keeps' = {} /\ streams' = {}
    /\ UNCHANGED <<socket, hello, writer, losses, call, page, got>> /\ UNCHANGED wires

-----------------------------------------------------------------------------
(* send(): wait for a hello, take an id, register, write, wait             *)
plumbing == <<socket, link, hello, writer, losses>>
Calling(r, from, to) == call[r] = from /\ call' = [call EXCEPT ![r] = to]

Wait(r) ==
    /\ page[r]
    /\ \/ Calling(r, "idle", "waiting")
       \/ hello /\ Calling(r, "waiting", "helloed")
       \/ ~hello /\ Calling(r, "waiting", "failed")
    /\ UNCHANGED <<pending, keeps, streams, page, got>>
    /\ UNCHANGED plumbing /\ UNCHANGED wires

Register(r) ==
    /\ Calling(r, "helloed", "registered")
    /\ pending' = pending \cup {r} /\ keeps' = keeps \cup {r}
    /\ UNCHANGED <<streams, page, got>> /\ UNCHANGED plumbing /\ UNCHANGED wires

WriteLeavesEntry(r) ==
    /\ \/ /\ writer /\ wired /\ Calling(r, "registered", "sent")
          /\ out' = Append(out, Msg("attach", r))
       \/ ~(writer /\ wired) /\ Calling(r, "registered", "failed") /\ UNCHANGED out
    /\ UNCHANGED <<wired, attached, in, pending, keeps, streams, page, got>> /\ UNCHANGED plumbing

Write(r) ==
    /\ \/ /\ writer /\ wired /\ Calling(r, "registered", "sent")
          /\ out' = Append(out, Msg("attach", r)) /\ UNCHANGED <<pending, keeps>>
       \/ /\ ~(writer /\ wired) /\ Calling(r, "registered", "failed")
          /\ pending' = pending \ {r} /\ keeps' = keeps \ {r} /\ UNCHANGED out
    /\ UNCHANGED <<wired, attached, in, streams, page, got>> /\ UNCHANGED plumbing

(* REQUEST_TIMEOUT, or the entry was dropped with the connection           *)
GiveUp(r) ==
    /\ Calling(r, "sent", "failed")
    /\ UNCHANGED <<pending, keeps, streams, page, got>>
    /\ UNCHANGED plumbing /\ UNCHANGED wires

ResolveByCaller(r) ==
    /\ pending' = pending \ {r} /\ keeps' = keeps \ {r}
    /\ streams' = IF r \in keeps /\ page[r] THEN streams \cup {r} ELSE streams
    /\ call' = [call EXCEPT ![r] = IF r \in pending /\ @ = "sent" THEN "ok" ELSE @]
    /\ UNCHANGED <<got, out>>

(* resolve(): an attach's channel gets its snapshot and joins the relay    *)
Resolve(r) ==
    /\ pending' = pending \ {r} /\ keeps' = keeps \ {r}
    /\ IF r \in keeps /\ page[r]
       THEN /\ streams' = streams \cup {r}
            /\ got' = [got EXCEPT ![r] = "snapshot"]
       ELSE UNCHANGED <<streams, got>>
    /\ call' = [call EXCEPT ![r] = IF r \in pending /\ @ = "sent" THEN "ok" ELSE @]
    /\ UNCHANGED out

(* detach_channel: fire and forget, nothing without a connection.  Bound:  *)
(* a second detach of a channel that is under way adds nothing.            *)
Detaching(rs) ==
    LET msgs == {Msg("detach", r) : r \in rs} IN
    IF writer /\ wired THEN out \o SetToSeq(msgs \ Range(out)) ELSE out

RelayDrops(r) ==
    /\ streams' = IF page[r] THEN streams ELSE streams \ {r}
    /\ UNCHANGED <<out, got, pending, keeps, call>>

(* relay(): output for a channel nobody shows detaches it                  *)
Relay(r) ==
    /\ IF r \in streams /\ page[r]
       THEN /\ got' = [got EXCEPT ![r] = IF @ = "nothing" THEN "early" ELSE @]
            /\ UNCHANGED <<out, streams>>
       ELSE /\ streams' = streams \ {r}
            /\ out' = Detaching({r})
            /\ UNCHANGED got
    /\ UNCHANGED <<pending, keeps, call>>

Read ==
    /\ At("up") /\ in # <<>> /\ in' = Tail(in)
    /\ LET m == Head(in) IN IF m.kind = "resp" THEN Resolve(m.r) ELSE Relay(m.r)
    /\ UNCHANGED <<wired, attached, page>> /\ UNCHANGED plumbing

(* ptyd on this connection: requests in order, output of what is attached  *)
DaemonServes ==
    /\ wired /\ out # <<>> /\ out' = Tail(out)
    /\ LET m == Head(out) IN
       IF m.kind = "attach"
       THEN attached' = attached \cup {m.r} /\ in' = Append(in, Msg("resp", m.r))
       ELSE attached' = attached \ {m.r} /\ UNCHANGED in
    /\ UNCHANGED wired /\ UNCHANGED books /\ UNCHANGED plumbing

Output(r) ==
    /\ wired /\ r \in attached /\ ~Contains(in, Msg("data", r))
    /\ in' = Append(in, Msg("data", r))
    /\ UNCHANGED <<wired, attached, out>> /\ UNCHANGED books /\ UNCHANGED plumbing

-----------------------------------------------------------------------------
(* The user's detach: out of the relay, then DetachChannel, unanswered     *)
Detach(r) ==
    /\ page[r] /\ call[r] \in {"sent", "ok"}
    /\ page' = [page EXCEPT ![r] = FALSE]
    /\ streams' = streams \ {r}
    /\ out' = Detaching({r})
    /\ UNCHANGED <<call, pending, keeps, got, wired, attached, in>> /\ UNCHANGED plumbing

(* A page load: the pending attaches of the page lose their stream, the    *)
(* joined ones are dropped and detached.                                   *)
DropWebview ==
    LET gone == {r \in Calls : call[r] # "idle" /\ page[r]} IN
    /\ gone # {}
    /\ page' = [r \in Calls |-> page[r] /\ r \notin gone]
    /\ keeps' = keeps \ gone
    /\ streams' = streams \ gone
    /\ out' = Detaching(streams \cap gone)
    /\ UNCHANGED <<call, pending, got, wired, attached, in>> /\ UNCHANGED plumbing

LinkStep ==
    \/ Handshake \/ HandshakeOrKill \/ Upgrade \/ ShutDown \/ ServiceStart
    \/ Ours \/ Backoff \/ LostHello \/ LostWriter \/ LostClear

LinkIdle == At("up") /\ wired /\ UNCHANGED linkVars

CallStep(r) == Register(r) \/ Write(r) \/ GiveUp(r)

LinkNext ==
    \/ LinkStep \/ ConnectFails \/ DaemonDies \/ Read \/ DaemonServes \/ DropWebview \/ LinkIdle
    \/ \E r \in Calls : Wait(r) \/ CallStep(r) \/ Output(r) \/ Detach(r)

(* The loop and the reader go on; the service starts what it is asked to,  *)
(* and a daemon goes when it is shut down, unless they fail every time; an *)
(* attached session goes on printing.                                      *)
LinkFairness ==
    /\ WF_linkVars(LinkStep) /\ SF_linkVars(ServiceStart) /\ SF_linkVars(ShutDown)
    /\ WF_linkVars(Read) /\ WF_linkVars(DaemonServes)
    /\ \A r \in Calls : WF_linkVars(Output(r))

LinkSpec == LinkInit /\ [][LinkNext]_linkVars /\ LinkFairness

-----------------------------------------------------------------------------
(* Where the loop and the calls are; a whole connection is one to our build*)
LinkTypeOK ==
    /\ socket \in Sockets
    /\ link \in {"connect", "kill", "upgrade", "upgraded", "replace", "start", "started",
                 "backoff", "up", "lost"}
    /\ \A r \in Calls : call[r] \in {"idle", "waiting", "helloed", "registered", "sent", "ok", "failed"}
    /\ keeps \subseteq pending /\ pending \subseteq Calls /\ attached \subseteq Calls
    /\ wired => writer /\ socket = "ours"
    /\ losses \in 0 .. MaxLosses

(* A channel gets its snapshot before any output (Pending::stream: it goes *)
(* out before any data, from the reader task).                             *)
SnapshotFirst == \A r \in Calls : got[r] # "early"

(* A channel of the relay is attached in ptyd on this very connection, or  *)
(* its detach was asked for: run() empties the relay before it connects    *)
(* again, and nothing joins it in between.                                 *)
RelayIsAttached ==
    wired /\ link = "up" => \A r \in streams : r \in attached \/ ~page[r]

(* An entry of pending that nobody waits for any more still has its answer *)
(* coming, so the map does not grow for ever (send() leaves it on timeout).*)
NoDeadPending ==
    wired => \A r \in pending :
        \/ call[r] \in {"registered", "sent"}
        \/ Contains(out, Msg("attach", r)) \/ Contains(in, Msg("resp", r))

(* ptyd does not hold a session's output for a channel whose page is gone  *)
LeakHealed ==
    \A r \in Calls : r \in attached /\ ~page[r] ~> r \notin attached

(* Whatever daemon it finds, the app ends up connected to one of its build *)
EventuallyConnected == []<>(link = "up")

=============================================================================
