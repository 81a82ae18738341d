------------------------------- MODULE Ports -------------------------------
(* The ports of the sessions, and the kill of what listens on one            *)
(* (core/agents/ports.rs, commands/agents.rs): a process tree that forks,    *)
(* listens, exits and reuses its pids while a call asks the daemon for the   *)
(* shells, ps for the parents and lsof for the listeners, one after another. *)
EXTENDS Integers, FiniteSets, FiniteSetsExt, Relation

CONSTANTS
  Pids,      \* pids above 1, numbers
  Sessions,
  TcpPorts,
  MaxForks,  \* processes started
  Racing     \* TRUE: processes come and go during a call

VARIABLES
  parent,    \* the process tree: 0 for a pid that is free
  listens,   \* the ports each process listens on
  shell,     \* the shell of each session, 0 when it is closed
  kill,      \* kill_port: [at, port, pid, shells, parents, found]
  forks,
  hit        \* the processes signalled: [ours, listening]

pvars == <<parent, listens, shell, kill, forks, hit>>

NoKill == [at |-> "idle", port |-> 0, pid |-> 0, shells |-> <<>>, parents |-> <<>>,
           found |-> {}]

PortsInit ==
  /\ parent = [p \in Pids |-> 0] /\ listens = [p \in Pids |-> {}]
  /\ shell = [s \in Sessions |-> 0] /\ kill = NoKill /\ forks = 0 /\ hit = {}

Alive == {p \in Pids : parent[p] # 0}
Free == Pids \ Alive
Moves == Racing \/ kill.at = "idle"

Begins(p, from) ==
  /\ Moves /\ forks < MaxForks /\ forks' = forks + 1
  /\ p \in Free /\ parent' = [parent EXCEPT ![p] = from]

\* A session's shell, or a process of no session
OpenShell(s, p) ==
  /\ shell[s] = 0 /\ Begins(p, 1)
  /\ shell' = [shell EXCEPT ![s] = p]
  /\ UNCHANGED <<listens, kill, hit>>

Stranger(p) == Begins(p, 1) /\ UNCHANGED <<listens, shell, kill, hit>>

\* A child has its parent's sockets
Fork(p, from) ==
  /\ from \in Alive /\ Begins(p, from)
  /\ listens' = [listens EXCEPT ![p] = listens[from]]
  /\ UNCHANGED <<shell, kill, hit>>

Listen(p, port) ==
  /\ Moves /\ p \in Alive /\ \A q \in Pids : port \notin listens[q]
  /\ listens' = [listens EXCEPT ![p] = @ \cup {port}]
  /\ UNCHANGED <<parent, shell, kill, forks, hit>>

\* Its children go to pid 1, and with a shell its session closes
Exits(p) ==
  /\ parent' = [q \in Pids |-> IF q = p THEN 0 ELSE IF parent[q] = p THEN 1 ELSE parent[q]]
  /\ listens' = [listens EXCEPT ![p] = {}]
  /\ shell' = [s \in Sessions |-> IF shell[s] = p THEN 0 ELSE shell[s]]

Exit(p) == Moves /\ p \in Alive /\ Exits(p) /\ UNCHANGED <<kill, forks, hit>>

-----------------------------------------------------------------------------
\* kill_port, with what the page says; live_ports asks for the shells, ...
ListShells ==
  /\ kill.at = "idle"
  /\ \E port \in TcpPorts, pid \in Pids :
       kill' = [NoKill EXCEPT !.at = "listed", !.port = port, !.pid = pid, !.shells = shell]
  /\ UNCHANGED <<parent, listens, shell, forks, hit>>

\* ... ps for the parents (nothing runs without a shell), ...
Ps ==
  /\ kill.at = "listed"
  /\ kill' = IF \E s \in Sessions : kill.shells[s] # 0
             THEN [kill EXCEPT !.at = "parents", !.parents = parent]
             ELSE [kill EXCEPT !.at = "found"]
  /\ UNCHANGED <<parent, listens, shell, forks, hit>>

SessionOf(pid) == {s \in Sessions : pid # 0 /\ kill.shells[s] = pid}

\* The way up from a listener, to a shell, pid 1, a pid ps did not have, or a circle
Walk(pid) ==
  LET up[n \in 0 .. Cardinality(Pids)] ==
        IF n = 0 THEN pid
        ELSE LET at == up[n - 1]
             IN IF at <= 1 \/ SessionOf(at) # {} THEN at ELSE kill.parents[at]
  IN up[Cardinality(Pids)]

\* The listener or its parent, not the ancestors above
AttributeNear(listening) ==
  {[session |-> s, port |-> l.port, pid |-> l.pid] :
     <<s, l>> \in {<<s, l>> \in Sessions \X listening :
                     s \in SessionOf(l.pid) \cup SessionOf(kill.parents[l.pid])}}

\* attribute_ports: a listener is the session's whose shell it comes to, once per
\* session and port; lsof lists by pid
attribute_ports(listening) ==
  LET of(s, port) == {l \in listening : l.port = port /\ s \in SessionOf(Walk(l.pid))}
  IN {[session |-> s, port |-> port, pid |-> Min({l.pid : l \in of(s, port)})] :
        <<s, port>> \in {<<s, port>> \in Sessions \X TcpPorts : of(s, port) # {}}}

\* ... and lsof for the listeners
Lsof ==
  /\ kill.at = "parents"
  /\ LET listening == {l \in [pid : Pids, port : TcpPorts] : l.port \in listens[l.pid]}
     IN kill' = [kill EXCEPT !.at = "found", !.found = attribute_ports(listening)]
  /\ UNCHANGED <<parent, listens, shell, forks, hit>>

Ancestors == TransitiveClosure([e \in Pids \X Pids |-> parent[e[1]] = e[2]], Pids)
Under(p, s) == shell[s] # 0 /\ (p = shell[s] \/ Ancestors[<<p, shell[s]>>])

\* The pid goes by its port alone
KillByPort ==
  /\ kill.at = "found" /\ kill' = NoKill
  /\ LET p == kill.pid IN
       IF /\ \E f \in kill.found : f.port = kill.port
          /\ p \in Alive
       THEN /\ Exits(p)
            /\ hit' = hit \cup {[ours |-> \E s \in Sessions : Under(p, s),
                                 listening |-> kill.port \in listens[p]]}
       ELSE UNCHANGED <<parent, listens, shell, hit>>
  /\ UNCHANGED forks

\* SIGTERM when the pair is among the ports found, if the process is still there
Kill ==
  /\ kill.at = "found" /\ kill' = NoKill
  /\ LET p == kill.pid IN
       IF /\ \E f \in kill.found : f.port = kill.port /\ f.pid = p
          /\ p \in Alive
       THEN /\ Exits(p)
            /\ hit' = hit \cup {[ours |-> \E s \in Sessions : Under(p, s),
                                 listening |-> kill.port \in listens[p]]}
       ELSE UNCHANGED <<parent, listens, shell, hit>>
  /\ UNCHANGED forks

PortsNext ==
  \/ \E p \in Pids : \/ Stranger(p) \/ Exit(p)
                     \/ \E s \in Sessions : OpenShell(s, p)
                     \/ \E q \in Pids : Fork(p, q)
                     \/ \E port \in TcpPorts : Listen(p, port)
  \/ ListShells \/ Ps \/ Lsof \/ Kill
PortsSpec == PortsInit /\ [][PortsNext]_pvars

\* "A port belongs to the session whose shell is the listening process or one of
\* its ancestors; once per session and port", against the closure of the tree
PortsExact ==
  kill.at = "found" /\ ~Racing =>
    /\ \A f \in kill.found : Under(f.pid, f.session) /\ f.port \in listens[f.pid]
    /\ \A p \in Alive, s \in Sessions : \A port \in listens[p] : Under(p, s) =>
         Cardinality({f \in kill.found : f.session = s /\ f.port = port}) = 1

\* "Refuses one that is not under a Treeix session": whatever the page asks, what
\* is signalled is under a session and listens on the port
KilledIsOurs == \A h \in hit : h.ours /\ h.listening
============================================================================
