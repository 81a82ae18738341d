---------------------------- MODULE ModuleGraph ----------------------------
(* The file cycles of the code graph (crates/core/src/graph/mod.rs): the     *)
(* import edges, Tarjan's algorithm with its own work stack, then one        *)
(* breadth-first search per group. A step is one turn of a loop. Files are   *)
(* their positions; what the parser finds in them is the input `imports`.    *)
EXTENDS Integers, Sequences, SequencesExt, FiniteSets, FiniteSetsExt

CONSTANT Count   \* how many files the scan listed

Nodes == 0 .. Count - 1
MAX == Count + 1   \* usize::MAX, the index of a file not met yet

VARIABLES
  edges,     \* what each file imports, of the imports that count
  index, low, on_stack, stack, groups, next,   \* strongly_connected
  work,      \* its call stack: [node, pending]
  left,      \* the groups still to be searched for a cycle
  search,    \* shortest_cycle: [group, queue, previous], or none
  cycles     \* the cycles found, each with its group

gvars == <<edges, index, low, on_stack, stack, groups, next, work, left,
           search, cycles>>
tarjan == <<index, low, on_stack, stack, groups, next, work>>

NoSearch == [group |-> {}, queue |-> <<>>, previous |-> <<>>]

\* Every import but a file's own and the type-only ones
EdgesOf(imports) ==
  [n \in Nodes |-> {m \in Nodes : /\ m # n
                                  /\ \E i \in imports : /\ i.from = n /\ i.to = m
                                                        /\ i.kind # "type"}]

\* The graph of these imports, next to the imports that must not count: every
\* file imports itself, and the types of every file
GraphOf(pairs) ==
  /\ edges = EdgesOf(
       {[from |-> p[1], to |-> p[2], kind |-> "static"] : p \in pairs}
         \cup {[from |-> n, to |-> n, kind |-> "static"] : n \in Nodes}
         \cup [from : Nodes, to : Nodes, kind : {"type"}])
  /\ index = [n \in Nodes |-> MAX]
  /\ low = [n \in Nodes |-> 0]
  /\ on_stack = {} /\ stack = <<>> /\ groups = {} /\ next = 0
  /\ work = <<>> /\ left = {} /\ search = NoSearch /\ cycles = {}

GraphInit ==
  \E pairs \in SUBSET {p \in Nodes \X Nodes : p[1] # p[2]} : GraphOf(pairs)

\* A file met for the first time
Enter(n) ==
  /\ index' = [index EXCEPT ![n] = next]
  /\ low' = [low EXCEPT ![n] = next]
  /\ next' = next + 1
  /\ stack' = Append(stack, n)
  /\ on_stack' = on_stack \cup {n}

Unmet == {n \in Nodes : index[n] = MAX}

\* The outer loop takes the next file without an index
Root ==
  /\ work = <<>> /\ Unmet # {}
  /\ LET start == Min(Unmet) IN
       /\ Enter(start)
       /\ work' = <<[node |-> start, pending |-> edges[start]]>>
  /\ UNCHANGED <<edges, groups, left, search, cycles>>

\* A target already met always lowers the file, also one whose group is gone
TargetOffStack ==
  /\ work # <<>> /\ Last(work).pending # {}
  /\ LET node == Last(work).node
         target == Min(Last(work).pending)
         rest == [work EXCEPT ![Len(work)].pending = @ \ {target}]
     IN IF index[target] = MAX
        THEN /\ Enter(target)
             /\ work' = Append(rest, [node |-> target, pending |-> edges[target]])
        ELSE /\ low' = [low EXCEPT ![node] = Min({@, index[target]})]
             /\ work' = rest
             /\ UNCHANGED <<index, on_stack, stack, next>>
  /\ UNCHANGED <<edges, groups, left, search, cycles>>

\* One pending target of the file on top: entered, or it lowers the file
Target ==
  /\ work # <<>> /\ Last(work).pending # {}
  /\ LET node == Last(work).node
         target == Min(Last(work).pending)
         rest == [work EXCEPT ![Len(work)].pending = @ \ {target}]
     IN IF index[target] = MAX
        THEN /\ Enter(target)
             /\ work' = Append(rest, [node |-> target, pending |-> edges[target]])
        ELSE /\ low' = IF target \in on_stack
                       THEN [low EXCEPT ![node] = Min({@, index[target]})]
                       ELSE low
             /\ work' = rest
             /\ UNCHANGED <<index, on_stack, stack, next>>
  /\ UNCHANGED <<edges, groups, left, search, cycles>>

\* No target is left: the parent takes over the low mark, and a file that is
\* its group's first takes the group off the stack
Leave ==
  /\ work # <<>> /\ Last(work).pending = {}
  /\ LET node == Last(work).node
         up == Front(work)
         at == CHOOSE i \in DOMAIN stack : stack[i] = node
         members == {stack[i] : i \in at .. Len(stack)}
     IN /\ work' = up
        /\ low' = IF up = <<>> THEN low
                  ELSE [low EXCEPT ![Last(up).node] = Min({@, low[node]})]
        /\ IF low[node] = index[node]
           THEN /\ stack' = SubSeq(stack, 1, at - 1)
                /\ on_stack' = on_stack \ members
                /\ groups' = groups \cup {members}
           ELSE UNCHANGED <<stack, on_stack, groups>>
        /\ left' = IF up = <<>> /\ Unmet = {}
                   THEN {g \in groups' : Cardinality(g) > 1} ELSE left
  /\ UNCHANGED <<edges, index, next, search, cycles>>

\* shortest_cycle begins at the group's first file; the groups are sorted
Search ==
  /\ search = NoSearch /\ left # {}
  /\ LET group == CHOOSE g \in left : \A h \in left : Min(g) <= Min(h) IN
       /\ search' = [group |-> group, queue |-> <<Min(group)>>, previous |-> <<>>]
       /\ left' = left \ {group}
  /\ UNCHANGED <<edges, cycles, tarjan>>

\* The way back to the start from `node`, in import order
Path(previous, node) ==
  LET back[k \in 0 .. Count] ==
        IF k = 0 THEN <<node>>
        ELSE IF back[k - 1][1] \in DOMAIN previous
             THEN <<previous[back[k - 1][1]]>> \o back[k - 1]
             ELSE back[k - 1]
  IN back[Count]

\* The newest file first: the search follows one way to its end
DequeueNewest ==
  /\ search.queue # <<>>
  /\ LET node == Head(search.queue)
         start == Min(search.group)
         fresh == {t \in edges[node] : /\ t \in search.group
                                       /\ t \notin DOMAIN search.previous
                                       /\ t # start}
     IN IF start \in edges[node]
        THEN /\ cycles' = cycles \cup
                  {[group |-> search.group, path |-> Path(search.previous, node)]}
             /\ search' = NoSearch
        ELSE /\ search' = [search EXCEPT
                  !.queue = SetToSortSeq(fresh, <) \o Tail(@),
                  !.previous = [t \in DOMAIN @ \cup fresh |->
                                  IF t \in fresh THEN node ELSE @[t]]]
             /\ cycles' = cycles
  /\ UNCHANGED <<edges, left, tarjan>>

\* The next file of the queue: its targets, lowest first, until one is the start
Dequeue ==
  /\ search.queue # <<>>
  /\ LET node == Head(search.queue)
         start == Min(search.group)
         fresh == {t \in edges[node] : /\ t \in search.group
                                       /\ t \notin DOMAIN search.previous
                                       /\ t # start}
     IN IF start \in edges[node]
        THEN /\ cycles' = cycles \cup
                  {[group |-> search.group, path |-> Path(search.previous, node)]}
             /\ search' = NoSearch
        ELSE /\ search' = [search EXCEPT
                  !.queue = Tail(@) \o SetToSortSeq(fresh, <),
                  !.previous = [t \in DOMAIN @ \cup fresh |->
                                  IF t \in fresh THEN node ELSE @[t]]]
             /\ cycles' = cycles
  /\ UNCHANGED <<edges, left, tarjan>>

\* The searches are over; the graph goes to the page
GraphDone == work = <<>> /\ Unmet = {} /\ left = {} /\ search = NoSearch

Scanned == GraphDone /\ UNCHANGED gvars

GraphNext == Root \/ Target \/ Leave \/ Search \/ Dequeue \/ Scanned
GraphSpec == GraphInit /\ [][GraphNext]_gvars

\* The sets of files that import nothing from outside
Closed == {S \in SUBSET Nodes : \A n \in S : edges[n] \subseteq S}

\* The groups Tarjan's algorithm takes off its stack are the classes of files
\* that reach each other, which are those in the same closed sets
\* (strongly_connected against its definition)
GroupsAreClasses ==
  GraphDone =>
    groups = LET closed == Closed
             IN {{m \in Nodes : \A S \in closed : m \in S <=> n \in S} : n \in Nodes}

IsCycle(c) ==
  \A i \in DOMAIN c : c[(i % Len(c)) + 1] \in edges[c[i]]

\* "One per strongly connected group, in import order without repeating the
\* first file": each group of two files or more has one cycle, a real one of
\* its own files, and no shorter one leads back to its first file
ShortestCycles ==
  GraphDone =>
    /\ {c.group : c \in cycles} = {g \in groups : Cardinality(g) > 1}
    /\ \A c, d \in cycles : c.group = d.group => c = d
    /\ \A c \in cycles :
         /\ ToSet(c.path) \subseteq c.group
         /\ Cardinality(ToSet(c.path)) = Len(c.path)
         /\ c.path[1] = Min(c.group) /\ IsCycle(c.path)
         /\ \A k \in 2 .. Len(c.path) - 1 :
              ~\E p \in [1 .. k -> c.group] : p[1] = Min(c.group) /\ IsCycle(p)

============================================================================
