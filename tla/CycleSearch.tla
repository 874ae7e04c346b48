---------------------------- MODULE CycleSearch -----------------------------
(***************************************************************************)
(* FindCycle of the target graph (internal/dag): a depth-first search that *)
(* stops at the first edge back to its own path.  The neighbours of a node *)
(* have the order in which a Go map was ranged over: any.                  *)
(***************************************************************************)
EXTENDS Naturals, Sequences

VARIABLES
  nodes,     \* label -> definition
  edges,     \* <<dependency, dependant>>
  visited,   \* label -> 0: unvisited, 1: visiting, 2: visited
  stack,     \* the path of the search
  tried,     \* edges that have been followed
  cycle      \* what is reported, <<>> for nothing

graph == <<nodes, edges>>
search == <<visited, stack, tried, cycle>>

SearchInit ==
  /\ edges \subseteq (DOMAIN nodes) \X (DOMAIN nodes)
  /\ visited = [n \in DOMAIN nodes |-> 0]
  /\ stack = <<>> /\ tried = {} /\ cycle = <<>>

Top == stack[Len(stack)]
Push(n) == visited' = [visited EXCEPT ![n] = 1] /\ stack' = Append(stack, n)

\* The loop over all nodes; their order is not used.
StartAt(n) ==
  /\ stack = <<>> /\ visited[n] = 0
  /\ Push(n)
  /\ UNCHANGED <<graph, tried, cycle>>

\* Mutant: a node is finished before its neighbours are.
DescendEarly(m) ==
  /\ cycle = <<>> /\ stack # <<>> /\ <<Top, m>> \in edges \ tried /\ visited[m] = 0
  /\ visited' = [visited EXCEPT ![m] = 1, ![Top] = 2] /\ stack' = Append(stack, m)
  /\ tried' = tried \cup {<<Top, m>>}
  /\ UNCHANGED <<graph, cycle>>

Descend(m) ==
  /\ cycle = <<>> /\ stack # <<>> /\ <<Top, m>> \in edges \ tried /\ visited[m] = 0
  /\ Push(m)
  /\ tried' = tried \cup {<<Top, m>>}
  /\ UNCHANGED <<graph, cycle>>

\* The neighbour is on the path, and the path from it on is the cycle.
Close(m) ==
  /\ cycle = <<>> /\ stack # <<>> /\ <<Top, m>> \in edges \ tried /\ visited[m] = 1
  /\ \E i \in 1 .. Len(stack) : stack[i] = m /\ cycle' = Append(SubSeq(stack, i, Len(stack)), m)
  /\ UNCHANGED <<graph, visited, stack, tried>>

Skip(m) ==
  /\ cycle = <<>> /\ stack # <<>> /\ <<Top, m>> \in edges \ tried /\ visited[m] = 2
  /\ tried' = tried \cup {<<Top, m>>}
  /\ UNCHANGED <<graph, visited, stack, cycle>>

Leave ==
  /\ cycle = <<>> /\ stack # <<>>
  /\ \A m \in DOMAIN nodes : <<Top, m>> \notin edges \ tried
  /\ visited' = [visited EXCEPT ![Top] = 2]
  /\ stack' = SubSeq(stack, 1, Len(stack) - 1)
  /\ UNCHANGED <<graph, tried, cycle>>

SearchNext ==
  \/ Leave
  \/ \E n \in DOMAIN nodes : StartAt(n) \/ Descend(n) \/ Close(n) \/ Skip(n)

Search == SearchInit /\ [][SearchNext]_<<graph, search>>

HasCycle == cycle # <<>>
Searched == HasCycle \/ \A n \in DOMAIN nodes : visited[n] = 2

-----------------------------------------------------------------------------
(* Properties                                                              *)

\* Of every set of nodes, one has no neighbour in the set.
Acyclic ==
  \A S \in SUBSET DOMAIN nodes :
    S # {} => \E n \in S : \A m \in S : <<n, m>> \notin edges

IsCycle(c) ==
  /\ Len(c) > 1 /\ c[1] = c[Len(c)]
  /\ \A i \in 1 .. Len(c) - 1 : <<c[i], c[i + 1]>> \in edges

\* What FindCycle says is right, in whatever order it follows the edges: the cycle
\* that it reports exists, and a graph for which it reports none has none, on which
\* the recursions of GetAncestors and GetDescendants rely.
SearchIsSound ==
  /\ HasCycle => IsCycle(cycle)
  /\ Searched /\ ~HasCycle => Acyclic
=============================================================================
