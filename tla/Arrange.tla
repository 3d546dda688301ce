------------------------------- MODULE Arrange -------------------------------
(***************************************************************************)
(* arrangeEmits of etc/codegen.ts: the order in which generated types are  *)
(* written, a depth-first search that must put a type after everything its *)
(* codec refers to when the generated module is loaded.  The recursion of  *)
(* visit() is an explicit stack; a Set or Map is iterated in any order.    *)
(* The graph, without references to the cycle break points, is a state     *)
(* component: Codegen builds it from what it resolved.                     *)
(***************************************************************************)
EXTENDS Naturals, Sequences

CONSTANT Ids      \* bound: the names there are of local types

VARIABLES
  graph,      \* for each type to write, the local types it refers to
  roots,      \* keys the outer loop has still to visit
  stack,      \* activations of visit(): the node, and neighbours left to visit
  temporary, permanent,
  sorted,
  outcome     \* "running", "sorted", or what was thrown: "cycle", "missing"

arrangeVars == <<graph, roots, stack, temporary, permanent, sorted, outcome>>

Graphs == UNION {[keys -> SUBSET Ids] : keys \in SUBSET Ids}
Frame == [node : Ids, todo : SUBSET Ids]
Outcomes == {"running", "sorted", "cycle", "missing"}

StartOn(g) ==
  /\ graph = g /\ roots = DOMAIN g /\ outcome = "running"
  /\ stack = <<>> /\ sorted = <<>>
  /\ temporary = {} /\ permanent = {}

Init == \E g \in Graphs : StartOn(g)

-----------------------------------------------------------------------------
\* Faulty variant: does not look whether the node has been written.
VisitAgain(m, rest) ==
  \/ /\ m \in temporary
     /\ outcome' = "cycle"
     /\ stack' = rest
     /\ UNCHANGED temporary
  \/ /\ m \notin temporary
     /\ temporary' = temporary \cup {m}
     /\ \/ m \in DOMAIN graph /\ UNCHANGED outcome
           /\ stack' = Append(rest, [node |-> m, todo |-> graph[m]])
        \/ m \notin DOMAIN graph /\ outcome' = "missing" /\ stack' = rest

\* visit(m) up to its loop; `rest` is the stack it will return to.  A name
\* that is no key has no Set to iterate: TypeError.
Visit(m, rest) ==
  \/ /\ m \in permanent
     /\ stack' = rest
     /\ UNCHANGED <<temporary, outcome>>
  \/ /\ m \in temporary \ permanent
     /\ outcome' = "cycle"
     /\ stack' = rest
     /\ UNCHANGED temporary
  \/ /\ m \notin permanent \cup temporary
     /\ temporary' = temporary \cup {m}
     /\ \/ m \in DOMAIN graph /\ UNCHANGED outcome
           /\ stack' = Append(rest, [node |-> m, todo |-> graph[m]])
        \/ m \notin DOMAIN graph /\ outcome' = "missing" /\ stack' = rest

Top == stack[Len(stack)]
Below == SubSeq(stack, 1, Len(stack) - 1)

VisitRoot(n) ==
  /\ outcome = "running" /\ stack = <<>> /\ n \in roots
  /\ roots' = roots \ {n}
  /\ Visit(n, stack)
  /\ UNCHANGED <<graph, permanent, sorted>>

VisitNeighbour(m) ==
  /\ outcome = "running" /\ stack # <<>> /\ m \in Top.todo
  /\ Visit(m, Append(Below, [node |-> Top.node, todo |-> Top.todo \ {m}]))
  /\ UNCHANGED <<graph, roots, permanent, sorted>>

\* Faulty variant: the loop over the neighbours is left after the first.
LeaveEarly ==
  /\ outcome = "running" /\ stack # <<>>
  /\ Top.todo = {} \/ Top.todo # graph[Top.node]
  /\ stack' = Below
  /\ temporary' = temporary \ {Top.node}
  /\ permanent' = permanent \cup {Top.node}
  /\ sorted' = Append(sorted, Top.node)
  /\ UNCHANGED <<graph, roots, outcome>>

\* The end of visit(), every neighbour visited.
Leave ==
  /\ outcome = "running" /\ stack # <<>> /\ Top.todo = {}
  /\ stack' = Below
  /\ temporary' = temporary \ {Top.node}
  /\ permanent' = permanent \cup {Top.node}
  /\ sorted' = Append(sorted, Top.node)
  /\ UNCHANGED <<graph, roots, outcome>>

\* The outer loop ends; its assert is part of Complete below.
ReturnSorted ==
  /\ outcome = "running" /\ stack = <<>> /\ roots = {}
  /\ outcome' = "sorted"
  /\ UNCHANGED <<graph, roots, stack, temporary, permanent, sorted>>

ArrangeStep ==
  \/ \E n \in Ids : VisitRoot(n) \/ VisitNeighbour(n)
  \/ Leave
  \/ ReturnSorted

Settled == outcome # "running" /\ UNCHANGED arrangeVars

Next == ArrangeStep \/ Settled

Spec == Init /\ [][Next]_arrangeVars

-----------------------------------------------------------------------------
TypeOK ==
  /\ graph \in Graphs
  /\ roots \in SUBSET DOMAIN graph
  /\ stack \in Seq(Frame)
  /\ temporary \in SUBSET Ids /\ permanent \in SUBSET Ids
  /\ sorted \in Seq(Ids)
  /\ outcome \in Outcomes

\* A type is written only after every type it refers to: the generated
\* module reads no codec before its definition, whatever the order in which
\* the schema lists its types and each type its references.
TopoOrdered ==
  \A i \in 1 .. Len(sorted) : \A m \in graph[sorted[i]] :
    \E j \in 1 .. i - 1 : sorted[j] = m

\* Every member has a reference inside the set: it cannot be ordered.
Knot(g, nodes) ==
  /\ nodes # {} /\ nodes \subseteq DOMAIN g
  /\ \A n \in nodes : g[n] \cap nodes # {}

\* When the search succeeds every type is written exactly once (the assert
\* that ends arrangeEmits can not fail); when it complains of a cycle there
\* is one, and when of a missing type a type refers to one.
Complete ==
  /\ outcome = "sorted" =>
       /\ {sorted[i] : i \in 1 .. Len(sorted)} = DOMAIN graph
       /\ \A i, j \in 1 .. Len(sorted) : i # j => sorted[i] # sorted[j]
  /\ outcome = "cycle" => \E nodes \in SUBSET DOMAIN graph : Knot(graph, nodes)
  /\ outcome = "missing" => \E n \in DOMAIN graph : ~ graph[n] \subseteq DOMAIN graph
=============================================================================
