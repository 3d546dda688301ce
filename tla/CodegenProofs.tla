--------------------------- MODULE CodegenProofs ---------------------------
(***************************************************************************)
(* Proofs about the generator, from the schema to the text, for every      *)
(* schema that satisfies the assumptions.                                  *)
(*                                                                         *)
(* First Arrange, for every set of types and every graph on them: IInv is  *)
(* inductive, so the order is topological and a refusal has its reason in  *)
(* the graph.  Then the Resolver: ResolverInv says what #resolved, #emits  *)
(* and the graph promise the phases that read them.  CodegenInv, the two   *)
(* together, is inductive, and implies what the generated module needs.    *)
(***************************************************************************)
EXTENDS Codegen, SequenceTheorems, FiniteSetTheorems, NaturalsInduction, TLAPS

-----------------------------------------------------------------------------
(* What the search for an order keeps                                        *)

Nodes == {stack[i].node : i \in 1 .. Len(stack)}

\* What is written: no type twice, and nothing that refers to one not written.
Written ==
  /\ permanent = {sorted[i] : i \in 1 .. Len(sorted)}
  /\ permanent \subseteq DOMAIN graph
  /\ \A i, j \in 1 .. Len(sorted) : i # j => sorted[i] # sorted[j]

\* The stack holds each open node once.
Open ==
  /\ temporary = Nodes
  /\ temporary \subseteq DOMAIN graph
  /\ temporary \cap permanent = {}
  /\ \A i, j \in 1 .. Len(stack) : i # j => stack[i].node # stack[j].node

\* Each frame was opened over an edge from the frame below it.
Path == \A i \in 1 .. Len(stack) - 1 : stack[i + 1].node \in graph[stack[i].node]

\* A neighbour is still to visit, or written, or is the next frame.
Visited ==
  \A i \in 1 .. Len(stack) :
    /\ stack[i].todo \subseteq graph[stack[i].node]
    /\ \A m \in graph[stack[i].node] :
         \/ m \in stack[i].todo \cup permanent
         \/ i < Len(stack) /\ m = stack[i + 1].node

\* Every key is still to visit, or written, or the search started from it.
Covered ==
  \A n \in DOMAIN graph :
    n \in roots \cup permanent \/ (stack # <<>> /\ n = stack[1].node)

Searching == Open /\ Path /\ Visited /\ Covered

IInv ==
  /\ TypeOK /\ TopoOrdered /\ Written /\ Complete
  /\ outcome = "running" => Searching

-----------------------------------------------------------------------------
LEMMA PopFacts ==
  ASSUME TypeOK, stack # <<>>
  PROVE  /\ Len(stack) \in Nat \ {0}
         /\ Top \in Frame
         /\ Below \in Seq(Frame)
         /\ Len(Below) = Len(stack) - 1
         /\ \A i \in 1 .. Len(stack) - 1 : Below[i] = stack[i]
<1>1. stack \in Seq(Frame)
  BY DEF TypeOK
<1>2. Len(stack) \in Nat \ {0} /\ \A i \in 1 .. Len(stack) : stack[i] \in Frame
  BY <1>1, EmptySeq, LenProperties, ElementOfSeq
<1>3. 1 \in Int /\ Len(stack) - 1 \in Int /\ \A i \in 1 .. Len(stack) - 1 : stack[i] \in Frame
  BY <1>2
<1>4. /\ SubSeq(stack, 1, Len(stack) - 1) \in Seq(Frame)
      /\ Len(SubSeq(stack, 1, Len(stack) - 1)) =
           (IF 1 <= Len(stack) - 1 THEN (Len(stack) - 1) - 1 + 1 ELSE 0)
      /\ \A i \in 1 .. (Len(stack) - 1) - 1 + 1 :
           SubSeq(stack, 1, Len(stack) - 1)[i] = stack[1 + i - 1]
  BY <1>3, SubSeqProperties
<1>5. Top \in Frame
  BY <1>2 DEF Top
<1>6. \A i \in 1 .. Len(stack) - 1 : Below[i] = stack[i]
  <2> TAKE i \in 1 .. Len(stack) - 1
  <2>1. 1 + i - 1 = i /\ i \in 1 .. (Len(stack) - 1) - 1 + 1
    BY <1>2
  <2> QED
    BY <1>4, <2>1 DEF Below
<1>7. (IF 1 <= Len(stack) - 1 THEN (Len(stack) - 1) - 1 + 1 ELSE 0) = Len(stack) - 1
  BY <1>2
<1>8. Below \in Seq(Frame) /\ Len(Below) = Len(stack) - 1
  BY <1>4, <1>7 DEF Below
<1> QED
  BY <1>2, <1>5, <1>6, <1>8

\* Type correctness of the three ways visit(m) goes on.
LEMMA VisitType ==
  ASSUME TypeOK, NEW m \in Ids, NEW rest \in Seq(Frame), Visit(m, rest)
  PROVE  /\ stack' \in Seq(Frame)
         /\ temporary' \in SUBSET Ids
         /\ outcome' \in Outcomes
<1>0. \A n \in DOMAIN graph : graph[n] \in SUBSET Ids
  BY DEF TypeOK, Graphs
<1>1. CASE m \in permanent /\ stack' = rest /\ UNCHANGED <<temporary, outcome>>
  BY <1>1 DEF TypeOK
<1>2. CASE m \in temporary \ permanent /\ outcome' = "cycle" /\ stack' = rest /\ UNCHANGED temporary
  BY <1>2 DEF TypeOK, Outcomes
<1>3. CASE /\ m \notin permanent \cup temporary
           /\ temporary' = temporary \cup {m}
           /\ \/ m \in DOMAIN graph /\ UNCHANGED outcome
                 /\ stack' = Append(rest, [node |-> m, todo |-> graph[m]])
              \/ m \notin DOMAIN graph /\ outcome' = "missing" /\ stack' = rest
  <2>1. temporary' \in SUBSET Ids /\ outcome' \in Outcomes
    BY <1>3 DEF TypeOK, Outcomes
  <2>2. m \in DOMAIN graph => [node |-> m, todo |-> graph[m]] \in Frame
    BY <1>0 DEF Frame
  <2>3. stack' \in Seq(Frame)
    BY <1>3, <2>2, AppendProperties
  <2> QED
    BY <2>1, <2>3
<1> QED
  BY <1>1, <1>2, <1>3 DEF Visit

LEMMA TypeInit == Init => TypeOK
<1> SUFFICES ASSUME NEW g \in Graphs, StartOn(g) PROVE TypeOK
  BY DEF Init
<1>1. DOMAIN g \in SUBSET Ids
  BY DEF Graphs
<1> QED
  BY <1>1, EmptySeq DEF StartOn, TypeOK, Outcomes

LEMMA TypeStep == TypeOK /\ [Next]_arrangeVars => TypeOK'
<1> SUFFICES ASSUME TypeOK, [Next]_arrangeVars PROVE TypeOK'
  OBVIOUS
<1>1. ASSUME NEW n \in Ids, VisitRoot(n) PROVE TypeOK'
  BY <1>1, VisitType DEF VisitRoot, TypeOK
<1>2. ASSUME NEW n \in Ids, VisitNeighbour(n) PROVE TypeOK'
  <2>1. stack # <<>>
    BY <1>2 DEF VisitNeighbour
  <2>2. [node |-> Top.node, todo |-> Top.todo \ {n}] \in Frame
    BY <2>1, PopFacts DEF Frame
  <2>3. Append(Below, [node |-> Top.node, todo |-> Top.todo \ {n}]) \in Seq(Frame)
    BY <2>1, <2>2, PopFacts, AppendProperties
  <2> QED
    BY <1>2, <2>3, VisitType DEF VisitNeighbour, TypeOK
<1>3. CASE Leave
  <2>1. stack # <<>>
    BY <1>3 DEF Leave
  <2>2. Top.node \in Ids /\ Below \in Seq(Frame)
    BY <2>1, PopFacts DEF Frame
  <2>3. sorted' \in Seq(Ids)
    BY <1>3, <2>2, AppendProperties DEF Leave, TypeOK
  <2> QED
    BY <1>3, <2>2, <2>3 DEF Leave, TypeOK
<1>4. CASE ReturnSorted
  BY <1>4 DEF ReturnSorted, TypeOK, Outcomes
<1>5. CASE UNCHANGED arrangeVars
  BY <1>5 DEF arrangeVars, TypeOK
<1> QED
  BY <1>1, <1>2, <1>3, <1>4, <1>5 DEF Next, ArrangeStep, Settled

\* TypeOK for every set of types and every graph.
THEOREM ArrangeTypeCorrect == Spec => []TypeOK
  BY TypeInit, TypeStep, PTL DEF Spec

-----------------------------------------------------------------------------
\* `rest` is the stack with m taken from what its top, or the outer loop,
\* has left to visit.
Resumes(m, rest) ==
  /\ Len(rest) = Len(stack)
  /\ \A i \in 1 .. Len(stack) : rest[i].node = stack[i].node
  /\ \A i \in 1 .. Len(stack) :
       /\ rest[i].todo \subseteq graph[rest[i].node]
       /\ \A n \in graph[rest[i].node] :
            \/ n \in rest[i].todo \cup permanent
            \/ i < Len(stack) /\ n = stack[i + 1].node
            \/ i = Len(stack) /\ n = m
  /\ stack # <<>> => m \in graph[stack[Len(stack)].node]
  /\ \A n \in DOMAIN graph :
       \/ n \in roots' \cup permanent
       \/ stack # <<>> /\ n = stack[1].node
       \/ stack = <<>> /\ n = m

\* An open node met again closes a knot: the frames from it to the top.
LEMMA OpenAgainIsKnot ==
  ASSUME TypeOK, Open, Path, NEW m \in temporary,
         stack # <<>> => m \in graph[stack[Len(stack)].node]
  PROVE  \E nodes \in SUBSET DOMAIN graph : Knot(graph, nodes)
<1>1. PICK j \in 1 .. Len(stack) : stack[j].node = m
  BY DEF Open, Nodes
<1>2. stack \in Seq(Frame) /\ Len(stack) \in Nat
  BY LenProperties DEF TypeOK
<1>3. stack # <<>> /\ Len(stack) \in 1 .. Len(stack)
  BY <1>1, <1>2
<1> DEFINE C == {stack[i].node : i \in j .. Len(stack)}
<1>4. C \subseteq DOMAIN graph
  BY <1>1, <1>2 DEF Open, Nodes
<1>5. m \in C
  BY <1>1, <1>2
<1>6. ASSUME NEW n \in C PROVE graph[n] \cap C # {}
  <2>1. PICK i \in j .. Len(stack) : n = stack[i].node
    BY <1>6
  <2>2. CASE i = Len(stack)
    BY <1>3, <1>5, <2>1, <2>2
  <2>3. CASE i # Len(stack)
    <3>1. i \in 1 .. Len(stack) - 1 /\ i + 1 \in j .. Len(stack)
      BY <1>1, <1>2, <2>3
    <3>2. stack[i + 1].node \in graph[n] /\ stack[i + 1].node \in C
      BY <2>1, <3>1 DEF Path
    <3> QED
      BY <3>2
  <2> QED
    BY <2>2, <2>3
<1>7. Knot(graph, C)
  BY <1>4, <1>5, <1>6 DEF Knot
<1> QED
  BY <1>4, <1>7

\* Where visit(m) goes on searching, the invariant of the search holds.
LEMMA VisitSearches ==
  ASSUME TypeOK, Open, Path, NEW m \in Ids, NEW rest \in Seq(Frame),
         Resumes(m, rest), Visit(m, rest), UNCHANGED <<graph, permanent>>,
         outcome' = "running"
  PROVE  Searching'
<1>0. Len(stack) \in Nat /\ Len(rest) \in Nat /\ Len(rest) = Len(stack)
  BY LenProperties DEF TypeOK, Resumes
<1>1. CASE m \in permanent /\ stack' = rest /\ UNCHANGED temporary
  <2>1. Nodes' = Nodes
    BY <1>0, <1>1 DEF Nodes, Resumes
  <2>2. Open'
    BY <1>0, <1>1, <2>1 DEF Open, Resumes
  <2>3. Path'
    <3> SUFFICES ASSUME NEW i \in 1 .. Len(stack) - 1
                 PROVE  rest[i + 1].node \in graph[rest[i].node]
      BY <1>0, <1>1 DEF Path
    <3>1. i \in 1 .. Len(stack) /\ i + 1 \in 1 .. Len(stack)
      BY <1>0
    <3> QED
      BY <3>1 DEF Path, Resumes
  <2>4. Visited'
    <3> SUFFICES ASSUME NEW i \in 1 .. Len(stack)
                 PROVE  /\ rest[i].todo \subseteq graph[rest[i].node]
                        /\ \A n \in graph[rest[i].node] :
                             \/ n \in rest[i].todo \cup permanent
                             \/ i < Len(stack) /\ n = rest[i + 1].node
      BY <1>0, <1>1 DEF Visited
    <3>1. i < Len(stack) => i + 1 \in 1 .. Len(stack)
      BY <1>0
    <3> QED
      BY <1>1, <3>1 DEF Resumes
  <2>5. Covered'
    <3>1. stack # <<>> => 1 \in 1 .. Len(stack) /\ rest # <<>>
      BY <1>0, EmptySeq DEF TypeOK
    <3> QED
      BY <1>1, <3>1 DEF Covered, Resumes
  <2> QED
    BY <2>2, <2>3, <2>4, <2>5 DEF Searching
<1>2. CASE /\ m \notin permanent \cup temporary /\ m \in DOMAIN graph
           /\ temporary' = temporary \cup {m}
           /\ stack' = Append(rest, [node |-> m, todo |-> graph[m]])
  <2> DEFINE L == Len(stack)
  <2>0. graph[m] \in SUBSET Ids /\ [node |-> m, todo |-> graph[m]] \in Frame
    BY <1>2 DEF TypeOK, Graphs, Frame
  <2>1. /\ Len(stack') = L + 1 /\ stack' # <<>>
        /\ \A i \in 1 .. L : stack'[i] = rest[i]
        /\ stack'[L + 1] = [node |-> m, todo |-> graph[m]]
    BY <1>0, <1>2, <2>0, AppendProperties
  <2>2. \A i \in 1 .. L : stack'[i].node = stack[i].node
    BY <2>1 DEF Resumes
  <2>3. stack'[L + 1].node = m /\ stack'[L + 1].todo = graph[m]
    BY <2>1
  <2>4. Nodes' = Nodes \cup {m}
    <3>1. \A i \in 1 .. Len(stack') : i \in 1 .. L \/ i = L + 1
      BY <1>0, <2>1
    <3>2. 1 .. L \subseteq 1 .. Len(stack') /\ L + 1 \in 1 .. Len(stack')
      BY <1>0, <2>1
    <3> QED
      BY <2>2, <2>3, <3>1, <3>2 DEF Nodes
  <2>5. Open'
    <3>1. ASSUME NEW i \in 1 .. L + 1, NEW j \in 1 .. L + 1, i # j
          PROVE  stack'[i].node # stack'[j].node
      <4>1. (i \in 1 .. L \/ i = L + 1) /\ (j \in 1 .. L \/ j = L + 1)
        BY <1>0
      <4>2. \A k \in 1 .. L : stack[k].node \in temporary
        BY DEF Open, Nodes
      <4> QED
        BY <1>2, <2>2, <2>3, <3>1, <4>1, <4>2 DEF Open
    <3>2. temporary' = Nodes' /\ temporary' \subseteq DOMAIN graph' /\ temporary' \cap permanent' = {}
      BY <1>2, <2>4 DEF Open
    <3> QED
      BY <2>1, <3>1, <3>2 DEF Open
  <2>6. Path'
    <3> SUFFICES ASSUME NEW i \in 1 .. L
                 PROVE  stack'[i + 1].node \in graph[stack'[i].node]
      BY <1>0, <2>1 DEF Path
    <3>1. CASE i = L
      <4>1. stack # <<>>
        BY <1>0, <3>1, EmptySeq DEF TypeOK
      <4> QED
        BY <2>2, <2>3, <3>1, <4>1 DEF Resumes
    <3>2. CASE i # L
      <4>1. i \in 1 .. L - 1 /\ i + 1 \in 1 .. L
        BY <1>0, <3>2
      <4> QED
        BY <2>2, <4>1 DEF Path
    <3> QED
      BY <3>1, <3>2
  <2>7. Visited'
    <3> SUFFICES ASSUME NEW i \in 1 .. L + 1
                 PROVE  /\ stack'[i].todo \subseteq graph[stack'[i].node]
                        /\ \A n \in graph[stack'[i].node] :
                             \/ n \in stack'[i].todo \cup permanent
                             \/ i < L + 1 /\ n = stack'[i + 1].node
      BY <2>1 DEF Visited
    <3>1. CASE i = L + 1
      BY <2>3, <3>1
    <3>2. CASE i # L + 1
      <4>1. i \in 1 .. L /\ i < L + 1 /\ (i < L => i + 1 \in 1 .. L)
        BY <1>0, <3>2
      <4>2. stack'[i] = rest[i] /\ rest[i].node = stack[i].node
        BY <2>1, <4>1 DEF Resumes
      <4>3. \A n \in graph[rest[i].node] :
             \/ n \in rest[i].todo \cup permanent
             \/ i < L /\ n = stack[i + 1].node
             \/ i = L /\ n = m
        BY <4>1 DEF Resumes
      <4>4. rest[i].todo \subseteq graph[rest[i].node]
        BY <4>1 DEF Resumes
      <4> QED
        BY <2>2, <2>3, <4>1, <4>2, <4>3, <4>4
    <3> QED
      BY <3>1, <3>2
  <2>8. Covered'
    <3>1. stack # <<>> => L # 0 /\ 1 \in 1 .. L
      BY <1>0, EmptySeq DEF TypeOK
    <3>2. stack = <<>> => L + 1 = 1
      BY <1>0
    <3> QED
      BY <2>1, <2>2, <2>3, <3>1, <3>2 DEF Covered, Resumes
  <2> QED
    BY <2>5, <2>6, <2>7, <2>8 DEF Searching
<1> QED
  BY <1>1, <1>2 DEF Visit

\* What a thrown error promises, when visit(m) is the one that throws.
LEMMA VisitThrows ==
  ASSUME TypeOK, Open, Path, Complete, NEW m \in Ids, NEW rest, Visit(m, rest),
         outcome = "running", UNCHANGED <<graph, sorted>>,
         stack # <<>> => m \in graph[stack[Len(stack)].node],
         stack = <<>> => m \in DOMAIN graph
  PROVE  Complete'
<1>1. CASE m \in permanent /\ UNCHANGED outcome
  BY <1>1 DEF Complete
<1>2. CASE m \in temporary /\ outcome' = "cycle"
  BY <1>2, OpenAgainIsKnot DEF Complete
<1>3. CASE UNCHANGED outcome
  BY <1>3 DEF Complete
<1>4. CASE m \notin DOMAIN graph /\ outcome' = "missing"
  <2>1. stack # <<>>
    BY <1>4
  <2>2. Len(stack) \in 1 .. Len(stack)
    BY <2>1, PopFacts
  <2>3. stack[Len(stack)].node \in DOMAIN graph
    BY <2>2 DEF Open, Nodes
  <2> QED
    BY <1>4, <2>1, <2>3 DEF Complete
<1> QED
  BY <1>1, <1>2, <1>3, <1>4 DEF Visit

LEMMA RootResumes ==
  ASSUME TypeOK, Searching, NEW n \in Ids, VisitRoot(n)
  PROVE  Resumes(n, stack)
<1>1. stack = <<>> /\ Len(stack) = 0
  BY EmptySeq DEF VisitRoot, TypeOK
<1> QED
  BY <1>1 DEF Searching, Covered, Resumes, VisitRoot

LEMMA NeighbourResumes ==
  ASSUME TypeOK, Searching, NEW n \in Ids, VisitNeighbour(n),
         NEW rest, rest = Append(Below, [node |-> Top.node, todo |-> Top.todo \ {n}])
  PROVE  rest \in Seq(Frame) /\ Resumes(n, rest) /\ n \in graph[stack[Len(stack)].node]
<1> DEFINE L == Len(stack)
<1>1. stack # <<>>
  BY DEF VisitNeighbour
<1>2. L \in Nat \ {0} /\ L \in 1 .. L
  BY <1>1, PopFacts
<1>3. [node |-> Top.node, todo |-> Top.todo \ {n}] \in Frame
  BY <1>1, PopFacts DEF Frame
<1>4. /\ rest \in Seq(Frame) /\ Len(rest) = (L - 1) + 1
      /\ \A i \in 1 .. L - 1 : rest[i] = Below[i]
      /\ rest[(L - 1) + 1] = [node |-> Top.node, todo |-> Top.todo \ {n}]
  BY <1>1, <1>3, PopFacts, AppendProperties
<1>5. /\ \A i \in 1 .. L - 1 : rest[i] = stack[i]
      /\ rest[L].node = stack[L].node /\ rest[L].todo = stack[L].todo \ {n}
      /\ Len(rest) = L
  <2>1. (L - 1) + 1 = L
    BY <1>2
  <2> QED
    BY <1>1, <1>4, <2>1, PopFacts DEF Top
<1>6. n \in graph[stack[L].node]
  BY <1>2 DEF Searching, Visited, VisitNeighbour, Top
<1>7. ASSUME NEW i \in 1 .. L
      PROVE  /\ rest[i].node = stack[i].node
             /\ rest[i].todo \subseteq graph[rest[i].node]
             /\ \A k \in graph[rest[i].node] :
                  \/ k \in rest[i].todo \cup permanent
                  \/ i < L /\ k = stack[i + 1].node
                  \/ i = L /\ k = n
  <2>1. i \in 1 .. L - 1 \/ i = L
    BY <1>2
  <2> QED
    BY <1>5, <2>1 DEF Searching, Visited
<1>8. \A k \in DOMAIN graph : k \in roots' \cup permanent \/ (stack # <<>> /\ k = stack[1].node)
  BY DEF Searching, Covered, VisitNeighbour
<1> QED
  BY <1>1, <1>4, <1>5, <1>6, <1>7, <1>8 DEF Resumes

\* The end of visit(): its node is written, and its neighbours were before.
LEMMA LeaveKeeps ==
  ASSUME TypeOK, TopoOrdered, Written, Searching, Leave
  PROVE  TopoOrdered' /\ Written' /\ Searching'
<1> DEFINE L == Len(stack)
<1> DEFINE top == stack[L].node
<1>1. stack # <<>>
  BY DEF Leave
<1>2. L \in Nat \ {0} /\ L \in 1 .. L /\ Len(stack') = L - 1
      /\ \A i \in 1 .. L - 1 : stack'[i] = stack[i]
  BY <1>1, PopFacts DEF Leave
<1>3. top \in Ids /\ sorted \in Seq(Ids) /\ Len(sorted) \in Nat
  BY <1>1, PopFacts, LenProperties DEF Top, Frame, TypeOK
<1>4. /\ sorted' = Append(sorted, top) /\ permanent' = permanent \cup {top}
      /\ temporary' = temporary \ {top} /\ UNCHANGED <<graph, roots>>
      /\ stack[L].todo = {}
  BY DEF Leave, Top
<1>5. /\ Len(sorted') = Len(sorted) + 1
      /\ \A i \in 1 .. Len(sorted) : sorted'[i] = sorted[i]
      /\ sorted'[Len(sorted) + 1] = top
  BY <1>3, <1>4, AppendProperties
<1>6. top \in temporary /\ top \in DOMAIN graph /\ top \notin permanent
  BY <1>2 DEF Searching, Open, Nodes
<1>7. \A m \in graph[top] : m \in permanent
  BY <1>2, <1>4 DEF Searching, Visited
<1>8. TopoOrdered'
  <2> SUFFICES ASSUME NEW i \in 1 .. Len(sorted) + 1, NEW m \in graph[sorted'[i]]
               PROVE  \E j \in 1 .. i - 1 : sorted'[j] = m
    BY <1>4, <1>5 DEF TopoOrdered
  <2>1. CASE i = Len(sorted) + 1
    <3>1. PICK j \in 1 .. Len(sorted) : sorted[j] = m
      BY <1>5, <1>7, <2>1 DEF Written
    <3> QED
      BY <1>3, <1>5, <2>1, <3>1
  <2>2. CASE i # Len(sorted) + 1
    <3>1. i \in 1 .. Len(sorted)
      BY <1>3, <2>2
    <3>2. PICK j \in 1 .. i - 1 : sorted[j] = m
      BY <1>5, <3>1 DEF TopoOrdered
    <3>3. j \in 1 .. Len(sorted)
      BY <1>3, <3>1, <3>2
    <3> QED
      BY <1>5, <3>2, <3>3
  <2> QED
    BY <2>1, <2>2
<1>9. Written'
  <2>0. \A i \in 1 .. Len(sorted) + 1 : i \in 1 .. Len(sorted) \/ i = Len(sorted) + 1
    BY <1>3
  <2>1. permanent' = {sorted'[i] : i \in 1 .. Len(sorted')}
    <3>1. 1 .. Len(sorted) \subseteq 1 .. Len(sorted) + 1 /\ Len(sorted) + 1 \in 1 .. Len(sorted) + 1
      BY <1>3
    <3> QED
      BY <1>4, <1>5, <2>0, <3>1 DEF Written
  <2>2. ASSUME NEW i \in 1 .. Len(sorted) + 1, NEW j \in 1 .. Len(sorted) + 1, i # j
        PROVE  sorted'[i] # sorted'[j]
    <3>1. \A k \in 1 .. Len(sorted) : sorted[k] \in permanent
      BY DEF Written
    <3> QED
      BY <1>5, <1>6, <2>0, <2>2, <3>1 DEF Written
  <2> QED
    BY <1>4, <1>5, <1>6, <2>1, <2>2 DEF Written
<1>10. \A i \in 1 .. L - 1 : i \in 1 .. L /\ i # L
  BY <1>2
<1>11. Open'
  <2>1. \A i \in 1 .. L : i \in 1 .. L - 1 \/ i = L
    BY <1>2
  <2>2. \A i \in 1 .. L - 1 : stack[i].node # top
    BY <1>2, <1>10 DEF Searching, Open
  <2>5. \A i \in 1 .. L - 1 : stack'[i].node = stack[i].node
    BY <1>2
  <2>6. Nodes' = {stack[i].node : i \in 1 .. L - 1}
    BY <1>2, <2>5 DEF Nodes
  <2>7. Nodes = {stack[i].node : i \in 1 .. L - 1} \cup {top}
    BY <1>2, <1>10, <2>1 DEF Nodes
  <2>3. temporary' = Nodes'
    BY <1>4, <2>2, <2>6, <2>7 DEF Searching, Open
  <2>4. \A i, j \in 1 .. Len(stack') : i # j => stack'[i].node # stack'[j].node
    BY <1>2, <1>10 DEF Searching, Open
  <2> QED
    BY <1>4, <2>3, <2>4 DEF Searching, Open
<1>12. Path'
  <2> SUFFICES ASSUME NEW i \in 1 .. (L - 1) - 1
               PROVE  stack'[i + 1].node \in graph[stack'[i].node]
    BY <1>2, <1>4 DEF Path
  <2>1. i \in 1 .. L - 1 /\ i + 1 \in 1 .. L - 1
    BY <1>2
  <2> QED
    BY <1>2, <2>1 DEF Searching, Path
<1>13. Visited'
  <2> SUFFICES ASSUME NEW i \in 1 .. L - 1
               PROVE  /\ stack[i].todo \subseteq graph[stack[i].node]
                      /\ \A n \in graph[stack[i].node] :
                           \/ n \in stack[i].todo \cup permanent'
                           \/ i < L - 1 /\ n = stack'[i + 1].node
    BY <1>2, <1>4 DEF Visited
  <2>1. i \in 1 .. L /\ (i < L - 1 => i + 1 \in 1 .. L - 1) /\ (i = L - 1 => i + 1 = L)
        /\ (i < L - 1 \/ i = L - 1)
    BY <1>2
  <2>2. /\ stack[i].todo \subseteq graph[stack[i].node]
        /\ \A n \in graph[stack[i].node] :
             \/ n \in stack[i].todo \cup permanent
             \/ n = stack[i + 1].node
    BY <2>1 DEF Searching, Visited
  <2> QED
    BY <1>2, <1>4, <2>1, <2>2
<1>14. Covered'
  <2>1. CASE L = 1
    BY <1>4, <2>1 DEF Searching, Covered
  <2>2. CASE L # 1
    <3>1. 1 \in 1 .. L - 1 /\ L - 1 # 0
      BY <1>2, <2>2
    <3>2. stack' # <<>> /\ stack'[1] = stack[1]
      BY <1>2, <3>1
    <3> QED
      BY <1>4, <3>2 DEF Searching, Covered
  <2> QED
    BY <2>1, <2>2
<1> QED
  BY <1>8, <1>9, <1>11, <1>12, <1>13, <1>14 DEF Searching

-----------------------------------------------------------------------------
LEMMA SearchInit == Init => IInv
<1> SUFFICES ASSUME NEW g \in Graphs, StartOn(g) PROVE IInv
  BY DEF Init
<1>1. TypeOK
  BY TypeInit DEF Init
<1>2. Len(stack) = 0 /\ Len(sorted) = 0
  BY EmptySeq DEF StartOn
<1>3. 1 .. 0 = {} /\ 1 .. 0 - 1 = {}
  OBVIOUS
<1>4. TopoOrdered /\ Written /\ Complete
  BY <1>2, <1>3 DEF StartOn, TopoOrdered, Written, Complete
<1>5. Open /\ Path /\ Visited /\ Covered
  BY <1>2, <1>3 DEF StartOn, Open, Nodes, Path, Visited, Covered
<1> QED
  BY <1>1, <1>4, <1>5 DEF IInv, Searching

LEMMA SearchStep == IInv /\ [Next]_arrangeVars => IInv'
<1> SUFFICES ASSUME IInv, [Next]_arrangeVars PROVE IInv'
  OBVIOUS
<1>0. TypeOK'
  BY TypeStep DEF IInv
<1>1. ASSUME NEW n \in Ids, VisitRoot(n) PROVE IInv'
  <2>1. /\ TypeOK /\ Searching /\ Visit(n, stack) /\ stack = <<>> /\ n \in DOMAIN graph
        /\ UNCHANGED <<graph, permanent, sorted>> /\ outcome = "running"
    BY <1>1 DEF IInv, VisitRoot, TypeOK
  <2>2. TopoOrdered' /\ Written'
    BY <2>1 DEF IInv, TopoOrdered, Written
  <2>3. Complete'
    BY <2>1, VisitThrows DEF IInv, Searching
  <2>4. outcome' = "running" => Searching'
    BY <1>1, <2>1, RootResumes, VisitSearches DEF Searching, TypeOK
  <2> QED
    BY <1>0, <2>2, <2>3, <2>4 DEF IInv
<1>2. ASSUME NEW n \in Ids, VisitNeighbour(n) PROVE IInv'
  <2> DEFINE rest == Append(Below, [node |-> Top.node, todo |-> Top.todo \ {n}])
  <2>1. /\ TypeOK /\ Searching /\ Visit(n, rest) /\ stack # <<>>
        /\ UNCHANGED <<graph, permanent, sorted>> /\ outcome = "running"
    BY <1>2 DEF IInv, VisitNeighbour
  <2>2. TopoOrdered' /\ Written'
    BY <2>1 DEF IInv, TopoOrdered, Written
  <2>3. rest \in Seq(Frame) /\ Resumes(n, rest) /\ n \in graph[stack[Len(stack)].node]
    BY <1>2, <2>1, NeighbourResumes
  <2>4. Complete'
    BY <2>1, <2>3, VisitThrows DEF IInv, Searching
  <2>5. outcome' = "running" => Searching'
    BY <2>1, <2>3, VisitSearches DEF Searching
  <2> QED
    BY <1>0, <2>2, <2>4, <2>5 DEF IInv
<1>3. CASE Leave
  <2>1. TypeOK /\ TopoOrdered /\ Written /\ Searching
    BY <1>3 DEF IInv, Leave
  <2>2. Complete'
    BY <1>3 DEF Leave, Complete
  <2> QED
    BY <1>0, <1>3, <2>1, <2>2, LeaveKeeps DEF IInv
<1>4. CASE ReturnSorted
  <2>1. Searching /\ Written /\ UNCHANGED <<graph, sorted, permanent>>
        /\ outcome' = "sorted" /\ roots = {} /\ stack = <<>>
    BY <1>4 DEF IInv, ReturnSorted
  <2>2. permanent = DOMAIN graph
    BY <2>1 DEF Searching, Covered, Written
  <2>3. Complete'
    BY <2>1, <2>2 DEF Written, Complete
  <2>4. TopoOrdered' /\ Written'
    BY <2>1 DEF IInv, TopoOrdered, Written
  <2> QED
    BY <1>0, <2>1, <2>3, <2>4 DEF IInv
<1>5. CASE UNCHANGED arrangeVars
  BY <1>5 DEF arrangeVars, IInv, TypeOK, TopoOrdered, Written, Complete,
              Searching, Open, Nodes, Path, Visited, Covered
<1> QED
  BY <1>1, <1>2, <1>3, <1>4, <1>5 DEF Next, ArrangeStep, Settled

\* TopoOrdered for every graph: nothing is written before what it refers to.
THEOREM ArrangeIsTopological == Spec => []TopoOrdered
  BY SearchInit, SearchStep, PTL DEF Spec, IInv

\* Complete for every graph: success is a permutation of the keys, and each
\* refusal has its reason.
THEOREM ArrangeIsComplete == Spec => []Complete
  BY SearchInit, SearchStep, PTL DEF Spec, IInv
-----------------------------------------------------------------------------
(* What the Resolver keeps                                                   *)

References == {resolved[k].ref : k \in DOMAIN resolved}
Closures == {k \in DOMAIN resolved : resolved[k].form # "none"}

\* Only these kinds of reference have parameters; the types whose references
\* are made lazy have none; a set holds a type without any.
Sound(r) ==
  /\ r.params # <<>> => r.t \in {"lib", "local", "array", "result", "set"}
  /\ r.t = "local" /\ r.params # <<>> => r.id \notin BreakPoints
  /\ r.t = "array" => 1 \in DOMAIN r.params
  /\ r.t = "result" => {1, 2} \subseteq DOMAIN r.params
  /\ r.t = "set" => \E e : r.params = <<e>> /\ e.params = <<>>

\* What an entry of #resolved promises to the closures that read it.
EntryOK(e) ==
  /\ e = Entry(e.ref, e.form, e.key)
  /\ e.ref = [t |-> e.ref.t, id |-> e.ref.id, params |-> e.ref.params, lazy |-> e.ref.lazy, n |-> e.ref.n]
  /\ Sound(e.ref) /\ e.ref.t \notin {"param", "set"}
  /\ Range(e.ref.params) \subseteq References
  /\ e.ref.t = "local" <=> e.form # "none"
  /\ e.form \notin {"none", "generic"} => e.ref.params = <<>>
  /\ e.form = "generic" =>
       /\ e.key \in DOMAIN schema /\ Name(e.key) \in DOMAIN Generic
       /\ Len(e.ref.params) = Generic[Name(e.key)]
       /\ 1 .. Generic[Name(e.key)] \subseteq DOMAIN schema[e.key].parts
  /\ e.form = "address" => Type(e.key, 1) \in DOMAIN resolved /\ To(Type(e.key, 1)).t = "array"
  /\ e.form \in {"errors", "errorWithIndex"} => /\ Rejection \in References
                                                /\ DOMAIN Produced \subseteq DOMAIN resolved

EntriesOK ==
  /\ \A k \in DOMAIN resolved : EntryOK(resolved[k])
  /\ \A k \in DOMAIN resolved \cap DOMAIN Produced : resolved[k] = Produced[k]
  /\ "Permission" \in DOMAIN resolved => To("Permission").params = <<>>

\* The closure of an entry has run, and found what it reads.
Ran(e) ==
  /\ Deferred(e.form, e.key) \subseteq DOMAIN resolved
  /\ e.form = "shape" /\ HasErrors(e.key) => DOMAIN Produced \subseteq DOMAIN resolved

FillOK ==
  phase = "fill" =>
    /\ visited \subseteq DOMAIN resolved
    /\ DOMAIN emits = {resolved[k].ref.id : k \in visited \cap Closures}
    /\ \A k \in visited \cap Closures :
         /\ Ran(resolved[k])
         /\ emits[resolved[k].ref.id] = Definition(resolved[k].form, resolved[k].key)

\* Keys of one type have one definition.
MadeOK ==
  ~ Constructing =>
    /\ DOMAIN emits = {resolved[k].ref.id : k \in Closures}
    /\ \A k \in Closures : Ran(resolved[k])
    /\ \A j, k \in Closures : resolved[j].ref.id = resolved[k].ref.id =>
         Definition(resolved[j].form, resolved[j].key) = Definition(resolved[k].form, resolved[k].key)

\* The never types are emptied, once visited, and nothing else is changed.
EmptiedOK ==
  ~ Constructing =>
    \A id \in DOMAIN emits :
      emits[id] = IF id \in NeverTypes /\ (phase = "never" => id \in visited)
                  THEN Emit(Made[id].t, <<>>) ELSE Made[id]

PhaseOK ==
  /\ schema \in Schemas
  /\ phase = "resolve" => visited = {} /\ emits = <<>>
  /\ phase \in {"resolve", "fill", "never", "constructed"} =>
       stack = <<>> /\ sorted = <<>> /\ temporary = {} /\ permanent = {} /\ outcome = "running"
  /\ phase \in {"arrange", "rendered"} =>
       /\ graph = GraphOf(emits)
       /\ \A id \in DOMAIN emits : \A ref \in LocalRefs(emits[id]) : ref.id \in BreakPoints => ref.lazy
  /\ phase = "rendered" =>
       \A id \in DOMAIN emits : \A i \in DOMAIN emits[id].parts : Renderable(emits[id].parts[i].type)

ResolverInv == PhaseOK /\ EntriesOK /\ FillOK /\ MadeOK /\ EmptiedOK
LEMMA EntryStays ==
  ASSUME NEW e, EntryOK(e), schema' = schema,
         \A k \in DOMAIN resolved : k \in DOMAIN resolved' /\ resolved'[k] = resolved[k]
  PROVE  EntryOK(e)'
<1>1. References \subseteq References'
  BY DEF References
<1>2. Name(e.key)' = Name(e.key)
  BY DEF Name
<1> QED
  BY <1>1, <1>2 DEF EntryOK, Type, To

LEMMA EntriesStay ==
  ASSUME EntriesOK, UNCHANGED <<schema, resolved>>
  PROVE  EntriesOK'
<1>1. ASSUME NEW k \in DOMAIN resolved PROVE EntryOK(resolved[k])'
  <2>1. PICK e : e = resolved[k]
    OBVIOUS
  <2>2. EntryOK(e)'
    BY <2>1, EntryStays DEF EntriesOK
  <2> QED
    BY <2>1, <2>2
<1> QED
  BY <1>1 DEF EntriesOK, To

LEMMA LibEntry ==
  ASSUME NEW id, NEW params, Range(params) \subseteq References, NEW k
  PROVE  EntryOK(Entry(LibOf(id, params), "none", k))
  BY DEF EntryOK, Entry, LibOf, Ref, Sound

LEMMA LeafEntry ==
  ASSUME NEW id, NEW k
  PROVE  /\ EntryOK(Entry(Lib(id), "none", k))
         /\ EntryOK(Entry(NoValue, "none", k))
<1>1. Range(<<>>) = {}
  BY DEF Range
<1> QED
  BY <1>1 DEF EntryOK, Entry, Lib, NoValue, Ref, Sound

LEMMA OwnEntry ==
  ASSUME NEW id, NEW k, NEW form, form \notin {"none", "generic", "address", "errors", "errorWithIndex"}
  PROVE  EntryOK(Entry(Local(id), form, k))
<1>1. Range(<<>>) = {}
  BY DEF Range
<1> QED
  BY <1>1 DEF EntryOK, Entry, Local, Ref, Sound

LEMMA BindKeeps ==
  ASSUME EntriesOK, schema \in Schemas, NEW k \in DOMAIN schema \ DOMAIN resolved, NEW n, NEW entry,
         Bind(k, n, entry),
         {Type(k, i) : i \in 1 .. n} \subseteq DOMAIN resolved => EntryOK(entry),
         k = "Permission" => entry.ref.params = <<>>
  PROVE  EntriesOK'
<1>1. CASE Fail
  BY <1>1, EntriesStay DEF Fail
<1>2. CASE /\ {Type(k, i) : i \in 1 .. n} \subseteq DOMAIN resolved
           /\ resolved' = MapSet(resolved, k, [entry EXCEPT !.ref.lazy = entry.ref.id \in BreakPoints])
           /\ UNCHANGED <<schema, phase, visited, emits>>
  <2> DEFINE new == [entry EXCEPT !.ref.lazy = entry.ref.id \in BreakPoints]
  <2>1. EntryOK(entry)
    BY <1>2
  <2>2. /\ new = Entry(new.ref, new.form, new.key)
        /\ new.form = entry.form /\ new.key = entry.key
        /\ new.ref = [t |-> entry.ref.t, id |-> entry.ref.id, params |-> entry.ref.params,
                      lazy |-> entry.ref.id \in BreakPoints, n |-> entry.ref.n]
    BY <2>1 DEF EntryOK, Entry
  <2>3. EntryOK(new)
    BY <2>1, <2>2 DEF EntryOK, Sound
  <2> HIDE DEF new
  <2>4. DOMAIN resolved' = DOMAIN resolved \cup {k} /\ resolved'[k] = new
        /\ \A j \in DOMAIN resolved : resolved'[j] = resolved[j]
    BY <1>2 DEF new, MapSet
  <2>5. \A j \in DOMAIN resolved' : EntryOK(resolved[j])'
    <3>1. EntryOK(new)'
      BY <1>2, <2>3, <2>4, EntryStays
    <3>2. ASSUME NEW j \in DOMAIN resolved PROVE EntryOK(resolved[j])'
      <4>1. PICK e : e = resolved[j]
        OBVIOUS
      <4>2. EntryOK(e)'
        BY <4>1, <1>2, <2>4, EntryStays DEF EntriesOK
      <4> QED
        BY <4>1, <4>2, <2>4
    <3> QED
      BY <3>1, <3>2, <2>4
  <2>6. k \notin DOMAIN Produced
    BY ProducedAssumption
  <2>7. "Permission" \in DOMAIN resolved' => resolved'["Permission"].ref.params = <<>>
    <3>1. k = "Permission" => new.ref.params = <<>>
      BY <2>2
    <3> QED
      BY <3>1, <2>4 DEF EntriesOK, To
  <2>8. \A j \in DOMAIN resolved' \cap DOMAIN Produced : resolved'[j] = Produced[j]
    BY <2>4, <2>6 DEF EntriesOK
  <2> QED
    BY <2>5, <2>7, <2>8 DEF EntriesOK, To, Produced
<1> QED
  BY <1>1, <1>2 DEF Bind

LEMMA TypesResolved ==
  ASSUME NEW k, NEW n, {Type(k, i) : i \in 1 .. n} \subseteq DOMAIN resolved
  PROVE  Range(Types(k, n)) \subseteq References
  BY DEF Range, Types, To, References

LEMMA OnePart ==
  ASSUME NEW r PROVE Range(<<r>>) = {r}
  BY DEF Range

LEMMA ArrayEntry ==
  ASSUME NEW r \in References, NEW len, NEW k
  PROVE  EntryOK(Entry(ArrayOf(r, len), "none", k))
<1> DEFINE params == <<r>>
<1>1. Range(params) \subseteq References /\ 1 \in DOMAIN params
  BY OnePart
<1> HIDE DEF params
<1>2. EntryOK(Entry([t |-> "array", id |-> "", params |-> params, lazy |-> FALSE, n |-> len], "none", k))
  BY <1>1 DEF EntryOK, Entry, Sound
<1> QED
  BY <1>2 DEF params, ArrayOf

LEMMA GenericNumbers ==
  /\ \A id \in DOMAIN Generic : Generic[id] \in Nat /\ Generic[id] >= 1 /\ id \notin BreakPoints
  /\ Generic["Mismatch"] = 1
  BY DEF Generic, BreakPoints

\* The clause that is taken is one whose pattern the key fits.
LEMMA TakesFits ==
  ASSUME NEW k, NEW clauses, Takes(k, clauses)
  PROVE  \E clause \in clauses : Fits(k, clause)
  BY DEF Takes

LEMMA FitsFacts ==
  ASSUME NEW k, NEW clause, Fits(k, clause)
  PROVE  /\ clause \in {"generic", "metadata", "mismatch"} => HasFields(k) /\ Name(k) \in DOMAIN Generic
         /\ clause = "mismatch" => Name(k) = "Mismatch"
         /\ clause \in {"object", "selector", "fetch", "compound", "option", "vec", "map", "nonZero", "array", "result"}
              => ~ (k = "Permission" /\ Shape(k) = "Struct" /\ Name(k) = "Permission")
<1>1. clause = "generic" => HasFields(k) /\ Name(k) \in DOMAIN Generic
  BY DEF Fits
<1>2. clause \in {"metadata", "mismatch"} =>
        HasFields(k) /\ Name(k) = IF clause = "metadata" THEN "MetadataChanged" ELSE "Mismatch"
  BY DEF Fits
<1>3. {"MetadataChanged", "Mismatch"} \subseteq DOMAIN Generic
  BY DEF Generic
<1>4. clause \in {"object", "selector", "fetch", "compound", "option", "vec", "map", "nonZero", "array", "result"}
        => ~ (k = "Permission" /\ Shape(k) = "Struct" /\ Name(k) = "Permission")
  BY DEF Fits
<1> QED
  BY <1>1, <1>2, <1>3, <1>4

LEMMA TupleLengths ==
  ASSUME NEW a, NEW b, NEW c PROVE Len(<<a, b>>) = 2 /\ Len(<<a, b, c>>) = 3
  OBVIOUS

LEMMA FieldNumbers ==
  ASSUME NEW id \in DOMAIN Generic
  PROVE  Generic[id] \in Nat /\ Len(Fields[id]) \in Nat /\ Generic[id] <= Len(Fields[id])
<1>1. CASE id \in {"SetKeyValue", "MetadataChanged"}
  <2>1. Fields["SetKeyValue"] = <<"object", "_", "_">> /\ Fields["MetadataChanged"] = <<"target", "key", "value">>
    BY DEF Fields
  <2>2. Generic[id] = 1
    BY <1>1 DEF Generic
  <2>3. Len(Fields[id]) = 3
    BY <1>1, <2>1, TupleLengths
  <2> QED
    BY <2>2, <2>3
<1>2. CASE id = "RemoveKeyValue"
  <2>1. Fields["RemoveKeyValue"] = <<"object", "_">>
    BY DEF Fields
  <2>2. Generic[id] = 1
    BY <1>2 DEF Generic
  <2>3. Len(Fields[id]) = 2
    BY <1>2, <2>1, TupleLengths
  <2> QED
    BY <2>2, <2>3
<1>3. CASE id \in {"Mint", "Burn", "Grant", "Revoke"}
  <2>1. /\ Fields["Mint"] = <<"object", "destination">> /\ Fields["Burn"] = <<"object", "destination">>
        /\ Fields["Grant"] = <<"object", "destination">> /\ Fields["Revoke"] = <<"object", "destination">>
    BY DEF Fields
  <2>2. Generic[id] = 2
    BY <1>3 DEF Generic
  <2>3. Len(Fields[id]) = 2
    BY <1>3, <2>1, TupleLengths
  <2> QED
    BY <2>2, <2>3
<1>4. CASE id \in {"Transfer", "QueryWithFilter"}
  <2>1. /\ Fields["Transfer"] = <<"source", "object", "destination">>
        /\ Fields["QueryWithFilter"] = <<"query", "predicate", "selector">>
    BY DEF Fields
  <2>2. Generic[id] = 3
    BY <1>4 DEF Generic
  <2>3. Len(Fields[id]) = 3
    BY <1>4, <2>1, TupleLengths
  <2> QED
    BY <2>2, <2>3
<1>5. CASE id = "Mismatch"
  <2>1. Fields["Mismatch"] = <<"expected", "actual">>
    BY DEF Fields
  <2>2. Generic[id] = 1
    BY <1>5 DEF Generic
  <2>3. Len(Fields[id]) = 2
    BY <1>5, <2>1, TupleLengths
  <2> QED
    BY <2>2, <2>3
<1> QED
  BY <1>1, <1>2, <1>3, <1>4, <1>5 DEF Generic

\* The fields of a generic struct that its parameters stand for are there.
LEMMA GenericFields ==
  ASSUME schema \in Schemas, NEW k \in DOMAIN schema, HasFields(k), Name(k) \in DOMAIN Generic
  PROVE  1 .. Generic[Name(k)] \subseteq DOMAIN schema[k].parts
<1>1. Generic[Name(k)] \in Nat /\ Len(Fields[Name(k)]) \in Nat /\ Generic[Name(k)] <= Len(Fields[Name(k)])
  BY FieldNumbers
<1>2. Len(schema[k].parts) = Len(Fields[Name(k)])
  BY DEF HasFields
<1>3. DOMAIN schema[k].parts = 1 .. Len(schema[k].parts)
  BY PartsAssumption
<1> QED
  BY <1>1, <1>2, <1>3

\* What a clause sets keeps the promises, as what it resolved kept them.
LEMMA ResolveKeeps ==
  ASSUME EntriesOK, schema \in Schemas, NEW k \in DOMAIN schema, Resolve(k)
  PROVE  EntriesOK'
<1> USE DEF NullId
<1>0. k \in DOMAIN schema \ DOMAIN resolved
  BY DEF Resolve
<1>1. k = "Permission" => Shape(k) = "Struct" /\ Name(k) = "Permission" /\ Items(k) = <<>>
  BY PermissionAssumption DEF Shape, Name, Items, Id
<1>2. ASSUME Fail PROVE EntriesOK'
  BY <1>2, EntriesStay DEF Fail
<1>3. ASSUME NEW id, Bind(k, 0, Entry(Lib(id), "none", k)) PROVE EntriesOK'
  <2>1. EntryOK(Entry(Lib(id), "none", k)) /\ Entry(Lib(id), "none", k).ref.params = <<>>
    BY LeafEntry DEF Entry, Lib, Ref
  <2> QED
    BY <1>0, <1>3, <2>1, BindKeeps
<1>4. ASSUME NEW id, NEW form, NEW n, form \notin {"none", "generic", "address", "errors", "errorWithIndex"},
             Bind(k, n, Entry(Local(id), form, k)) PROVE EntriesOK'
  <2>1. EntryOK(Entry(Local(id), form, k)) /\ Entry(Local(id), form, k).ref.params = <<>>
    BY <1>4, OwnEntry DEF Entry, Local, Ref
  <2> QED
    BY <1>0, <1>4, <2>1, BindKeeps
<1>5. ASSUME NEW id, NEW n, Bind(k, n, Entry(LibOf(id, Types(k, n)), "none", k)), k # "Permission"
      PROVE  EntriesOK'
  <2>1. {Type(k, i) : i \in 1 .. n} \subseteq DOMAIN resolved => EntryOK(Entry(LibOf(id, Types(k, n)), "none", k))
    BY TypesResolved, LibEntry
  <2> QED
    BY <1>0, <1>5, <2>1, BindKeeps
<1>6. CASE ResolveLib(k)
  BY <1>3, <1>6 DEF ResolveLib
<1>7. CASE ResolveTransparent(k)
  <2>1. Type(k, 1) \in {Type(k, i) : i \in 1 .. 1}
    OBVIOUS
  <2>2. {Type(k, i) : i \in 1 .. 1} \subseteq DOMAIN resolved => EntryOK(resolved[Type(k, 1)])
    BY <2>1 DEF EntriesOK
  <2>3. k # "Permission"
    BY <1>1, <1>7, TakesFits, FitsFacts DEF ResolveTransparent
  <2>4. Bind(k, 1, resolved[Type(k, 1)])
    BY <1>7 DEF ResolveTransparent
  <2> QED
    BY <1>0, <2>2, <2>3, <2>4, BindKeeps
<1>8. ASSUME NEW n \in Nat, n = Generic[Name(k)], Name(k) \in DOMAIN Generic,
             1 .. n \subseteq DOMAIN schema[k].parts,
             Bind(k, n, Entry(Ref("local", Name(k), Types(k, n)), "generic", k))
      PROVE  EntriesOK'
  <2> DEFINE e == Entry(Ref("local", Name(k), Types(k, n)), "generic", k)
  <2>1. Len(Types(k, n)) = n
    BY DEF Types
  <2>2. Name(k) \notin BreakPoints
    BY <1>8, GenericNumbers
  <2>3. {Type(k, i) : i \in 1 .. n} \subseteq DOMAIN resolved => EntryOK(e)
    BY <1>8, <2>1, <2>2, TypesResolved DEF EntryOK, Entry, Ref, Sound
  <2>4. k # "Permission"
    BY <1>1, <1>8 DEF Generic
  <2> QED
    BY <1>0, <1>8, <2>3, <2>4, BindKeeps
<1>9. CASE ResolveGeneric(k)
  <2>1. CASE Fail
    BY <2>1, <1>2
  <2>2. CASE ~ Fail
    <3>1. Name(k) \in DOMAIN Generic /\ HasFields(k)
      BY <1>9, TakesFits, FitsFacts DEF ResolveGeneric
    <3>2. Generic[Name(k)] \in Nat /\ 1 .. Generic[Name(k)] \subseteq DOMAIN schema[k].parts
      BY <3>1, GenericNumbers, GenericFields
    <3> QED
      BY <1>8, <1>9, <2>2, <3>1, <3>2 DEF ResolveGeneric
  <2> QED
    BY <2>1, <2>2
<1>10. CASE ResolveMismatch(k)
  <2>1. CASE Fail
    BY <2>1, <1>2
  <2>2. CASE ~ Fail
    <3>1. Name(k) = "Mismatch" /\ HasFields(k) /\ Name(k) \in DOMAIN Generic
      BY <1>10, TakesFits, FitsFacts DEF ResolveMismatch
    <3>2. Generic[Name(k)] = 1 /\ 1 \in Nat /\ 1 .. 1 \subseteq DOMAIN schema[k].parts
      BY <3>1, GenericNumbers, GenericFields
    <3> QED
      BY <1>8, <1>10, <2>2, <3>1, <3>2 DEF ResolveMismatch
  <2> QED
    BY <2>1, <2>2
<1>11. CASE ResolveMarked(k)
  BY <1>4, <1>11 DEF ResolveMarked
<1>12. CASE ResolveCompound(k)
  <2>1. CASE Fail
    BY <2>1, <1>2
  <2>2. CASE ~ Fail
    <3> DEFINE e == Entry(LibOf("CompoundPredicate", <<To(Type(k, 1))>>), "none", k)
    <3>1. Type(k, 1) \in {Type(k, i) : i \in 1 .. 1}
      OBVIOUS
    <3>2. {Type(k, i) : i \in 1 .. 1} \subseteq DOMAIN resolved => EntryOK(e)
      BY <3>1, OnePart, LibEntry DEF To, References
    <3>3. k # "Permission" /\ Bind(k, 1, e)
      BY <1>1, <1>12, <2>2, TakesFits, FitsFacts DEF ResolveCompound
    <3> QED
      BY <1>0, <3>2, <3>3, BindKeeps
  <2> QED
    BY <2>1, <2>2
<1>13. CASE ResolveContainer(k)
  <2>1. CASE Fail
    BY <2>1, <1>2
  <2>2. CASE Bind(k, 0, Entry(Lib("BytesVec"), "none", k)) \/ Bind(k, 0, Entry(Local("PermissionsSet"), "permissions", k))
    BY <2>2, <1>3, <1>4
  <2>3. CASE /\ Takes(k, {"option", "vec", "map", "nonZero"})
             /\ LET n == Len(schema[k].parts) IN Bind(k, n, Entry(LibOf(Container[Name(k)], Types(k, n)), "none", k))
    <3>1. k # "Permission"
      BY <1>1, <2>3, TakesFits, FitsFacts
    <3> QED
      BY <1>5, <2>3, <3>1
  <2> QED
    BY <1>13, <2>1, <2>2, <2>3 DEF ResolveContainer
<1>14. CASE ResolveArray(k)
  <2> DEFINE e == Entry(ArrayOf(To(Type(k, 1)), schema[k].len), "none", k)
  <2>1. Type(k, 1) \in {Type(k, i) : i \in 1 .. 1}
    OBVIOUS
  <2>2. {Type(k, i) : i \in 1 .. 1} \subseteq DOMAIN resolved => EntryOK(e)
    BY <2>1, ArrayEntry DEF To, References
  <2>3. k # "Permission" /\ Bind(k, 1, e)
    BY <1>1, <1>14, TakesFits, FitsFacts DEF ResolveArray
  <2> QED
    BY <1>0, <2>2, <2>3, BindKeeps
<1>15. CASE ResolveAddress(k)
  <2>1. CASE Fail
    BY <2>1, <1>2
  <2>2. CASE ~ Fail
    <3> DEFINE e == Entry(Local(Name(k)), "address", k)
    <3>1. Type(k, 1) \in {Type(k, i) : i \in 1 .. 1} /\ Range(<<>>) = {}
      BY DEF Range
    <3>2. Bind(k, 1, e) /\ (Type(k, 1) \in DOMAIN resolved => To(Type(k, 1)).t = "array")
      BY <1>15, <2>2 DEF ResolveAddress, IsAddress
    <3>3. {Type(k, i) : i \in 1 .. 1} \subseteq DOMAIN resolved => EntryOK(e)
      BY <3>1, <3>2 DEF EntryOK, Entry, Local, Ref, Sound
    <3>4. e.ref.params = <<>>
      BY DEF Entry, Local, Ref
    <3> QED
      BY <1>0, <3>2, <3>3, <3>4, BindKeeps
  <2> QED
    BY <2>1, <2>2
<1>16. CASE ResolveOwn(k)
  BY <1>4, <1>16 DEF ResolveOwn
<1>17. CASE ResolveRequest(k)
  BY <1>2, <1>4, <1>17 DEF ResolveRequest
<1>18. CASE ResolvePlain(k)
  BY <1>4, <1>18 DEF ResolvePlain
<1>19. CASE ResolveResult(k)
  <2> DEFINE e == Entry(Ref("result", "", Types(k, 2)), "none", k)
  <2>1. {1, 2} \subseteq DOMAIN Types(k, 2)
    BY DEF Types
  <2>2. {Type(k, i) : i \in 1 .. 2} \subseteq DOMAIN resolved => EntryOK(e)
    BY <2>1, TypesResolved DEF EntryOK, Entry, Ref, Sound
  <2>3. k # "Permission" /\ Bind(k, 2, e)
    BY <1>1, <1>19, TakesFits, FitsFacts DEF ResolveResult
  <2> QED
    BY <1>0, <2>2, <2>3, BindKeeps
<1>20. CASE ResolveNull(k)
  <2>1. EntryOK(Entry(NoValue, "none", k)) /\ Entry(NoValue, "none", k).ref.params = <<>>
    BY LeafEntry DEF Entry, NoValue, Ref
  <2> QED
    BY <1>0, <1>20, <2>1, BindKeeps DEF ResolveNull
<1>21. CASE ResolveNothing(k)
  BY <1>2, <1>21 DEF ResolveNothing
<1> QED
  BY <1>6, <1>7, <1>9, <1>10, <1>11, <1>12, <1>13, <1>14, <1>15, <1>16, <1>17, <1>18, <1>19,
     <1>20, <1>21 DEF Resolve

Grown == schema' = schema /\ \A k \in DOMAIN resolved : k \in DOMAIN resolved' /\ resolved'[k] = resolved[k]

\* A definition does not change with what is resolved later.
LEMMA DefinitionStays ==
  ASSUME NEW form, NEW k, Grown, Deferred(form, k) \subseteq DOMAIN resolved,
         form = "address" => Type(k, 1) \in DOMAIN resolved
  PROVE  Definition(form, k)' = Definition(form, k)
<1>1. Shape(k)' = Shape(k) /\ Name(k)' = Name(k) /\ schema[k].parts' = schema[k].parts
  BY DEF Grown, Shape, Name
<1>2. \A type \in DOMAIN resolved : To(type)' = To(type)
  BY DEF Grown, To
<1>3. CASE form = "shape" /\ Shape(k) = "Struct"
  <2>1. ASSUME NEW i \in DOMAIN schema[k].parts PROVE MapField(schema[k].parts[i])' = MapField(schema[k].parts[i])
    <3>1. PICK field : field = schema[k].parts[i]
      OBVIOUS
    <3>2. field.type \in DOMAIN resolved
      BY <1>3, <3>1 DEF Deferred, Type
    <3>3. To(field.type)' = To(field.type) /\ IsErrors(field)' = IsErrors(field)
      BY <1>2, <3>2 DEF Grown, IsErrors
    <3>4. MapField(field)' = MapField(field)
      BY <3>3 DEF MapField
    <3> QED
      BY <1>1, <3>1, <3>4
  <2>2. [i \in DOMAIN schema[k].parts |-> MapField(schema[k].parts[i])]'
        = [i \in DOMAIN schema[k].parts |-> MapField(schema[k].parts[i])]
    BY <1>1, <2>1
  <2> QED
    BY <1>1, <1>3, <2>2 DEF Definition
<1>4. CASE form = "shape" /\ Shape(k) = "Enum"
  <2>1. ASSUME NEW i \in DOMAIN schema[k].parts PROVE MapVariant(schema[k].parts[i])' = MapVariant(schema[k].parts[i])
    <3>1. PICK variant : variant = schema[k].parts[i]
      OBVIOUS
    <3>2. variant.type # Unit => To(variant.type)' = To(variant.type)
      BY <1>2, <1>4, <3>1 DEF Deferred, Type
    <3>3. MapVariant(variant)' = MapVariant(variant)
      BY <3>2 DEF MapVariant
    <3> QED
      BY <1>1, <3>1, <3>3
  <2>2. [i \in DOMAIN schema[k].parts |-> MapVariant(schema[k].parts[i])]'
        = [i \in DOMAIN schema[k].parts |-> MapVariant(schema[k].parts[i])]
    BY <1>1, <2>1
  <2> QED
    BY <1>1, <1>4, <2>2 DEF Definition
<1>5. CASE form = "generic"
  <2> DEFINE P(i) == Part(schema[k].parts[i].name, IF Name(k) = "Mismatch" THEN Param(0)
                                                   ELSE IF i <= Generic[Name(k)] THEN Param(i - 1)
                                                   ELSE To(schema[k].parts[i].type))
  <2>1. ASSUME NEW i \in DOMAIN schema[k].parts PROVE P(i)' = P(i)
    <3>1. To(schema[k].parts[i].type)' = To(schema[k].parts[i].type)
      <4>1. PICK type : type = schema[k].parts[i].type
        OBVIOUS
      <4> QED
        BY <1>1, <1>2, <1>5, <4>1 DEF Deferred, Type
    <3> QED
      BY <1>1, <3>1
  <2>2. [i \in DOMAIN schema[k].parts |-> P(i)]' = [i \in DOMAIN schema[k].parts |-> P(i)]
    BY <1>1, <2>1
  <2> QED
    BY <1>1, <1>5, <2>2 DEF Definition
<1>6. CASE form \in {"address", "alias", "batch", "request"}
  <2>1. To(schema[k].parts[1].type)' = To(schema[k].parts[1].type)
    <3>1. PICK type : type = schema[k].parts[1].type
      OBVIOUS
    <3> QED
      BY <1>1, <1>2, <1>6, <3>1 DEF Deferred, Type
  <2> QED
    BY <1>1, <1>6, <2>1 DEF Definition
<1>7. CASE form = "permissions"
  <2>1. To("Permission")' = To("Permission")
    BY <1>2, <1>7 DEF Deferred
  <2> QED
    BY <1>7, <2>1 DEF Definition
<1>8. CASE form \notin {"generic", "address", "alias", "batch", "request", "permissions"} /\ ~ (form = "shape" /\ Shape(k) \in {"Struct", "Enum"})
  BY <1>1, <1>8 DEF Definition
<1> QED
  BY <1>3, <1>4, <1>5, <1>6, <1>7, <1>8

\* The closure of a struct with errors found the map it replaces.
LEMMA ErrorsFound ==
  ASSUME EntriesOK, NEW k, Shape(k) = "Struct", Deferred("shape", k) \subseteq DOMAIN resolved,
         HasErrors(k),
         \A i \in DOMAIN Definition("shape", k).parts : Definition("shape", k).parts[i].type # Unexpected
  PROVE  Rejection \in References
<1>1. PICK i \in DOMAIN schema[k].parts : IsErrors(schema[k].parts[i])
  BY DEF HasErrors
<1> DEFINE field == schema[k].parts[i]
<1>2. Definition("shape", k).parts = [j \in DOMAIN schema[k].parts |-> MapField(schema[k].parts[j])]
  BY DEF Definition, Emit
<1>3. MapField(field).type # Unexpected
  BY <1>2
<1>4. field.name \notin DOMAIN Unsuffixed
  BY <1>1, UnsuffixedAssumption DEF IsErrors
<1>5. ErrorsType(To(field.type)) # Unexpected
  BY <1>1, <1>3, <1>4 DEF MapField, Part
<1>6. To(field.type) = LibOf("BTreeMap", <<Lib("U64"), Rejection>>)
  BY <1>5 DEF ErrorsType
<1>7. field.type \in DOMAIN resolved
  BY DEF Deferred, Type
<1>8. Range(To(field.type).params) \subseteq References
  BY <1>7 DEF EntriesOK, EntryOK, To
<1>9. To(field.type).params = <<Lib("U64"), Rejection>>
  BY <1>6 DEF LibOf, Ref
<1> QED
  BY <1>8, <1>9 DEF Range

LEMMA RegisterKeeps ==
  ASSUME EntriesOK, NEW e, schema' = schema, resolved' = Register(e),
         e.form = "shape" /\ HasErrors(e.key) => Rejection \in References
  PROVE  Grown /\ EntriesOK' /\ (e.form = "shape" /\ HasErrors(e.key) => DOMAIN Produced \subseteq DOMAIN resolved')
<1>1. CASE ~ (e.form = "shape" /\ HasErrors(e.key))
  <2>1. resolved' = resolved
    BY <1>1 DEF Register
  <2> QED
    BY <1>1, <2>1, EntriesStay DEF Grown
<1>2. CASE e.form = "shape" /\ HasErrors(e.key)
  <2>1. /\ DOMAIN resolved' = DOMAIN Produced \cup DOMAIN resolved
        /\ \A k \in DOMAIN Produced : resolved'[k] = Produced[k]
        /\ \A k \in DOMAIN resolved : resolved'[k] = resolved[k]
    BY <1>2 DEF Register, EntriesOK
  <2>2. Grown
    BY <2>1 DEF Grown
  <2>3. Rejection \in References'
    BY <1>2, <2>1 DEF References
  <2>4. \A k \in DOMAIN Produced : /\ k # "Permission"
                                   /\ \E form \in {"errors", "errorWithIndex"} :
                                        Produced[k] = Entry(Local(k), form, k)
    BY DEF Produced
  <2>5. ASSUME NEW k \in DOMAIN Produced PROVE EntryOK(resolved[k])'
    <3>1. PICK form \in {"errors", "errorWithIndex"} : Produced[k] = Entry(Local(k), form, k)
      BY <2>4
    <3>2. Range(<<>>) = {}
      BY DEF Range
    <3>3. EntryOK(Entry(Local(k), form, k))'
      BY <2>1, <2>3, <3>2 DEF EntryOK, Entry, Local, Ref, Sound
    <3> QED
      BY <2>1, <3>1, <3>3
  <2>6. ASSUME NEW k \in DOMAIN resolved PROVE EntryOK(resolved[k])'
    <3>1. PICK f : f = resolved[k]
      OBVIOUS
    <3>2. EntryOK(f)'
      BY <2>1, <3>1, EntryStays DEF EntriesOK
    <3> QED
      BY <2>1, <3>1, <3>2
  <2>7. "Permission" \in DOMAIN resolved' => resolved'["Permission"].ref.params = <<>>
    BY <2>1, <2>4 DEF EntriesOK, To
  <2> QED
    BY <2>1, <2>2, <2>5, <2>6, <2>7 DEF EntriesOK, To
<1> QED
  BY <1>1, <1>2

LEMMA RanStays ==
  ASSUME NEW e, Grown, Ran(e)
  PROVE  Ran(e)'
<1>1. Shape(e.key)' = Shape(e.key) /\ schema[e.key].parts' = schema[e.key].parts
  BY DEF Grown, Shape
<1>2. \A field : IsErrors(field)' = IsErrors(field)
  BY DEF Grown, IsErrors
<1>3. HasErrors(e.key)' = HasErrors(e.key)
  BY <1>1, <1>2 DEF HasErrors
<1>4. Deferred(e.form, e.key)' = Deferred(e.form, e.key)
  BY <1>1 DEF Deferred, Type
<1>5. DOMAIN resolved \subseteq DOMAIN resolved'
  BY DEF Grown
<1> QED
  BY <1>3, <1>4, <1>5 DEF Ran

LEMMA FillKeeps ==
  ASSUME EntriesOK, FillOK, NEW k \in DOMAIN resolved, Fill(k)
  PROVE  EntriesOK' /\ FillOK'
<1>1. phase = "fill" /\ k \notin visited
  BY DEF Fill
<1>2. CASE Fail
  BY <1>1, <1>2, EntriesStay DEF Fail, FillOK
<1>3. CASE /\ resolved[k].form = "none"
           /\ visited' = visited \cup {k}
           /\ UNCHANGED <<schema, phase, resolved, emits>>
  <2>1. visited' \cap Closures' = visited \cap Closures
    BY <1>3 DEF Closures
  <2>2. Grown
    BY <1>3 DEF Grown
  <2>3. ASSUME NEW j \in visited \cap Closures
        PROVE  Ran(resolved[j])' /\ Definition(resolved[j].form, resolved[j].key)'
                                    = Definition(resolved[j].form, resolved[j].key)
    <3>1. PICK e : e = resolved[j]
      OBVIOUS
    <3>2. Ran(e) /\ EntryOK(e)
      BY <1>1, <3>1 DEF FillOK, EntriesOK
    <3>3. Ran(e)' /\ Definition(e.form, e.key)' = Definition(e.form, e.key)
      BY <2>2, <3>2, RanStays, DefinitionStays DEF Ran, EntryOK
    <3> QED
      BY <1>3, <3>1, <3>3
  <2>4. FillOK'
    BY <1>1, <1>3, <2>1, <2>3 DEF FillOK
  <2> QED
    BY <1>3, <2>4, EntriesStay
<1>4. CASE /\ resolved[k].form # "none"
           /\ ~ Fail
  <2>1. PICK e : e = resolved[k]
    OBVIOUS
  <2> DEFINE new == Definition(e.form, e.key)
  <2>2. /\ Deferred(e.form, e.key) \subseteq DOMAIN resolved
        /\ \A i \in DOMAIN new.parts : new.parts[i].type # Unexpected
        /\ e.ref.id \in DOMAIN emits => emits[e.ref.id] = new
        /\ visited' = visited \cup {k}
        /\ emits' = MapSet(emits, e.ref.id, new)
        /\ resolved' = Register(e)
        /\ UNCHANGED <<schema, phase>>
    BY <1>4, <2>1 DEF Fill
  <2>3. EntryOK(e)
    BY <2>1 DEF EntriesOK
  <2>4. e.form = "shape" /\ HasErrors(e.key) => Rejection \in References
    BY <2>2, ErrorsFound DEF HasErrors
  <2>5. /\ Grown /\ EntriesOK'
        /\ e.form = "shape" /\ HasErrors(e.key) => DOMAIN Produced \subseteq DOMAIN resolved'
    BY <2>2, <2>4, RegisterKeeps
  <2>6. new' = new
    BY <2>2, <2>3, <2>5, DefinitionStays DEF EntryOK
  <2>7. Ran(e)'
    <3>1. \A field : IsErrors(field)' = IsErrors(field)
      BY <2>2 DEF IsErrors
    <3>2. HasErrors(e.key)' = HasErrors(e.key)
      BY <2>2, <3>1 DEF HasErrors, Shape
    <3>3. Deferred(e.form, e.key)' = Deferred(e.form, e.key)
      BY <2>2 DEF Deferred, Type, Shape
    <3>4. DOMAIN resolved \subseteq DOMAIN resolved'
      BY <2>5 DEF Grown
    <3> QED
      BY <2>2, <2>5, <3>2, <3>3, <3>4 DEF Ran
  <2> HIDE DEF new
  <2>8. /\ DOMAIN emits' = DOMAIN emits \cup {e.ref.id} /\ emits'[e.ref.id] = new
        /\ \A id \in DOMAIN emits : emits'[id] = emits[id]
    BY <2>2 DEF MapSet
  <2>9. visited' \cap Closures' = (visited \cap Closures) \cup {k}
        /\ \A j \in DOMAIN resolved : resolved'[j] = resolved[j]
    BY <1>1, <1>4, <2>2, <2>5 DEF Closures, Grown, FillOK
  <2>10. ASSUME NEW j \in visited \cap Closures
         PROVE  /\ Ran(resolved[j])'
                /\ emits'[resolved'[j].ref.id] = Definition(resolved[j].form, resolved[j].key)'
    <3>1. PICK f : f = resolved[j]
      OBVIOUS
    <3>2. Ran(f) /\ EntryOK(f) /\ f.ref.id \in DOMAIN emits /\ emits[f.ref.id] = Definition(f.form, f.key)
      BY <1>1, <3>1 DEF FillOK, EntriesOK, Closures
    <3>3. Ran(f)' /\ Definition(f.form, f.key)' = Definition(f.form, f.key)
      BY <2>5, <3>2, RanStays, DefinitionStays DEF Ran, EntryOK
    <3>4. resolved'[j] = f
      BY <2>9, <3>1 DEF Closures
    <3> QED
      BY <2>8, <3>2, <3>3, <3>4
  <2>11. Ran(resolved[k])' /\ emits'[resolved'[k].ref.id] = Definition(resolved[k].form, resolved[k].key)'
    <3>1. resolved'[k] = e
      BY <2>1, <2>9
    <3> QED
      BY <2>1, <2>6, <2>7, <2>8, <3>1 DEF new
  <2>12. DOMAIN emits' = {resolved'[j].ref.id : j \in visited' \cap Closures'}
    <3>1. DOMAIN emits = {resolved[j].ref.id : j \in visited \cap Closures}
      BY <1>1 DEF FillOK
    <3> QED
      BY <2>1, <2>8, <2>9, <3>1 DEF Closures
  <2>13. visited' \subseteq DOMAIN resolved'
    BY <1>1, <2>2, <2>5 DEF FillOK, Grown
  <2>14. \A j \in visited' \cap Closures' :
           Ran(resolved[j])' /\ emits'[resolved'[j].ref.id] = Definition(resolved[j].form, resolved[j].key)'
    BY <2>9, <2>10, <2>11
  <2> QED
    BY <2>5, <2>12, <2>13, <2>14 DEF FillOK
<1> QED
  BY <1>2, <1>3, <1>4 DEF Fill

-----------------------------------------------------------------------------
(* Never types                                                               *)

LEMMA NeverClosed ==
  ASSUME NEW types
  PROVE  /\ NeverIn(types) \subseteq Enums(types)
         /\ \A id \in NeverIn(types) : \A i \in DOMAIN types[id].parts :
              EnumOf(types, types[id].parts[i].type) \cap NeverIn(types) # {}
<1> DEFINE Led(ids) == \A id \in ids : \A i \in DOMAIN types[id].parts :
                         EnumOf(types, types[id].parts[i].type) \cap ids # {}
<1>1. NeverIn(types) \subseteq Enums(types)
  BY DEF NeverIn
<1>2. ASSUME NEW id \in NeverIn(types), NEW i \in DOMAIN types[id].parts
      PROVE  EnumOf(types, types[id].parts[i].type) \cap NeverIn(types) # {}
  <2>1. PICK ids \in SUBSET Enums(types) : Led(ids) /\ id \in ids
    BY DEF NeverIn
  <2>2. ids \subseteq NeverIn(types)
    BY <2>1 DEF NeverIn
  <2> QED
    BY <2>1, <2>2
<1> QED
  BY <1>1, <1>2

LEMMA NeverLargest ==
  ASSUME NEW types, NEW id \in Enums(types),
         \A i \in DOMAIN types[id].parts : EnumOf(types, types[id].parts[i].type) \cap NeverIn(types) # {}
  PROVE  id \in NeverIn(types)
<1> DEFINE ids == NeverIn(types) \cup {id}
<1>1. ids \in SUBSET Enums(types)
  BY NeverClosed
<1>2. \A x \in ids : \A i \in DOMAIN types[x].parts :
        EnumOf(types, types[x].parts[i].type) \cap ids # {}
  BY NeverClosed
<1> HIDE DEF ids
<1>3. ids \subseteq NeverIn(types)
  BY <1>1, <1>2 DEF NeverIn
<1> QED
  BY <1>3 DEF ids

\* The equation of enumShortcuts, and that it has one solution when no enum is
\* a variant of itself.
Solves(has, types) ==
  has = [id \in Enums(types) |->
           \E i \in DOMAIN types[id].parts : \A enum \in EnumOf(types, types[id].parts[i].type) : has[enum]]

LEMMA ShortcutsSolve ==
  ASSUME NEW types, NEW f, Solves(f, types)
  PROVE  Solves(HasShortcuts(types), types)
  BY DEF Solves, HasShortcuts

LEMMA EnumOfIsEnum ==
  ASSUME NEW types, NEW ref
  PROVE  EnumOf(types, ref) \subseteq Enums(types)
  BY DEF EnumOf, FindEnum

LEMMA OneSolution ==
  ASSUME NEW types, ~ Endless(types), NEW f, NEW g, Solves(f, types), Solves(g, types)
  PROVE  \A id \in Enums(types) : f[id] <=> g[id]
<1> DEFINE D == {id \in Enums(types) : ~ (f[id] <=> g[id])}
           Says(h, id) == \E i \in DOMAIN types[id].parts :
                            \A enum \in EnumOf(types, types[id].parts[i].type) : h[enum]
<1>1. ASSUME NEW id \in D PROVE \E i \in DOMAIN types[id].parts : EnumOf(types, types[id].parts[i].type) \cap D # {}
  <2> SUFFICES ASSUME \A i \in DOMAIN types[id].parts : EnumOf(types, types[id].parts[i].type) \cap D = {}
               PROVE  FALSE
    OBVIOUS
  <2>1. \A i \in DOMAIN types[id].parts : \A enum \in EnumOf(types, types[id].parts[i].type) : f[enum] <=> g[enum]
    BY EnumOfIsEnum
  <2>2. Says(f, id) <=> Says(g, id)
    BY <2>1
  <2>3. (f[id] = Says(f, id)) /\ (g[id] = Says(g, id))
    BY DEF Solves
  <2> QED
    BY <2>2, <2>3
<1>2. D \in SUBSET Enums(types)
  OBVIOUS
<1> HIDE DEF D
<1>3. D = {}
  BY <1>1, <1>2 DEF Endless
<1> QED
  BY <1>3 DEF D

\* `types` is `made` with some of its never types emptied.
PartlyEmptied(types, made) ==
  /\ DOMAIN types = DOMAIN made
  /\ \A id \in DOMAIN made :
       \/ types[id] = made[id]
       \/ id \in NeverIn(made) /\ types[id] = Emit(made[id].t, <<>>)

LEMMA EmptiedSameEnums ==
  ASSUME NEW types, NEW made, PartlyEmptied(types, made)
  PROVE  /\ Enums(types) = Enums(made)
         /\ \A ref : EnumOf(types, ref) = EnumOf(made, ref)
<1>1. \A id \in DOMAIN made : types[id].t = made[id].t
  BY DEF PartlyEmptied, Emit
<1>2. Enums(types) = Enums(made)
  BY <1>1 DEF Enums, PartlyEmptied
<1>3. \A id \in DOMAIN made : made[id].t = "alias" => types[id] = made[id]
  BY NeverClosed DEF PartlyEmptied, Enums
<1>4. DOMAIN Targets(types) = DOMAIN Targets(made)
  BY <1>1, <1>3 DEF Targets, PartlyEmptied
<1>5. \A id \in DOMAIN Targets(made) : Targets(types)[id] = Targets(made)[id]
  BY <1>1, <1>3, <1>4 DEF Targets, PartlyEmptied
<1>6. Targets(types) = Targets(made)
  <2>1. \A t : Targets(t) = [id \in DOMAIN Targets(t) |-> Targets(t)[id]]
    BY DEF Targets
  <2>2. Targets(types) = [id \in DOMAIN Targets(types) |-> Targets(types)[id]]
        /\ Targets(made) = [id \in DOMAIN Targets(made) |-> Targets(made)[id]]
    BY <2>1
  <2> QED
    BY <1>4, <1>5, <2>2
<1> QED
  BY <1>2, <1>6 DEF EnumOf, FindEnum

\* One look at the enums below an enum, some of them emptied already, finds
\* out whether it is a never type.
LEMMA BarrenIsNever ==
  ASSUME NEW types, NEW made, PartlyEmptied(types, made), ~ Endless(types), NEW id \in Enums(types)
  PROVE  ~ HasShortcuts(types)[id] <=> id \in NeverIn(made)
<1> DEFINE f == [x \in Enums(types) |-> x \notin NeverIn(made)]
           Says(x) == \E i \in DOMAIN types[x].parts : \A enum \in EnumOf(types, types[x].parts[i].type) : f[enum]
<1>0. Enums(types) = Enums(made) /\ \A ref : EnumOf(types, ref) = EnumOf(made, ref)
  BY EmptiedSameEnums
<1>1. ASSUME NEW x \in Enums(types) PROVE x \notin NeverIn(made) <=> Says(x)
  <2>1. CASE types[x] = made[x]
    <3>1. Says(x) <=> \E i \in DOMAIN made[x].parts : EnumOf(made, made[x].parts[i].type) \cap NeverIn(made) = {}
      BY <1>0, <2>1, EnumOfIsEnum
    <3> QED
      BY <1>0, <3>1, NeverClosed, NeverLargest
  <2>2. CASE x \in NeverIn(made) /\ types[x] = Emit(made[x].t, <<>>)
    <3>1. DOMAIN types[x].parts = {}
      BY <2>2 DEF Emit
    <3> QED
      BY <2>2, <3>1
  <2> QED
    BY <1>0, <2>1, <2>2 DEF PartlyEmptied, Enums
<1>2. Solves(f, types)
  BY <1>1 DEF Solves
<1>3. Solves(HasShortcuts(types), types)
  BY <1>2, ShortcutsSolve
<1>4. f[id] <=> HasShortcuts(types)[id]
  BY <1>2, <1>3, OneSolution
<1> QED
  BY <1>4

-----------------------------------------------------------------------------
(* What the closures made                                                    *)

LEMMA DefinitionSame ==
  ASSUME NEW form, NEW k, UNCHANGED <<schema, resolved>>
  PROVE  Definition(form, k)' = Definition(form, k)
<1>1. Shape(k)' = Shape(k) /\ Name(k)' = Name(k) /\ schema[k].parts' = schema[k].parts
  BY DEF Shape, Name
<1>2. \A type : To(type)' = To(type)
  BY DEF To
<1>3. CASE form = "shape" /\ Shape(k) \in {"Struct", "Enum"}
  <2>1. \A field : MapField(field)' = MapField(field)
    <3>1. \A field : IsErrors(field)' = IsErrors(field)
      BY DEF IsErrors
    <3> QED
      BY <1>2, <3>1 DEF MapField
  <2>2. \A variant : MapVariant(variant)' = MapVariant(variant)
    BY <1>2 DEF MapVariant
  <2>3. ASSUME NEW i \in DOMAIN schema[k].parts
        PROVE  /\ MapField(schema[k].parts[i])' = MapField(schema[k].parts[i])
               /\ MapVariant(schema[k].parts[i])' = MapVariant(schema[k].parts[i])
    <3>1. PICK part : part = schema[k].parts[i]
      OBVIOUS
    <3> QED
      BY <1>1, <2>1, <2>2, <3>1
  <2>4. /\ [i \in DOMAIN schema[k].parts |-> MapField(schema[k].parts[i])]'
           = [i \in DOMAIN schema[k].parts |-> MapField(schema[k].parts[i])]
        /\ [i \in DOMAIN schema[k].parts |-> MapVariant(schema[k].parts[i])]'
           = [i \in DOMAIN schema[k].parts |-> MapVariant(schema[k].parts[i])]
    BY <1>1, <2>3
  <2> QED
    BY <1>1, <1>3, <2>4 DEF Definition
<1>4. CASE form = "generic"
  <2> DEFINE P(i) == Part(schema[k].parts[i].name, IF Name(k) = "Mismatch" THEN Param(0)
                                                   ELSE IF i <= Generic[Name(k)] THEN Param(i - 1)
                                                   ELSE To(schema[k].parts[i].type))
  <2>1. ASSUME NEW i \in DOMAIN schema[k].parts PROVE P(i)' = P(i)
    BY <1>1 DEF To
  <2>2. [i \in DOMAIN schema[k].parts |-> P(i)]' = [i \in DOMAIN schema[k].parts |-> P(i)]
    BY <1>1, <2>1
  <2> QED
    BY <1>1, <1>4, <2>2 DEF Definition
<1>5. CASE form # "generic" /\ ~ (form = "shape" /\ Shape(k) \in {"Struct", "Enum"})
  <2>1. To(schema[k].parts[1].type)' = To(schema[k].parts[1].type) /\ To("Permission")' = To("Permission")
    BY DEF To
  <2> QED
    BY <1>1, <1>5, <2>1 DEF Definition
<1> QED
  BY <1>3, <1>4, <1>5

LEMMA DefinitionRecord ==
  ASSUME NEW form, NEW k
  PROVE  Definition(form, k) = Emit(Definition(form, k).t, Definition(form, k).parts)
<1> DEFINE IsEmit(d) == d = Emit(d.t, d.parts)
<1>1. \A t, parts : IsEmit(Emit(t, parts))
  BY DEF Emit
<1>2. \A ref : IsEmit(AliasTo(ref)) /\ IsEmit(SetWithCmp(ref))
  BY <1>1 DEF AliasTo, SetWithCmp
<1> HIDE DEF IsEmit
<1>3. IsEmit(Definition(form, k))
  BY <1>1, <1>2 DEF Definition
<1> QED
  BY <1>3 DEF IsEmit

MadeAsDefined ==
  \A k \in Closures : /\ resolved[k].ref.id \in DOMAIN emits
                      /\ Made[resolved[k].ref.id] = Definition(resolved[k].form, resolved[k].key)

LEMMA MadeFits == MadeOK /\ ~ Constructing => MadeAsDefined
<1> SUFFICES ASSUME MadeOK, ~ Constructing, NEW k \in Closures
             PROVE  /\ resolved[k].ref.id \in DOMAIN emits
                    /\ Made[resolved[k].ref.id] = Definition(resolved[k].form, resolved[k].key)
  BY DEF MadeAsDefined
<1> DEFINE id == resolved[k].ref.id
           j == CHOOSE j \in DOMAIN resolved : resolved[j].ref.id = id /\ resolved[j].form # "none"
<1>1. id \in DOMAIN emits
  BY DEF MadeOK
<1>2. j \in Closures /\ resolved[j].ref.id = id
  BY DEF Closures
<1>3. Made[id] = Definition(resolved[j].form, resolved[j].key)
  BY <1>1 DEF Made
<1> HIDE DEF j
<1> QED
  BY <1>1, <1>2, <1>3 DEF MadeOK

LEMMA MadeStays ==
  ASSUME MadeOK, MadeOK', ~ Constructing, ~ Constructing', UNCHANGED <<schema, resolved>>
  PROVE  DOMAIN emits' = DOMAIN emits /\ Made' = Made
<1>1. Closures' = Closures
  BY DEF Closures
<1>2. DOMAIN emits' = DOMAIN emits
  BY <1>1 DEF MadeOK
<1>3. ASSUME NEW id \in DOMAIN emits PROVE Made'[id] = Made[id]
  <2>1. PICK k \in Closures : resolved[k].ref.id = id
    BY DEF MadeOK
  <2>2. Made[id] = Definition(resolved[k].form, resolved[k].key)
    BY <2>1, MadeFits DEF MadeAsDefined
  <2>3. PICK e : e = resolved[k]
    OBVIOUS
  <2>4. Definition(e.form, e.key)' = Definition(e.form, e.key)
    BY DefinitionSame
  <2>5. Made'[id] = Definition(resolved[k].form, resolved[k].key)'
    <3>1. MadeAsDefined'
      BY MadeFits, PTL
    <3>2. resolved'[k].ref.id = id
      BY <2>1
    <3> QED
      BY <1>1, <3>1, <3>2 DEF MadeAsDefined
  <2> QED
    BY <2>2, <2>3, <2>4, <2>5
<1>4. Made = [id \in DOMAIN emits |-> Made[id]] /\ Made' = [id \in DOMAIN emits' |-> Made'[id]]
  BY DEF Made
<1> QED
  BY <1>2, <1>3, <1>4

-----------------------------------------------------------------------------
(* Every step keeps the invariant                                            *)

LEMMA ClosuresSame ==
  ASSUME UNCHANGED <<schema, resolved>>, NEW k \in Closures
  PROVE  /\ Definition(resolved[k].form, resolved[k].key)' = Definition(resolved[k].form, resolved[k].key)
         /\ Ran(resolved[k]) => Ran(resolved[k])'
<1>1. PICK e : e = resolved[k]
  OBVIOUS
<1>2. Definition(e.form, e.key)' = Definition(e.form, e.key)
  BY DefinitionSame
<1>3. Ran(e) => Ran(e)'
  BY RanStays DEF Grown
<1> QED
  BY <1>1, <1>2, <1>3

LEMMA MadeKeeps ==
  ASSUME MadeOK, ~ Constructing, UNCHANGED <<schema, resolved>>, DOMAIN emits' = DOMAIN emits
  PROVE  MadeOK'
<1>1. Closures' = Closures /\ resolved' = resolved
  BY DEF Closures
<1>2. \A k \in Closures : /\ Ran(resolved[k])'
                          /\ Definition(resolved[k].form, resolved[k].key)' = Definition(resolved[k].form, resolved[k].key)
  BY ClosuresSame DEF MadeOK
<1> QED
  BY <1>1, <1>2 DEF MadeOK

\* The later phases, which leave what the Resolver keeps alone.
LEMMA LaterKeeps ==
  ASSUME EntriesOK, MadeOK, EmptiedOK, ~ Constructing, ~ Constructing', UNCHANGED <<schema, resolved, emits>>,
         \/ UNCHANGED <<phase, visited>>
         \/ phase # "never" /\ phase' # "never"
  PROVE  EntriesOK' /\ FillOK' /\ MadeOK' /\ EmptiedOK'
<1>1. EntriesOK' /\ MadeOK'
  BY EntriesStay, MadeKeeps
<1>2. Made' = Made
  BY <1>1, MadeStays
<1>3. NeverTypes' = NeverTypes
  BY <1>2 DEF NeverTypes
<1>4. EmptiedOK'
  BY <1>2, <1>3 DEF EmptiedOK
<1>5. FillOK'
  BY DEF FillOK, Constructing
<1> QED
  BY <1>1, <1>4, <1>5

LEMMA FilledAllKeeps ==
  ASSUME PhaseOK, EntriesOK, FillOK, FilledAll
  PROVE  EntriesOK' /\ FillOK' /\ MadeOK' /\ EmptiedOK'
<1>1. EntriesOK' /\ FillOK'
  BY EntriesStay DEF FilledAll, FillOK
<1>2. Closures' = Closures /\ visited \cap Closures = Closures /\ UNCHANGED <<schema, resolved, emits>>
  BY DEF FilledAll, Closures
<1>3. \A k \in Closures : /\ Ran(resolved[k])'
                          /\ Definition(resolved[k].form, resolved[k].key)' = Definition(resolved[k].form, resolved[k].key)
                          /\ emits[resolved[k].ref.id] = Definition(resolved[k].form, resolved[k].key)
  BY <1>2, ClosuresSame DEF FilledAll, FillOK
<1>4. DOMAIN emits = {resolved[k].ref.id : k \in Closures}
  BY <1>2 DEF FilledAll, FillOK
<1>5. MadeOK'
  BY <1>2, <1>3, <1>4 DEF MadeOK
<1>6. MadeAsDefined'
  <2>1. ~ Constructing'
    BY DEF FilledAll, Constructing
  <2> QED
    BY <1>5, <2>1, MadeFits, PTL
<1>7. ASSUME NEW id \in DOMAIN emits' PROVE emits'[id] = Made'[id]
  <2>1. PICK k \in Closures : resolved[k].ref.id = id
    BY <1>2, <1>4
  <2>2. Made'[id] = Definition(resolved[k].form, resolved[k].key)'
    BY <1>2, <1>6, <2>1 DEF MadeAsDefined
  <2> QED
    BY <1>2, <1>3, <2>1, <2>2
<1>8. EmptiedOK'
  BY <1>7 DEF EmptiedOK, FilledAll
<1> QED
  BY <1>1, <1>5, <1>8

LEMMA MadeRecord ==
  ASSUME MadeOK, ~ Constructing, NEW id \in DOMAIN emits
  PROVE  Made[id] = Emit(Made[id].t, Made[id].parts)
<1>1. PICK k \in Closures : resolved[k].ref.id = id
  BY DEF MadeOK
<1>2. Made[id] = Definition(resolved[k].form, resolved[k].key)
  BY <1>1, MadeFits DEF MadeAsDefined
<1> QED
  BY <1>2, DefinitionRecord

LEMMA EmptiedPartly ==
  ASSUME EmptiedOK, ~ Constructing
  PROVE  PartlyEmptied(emits, Made)
  BY DEF EmptiedOK, PartlyEmptied, Made, NeverTypes

LEMMA ProcessNeverKeeps ==
  ASSUME PhaseOK, EntriesOK, MadeOK, EmptiedOK, NEW id \in DOMAIN emits, ProcessNever(id), ~ Fail
  PROVE  EntriesOK' /\ FillOK' /\ MadeOK' /\ EmptiedOK'
<1>1. /\ phase = "never" /\ phase' = "never" /\ ~ Endless(emits)
      /\ id \in Enums(emits) \ visited /\ visited' = visited \cup {id}
      /\ UNCHANGED <<schema, resolved>>
      /\ emits' = IF Barren(id) THEN [emits EXCEPT ![id].parts = <<>>] ELSE emits
  BY DEF ProcessNever
<1>2. ~ Constructing /\ ~ Constructing'
  BY <1>1 DEF Constructing
<1>3. DOMAIN emits' = DOMAIN emits
  BY <1>1
<1>4. EntriesOK' /\ FillOK' /\ MadeOK'
  BY <1>1, <1>2, <1>3, EntriesStay, MadeKeeps DEF FillOK
<1>5. Made' = Made
  BY <1>1, <1>2, <1>4, MadeStays
<1>6. NeverTypes' = NeverTypes
  BY <1>5 DEF NeverTypes
<1>7. Barren(id) <=> id \in NeverTypes
  BY <1>1, <1>2, EmptiedPartly, BarrenIsNever DEF Barren, NeverTypes
<1>8. emits[id] = Made[id] /\ Made[id] = Emit(Made[id].t, Made[id].parts)
  BY <1>1, <1>2, MadeRecord DEF EmptiedOK
<1>9. Barren(id) => emits'[id] = Emit(Made[id].t, <<>>)
  <2>1. \A t, p : [Emit(t, p) EXCEPT !.parts = <<>>] = Emit(t, <<>>)
    BY DEF Emit
  <2> HIDE DEF Emit
  <2>2. [emits[id] EXCEPT !.parts = <<>>] = Emit(Made[id].t, <<>>)
    BY <1>8, <2>1
  <2> QED
    BY <1>1, <2>2
<1>10. \A x \in DOMAIN emits : x # id => emits'[x] = emits[x]
  BY <1>1
<1>11. EmptiedOK'
  <2>1. ASSUME NEW x \in DOMAIN emits
        PROVE  emits'[x] = IF x \in NeverTypes /\ x \in visited' THEN Emit(Made[x].t, <<>>) ELSE Made[x]
    <3>1. CASE x = id
      BY <1>1, <1>7, <1>8, <1>9, <3>1
    <3>2. CASE x # id
      BY <1>1, <1>2, <1>10, <3>2 DEF EmptiedOK
    <3> QED
      BY <3>1, <3>2
  <2> QED
    BY <1>1, <1>3, <1>5, <1>6, <2>1 DEF EmptiedOK
<1> QED
  BY <1>4, <1>11

LEMMA ConstructedKeeps ==
  ASSUME PhaseOK, EntriesOK, MadeOK, EmptiedOK, Constructed
  PROVE  EntriesOK' /\ FillOK' /\ MadeOK' /\ EmptiedOK'
<1>1. /\ phase = "never" /\ phase' = "constructed" /\ visited = Enums(emits)
      /\ UNCHANGED <<schema, resolved, emits>>
  BY DEF Constructed
<1>2. ~ Constructing /\ ~ Constructing'
  BY <1>1 DEF Constructing
<1>3. EntriesOK' /\ FillOK' /\ MadeOK'
  BY <1>1, <1>2, EntriesStay, MadeKeeps DEF FillOK
<1>4. Made' = Made
  BY <1>1, <1>2, <1>3, MadeStays
<1>5. NeverTypes' = NeverTypes
  BY <1>4 DEF NeverTypes
<1>6. NeverTypes \subseteq visited
  BY <1>1, <1>2, EmptiedPartly, EmptiedSameEnums, NeverClosed DEF NeverTypes
<1>7. EmptiedOK'
  BY <1>1, <1>2, <1>4, <1>5, <1>6 DEF EmptiedOK
<1> QED
  BY <1>3, <1>7

codegenVars == <<resolverVars, arrangeVars>>

LEMMA ResolveFrame ==
  ASSUME NEW k \in DOMAIN schema, Resolve(k)
  PROVE  /\ phase = "resolve" /\ phase' \in {"resolve", "failed"}
         /\ UNCHANGED <<schema, visited, emits>>
<1>1. ASSUME NEW n, NEW e, Bind(k, n, e) PROVE phase' \in {phase, "failed"} /\ UNCHANGED <<schema, visited, emits>>
  BY <1>1 DEF Bind, Fail
<1>2. Fail => phase' \in {phase, "failed"} /\ UNCHANGED <<schema, visited, emits>>
  BY DEF Fail
<1>3. ASSUME ResolveContainer(k) PROVE phase' \in {phase, "failed"} /\ UNCHANGED <<schema, visited, emits>>
  BY <1>1, <1>2, <1>3 DEF ResolveContainer
<1>4. ASSUME ResolveLib(k) \/ ResolveTransparent(k) \/ ResolveGeneric(k) \/ ResolveMismatch(k) \/ ResolveMarked(k)
      PROVE  phase' \in {phase, "failed"} /\ UNCHANGED <<schema, visited, emits>>
  BY <1>1, <1>2, <1>4 DEF ResolveLib, ResolveTransparent, ResolveGeneric, ResolveMismatch, ResolveMarked
<1>5. ASSUME ResolveCompound(k) \/ ResolveArray(k) \/ ResolveAddress(k) \/ ResolveOwn(k) \/ ResolveRequest(k)
      PROVE  phase' \in {phase, "failed"} /\ UNCHANGED <<schema, visited, emits>>
  BY <1>1, <1>2, <1>5 DEF ResolveCompound, ResolveArray, ResolveAddress, ResolveOwn, ResolveRequest
<1>6. ASSUME ResolvePlain(k) \/ ResolveResult(k) \/ ResolveNull(k) \/ ResolveNothing(k)
      PROVE  phase' \in {phase, "failed"} /\ UNCHANGED <<schema, visited, emits>>
  BY <1>1, <1>2, <1>6 DEF ResolvePlain, ResolveResult, ResolveNull, ResolveNothing
<1> QED
  BY <1>3, <1>4, <1>5, <1>6 DEF Resolve

LEMMA FailedKeeps ==
  ASSUME PhaseOK, EntriesOK, Fail
  PROVE  ResolverInv'
<1>1. EntriesOK'
  BY EntriesStay DEF Fail
<1>2. PhaseOK'
  BY DEF PhaseOK, Fail
<1> QED
  BY <1>1, <1>2 DEF ResolverInv, Fail, FillOK, MadeOK, EmptiedOK, Constructing

LEMMA ResolvingKeeps ==
  ASSUME ResolverInv, ResolverStep, UNCHANGED arrangeVars
  PROVE  ResolverInv'
<1>0. PhaseOK /\ EntriesOK /\ FillOK /\ MadeOK /\ EmptiedOK
  BY DEF ResolverInv
<1>1. CASE Fail
  BY <1>0, <1>1, FailedKeeps
<1>2. ASSUME NEW k \in DOMAIN schema, Resolve(k) PROVE ResolverInv'
  <2>1. EntriesOK'
    BY <1>0, <1>2, ResolveKeeps DEF PhaseOK
  <2>2. phase = "resolve" /\ phase' \in {"resolve", "failed"} /\ UNCHANGED <<schema, visited, emits>>
    BY <1>2, ResolveFrame
  <2>3. PhaseOK'
    BY <1>0, <2>2 DEF PhaseOK, arrangeVars
  <2> QED
    BY <2>1, <2>2, <2>3 DEF ResolverInv, FillOK, MadeOK, EmptiedOK, Constructing
<1>3. CASE ResolvedAll
  <2>1. EntriesOK'
    BY <1>0, <1>3, EntriesStay DEF ResolvedAll
  <2>2. PhaseOK'
    BY <1>0, <1>3 DEF PhaseOK, arrangeVars, ResolvedAll
  <2>3. FillOK'
    <3>1. visited' = {} /\ emits' = <<>>
      BY <1>0, <1>3 DEF PhaseOK, ResolvedAll
    <3> QED
      BY <3>1 DEF FillOK
  <2> QED
    BY <1>3, <2>1, <2>2, <2>3 DEF ResolverInv, ResolvedAll, MadeOK, EmptiedOK, Constructing
<1>4. ASSUME NEW k \in DOMAIN resolved, Fill(k), ~ Fail PROVE ResolverInv'
  <2>1. EntriesOK' /\ FillOK'
    BY <1>0, <1>4, FillKeeps
  <2>2. phase = "fill" /\ UNCHANGED <<schema, phase>>
    BY <1>4 DEF Fill
  <2>3. PhaseOK'
    BY <1>0, <2>2 DEF PhaseOK, arrangeVars
  <2> QED
    BY <2>1, <2>2, <2>3 DEF ResolverInv, MadeOK, EmptiedOK, Constructing
<1>5. CASE FilledAll
  <2>1. PhaseOK'
    BY <1>0, <1>5 DEF PhaseOK, arrangeVars, FilledAll
  <2> QED
    BY <1>0, <1>5, <2>1, FilledAllKeeps DEF ResolverInv
<1>6. ASSUME NEW id \in DOMAIN emits, ProcessNever(id), ~ Fail PROVE ResolverInv'
  <2>1. PhaseOK'
    BY <1>0, <1>6 DEF PhaseOK, arrangeVars, ProcessNever
  <2> QED
    BY <1>0, <1>6, <2>1, ProcessNeverKeeps DEF ResolverInv
<1>7. CASE Constructed
  <2>1. PhaseOK'
    BY <1>0, <1>7 DEF PhaseOK, arrangeVars, Constructed
  <2> QED
    BY <1>0, <1>7, <2>1, ConstructedKeeps DEF ResolverInv
<1> QED
  BY <1>1, <1>2, <1>3, <1>4, <1>5, <1>6, <1>7 DEF ResolverStep

\* What StartArrange gives the search is a state it may start from.
LEMMA SearchStarts ==
  ASSUME PhaseOK, StartArrange, ~ Fail
  PROVE  Init'
<1>1. /\ phase = "constructed" /\ graph' = GraphOf(emits) /\ roots' = DOMAIN emits
      /\ DOMAIN emits \subseteq Ids /\ \A id \in DOMAIN emits : GraphOf(emits)[id] \subseteq Ids
      /\ UNCHANGED <<stack, temporary, permanent, sorted, outcome>>
  BY DEF StartArrange
<1>2. GraphOf(emits) = [id \in DOMAIN emits |-> GraphOf(emits)[id]]
  BY DEF GraphOf
<1>3. PICK g : g = GraphOf(emits)
  OBVIOUS
<1>4. DOMAIN g = DOMAIN emits
  BY <1>3 DEF GraphOf
<1>5. g \in [DOMAIN emits -> SUBSET Ids]
  BY <1>1, <1>2, <1>3, <1>4
<1>6. g \in Graphs
  BY <1>1, <1>5 DEF Graphs
<1>7. StartOn(g)'
  BY <1>1, <1>3, <1>4 DEF StartOn, PhaseOK
<1> QED
  BY <1>6, <1>7 DEF Init

LEMMA LaterInv ==
  ASSUME ResolverInv, ~ Constructing, ~ Constructing', UNCHANGED <<schema, resolved, emits>>,
         \/ UNCHANGED <<phase, visited>>
         \/ phase # "never" /\ phase' # "never",
         PhaseOK'
  PROVE  ResolverInv'
  BY LaterKeeps DEF ResolverInv

CodegenInv == IInv /\ ResolverInv

LEMMA CodegenInitInv == CodegenInit => CodegenInv
<1> SUFFICES ASSUME CodegenInit PROVE CodegenInv
  OBVIOUS
<1>1. StartOn(<<>>) /\ ResolverInit
  BY DEF CodegenInit
<1>2. Init
  <2>1. <<>> \in [{} -> SUBSET Ids]
    OBVIOUS
  <2>2. <<>> \in Graphs
    BY <2>1 DEF Graphs
  <2> QED
    BY <1>1, <2>2 DEF Init
<1>3. IInv
  BY <1>2, SearchInit
<1>4. DOMAIN resolved = {}
  BY <1>1 DEF ResolverInit
<1>5. EntriesOK
  BY <1>4 DEF EntriesOK
<1>6. PhaseOK
  BY <1>1 DEF PhaseOK, ResolverInit, StartOn
<1> QED
  BY <1>1, <1>3, <1>5, <1>6 DEF CodegenInv, ResolverInv, ResolverInit, FillOK, MadeOK, EmptiedOK, Constructing

LEMMA CodegenStepInv == CodegenInv /\ [CodegenNext]_codegenVars => CodegenInv'
<1> SUFFICES ASSUME CodegenInv, [CodegenNext]_codegenVars PROVE CodegenInv'
  OBVIOUS
<1>0. IInv /\ ResolverInv /\ PhaseOK /\ EntriesOK
  BY DEF CodegenInv, ResolverInv
<1>1. ASSUME UNCHANGED arrangeVars PROVE IInv'
  BY <1>0, <1>1, SearchStep
<1>2. CASE Resolving
  BY <1>0, <1>1, <1>2, ResolvingKeeps DEF Resolving, CodegenInv
<1>3. CASE StartArrange
  <2>1. CASE Fail
    <3>1. UNCHANGED arrangeVars
      BY <1>3, <2>1 DEF StartArrange, Fail
    <3> QED
      BY <1>0, <1>1, <2>1, <3>1, FailedKeeps DEF CodegenInv
  <2>2. CASE ~ Fail
    <3>1. IInv'
      <4>1. Init'
        BY <1>0, <1>3, <2>2, SearchStarts
      <4> QED
        BY <4>1, SearchInit, PTL
    <3>2. /\ phase = "constructed" /\ phase' = "arrange" /\ graph' = GraphOf(emits)
          /\ UNCHANGED <<schema, resolved, visited, emits>>
          /\ \A id \in DOMAIN emits : \A ref \in LocalRefs(emits[id]) : ref.id \in BreakPoints => ref.lazy
      BY <1>3, <2>2 DEF StartArrange
    <3>3. PhaseOK'
      BY <1>0, <3>2 DEF PhaseOK
    <3>4. ResolverInv'
      BY <1>0, <3>2, <3>3, LaterInv DEF Constructing
    <3> QED
      BY <3>1, <3>4 DEF CodegenInv
  <2> QED
    BY <2>1, <2>2
<1>4. CASE Arranging
  <2>1. phase = "arrange" /\ ArrangeStep /\ UNCHANGED resolverVars
    BY <1>4 DEF Arranging
  <2>2. IInv'
    BY <1>0, <2>1, SearchStep DEF Next
  <2>3. graph' = graph
    BY <2>1 DEF ArrangeStep, VisitRoot, VisitNeighbour, Leave, ReturnSorted
  <2>4. PhaseOK'
    BY <1>0, <2>1, <2>3 DEF PhaseOK, resolverVars
  <2>5. ResolverInv'
    BY <1>0, <2>1, <2>4, LaterInv DEF Constructing, resolverVars
  <2> QED
    BY <2>2, <2>5 DEF CodegenInv
<1>5. CASE Render
  <2>1. phase = "arrange" /\ UNCHANGED arrangeVars
    BY <1>5 DEF Render
  <2>2. CASE Fail
    BY <1>0, <1>1, <2>1, <2>2, FailedKeeps DEF CodegenInv
  <2>3. CASE ~ Fail
    <3>1. /\ phase' = "rendered" /\ UNCHANGED <<schema, resolved, visited, emits>>
          /\ \A id \in DOMAIN emits : \A i \in DOMAIN emits[id].parts : Renderable(emits[id].parts[i].type)
      BY <1>5, <2>3 DEF Render
    <3>2. PhaseOK'
      BY <1>0, <2>1, <3>1 DEF PhaseOK, arrangeVars
    <3>3. ResolverInv'
      BY <1>0, <2>1, <3>1, <3>2, LaterInv DEF Constructing
    <3> QED
      BY <1>1, <2>1, <3>3 DEF CodegenInv
  <2> QED
    BY <2>2, <2>3
<1>6. CASE UNCHANGED codegenVars
  <2>1. UNCHANGED arrangeVars /\ UNCHANGED <<schema, phase, resolved, visited, emits>>
    BY <1>6 DEF codegenVars, resolverVars
  <2>2. PhaseOK'
    BY <1>0, <2>1 DEF PhaseOK, arrangeVars
  <2>3. CASE Constructing
    <3>1. EntriesOK'
      BY <1>0, <2>1, EntriesStay
    <3>2. FillOK'
      <4>1. Closures' = Closures
        BY <2>1 DEF Closures
      <4>2. \A k \in Closures : /\ Ran(resolved[k]) => Ran(resolved[k])'
                                /\ Definition(resolved[k].form, resolved[k].key)'
                                   = Definition(resolved[k].form, resolved[k].key)
        BY <2>1, ClosuresSame
      <4> QED
        BY <1>0, <2>1, <4>1, <4>2 DEF ResolverInv, FillOK
    <3>3. ResolverInv'
      BY <2>1, <2>2, <2>3, <3>1, <3>2 DEF ResolverInv, MadeOK, EmptiedOK, Constructing
    <3> QED
      BY <1>1, <2>1, <3>3 DEF CodegenInv
  <2>4. CASE ~ Constructing
    <3>1. ~ Constructing'
      BY <2>1, <2>4 DEF Constructing
    <3> QED
      BY <1>0, <1>1, <2>1, <2>2, <2>4, <3>1, LaterInv DEF CodegenInv
  <2> QED
    BY <2>3, <2>4
<1> QED
  BY <1>2, <1>3, <1>4, <1>5, <1>6 DEF CodegenNext, Ended, codegenVars
LEMMA SetInduction ==
  ASSUME NEW S, 0 \in S, \A n \in Nat : n \in S => n + 1 \in S
  PROVE  \A n \in Nat : n \in S
<1> DEFINE T == {n \in Nat : n \notin S}
<1>1. SUFFICES ASSUME T # {} PROVE FALSE
  OBVIOUS
<1>2. PICK m \in T : \A k \in T : ~ (<<k, m>> \in OpToRel(<, Nat))
  <2> HIDE DEF T
  <2>1. T \subseteq Nat
    BY DEF T
  <2>2. QED
    BY <1>1, <2>1, NatLessThanWellFounded, WFMin, Zenon
<1>3. m # 0 /\ m - 1 \in Nat /\ m - 1 \in S
  <2>1. m # 0 /\ m - 1 \in Nat /\ m - 1 < m
    OBVIOUS
  <2>2. <<m - 1, m>> \in OpToRel(<, Nat)
    BY <2>1, Zenon DEF OpToRel
  <2>3. QED
    BY <2>1, <2>2, <1>2
<1>4. QED
  BY <1>3

Inward(refs, kinds) == UNION {Range(outer.params) : outer \in {r \in refs : r.t \in kinds}}

LEMMA LevelUnfolds ==
  ASSUME NEW ref, NEW kinds
  PROVE  /\ Level(ref, kinds)[0] = {ref}
         /\ \A n \in Nat : Level(ref, kinds)[n + 1] = Inward(Level(ref, kinds)[n], kinds)
<1> DEFINE Rule(f, i) == IF i = 0 THEN {ref} ELSE Inward(f[i - 1], kinds)
           Upto(g, n) == g = [i \in 0 .. n |-> Rule(g, i)]
           S == {n \in Nat : \E g : Upto(g, n)}
           Same == {i \in Nat : \A n, m \in Nat : \A g, h :
                      Upto(g, n) /\ Upto(h, m) /\ i <= n /\ i <= m => g[i] = h[i]}
           F == [n \in Nat |-> (CHOOSE g : Upto(g, n))[n]]
<1>1. \A n \in Nat : \E g : Upto(g, n)
  <2>1. Upto([i \in 0 .. 0 |-> {ref}], 0)
    OBVIOUS
  <2>2. ASSUME NEW n \in Nat, NEW g, Upto(g, n) PROVE \E h : Upto(h, n + 1)
    <3> DEFINE h == [i \in 0 .. n + 1 |-> IF i = n + 1 THEN Inward(g[n], kinds) ELSE g[i]]
    <3>1. \A i \in 0 .. n + 1 : h[i] = Rule(h, i)
      <4> TAKE i \in 0 .. n + 1
      <4>1. CASE i = n + 1
        BY <4>1, n + 1 # 0
      <4>2. CASE i # n + 1
        <5>1. i \in 0 .. n /\ (i # 0 => i - 1 \in 0 .. n /\ i - 1 # n + 1 /\ i - 1 \in 0 .. n + 1)
          BY <4>2
        <5>2. g[i] = Rule(g, i)
          BY <5>1, <2>2
        <5>3. i # 0 => h[i - 1] = g[i - 1]
          BY <5>1
        <5>4. h[i] = g[i]
          BY <4>2
        <5> QED
          BY <5>2, <5>3, <5>4
      <4> QED
        BY <4>1, <4>2
    <3>2. h = [i \in 0 .. n + 1 |-> Rule(h, i)]
      BY <3>1
    <3> QED
      BY <3>2
  <2>3. 0 \in S /\ \A n \in Nat : n \in S => n + 1 \in S
    <3> HIDE DEF Upto
    <3> QED
      BY <2>1, <2>2
  <2> HIDE DEF S
  <2>4. \A n \in Nat : n \in S
    BY <2>3, SetInduction
  <2> QED
    BY <2>4 DEF S
<1>2. \A i \in Nat : i \in Same
  <2>1. 0 \in Same
    <3>1. \A n \in Nat : \A g : Upto(g, n) => g[0] = {ref}
      OBVIOUS
    <3> HIDE DEF Upto
    <3> QED
      BY <3>1
  <2>2. ASSUME NEW i \in Nat, i \in Same PROVE i + 1 \in Same
    <3> SUFFICES ASSUME NEW n \in Nat, NEW m \in Nat, NEW g, NEW h, Upto(g, n), Upto(h, m), i + 1 <= n, i + 1 <= m
                 PROVE  g[i + 1] = h[i + 1]
      <4> HIDE DEF Upto
      <4> QED
        OBVIOUS
    <3>1. g[i] = h[i]
      <4> HIDE DEF Upto
      <4> QED
        BY <2>2
    <3>2. i + 1 \in 0 .. n /\ i + 1 \in 0 .. m /\ i + 1 # 0 /\ (i + 1) - 1 = i
      OBVIOUS
    <3>3. g[i + 1] = Inward(g[i], kinds) /\ h[i + 1] = Inward(h[i], kinds)
      BY <3>2
    <3> QED
      BY <3>1, <3>3
  <2> HIDE DEF Same
  <2> QED
    BY <2>1, <2>2, SetInduction
<1>3. \A n \in Nat : Upto(CHOOSE g : Upto(g, n), n)
  BY <1>1
<1>4. F = [n \in Nat |-> Rule(F, n)]
  <2>1. ASSUME NEW n \in Nat PROVE F[n] = Rule(F, n)
    <3> DEFINE g == CHOOSE g : Upto(g, n)
    <3>1. Upto(g, n) /\ F[n] = g[n]
      BY <1>3
    <3> HIDE DEF g
    <3>2. g[n] = Rule(g, n)
      <4>1. n \in 0 .. n
        OBVIOUS
      <4>2. g = [i \in 0 .. n |-> Rule(g, i)]
        BY <3>1
      <4> QED
        BY <4>1, <4>2
    <3>3. CASE n = 0
      BY <3>1, <3>2, <3>3
    <3>4. CASE n # 0
      <4> DEFINE h == CHOOSE h : Upto(h, n - 1)
      <4>1. n - 1 \in Nat
        BY <3>4
      <4>2. Upto(h, n - 1) /\ F[n - 1] = h[n - 1]
        BY <4>1, <1>3
      <4> HIDE DEF h, F
      <4>3. g[n - 1] = h[n - 1]
        <5>1. n - 1 \in Same /\ n - 1 <= n /\ n - 1 <= n - 1
          BY <4>1, <1>2
        <5> HIDE DEF Upto
        <5> QED
          BY <4>1, <4>2, <3>1, <5>1
      <4> QED
        BY <3>1, <3>2, <3>4, <4>2, <4>3
    <3> QED
      BY <3>3, <3>4
  <2>2. F = [n \in Nat |-> F[n]]
    OBVIOUS
  <2> HIDE DEF F
  <2> QED
    BY <2>1, <2>2
<1>5. Level(ref, kinds) = [n \in Nat |-> Rule(Level(ref, kinds), n)]
  <2> HIDE DEF F
  <2> QED
    BY <1>4 DEF Level, Inward
<1> QED
  <2> DEFINE L == Level(ref, kinds)
  <2>1. L = [n \in Nat |-> Rule(L, n)]
    BY <1>5
  <2> HIDE DEF L
  <2>2. L[0] = {ref} /\ \A n \in Nat : L[n + 1] = Inward(L[n], kinds)
    BY <2>1
  <2> QED
    BY <2>2 DEF L

LEMMA LevelInside ==
  ASSUME NEW S, NEW ref \in S, \A r \in S : Range(r.params) \subseteq S, NEW kinds, NEW n \in Nat
  PROVE  Level(ref, kinds)[n] \subseteq S
<1> DEFINE N == {m \in Nat : Level(ref, kinds)[m] \subseteq S}
<1>1. 0 \in N
  BY LevelUnfolds
<1>2. ASSUME NEW m \in Nat, m \in N PROVE m + 1 \in N
  <2>1. Level(ref, kinds)[m + 1] = Inward(Level(ref, kinds)[m], kinds)
    BY LevelUnfolds
  <2>2. Inward(Level(ref, kinds)[m], kinds) \subseteq S
    BY <1>2 DEF Inward
  <2> QED
    BY <2>1, <2>2
<1> HIDE DEF N
<1>3. n \in N
  BY <1>1, <1>2, SetInduction
<1> QED
  BY <1>3 DEF N

LEMMA WithinInside ==
  ASSUME NEW S, NEW ref \in S, \A r \in S : Range(r.params) \subseteq S, NEW kinds
  PROVE  ref \in Within(ref, kinds) /\ Within(ref, kinds) \subseteq S
<1>1. ref \in Within(ref, kinds)
  <2>1. 0 \in 0 .. MaxNesting /\ ref \in Level(ref, kinds)[0]
    BY LevelUnfolds, NestingAssumption
  <2> QED
    BY <2>1 DEF Within
<1>2. \A n \in 0 .. MaxNesting : Level(ref, kinds)[n] \subseteq S
  BY LevelInside
<1> QED
  BY <1>1, <1>2 DEF Within

\* What renderRef reads of a type that it does not refuse is among what
\* visitRefs finds: they differ in arrays and results, and in what is inside
\* of the element type of a set.
LEMMA VisitedCovers ==
  ASSUME NEW S, NEW ref \in S, \A r \in S : Sound(r) /\ Range(r.params) \subseteq S, Renderable(ref)
  PROVE  AllRefs(ref) \subseteq VisitRefs(ref)
<1> DEFINE open == {"lib", "local"}
           AtAll(n) == Level(ref, Kinds)[n]
           AtOpen(n) == Level(ref, open)[n]
           Leaf(n, r) == n > 0 /\ \E s \in AtOpen(n - 1) : s.t = "set" /\ r = s.params[1] /\ r.params = <<>>
           N == {n \in Nat : n <= MaxNesting => \A r \in AtAll(n) : r \in AtOpen(n) \/ Leaf(n, r)}
<1>1. 0 \in N
  BY LevelUnfolds
<1>2. ASSUME NEW n \in Nat, n \in N PROVE n + 1 \in N
  <2> SUFFICES ASSUME n + 1 <= MaxNesting, NEW r \in AtAll(n + 1)
               PROVE  r \in AtOpen(n + 1) \/ Leaf(n + 1, r)
    OBVIOUS
  <2>1. n <= MaxNesting /\ n \in 0 .. MaxNesting
    BY NestingAssumption
  <2>2. PICK outer \in AtAll(n) : r \in Range(outer.params)
    BY LevelUnfolds DEF Inward
  <2>3. outer \in S /\ outer \in AllRefs(ref)
    BY <2>1, LevelInside DEF AllRefs, Within
  <2>4. outer.params # <<>>
    BY <2>2 DEF Range
  <2>5. outer.t \in {"lib", "local", "set"}
    BY <2>3, <2>4 DEF Sound, Renderable
  <2>6. outer \in AtOpen(n)
    BY <1>2, <2>1, <2>4
  <2>7. CASE outer.t \in open
    BY <2>2, <2>6, <2>7, LevelUnfolds DEF Inward
  <2>8. CASE outer.t = "set"
    <3>1. PICK e : outer.params = <<e>> /\ e.params = <<>>
      BY <2>3, <2>8 DEF Sound
    <3>2. r = outer.params[1] /\ r.params = <<>>
      BY <2>2, <3>1 DEF Range
    <3>3. n + 1 > 0 /\ (n + 1) - 1 = n
      OBVIOUS
    <3> QED
      BY <2>6, <2>8, <3>2, <3>3
  <2> QED
    BY <2>5, <2>7, <2>8
<1> HIDE DEF N
<1>3. \A n \in Nat : n \in N
  BY <1>1, <1>2, SetInduction
<1> USE DEF N
<1>4. ASSUME NEW r \in AllRefs(ref) PROVE r \in VisitRefs(ref)
  <2>1. PICK n \in 0 .. MaxNesting : r \in AtAll(n)
    BY DEF AllRefs, Within
  <2>2. n \in Nat /\ n <= MaxNesting
    BY NestingAssumption
  <2>3. CASE r \in AtOpen(n)
    BY <2>3 DEF VisitRefs, Within
  <2>4. CASE Leaf(n, r)
    <3>1. n - 1 \in 0 .. MaxNesting
      <4>1. n > 0
        BY <2>4
      <4> QED
        BY <2>2, <4>1, NestingAssumption
    <3>2. PICK s \in AtOpen(n - 1) : s.t = "set" /\ r = s.params[1]
      BY <2>4
    <3>3. s \in Within(ref, open)
      BY <3>1 DEF Within
    <3> QED
      BY <3>2, <3>3 DEF VisitRefs
  <2> QED
    BY <1>3, <2>1, <2>2, <2>3, <2>4
<1> QED
  BY <1>4

-----------------------------------------------------------------------------
(* What the definitions refer to                                             *)

\* All that is inside a reference is sound, no parameter of a generic, and if
\* a local type, resolved.
Grounded(type) ==
  \E S : /\ type \in S
         /\ \A r \in S : /\ Sound(r) /\ r.t # "param"
                         /\ Range(r.params) \subseteq S
                         /\ r.t = "local" => r \in References

LEMMA ReferenceSound ==
  ASSUME EntriesOK, NEW r \in References
  PROVE  Sound(r) /\ r.t \notin {"param", "set"} /\ Range(r.params) \subseteq References
<1>1. PICK k \in DOMAIN resolved : r = resolved[k].ref
  BY DEF References
<1>2. EntryOK(resolved[k])
  BY DEF EntriesOK
<1> QED
  BY <1>1, <1>2 DEF EntryOK

LEMMA GroundedReference ==
  ASSUME EntriesOK, NEW r \in References
  PROVE  Grounded(r)
<1>1. \A x \in References : /\ Sound(x) /\ x.t # "param"
                            /\ Range(x.params) \subseteq References
                            /\ x.t = "local" => x \in References
  BY ReferenceSound
<1> QED
  BY <1>1 DEF Grounded

LEMMA GroundedParts ==
  ASSUME NEW a, NEW b, NEW type, NEW type2, Grounded(type), Grounded(type2)
  PROVE  /\ \A i \in DOMAIN <<Part(a, type)>> : Grounded(<<Part(a, type)>>[i].type)
         /\ \A i \in DOMAIN <<Part(a, type), Part(b, type2)>> :
              Grounded(<<Part(a, type), Part(b, type2)>>[i].type)
<1>1. Part(a, type).type = type /\ Part(b, type2).type = type2
  BY DEF Part
<1>2. ASSUME NEW p, NEW q, p.type = type, q.type = type2
      PROVE  /\ \A i \in DOMAIN <<p>> : <<p>>[i].type = type
             /\ \A i \in DOMAIN <<p, q>> : <<p, q>>[i].type = type \/ <<p, q>>[i].type = type2
  BY <1>2
<1> QED
  BY <1>1, <1>2

LEMMA GroundedLeaf ==
  ASSUME NEW r, r.params = <<>>, r.t \in {"lib", "null", "unexpected"}
  PROVE  Grounded(r)
<1>1. Range(<<>>) = {}
  BY DEF Range
<1>2. /\ r \in {r}
      /\ \A x \in {r} : /\ Sound(x) /\ x.t # "param"
                        /\ Range(x.params) \subseteq {r}
                        /\ x.t = "local" => x \in References
  BY <1>1 DEF Sound
<1> QED
  BY <1>2 DEF Grounded

LEMMA GroundedPlain ==
  /\ \A id : Grounded(Lib(id))
  /\ Grounded(NoValue) /\ Grounded(Unexpected)
  BY GroundedLeaf DEF Lib, NoValue, Unexpected, Ref

LEMMA GroundedAround ==
  ASSUME NEW type, Grounded(type), NEW r, r.params = <<type>>,
         r.t = "lib" \/ (r.t = "set" /\ type.params = <<>>)
  PROVE  Grounded(r)
<1>1. PICK S : /\ type \in S
               /\ \A x \in S : /\ Sound(x) /\ x.t # "param"
                               /\ Range(x.params) \subseteq S
                               /\ x.t = "local" => x \in References
  BY DEF Grounded
<1> DEFINE T == S \cup {r}
<1>2. Sound(r) /\ Range(r.params) = {type}
  BY OnePart DEF Sound
<1>3. /\ r \in T
      /\ \A x \in T : /\ Sound(x) /\ x.t # "param"
                      /\ Range(x.params) \subseteq T
                      /\ x.t = "local" => x \in References
  BY <1>1, <1>2
<1> HIDE DEF T
<1> QED
  BY <1>3 DEF Grounded

LEMMA GroundedLibOf ==
  ASSUME NEW id, NEW type, Grounded(type)
  PROVE  Grounded(LibOf(id, <<type>>))
  BY GroundedAround DEF LibOf, Ref

LEMMA TimeGrounded ==
  ASSUME NEW name, NEW ref
  PROVE  Grounded(TimeType(name, ref))
<1>1. \A id, time : Grounded(LibOf(id, <<Lib(time)>>))
  BY GroundedPlain, GroundedLibOf
<1>2. \A id, id2, time : Grounded(LibOf(id, <<LibOf(id2, <<Lib(time)>>)>>))
  BY <1>1, GroundedLibOf
<1> QED
  BY <1>1, <1>2, GroundedPlain DEF TimeType

LEMMA ProducedResolved ==
  ASSUME EntriesOK, DOMAIN Produced \subseteq DOMAIN resolved
  PROVE  \A k \in DOMAIN Produced : Local(k) \in References
<1>1. \A k \in DOMAIN Produced : Produced[k].ref = Local(k)
  BY DEF Produced, Entry
<1> QED
  BY <1>1 DEF EntriesOK, References

LEMMA FieldGrounded ==
  ASSUME EntriesOK, NEW field, field.type \in DOMAIN resolved,
         IsErrors(field) => DOMAIN Produced \subseteq DOMAIN resolved
  PROVE  Grounded(MapField(field).type)
<1>1. Grounded(To(field.type))
  BY GroundedReference DEF To, References
<1>2. IsErrors(field) => Grounded(ErrorsType(To(field.type)))
  <2>1. "TransactionErrors" \in DOMAIN Produced
    BY DEF Produced
  <2> QED
    BY <2>1, GroundedReference, GroundedPlain, ProducedResolved DEF ErrorsType
<1> QED
  BY <1>1, <1>2, TimeGrounded DEF MapField, Part

\* The number of parameters that a definition of a closure is generic in.
Arity(e) == IF e.form = "generic" THEN Generic[Name(e.key)] ELSE 0

\* Every part is one of these parameters, and each of them is a part, or
\* everything in it is resolved.
PartsOK(d, n) ==
  /\ \A i \in DOMAIN d.parts : Grounded(d.parts[i].type) \/ \E m \in 0 .. n - 1 : d.parts[i].type = Param(m)
  /\ \A m \in 0 .. n - 1 : \E i \in DOMAIN d.parts : d.parts[i].type = Param(m)
  /\ n > 0 => d.t = "struct"

LEMMA PartsGrounded ==
  ASSUME schema \in Schemas, EntriesOK, NEW e, EntryOK(e), Ran(e)
  PROVE  PartsOK(Definition(e.form, e.key), Arity(e))
<1> DEFINE k == e.key
           d == Definition(e.form, e.key)
           parts == schema[k].parts
<1>1. \A type \in DOMAIN resolved : Grounded(To(type)) /\ To(type) \in References
  BY GroundedReference DEF To, References
<1>2. \A i \in DOMAIN parts : parts[i].type = Type(k, i)
  BY DEF Type
<1>3. CASE e.form = "shape" /\ Shape(k) = "Struct"
  <2>1. d.parts = [i \in DOMAIN parts |-> MapField(parts[i])]
    BY <1>3 DEF Definition, Emit
  <2>2. ASSUME NEW i \in DOMAIN parts PROVE Grounded(MapField(parts[i]).type)
    <3>1. parts[i].type \in DOMAIN resolved
      BY <1>2, <1>3 DEF Ran, Deferred
    <3>2. IsErrors(parts[i]) => DOMAIN Produced \subseteq DOMAIN resolved
      BY <1>3 DEF Ran, HasErrors
    <3> QED
      BY <3>1, <3>2, FieldGrounded
  <2>3. \A i \in DOMAIN d.parts : Grounded(d.parts[i].type)
    BY <2>1, <2>2
  <2> QED
    BY <1>3, <2>3 DEF Arity, PartsOK
<1>4. CASE e.form = "shape" /\ Shape(k) = "Enum"
  <2>1. d.parts = [i \in DOMAIN parts |-> MapVariant(parts[i])]
    BY <1>4 DEF Definition, Emit
  <2>2. ASSUME NEW i \in DOMAIN parts PROVE Grounded(MapVariant(parts[i]).type)
    <3>1. parts[i].type # Unit => parts[i].type \in DOMAIN resolved
      BY <1>2, <1>4 DEF Ran, Deferred
    <3> QED
      BY <1>1, <3>1, GroundedPlain DEF MapVariant, Part
  <2>3. \A i \in DOMAIN d.parts : Grounded(d.parts[i].type)
    BY <2>1, <2>2
  <2> QED
    BY <1>4, <2>3 DEF Arity, PartsOK
<1>5. CASE e.form = "generic"
  <2> DEFINE n == Generic[Name(k)]
  <2>1. n \in Nat /\ n >= 1 /\ 1 .. n \subseteq DOMAIN parts /\ Arity(e) = n
        /\ (Name(k) = "Mismatch" => n = 1)
    BY <1>5, GenericNumbers DEF EntryOK, Arity
  <2>2. d.t = "struct"
    BY <1>5 DEF Definition, Emit
  <2>3. DOMAIN d.parts = DOMAIN parts
        /\ \A i \in DOMAIN parts :
             d.parts[i].type = IF Name(k) = "Mismatch" THEN Param(0)
                               ELSE IF i <= n THEN Param(i - 1)
                               ELSE To(parts[i].type)
    BY <1>5 DEF Definition, Emit, Part
  <2> HIDE DEF d
  <2>4. ASSUME NEW i \in DOMAIN parts
        PROVE  Grounded(d.parts[i].type) \/ \E m \in 0 .. n - 1 : d.parts[i].type = Param(m)
    <3>1. CASE Name(k) = "Mismatch"
      <4>1. 0 \in 0 .. n - 1 /\ d.parts[i].type = Param(0)
        BY <2>1, <2>3, <3>1
      <4> QED
        BY <4>1
    <3>2. CASE Name(k) # "Mismatch" /\ i <= n
      <4>1. i \in 1 .. n
        BY <1>5, <3>2, <2>1, PartsAssumption DEF EntryOK
      <4>2. i - 1 \in 0 .. n - 1 /\ d.parts[i].type = Param(i - 1)
        BY <2>1, <2>3, <3>2, <4>1
      <4> QED
        BY <4>2
    <3>3. CASE Name(k) # "Mismatch" /\ ~ (i <= n)
      <4>1. parts[i].type \in DOMAIN resolved
        BY <1>2, <1>5 DEF Ran, Deferred
      <4> QED
        BY <1>1, <2>3, <3>3, <4>1
    <3> QED
      BY <3>1, <3>2, <3>3
  <2>5. ASSUME NEW m \in 0 .. n - 1 PROVE \E i \in DOMAIN d.parts : d.parts[i].type = Param(m)
    <3>1. m + 1 \in DOMAIN parts /\ m + 1 <= n /\ (m + 1) - 1 = m
      BY <2>1
    <3>2. Name(k) = "Mismatch" => m = 0
      BY <2>1
    <3>3. d.parts[m + 1].type = Param(m)
      BY <2>3, <3>1, <3>2
    <3> QED
      BY <2>3, <3>1, <3>3
  <2>6. \A i \in DOMAIN d.parts :
          Grounded(d.parts[i].type) \/ \E m \in 0 .. n - 1 : d.parts[i].type = Param(m)
    BY <2>3, <2>4
  <2> HIDE DEF n
  <2> QED
    BY <2>1, <2>2, <2>5, <2>6 DEF d, PartsOK
<1>6. CASE e.form \in {"address", "alias", "batch", "request", "permissions", "errors", "errorWithIndex",
                       "uptime", "merkleTree", "named"}
  <2> SUFFICES \A i \in DOMAIN d.parts : Grounded(d.parts[i].type)
    BY <1>6 DEF Arity, PartsOK
  <2> HIDE DEF d
  <2>1. \A ref \in References : \A i \in DOMAIN AliasTo(ref).parts : Grounded(AliasTo(ref).parts[i].type)
    <3> SUFFICES ASSUME NEW ref \in References, NEW i \in DOMAIN AliasTo(ref).parts
                 PROVE  Grounded(AliasTo(ref).parts[i].type)
      OBVIOUS
    <3>1. CASE ref.t = "result"
      <4>1. ref.params[1] \in References /\ ref.params[2] \in References
        BY <3>1, ReferenceSound DEF Sound, Range
      <4>2. AliasTo(ref).parts = <<Part("Ok", ref.params[1]), Part("Err", ref.params[2])>>
        BY <3>1 DEF AliasTo, Emit
      <4> QED
        BY <4>1, <4>2, GroundedReference, GroundedParts
    <3>2. CASE ref.t # "result"
      <4>1. AliasTo(ref).parts = <<Part("", ref)>>
        BY <3>2 DEF AliasTo, Emit
      <4> QED
        BY <4>1, GroundedReference, GroundedParts
    <3> QED
      BY <3>1, <3>2
  <2>2. ASSUME NEW ref, ref.t # "result", Grounded(ref)
        PROVE  \A i \in DOMAIN AliasTo(ref).parts : Grounded(AliasTo(ref).parts[i].type)
    <3>1. AliasTo(ref).parts = <<Part("", ref)>>
      BY <2>2 DEF AliasTo, Emit
    <3> QED
      BY <2>2, <3>1, GroundedParts
  <2>3. ASSUME NEW ref, Grounded(ref), ref.params = <<>>
        PROVE  \A i \in DOMAIN SetWithCmp(ref).parts : Grounded(SetWithCmp(ref).parts[i].type)
    <3>1. SetWithCmp(ref).parts = <<Part("", Ref("set", "", <<ref>>))>>
      BY DEF SetWithCmp, Emit
    <3>2. Grounded(Ref("set", "", <<ref>>))
      BY <2>3, GroundedAround DEF Ref
    <3> QED
      BY <3>1, <3>2, GroundedParts
  <2>4. CASE e.form = "address"
    <3>1. To(parts[1].type).t = "array" /\ parts[1].type \in DOMAIN resolved
      BY <2>4 DEF EntryOK, Type
    <3>2. To(parts[1].type).params[1] \in References
      BY <1>1, <3>1, ReferenceSound DEF Sound, Range
    <3>3. d.parts = [i \in 1 .. To(parts[1].type).n |-> Part("", To(parts[1].type).params[1])]
      BY <2>4 DEF d, Definition, Emit
    <3> QED
      <4>1. Part("", To(parts[1].type).params[1]).type = To(parts[1].type).params[1]
        BY DEF Part
      <4> QED
        BY <3>2, <3>3, <4>1, GroundedReference
  <2>5. CASE e.form = "alias"
    <3>1. parts[1].type \in DOMAIN resolved
      BY <2>5 DEF Ran, Deferred, Type
    <3>2. d = AliasTo(To(parts[1].type))
      BY <2>5 DEF d, Definition
    <3> QED
      BY <1>1, <2>1, <3>1, <3>2
  <2>6. CASE e.form = "request"
    <3>1. parts[1].type \in DOMAIN resolved
      BY <2>6 DEF Ran, Deferred, Type
    <3>2. d.parts = <<Part(Request[k], To(parts[1].type))>>
      BY <2>6 DEF d, Definition, Emit
    <3> QED
      BY <1>1, <3>1, <3>2, GroundedParts
  <2>7. CASE e.form = "permissions"
    <3>1. "Permission" \in DOMAIN resolved /\ To("Permission").params = <<>>
      BY <2>7 DEF Ran, Deferred, EntriesOK
    <3>2. d = SetWithCmp(To("Permission"))
      BY <2>7 DEF d, Definition
    <3> QED
      BY <1>1, <2>3, <3>1, <3>2
  <2>8. CASE e.form \in {"errors", "errorWithIndex"}
    <3>1. "TransactionErrorWithIndex" \in DOMAIN Produced
      BY DEF Produced
    <3>2. Grounded(Local("TransactionErrorWithIndex")) /\ Local("TransactionErrorWithIndex").params = <<>>
          /\ Grounded(Rejection)
      BY <2>8, <3>1, ProducedResolved, GroundedReference DEF EntryOK, Local, Ref
    <3>3. CASE e.form = "errors"
      <4>1. d = SetWithCmp(Local("TransactionErrorWithIndex"))
        BY <3>3 DEF d, Definition
      <4> QED
        BY <2>3, <3>2, <4>1
    <3>4. CASE e.form = "errorWithIndex"
      <4>1. d.parts = <<Part("index", Lib("U64")), Part("error", Rejection)>>
        BY <3>4 DEF d, Definition, Emit
      <4> QED
        BY <3>2, <4>1, GroundedPlain, GroundedParts
    <3> QED
      BY <2>8, <3>3, <3>4
  <2>9. CASE e.form = "uptime"
    <3>1. d.parts = <<Part("secs", Lib("Compact")), Part("nanos", Lib("U32"))>>
      BY <2>9 DEF d, Definition, Emit
    <3> QED
      BY <3>1, GroundedPlain, GroundedParts
  <2>10. CASE e.form \in {"merkleTree", "named"}
    <3> DEFINE r == IF e.form = "named" THEN Lib("Name") ELSE LibOf("Vec", <<LibOf("Option", <<Lib("Hash")>>)>>)
    <3>1. Grounded(r)
      BY GroundedPlain, GroundedLibOf
    <3>2. r.t = "lib" /\ d = AliasTo(r)
      BY <2>10 DEF d, Definition, Lib, LibOf, Ref
    <3> HIDE DEF r
    <3> QED
      BY <2>2, <3>1, <3>2
  <2>11. CASE e.form = "batch"
    <3>1. parts[1].type \in DOMAIN resolved
      BY <2>11 DEF Ran, Deferred, Type
    <3>2. d.parts = <<Part("", To(parts[1].type))>>
      BY <2>11 DEF d, Definition, Emit
    <3> QED
      BY <1>1, <3>1, <3>2, GroundedParts
  <2> QED
    BY <1>6, <2>4, <2>5, <2>6, <2>7, <2>8, <2>9, <2>10, <2>11
<1>7. CASE /\ e.form \notin {"generic", "address", "alias", "batch", "request", "permissions", "errors",
                             "errorWithIndex", "uptime", "merkleTree", "named"}
           /\ ~ (e.form = "shape" /\ Shape(k) \in {"Struct", "Enum"})
  <2>1. d = Emit("bitmap", <<>>) \/ d = Emit("struct", <<Part("", Unexpected)>>)
    BY <1>7 DEF Definition
  <2>2. \A i \in DOMAIN d.parts : Grounded(d.parts[i].type)
    <3> HIDE DEF d
    <3>1. CASE d = Emit("bitmap", <<>>)
      <4>1. d.parts = <<>>
        BY <3>1 DEF Emit
      <4> QED
        BY <4>1
    <3>2. CASE d = Emit("struct", <<Part("", Unexpected)>>)
      <4>1. d.parts = <<Part("", Unexpected)>>
        BY <3>2 DEF Emit
      <4> QED
        BY <4>1, GroundedPlain, GroundedParts
    <3> QED
      BY <2>1, <3>1, <3>2
  <2> QED
    BY <1>7, <2>2 DEF Arity, PartsOK
<1> QED
  BY <1>3, <1>4, <1>5, <1>6, <1>7

-----------------------------------------------------------------------------
(* The theorems                                                              *)

\* An emitted definition is what its closures made, or a never type emptied.
LEMMA EmittedParts ==
  ASSUME ResolverInv, ~ Constructing, NEW id \in DOMAIN emits
  PROVE  \E k \in Closures :
           /\ resolved[k].ref.id = id
           /\ PartsOK(emits[id], Arity(resolved[k]))
<1>0. PhaseOK /\ EntriesOK /\ MadeOK /\ EmptiedOK
  BY DEF ResolverInv
<1>1. PICK k \in Closures : resolved[k].ref.id = id
  BY <1>0 DEF MadeOK
<1> DEFINE e == resolved[k]
<1>2. Made[id] = Definition(e.form, e.key)
  BY <1>0, <1>1, MadeFits DEF MadeAsDefined
<1>3. PartsOK(Definition(e.form, e.key), Arity(e))
  <2>1. schema \in Schemas /\ EntryOK(e) /\ Ran(e)
    BY <1>0 DEF PhaseOK, EntriesOK, MadeOK, Closures
  <2> HIDE DEF e
  <2> QED
    BY <1>0, <2>1, PartsGrounded
<1>4. CASE emits[id] = Made[id]
  BY <1>1, <1>2, <1>3, <1>4
<1>5. CASE id \in NeverTypes /\ emits[id] = Emit(Made[id].t, <<>>)
  <2>1. Made[id].t = "enum"
    BY <1>5, NeverClosed DEF NeverTypes, Enums
  <2>2. Arity(e) = 0
    <3>1. Arity(e) \in Nat
      BY <1>0, GenericNumbers DEF Arity, EntriesOK, EntryOK, Closures
    <3> QED
      BY <1>2, <1>3, <2>1, <3>1 DEF PartsOK
  <2>3. DOMAIN emits[id].parts = {}
    BY <1>5 DEF Emit
  <2>4. PartsOK(emits[id], 0)
    BY <2>3 DEF PartsOK
  <2> QED
    BY <1>1, <2>2, <2>4
<1> QED
  BY <1>0, <1>4, <1>5 DEF EmptiedOK

LEMMA ParamFacts ==
  ASSUME NEW m
  PROVE  /\ Param(m).t = "param" /\ Param(m).n = m
         /\ Range(Param(m).params) = {} /\ Sound(Param(m))
  BY DEF Param, Range, Sound

LEMMA ParamAlone ==
  ASSUME NEW m, NEW kinds
  PROVE  Within(Param(m), kinds) = {Param(m)}
<1>1. PICK S : S = {Param(m)}
  OBVIOUS
<1>2. Param(m) \in S /\ \A r \in S : Range(r.params) \subseteq S
  BY <1>1, ParamFacts
<1>3. Param(m) \in Within(Param(m), kinds) /\ Within(Param(m), kinds) \subseteq S
  BY <1>2, WithinInside
<1> QED
  BY <1>1, <1>3

LEMMA GroundedWithin ==
  ASSUME NEW type, Grounded(type), NEW kinds, NEW r \in Within(type, kinds)
  PROVE  Sound(r) /\ r.t # "param" /\ (r.t = "local" => r \in References)
         /\ (r.t = "set" => r.params[1].t # "param")
<1>1. PICK S : /\ type \in S
               /\ \A x \in S : /\ Sound(x) /\ x.t # "param"
                               /\ Range(x.params) \subseteq S
                               /\ x.t = "local" => x \in References
  BY DEF Grounded
<1>2. r \in S
  BY <1>1, WithinInside
<1>3. r.t = "set" => r.params[1] \in S
  <2> SUFFICES ASSUME r.t = "set" PROVE r.params[1] \in S
    OBVIOUS
  <2>1. PICK e : r.params = <<e>>
    BY <1>1, <1>2 DEF Sound
  <2>2. Range(r.params) \subseteq S /\ Range(<<e>>) = {e} /\ r.params[1] = e
    BY <1>1, <1>2, <2>1, OnePart
  <2> QED
    BY <2>1, <2>2
<1> QED
  BY <1>1, <1>2, <1>3

LEMMA GenericsCount ==
  ASSUME NEW emit, NEW n \in Nat, PartsOK(emit, n)
  PROVE  Generics(emit) = n
<1> DEFINE P == {ref.n + 1 : ref \in {r \in VisitEmitRefs(emit) : r.t = "param"}}
           open == {"lib", "local"}
<1>1. ASSUME NEW m PROVE VisitRefs(Param(m)) = {Param(m)} /\ Param(m).t = "param" /\ Param(m).n = m
  <2>1. Param(m).t = "param" /\ Param(m).n = m
    BY ParamFacts
  <2>2. Within(Param(m), open) = {Param(m)}
    BY ParamAlone
  <2> QED
    BY <2>1, <2>2 DEF VisitRefs
<1>2. ASSUME NEW i \in DOMAIN emit.parts, NEW r \in VisitRefs(emit.parts[i].type), r.t = "param"
      PROVE  \E m \in 0 .. n - 1 : r = Param(m)
  <2>1. CASE Grounded(emit.parts[i].type)
    BY <1>2, <2>1, GroundedWithin DEF VisitRefs
  <2>2. CASE \E m \in 0 .. n - 1 : emit.parts[i].type = Param(m)
    BY <1>1, <2>2
  <2> QED
    BY <2>1, <2>2 DEF PartsOK
<1>3. P = 1 .. n
  <2>1. ASSUME NEW x \in P PROVE x \in 1 .. n
    <3>1. PICK r \in VisitEmitRefs(emit) : r.t = "param" /\ x = r.n + 1
      OBVIOUS
    <3>2. PICK m \in 0 .. n - 1 : r = Param(m)
      BY <1>2, <3>1 DEF VisitEmitRefs
    <3> QED
      BY <1>1, <3>1, <3>2
  <2>2. ASSUME NEW x \in 1 .. n PROVE x \in P
    <3>1. x - 1 \in 0 .. n - 1
      OBVIOUS
    <3>2. PICK i \in DOMAIN emit.parts : emit.parts[i].type = Param(x - 1)
      BY <3>1 DEF PartsOK
    <3>3. Param(x - 1) \in VisitEmitRefs(emit) /\ Param(x - 1).t = "param" /\ Param(x - 1).n + 1 = x
      BY <1>1, <3>2 DEF VisitEmitRefs
    <3> QED
      BY <3>3
  <2> QED
    BY <2>1, <2>2
<1> HIDE DEF P
<1>4. P \cup {0} = 0 .. n
  BY <1>3
<1>5. n \in 0 .. n /\ \A y \in 0 .. n : n >= y
  OBVIOUS
<1>6. Max(0 .. n) = n
  BY <1>5 DEF Max
<1> QED
  BY <1>4, <1>6 DEF Generics, P

LEMMA DanglesNot == ResolverInv => NothingDangles
<1> SUFFICES ASSUME ResolverInv, ~ Constructing, NEW id \in DOMAIN emits, NEW i \in DOMAIN emits[id].parts,
                    NEW ref \in AllRefs(emits[id].parts[i].type), ref.t = "local"
             PROVE  ref.id \in DOMAIN emits /\ Len(ref.params) = Generics(emits[ref.id])
  BY DEF NothingDangles
<1>0. EntriesOK /\ MadeOK
  BY DEF ResolverInv
<1>1. ref \in References
  <2>1. CASE Grounded(emits[id].parts[i].type)
    BY <2>1, GroundedWithin DEF AllRefs
  <2>2. ASSUME NEW m, emits[id].parts[i].type = Param(m) PROVE ref \in References
    BY <2>2, ParamAlone, ParamFacts DEF AllRefs
  <2> QED
    BY <2>1, <2>2, EmittedParts DEF PartsOK
<1>2. PICK k \in DOMAIN resolved : ref = resolved[k].ref
  BY <1>1 DEF References
<1>3. EntryOK(resolved[k]) /\ k \in Closures
  BY <1>0, <1>2 DEF EntriesOK, EntryOK, Closures
<1>4. ref.id \in DOMAIN emits
  BY <1>0, <1>2, <1>3 DEF MadeOK
<1>5. Len(ref.params) = Arity(resolved[k]) /\ Arity(resolved[k]) \in Nat
  <2>1. CASE resolved[k].form = "generic"
    BY <1>2, <1>3, <2>1, GenericNumbers DEF Arity, EntryOK
  <2>2. CASE resolved[k].form # "generic"
    <3>1. ref.params = <<>>
      BY <1>2, <1>3, <2>2 DEF EntryOK, Closures
    <3> QED
      BY <2>2, <3>1 DEF Arity
  <2> QED
    BY <2>1, <2>2
<1>6. PartsOK(emits[ref.id], Arity(resolved[k]))
  <2>1. PICK j \in Closures : resolved[j].ref.id = ref.id /\ PartsOK(emits[ref.id], Arity(resolved[j]))
    BY <1>4, EmittedParts
  <2>2. Arity(resolved[j]) = Arity(resolved[k])
    <3>1. Definition(resolved[j].form, resolved[j].key) = Definition(resolved[k].form, resolved[k].key)
      BY <1>0, <1>2, <1>3, <2>1 DEF MadeOK
    <3>2. schema \in Schemas /\ EntryOK(resolved[j]) /\ Ran(resolved[j]) /\ Ran(resolved[k])
      BY <1>0, <1>3 DEF ResolverInv, PhaseOK, EntriesOK, MadeOK, Closures
    <3>3. PartsOK(Definition(resolved[j].form, resolved[j].key), Arity(resolved[j]))
          /\ PartsOK(Definition(resolved[k].form, resolved[k].key), Arity(resolved[k]))
      BY <1>0, <1>3, <3>2, PartsGrounded
    <3>4. Arity(resolved[j]) \in Nat
      BY <3>2, GenericNumbers DEF Arity, EntryOK
    <3> QED
      BY <1>5, <3>1, <3>3, <3>4, GenericsCount
  <2> QED
    BY <2>1, <2>2
<1> QED
  BY <1>4, <1>5, <1>6, GenericsCount

LEMMA NeversExact == ResolverInv => NeverExactly
<1> SUFFICES ASSUME ResolverInv, ~ Constructing, phase # "never", NEW id \in Enums(Made)
             PROVE  (emits[id].parts = <<>>) <=> (id \in NeverTypes)
  BY DEF NeverExactly
<1>1. EmptiedOK /\ id \in DOMAIN emits
  BY DEF ResolverInv, Enums, Made
<1>2. CASE id \in NeverTypes
  BY <1>1, <1>2 DEF EmptiedOK, Emit
<1>3. CASE id \notin NeverTypes
  <2>1. emits[id] = Made[id]
    BY <1>1, <1>3 DEF EmptiedOK
  <2>2. Made[id].parts = <<>> => id \in NeverTypes
    BY NeverLargest DEF NeverTypes
  <2> QED
    BY <1>3, <2>1, <2>2
<1> QED
  BY <1>2, <1>3

\* No enum has a variant whose constructors, read when the module is loaded,
\* are those of a cycle break point.
BreakPointsUnread == \A id \in Enums(emits) : ShortcutReads(emits, emits[id]) \cap BreakPoints = {}

\* Whatever is read when a definition is loaded has an edge in the graph.
LEMMA LoadsFromGraph ==
  ASSUME ResolverInv, phase = "rendered", BreakPointsUnread, NEW id \in DOMAIN emits
  PROVE  LoadReads(emits, id) \subseteq GraphOf(emits)[id]
<1> DEFINE emit == emits[id]
           codecs == UNION {CodecReads(emit.parts[i].type) : i \in DOMAIN emit.parts}
<1>0. PhaseOK /\ ~ Constructing
  BY DEF ResolverInv, Constructing
<1>1. GraphOf(emits)[id] = {ref.id : ref \in LocalRefs(emit)} \ BreakPoints
  BY DEF GraphOf
<1>2. ASSUME NEW i \in DOMAIN emit.parts, NEW r \in AllRefs(emit.parts[i].type), r.t = "local",
             r.params # <<>> \/ ~ r.lazy
      PROVE  r.id \in GraphOf(emits)[id]
  <2> DEFINE type == emit.parts[i].type
  <2>1. \E S : type \in S /\ \A x \in S : Sound(x) /\ Range(x.params) \subseteq S
    <3>1. CASE Grounded(type)
      BY <3>1 DEF Grounded
    <3>2. ASSUME NEW m, type = Param(m) PROVE \E S : type \in S /\ \A x \in S : Sound(x) /\ Range(x.params) \subseteq S
      <4>1. Sound(Param(m)) /\ Range(Param(m).params) \subseteq {Param(m)}
        BY ParamFacts
      <4> QED
        BY <3>2, <4>1
    <3> QED
      BY <1>0, <3>1, <3>2, EmittedParts DEF PartsOK
  <2>2. PICK S : type \in S /\ \A x \in S : Sound(x) /\ Range(x.params) \subseteq S
    BY <2>1
  <2>3. Renderable(type)
    BY <1>0 DEF PhaseOK
  <2> HIDE DEF type
  <2>4. r \in VisitRefs(type) /\ Sound(r)
    <3>1. AllRefs(type) \subseteq VisitRefs(type)
      BY <2>2, <2>3, VisitedCovers
    <3>2. AllRefs(type) \subseteq S
      BY <2>2, WithinInside DEF AllRefs
    <3> QED
      BY <1>2, <2>2, <3>1, <3>2 DEF type
  <2>5. r \in LocalRefs(emit)
    BY <1>2, <2>4 DEF LocalRefs, VisitEmitRefs, type
  <2>6. r.id \notin BreakPoints
    BY <1>0, <1>2, <2>4, <2>5 DEF Sound, PhaseOK
  <2> QED
    BY <1>1, <2>5, <2>6
<1>3. codecs \subseteq GraphOf(emits)[id]
  BY <1>2 DEF CodecReads
<1>4. emit.t = "enum" => ShortcutReads(emits, emit) \subseteq GraphOf(emits)[id]
  <2> SUFFICES ASSUME emit.t = "enum", NEW x \in ShortcutReads(emits, emit)
               PROVE  x \in GraphOf(emits)[id]
    OBVIOUS
  <2>1. PICK i \in DOMAIN emit.parts : x = emit.parts[i].type.id /\ EnumOf(emits, emit.parts[i].type) # {}
    BY DEF ShortcutReads
  <2> DEFINE type == emit.parts[i].type
  <2>2. type.t = "local"
    BY <2>1 DEF EnumOf
  <2>3. type \in VisitRefs(type)
    <3>1. 0 \in 0 .. MaxNesting /\ Level(type, {"lib", "local"})[0] = {type}
      BY LevelUnfolds, NestingAssumption
    <3> QED
      BY <3>1 DEF VisitRefs, Within
  <2>4. type \in LocalRefs(emit)
    BY <2>2, <2>3 DEF LocalRefs, VisitEmitRefs
  <2>5. x \notin BreakPoints
    BY DEF BreakPointsUnread, Enums
  <2> QED
    BY <1>1, <2>1, <2>4, <2>5
<1> HIDE DEF codecs
<1>5. LoadReads(emits, id) \subseteq codecs \cup (IF emit.t = "enum" THEN ShortcutReads(emits, emit) ELSE {})
  BY DEF LoadReads, codecs
<1> QED
  BY <1>3, <1>4, <1>5

LEMMA LoadsInOrder == CodegenInv => (BreakPointsUnread => LoadsCleanly)
<1> SUFFICES ASSUME CodegenInv, BreakPointsUnread, phase = "rendered", NEW i \in 1 .. Len(sorted)
             PROVE  LoadReads(emits, sorted[i]) \subseteq {sorted[j] : j \in 1 .. i - 1}
  BY DEF LoadsCleanly
<1>1. IInv /\ ResolverInv /\ graph = GraphOf(emits)
  BY DEF CodegenInv, ResolverInv, PhaseOK
<1>2. sorted[i] \in DOMAIN emits
  <2>1. sorted[i] \in DOMAIN graph
    BY <1>1 DEF IInv, Written
  <2> QED
    BY <1>1, <2>1 DEF GraphOf
<1>3. LoadReads(emits, sorted[i]) \subseteq graph[sorted[i]]
  BY <1>1, <1>2, LoadsFromGraph
<1>4. graph[sorted[i]] \subseteq {sorted[j] : j \in 1 .. i - 1}
  BY <1>1 DEF IInv, TopoOrdered
<1> QED
  BY <1>3, <1>4

\* NothingDangles for every schema that satisfies the assumptions: the local
\* types the definitions name are all defined, with the right arity.
THEOREM CodegenDangles == CodegenSpec => []NothingDangles
<1>1. CodegenInv => NothingDangles
  BY DanglesNot DEF CodegenInv
<1> QED
  BY <1>1, CodegenInitInv, CodegenStepInv, PTL DEF CodegenSpec, codegenVars

\* NeverExactly for every schema: one pass over the enums in any order, on the
\* map it is changing, empties the never types and no other.
THEOREM CodegenNevers == CodegenSpec => []NeverExactly
<1>1. CodegenInv => NeverExactly
  BY NeversExact DEF CodegenInv
<1> QED
  BY <1>1, CodegenInitInv, CodegenStepInv, PTL DEF CodegenSpec, codegenVars

\* LoadsCleanly for every schema that has no unit constructor inside the enum of
\* a break point which an enum has as a variant: nothing the generated module
\* reads on loading is defined later in it.
THEOREM CodegenLoads == CodegenSpec => [](BreakPointsUnread => LoadsCleanly)
  BY LoadsInOrder, CodegenInitInv, CodegenStepInv, PTL DEF CodegenSpec, codegenVars
=============================================================================
