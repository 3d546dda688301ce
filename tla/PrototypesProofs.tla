-------------------------- MODULE PrototypesProofs --------------------------
(***************************************************************************)
(* What is built against the generated types is a value of QueryBox, and   *)
(* has the output type they say, for every schema: the invariant is that   *)
(* the user is at a projection of the query's tree (OnTree) and the proxy  *)
(* has kept the properties that lead there (Leads).                        *)
(***************************************************************************)
EXTENDS Prototypes, SequenceTheorems, FiniteSetTheorems, NaturalsInduction, TLAPS

-----------------------------------------------------------------------------
(* Recursive functions                                                       *)

\* Induction on a set instead of an operator.
LEMMA SetInduction ==
  ASSUME NEW S, 0 \in S, \A n \in Nat : n \in S => n + 1 \in S
  PROVE  \A n \in Nat : n \in S
<1> DEFINE T == {n \in Nat : n \notin S}
<1>1. SUFFICES ASSUME T # {} PROVE FALSE
  OBVIOUS
<1>2. PICK m \in T : \A k \in T : ~ (<<k, m>> \in OpToRel(<, Nat))
  <2> HIDE DEF T
  <2>1. T \subseteq Nat
    BY DEF T
  <2>2. QED
    BY <1>1, <2>1, NatLessThanWellFounded, WFMin, Zenon
<1>3. m # 0 /\ m - 1 \in Nat /\ m - 1 \in S
  <2>1. m # 0 /\ m - 1 \in Nat /\ m - 1 < m
    OBVIOUS
  <2>2. <<m - 1, m>> \in OpToRel(<, Nat)
    BY <2>1, Zenon DEF OpToRel
  <2>3. QED
    BY <2>1, <2>2, <1>2
<1>4. QED
  BY <1>3

Deeper(role, level) == UNION {Children(role, pos) : pos \in level}

\* What the recursions of Tree and Along compute, level by level.
LEMMA TreeUnfolds ==
  ASSUME NEW query, NEW role
  PROVE  /\ Tree(query, role)[0] = {Root(query, role)}
         /\ \A n \in Nat : Tree(query, role)[n + 1] = Deeper(role, Tree(query, role)[n])
<1> DEFINE Rule(f, i) == IF i = 0 THEN {Root(query, role)} ELSE Deeper(role, f[i - 1])
           Upto(g, n) == g = [i \in 0 .. n |-> Rule(g, i)]
           S == {n \in Nat : \E g : Upto(g, n)}
           Same == {i \in Nat : \A n, m \in Nat : \A g, h :
                      Upto(g, n) /\ Upto(h, m) /\ i <= n /\ i <= m => g[i] = h[i]}
           F == [n \in Nat |-> (CHOOSE g : Upto(g, n))[n]]
<1>1. \A n \in Nat : \E g : Upto(g, n)
  <2>1. Upto([i \in 0 .. 0 |-> {Root(query, role)}], 0)
    OBVIOUS
  <2>2. ASSUME NEW n \in Nat, NEW g, Upto(g, n) PROVE \E h : Upto(h, n + 1)
    <3> DEFINE h == [i \in 0 .. n + 1 |-> IF i = n + 1 THEN Deeper(role, g[n]) ELSE g[i]]
    <3>1. \A i \in 0 .. n + 1 : h[i] = Rule(h, i)
      <4> TAKE i \in 0 .. n + 1
      <4>1. CASE i = n + 1
        BY <4>1, n + 1 # 0
      <4>2. CASE i # n + 1
        <5>1. i \in 0 .. n /\ (i # 0 => i - 1 \in 0 .. n /\ i - 1 # n + 1 /\ i - 1 \in 0 .. n + 1)
          BY <4>2
        <5>2. g[i] = Rule(g, i)
          BY <5>1, <2>2
        <5>3. i # 0 => h[i - 1] = g[i - 1]
          BY <5>1
        <5>4. h[i] = g[i]
          BY <4>2
        <5> QED
          BY <5>2, <5>3, <5>4
      <4> QED
        BY <4>1, <4>2
    <3>2. h = [i \in 0 .. n + 1 |-> Rule(h, i)]
      BY <3>1
    <3> QED
      BY <3>2
  <2>3. 0 \in S /\ \A n \in Nat : n \in S => n + 1 \in S
    <3> HIDE DEF Upto
    <3> QED
      BY <2>1, <2>2
  <2> HIDE DEF S
  <2>4. \A n \in Nat : n \in S
    BY <2>3, SetInduction
  <2> QED
    BY <2>4 DEF S
<1>2. \A i \in Nat : i \in Same
  <2>1. 0 \in Same
    <3>1. \A n \in Nat : \A g : Upto(g, n) => g[0] = {Root(query, role)}
      OBVIOUS
    <3> HIDE DEF Upto
    <3> QED
      BY <3>1
  <2>2. ASSUME NEW i \in Nat, i \in Same PROVE i + 1 \in Same
    <3> SUFFICES ASSUME NEW n \in Nat, NEW m \in Nat, NEW g, NEW h, Upto(g, n), Upto(h, m), i + 1 <= n, i + 1 <= m
                 PROVE  g[i + 1] = h[i + 1]
      <4> HIDE DEF Upto
      <4> QED
        OBVIOUS
    <3>1. g[i] = h[i]
      <4> HIDE DEF Upto
      <4> QED
        BY <2>2
    <3>2. i + 1 \in 0 .. n /\ i + 1 \in 0 .. m /\ i + 1 # 0 /\ (i + 1) - 1 = i
      OBVIOUS
    <3>3. g[i + 1] = Deeper(role, g[i]) /\ h[i + 1] = Deeper(role, h[i])
      BY <3>2
    <3> QED
      BY <3>1, <3>3
  <2> HIDE DEF Same
  <2> QED
    BY <2>1, <2>2, SetInduction
<1>3. \A n \in Nat : Upto(CHOOSE g : Upto(g, n), n)
  BY <1>1
<1>4. F = [n \in Nat |-> Rule(F, n)]
  <2>1. ASSUME NEW n \in Nat PROVE F[n] = Rule(F, n)
    <3> DEFINE g == CHOOSE g : Upto(g, n)
    <3>1. Upto(g, n) /\ F[n] = g[n]
      BY <1>3
    <3> HIDE DEF g
    <3>2. g[n] = Rule(g, n)
      <4>1. n \in 0 .. n
        OBVIOUS
      <4>2. g = [i \in 0 .. n |-> Rule(g, i)]
        BY <3>1
      <4> QED
        BY <4>1, <4>2
    <3>3. CASE n = 0
      BY <3>1, <3>2, <3>3
    <3>4. CASE n # 0
      <4> DEFINE h == CHOOSE h : Upto(h, n - 1)
      <4>1. n - 1 \in Nat
        BY <3>4
      <4>2. Upto(h, n - 1) /\ F[n - 1] = h[n - 1]
        BY <4>1, <1>3
      <4> HIDE DEF h, F
      <4>3. g[n - 1] = h[n - 1]
        <5>1. n - 1 \in Same /\ n - 1 <= n /\ n - 1 <= n - 1
          <6> HIDE DEF Same
          <6> QED
            BY <4>1, <1>2
        <5> HIDE DEF Upto
        <5> QED
          BY <4>1, <4>2, <3>1, <5>1
      <4> QED
        BY <3>1, <3>2, <3>4, <4>2, <4>3
    <3> QED
      BY <3>3, <3>4
  <2>2. F = [n \in Nat |-> F[n]]
    OBVIOUS
  <2> HIDE DEF F
  <2> QED
    BY <2>1, <2>2
<1>5. Tree(query, role) = [n \in Nat |-> Rule(Tree(query, role), n)]
  <2> HIDE DEF F
  <2> QED
    BY <1>4 DEF Tree, Deeper
<1> QED
  <2> DEFINE L == Tree(query, role)
  <2>1. L = [n \in Nat |-> Rule(L, n)]
    BY <1>5
  <2> HIDE DEF L
  <2>2. L[0] = {Root(query, role)} /\ \A n \in Nat : L[n + 1] = Deeper(role, L[n])
    BY <2>1
  <2> QED
    BY <2>2 DEF L

LEMMA AlongUnfolds ==
  ASSUME NEW value, NEW id
  PROVE  /\ Along(value, id)[0] = id
         /\ \A n \in Nat : Along(value, id)[n + 1] = Inside(Along(value, id)[n], value[n + 1])
<1> DEFINE Rule(f, i) == IF i = 0 THEN id ELSE Inside(f[i - 1], value[i])
           Upto(g, n) == g = [i \in 0 .. n |-> Rule(g, i)]
           S == {n \in Nat : \E g : Upto(g, n)}
           Same == {i \in Nat : \A n, m \in Nat : \A g, h :
                      Upto(g, n) /\ Upto(h, m) /\ i <= n /\ i <= m => g[i] = h[i]}
           F == [n \in Nat |-> (CHOOSE g : Upto(g, n))[n]]
<1>1. \A n \in Nat : \E g : Upto(g, n)
  <2>1. Upto([i \in 0 .. 0 |-> id], 0)
    OBVIOUS
  <2>2. ASSUME NEW n \in Nat, NEW g, Upto(g, n) PROVE \E h : Upto(h, n + 1)
    <3> DEFINE h == [i \in 0 .. n + 1 |-> IF i = n + 1 THEN Inside(g[n], value[n + 1]) ELSE g[i]]
    <3>1. \A i \in 0 .. n + 1 : h[i] = Rule(h, i)
      <4> TAKE i \in 0 .. n + 1
      <4>1. CASE i = n + 1
        BY <4>1, n + 1 # 0
      <4>2. CASE i # n + 1
        <5>1. i \in 0 .. n /\ (i # 0 => i - 1 \in 0 .. n /\ i - 1 # n + 1 /\ i - 1 \in 0 .. n + 1)
          BY <4>2
        <5>2. g[i] = Rule(g, i)
          BY <5>1, <2>2
        <5>3. i # 0 => h[i - 1] = g[i - 1]
          BY <5>1
        <5>4. h[i] = g[i]
          BY <4>2
        <5> QED
          BY <5>2, <5>3, <5>4
      <4> QED
        BY <4>1, <4>2
    <3>2. h = [i \in 0 .. n + 1 |-> Rule(h, i)]
      BY <3>1
    <3> QED
      BY <3>2
  <2>3. 0 \in S /\ \A n \in Nat : n \in S => n + 1 \in S
    <3> HIDE DEF Upto
    <3> QED
      BY <2>1, <2>2
  <2> HIDE DEF S
  <2>4. \A n \in Nat : n \in S
    BY <2>3, SetInduction
  <2> QED
    BY <2>4 DEF S
<1>2. \A i \in Nat : i \in Same
  <2>1. 0 \in Same
    <3>1. \A n \in Nat : \A g : Upto(g, n) => g[0] = id
      OBVIOUS
    <3> HIDE DEF Upto
    <3> QED
      BY <3>1
  <2>2. ASSUME NEW i \in Nat, i \in Same PROVE i + 1 \in Same
    <3> SUFFICES ASSUME NEW n \in Nat, NEW m \in Nat, NEW g, NEW h, Upto(g, n), Upto(h, m), i + 1 <= n, i + 1 <= m
                 PROVE  g[i + 1] = h[i + 1]
      <4> HIDE DEF Upto
      <4> QED
        OBVIOUS
    <3>1. g[i] = h[i]
      <4> HIDE DEF Upto
      <4> QED
        BY <2>2
    <3>2. i + 1 \in 0 .. n /\ i + 1 \in 0 .. m /\ i + 1 # 0 /\ (i + 1) - 1 = i
      OBVIOUS
    <3>3. g[i + 1] = Inside(g[i], value[i + 1]) /\ h[i + 1] = Inside(h[i], value[i + 1])
      BY <3>2
    <3> QED
      BY <3>1, <3>3
  <2> HIDE DEF Same
  <2> QED
    BY <2>1, <2>2, SetInduction
<1>3. \A n \in Nat : Upto(CHOOSE g : Upto(g, n), n)
  BY <1>1
<1>4. F = [n \in Nat |-> Rule(F, n)]
  <2>1. ASSUME NEW n \in Nat PROVE F[n] = Rule(F, n)
    <3> DEFINE g == CHOOSE g : Upto(g, n)
    <3>1. Upto(g, n) /\ F[n] = g[n]
      BY <1>3
    <3> HIDE DEF g
    <3>2. g[n] = Rule(g, n)
      <4>1. n \in 0 .. n
        OBVIOUS
      <4>2. g = [i \in 0 .. n |-> Rule(g, i)]
        BY <3>1
      <4> QED
        BY <4>1, <4>2
    <3>3. CASE n = 0
      BY <3>1, <3>2, <3>3
    <3>4. CASE n # 0
      <4> DEFINE h == CHOOSE h : Upto(h, n - 1)
      <4>1. n - 1 \in Nat
        BY <3>4
      <4>2. Upto(h, n - 1) /\ F[n - 1] = h[n - 1]
        BY <4>1, <1>3
      <4> HIDE DEF h, F
      <4>3. g[n - 1] = h[n - 1]
        <5>1. n - 1 \in Same /\ n - 1 <= n /\ n - 1 <= n - 1
          <6> HIDE DEF Same
          <6> QED
            BY <4>1, <1>2
        <5> HIDE DEF Upto
        <5> QED
          BY <4>1, <4>2, <3>1, <5>1
      <4> QED
        BY <3>1, <3>2, <3>4, <4>2, <4>3
    <3> QED
      BY <3>3, <3>4
  <2>2. F = [n \in Nat |-> F[n]]
    OBVIOUS
  <2> HIDE DEF F
  <2> QED
    BY <2>1, <2>2
<1>5. Along(value, id) = [n \in Nat |-> Rule(Along(value, id), n)]
  <2> HIDE DEF F
  <2> QED
    BY <1>4 DEF Along
<1> QED
  <2> DEFINE L == Along(value, id)
  <2>1. L = [n \in Nat |-> Rule(L, n)]
    BY <1>5
  <2> HIDE DEF L
  <2>2. L[0] = id /\ \A n \in Nat : L[n + 1] = Inside(L[n], value[n + 1])
    BY <2>1
  <2> QED
    BY <2>2 DEF L

-----------------------------------------------------------------------------
(* The trees                                                                 *)

LEMMA EmitParts ==
  ASSUME NEW id \in DOMAIN Emits
  PROVE  /\ Emits[id].parts \in Seq([tag : STRING, type : STRING])
         /\ Len(Emits[id].parts) \in Nat
         /\ DOMAIN Emits[id].parts = 1 .. Len(Emits[id].parts)
         /\ Variants(id) = {Emits[id].parts[i] : i \in DOMAIN Emits[id].parts}
         /\ \A i \in DOMAIN Emits[id].parts : Emits[id].parts[i] \in [tag : STRING, type : STRING]
<1>1. Emits[id].parts \in Seq([tag : STRING, type : STRING])
  BY PrototypesAssumption
<1> DEFINE parts == Emits[id].parts
<1>2. parts \in Seq([tag : STRING, type : STRING])
  BY <1>1
<1>3. Variants(id) = {parts[i] : i \in DOMAIN parts}
  BY DEF Variants, Range
<1> HIDE DEF parts
<1>4. Len(parts) \in Nat /\ DOMAIN parts = 1 .. Len(parts)
  BY <1>2, LenProperties
<1>5. \A i \in DOMAIN parts : parts[i] \in [tag : STRING, type : STRING]
  BY <1>2, <1>4, ElementOfSeq
<1> QED
  BY <1>2, <1>3, <1>4, <1>5 DEF parts

LEMMA DelegatesAreParts ==
  ASSUME NEW role \in Roles, NEW id \in DOMAIN Emits, NEW i \in Delegates(role, id)
  PROVE  i \in Nat /\ i >= 2 /\ i \in DOMAIN Emits[id].parts
  BY EmitParts DEF Delegates

LEMMA DepthNat == Depth \in Nat
  BY PrototypesAssumption, FS_CardinalityType DEF Depth

\* All positions of a tree that ends are less deep than Depth.
LEMMA TreeEnds ==
  ASSUME NEW query, NEW role, Tree(query, role)[Depth] = {}
  PROVE  \A n \in Nat : Tree(query, role)[n] # {} => n \in 0 .. Depth
<1> DEFINE S == {n \in Nat : Tree(query, role)[Depth + n] = {}}
<1>1. 0 \in S
  BY DepthNat
<1>2. ASSUME NEW n \in Nat, n \in S PROVE n + 1 \in S
  <2>1. Depth + n \in Nat /\ Depth + (n + 1) = (Depth + n) + 1
    BY DepthNat
  <2>2. Tree(query, role)[(Depth + n) + 1] = Deeper(role, Tree(query, role)[Depth + n])
    BY <2>1, TreeUnfolds
  <2>3. Deeper(role, {}) = {}
    BY DEF Deeper
  <2> QED
    BY <1>2, <2>1, <2>2, <2>3
<1>3. \A n \in Nat : n \in S
  <2> HIDE DEF S
  <2> QED
    BY <1>1, <1>2, SetInduction
<1> SUFFICES ASSUME NEW n \in Nat, ~ n <= Depth PROVE Tree(query, role)[n] = {}
  BY DepthNat
<1>4. n - Depth \in Nat /\ Depth + (n - Depth) = n
  BY DepthNat
<1> QED
  BY <1>3, <1>4

\* The projection `at` is in the tree, under that chain of names.
OnTree(query, role, at, chain) ==
  \E n \in Nat : \E pos \in Tree(query, role)[n] : pos.at = at /\ pos.chain = chain

LEMMA RootOnTree ==
  ASSUME NEW query, NEW role
  PROVE  OnTree(query, role, Root(query, role).at, Root(query, role).chain)
<1>1. Root(query, role) \in Tree(query, role)[0]
  BY TreeUnfolds
<1> QED
  BY <1>1 DEF OnTree

LEMMA ChildOnTree ==
  ASSUME NEW query, NEW role, NEW at, NEW chain, OnTree(query, role, at, chain),
         NEW i \in Delegates(role, at)
  PROVE  LET entry == Delegate(Emits[at].parts[i]) IN
         OnTree(query, role, entry.next, Push(chain, entry))
<1>0. PICK n \in Nat : \E pos \in Tree(query, role)[n] : pos.at = at /\ pos.chain = chain
  BY DEF OnTree
<1>1. PICK pos \in Tree(query, role)[n] : pos.at = at /\ pos.chain = chain
  BY <1>0
<1>2. Child(pos, i) \in Tree(query, role)[n + 1]
  <2>1. Child(pos, i) \in Deeper(role, Tree(query, role)[n])
    BY <1>1 DEF Deeper, Children
  <2> QED
    BY <2>1, TreeUnfolds
<1> DEFINE entry == Delegate(Emits[at].parts[i])
<1>3. Child(pos, i).at = entry.next /\ Child(pos, i).chain = Push(chain, entry)
  <2> HIDE DEF entry
  <2>1. Child(pos, i) = [at |-> entry.next, chain |-> Push(chain, entry), path |-> Append(pos.path, i)]
    BY <1>1 DEF Child, entry
  <2> QED
    BY <2>1
<1>4. n + 1 \in Nat
  OBVIOUS
<1> HIDE DEF entry
<1>5. OnTree(query, role, entry.next, Push(chain, entry))
  BY <1>2, <1>3, <1>4 DEF OnTree
<1> QED
  BY <1>5 DEF entry

\* The generator has looked at every projection of a tree.
LEMMA OnTreeBuilds ==
  ASSUME Generates, NEW query \in DOMAIN Queries, NEW role \in Roles, NEW at, NEW chain,
         OnTree(query, role, at, chain)
  PROVE  Builds(role, at)
<1>0. PICK n \in Nat : \E pos \in Tree(query, role)[n] : pos.at = at /\ pos.chain = chain
  BY DEF OnTree
<1>1. PICK pos \in Tree(query, role)[n] : pos.at = at /\ pos.chain = chain
  BY <1>0
<1>2. n \in 0 .. Depth
  BY <1>1, TreeEnds DEF Generates
<1>3. Builds(role, pos.at)
  BY <1>1, <1>2 DEF Generates
<1> QED
  BY <1>1, <1>3

-----------------------------------------------------------------------------
(* Values and types                                                          *)

LEMMA AlongAgrees ==
  \A v, w, id : \A m \in Nat :
    (\A i \in 1 .. m : v[i] = w[i]) => Along(v, id)[m] = Along(w, id)[m]
<1> SUFFICES ASSUME NEW v, NEW w, NEW id, NEW m \in Nat, \A i \in 1 .. m : v[i] = w[i]
             PROVE  Along(v, id)[m] = Along(w, id)[m]
  OBVIOUS
<1> DEFINE S == {n \in Nat : n <= m => Along(v, id)[n] = Along(w, id)[n]}
<1>1. 0 \in S
  BY AlongUnfolds
<1>2. ASSUME NEW n \in Nat, n \in S PROVE n + 1 \in S
  <2> SUFFICES ASSUME n + 1 <= m PROVE Along(v, id)[n + 1] = Along(w, id)[n + 1]
    OBVIOUS
  <2>1. Along(v, id)[n] = Along(w, id)[n] /\ v[n + 1] = w[n + 1]
    BY <1>2
  <2> QED
    BY <2>1, AlongUnfolds
<1>3. \A n \in Nat : n \in S
  <2> HIDE DEF S
  <2> QED
    BY <1>1, <1>2, SetInduction
<1> QED
  BY <1>3

\* The properties of the generated prototypes.
Named == {CamelCase(v.tag) : v \in UNION {Variants(id) : id \in DOMAIN Emits}}

\* A layer of the variant of that tag, with an argument if it has one, leads to
\* its type.
LEMMA VariantFits ==
  ASSUME NEW id \in DOMAIN Emits, Emits[id].t = "enum", NEW i \in DOMAIN Emits[id].parts, NEW layer,
         layer.key = FALSE, layer.kind = Emits[id].parts[i].tag, layer.arg = (Emits[id].parts[i].type # Unit)
  PROVE  Inside(id, layer) = Emits[id].parts[i].type
<1> DEFINE v == Emits[id].parts[i]
           Fits == {u \in Variants(id) : u.tag = layer.kind /\ layer.arg = (u.type # Unit)}
<1>1. \A u \in Variants(id) : u.tag = v.tag => u = v
  <2>1. \A j \in DOMAIN Emits[id].parts : Emits[id].parts[j].tag = Emits[id].parts[i].tag => j = i
    BY PrototypesAssumption
  <2> QED
    BY <2>1, EmitParts
<1>2. v \in Variants(id)
  BY EmitParts
<1>3. Fits = {v}
  BY <1>1, <1>2
<1>4. (CHOOSE u \in Fits : TRUE) = v
  <2> HIDE DEF Fits
  <2> QED
    BY <1>3
<1>5. Inside(id, layer) = IF id \notin DOMAIN Emits \/ layer.key # (Emits[id].t = "struct") THEN ""
        ELSE IF layer.key THEN Projection(id)
        ELSE IF Fits = {} THEN "" ELSE (CHOOSE u \in Fits : TRUE).type
  BY DEF Inside
<1> HIDE DEF Fits, v
<1>6. Inside(id, layer) = v.type
  BY <1>3, <1>4, <1>5
<1> QED
  BY <1>6 DEF v

\* What the proxies make of a property is the tag it was made of.
LEMMA PropertyFits ==
  ASSUME NEW id \in DOMAIN Emits, Emits[id].t = "enum", NEW i \in DOMAIN Emits[id].parts,
         NEW arg, arg = (Emits[id].parts[i].type # Unit)
  PROVE  Inside(id, Layer(CamelCase(Emits[id].parts[i].tag), arg)) = Emits[id].parts[i].type
<1> DEFINE layer == Layer(CamelCase(Emits[id].parts[i].tag), arg)
<1>1. layer.key = FALSE /\ layer.arg = arg /\ layer.kind = FixPropCase(CamelCase(Emits[id].parts[i].tag))
  BY DEF Layer
<1>2. FixPropCase(CamelCase(Emits[id].parts[i].tag)) = Emits[id].parts[i].tag
  BY CaseAssumption
<1> HIDE DEF layer
<1>3. Inside(id, layer) = Emits[id].parts[i].type
  BY <1>1, <1>2, VariantFits
<1> QED
  BY <1>3 DEF layer

\* The layer that both call `Atom` is the variant of that tag.
LEMMA AtomFits ==
  ASSUME NEW id \in DOMAIN Emits, Emits[id].t = "enum", NEW i \in DOMAIN Emits[id].parts,
         Emits[id].parts[i].tag = "Atom", NEW arg, arg = (Emits[id].parts[i].type # Unit)
  PROVE  Inside(id, Atom(arg)) = Emits[id].parts[i].type
<1>1. Atom(arg).key = FALSE /\ Atom(arg).arg = arg /\ Atom(arg).kind = "Atom"
  BY DEF Atom
<1> QED
  BY <1>1, VariantFits

LEMMA KeyFits ==
  ASSUME NEW id \in DOMAIN Emits, Emits[id].t = "struct"
  PROVE  Inside(id, KeyLayer) = Projection(id)
<1>1. KeyLayer.key = TRUE
  BY DEF KeyLayer
<1> QED
  BY <1>1 DEF Inside

Props == {KeyLayer} \cup {Prop(prop) : prop \in Named}
AnyLayer ==
  {KeyLayer} \cup {Layer(prop, arg) : prop \in Named, arg \in BOOLEAN} \cup {Atom(arg) : arg \in BOOLEAN}

LEMMA CamelNamed ==
  ASSUME NEW id \in DOMAIN Emits, NEW v \in Variants(id)
  PROVE  CamelCase(v.tag) \in Named /\ Prop(CamelCase(v.tag)) \in Props
  BY DEF Named, Props

LEMMA LayerIsAny ==
  /\ KeyLayer \in AnyLayer
  /\ \A prop \in Named : \A arg \in BOOLEAN : Layer(prop, arg) \in AnyLayer
  /\ \A arg \in BOOLEAN : Atom(arg) \in AnyLayer
  BY DEF AnyLayer

LEMMA PropNotKey ==
  ASSUME NEW prop
  PROVE  Prop(prop) # KeyLayer /\ Prop(prop).kind = prop
<1>1. Prop(prop).key = FALSE /\ KeyLayer.key = TRUE /\ Prop(prop).kind = prop
  BY DEF Prop, KeyLayer
<1> QED
  BY <1>1

LEMMA LayersOfProps ==
  ASSUME NEW props \in Seq(Props)
  PROVE  /\ Len(props) \in Nat /\ Layers(props) \in Seq(AnyLayer) /\ Len(Layers(props)) = Len(props)
         /\ \A i \in 1 .. Len(props) :
              Layers(props)[i] = IF props[i] = KeyLayer THEN KeyLayer ELSE Layer(props[i].kind, TRUE)
<1> DEFINE n == Len(props)
           LayerOf(i) == IF props[i] = KeyLayer THEN KeyLayer ELSE Layer(props[i].kind, TRUE)
<1>1. n \in Nat /\ DOMAIN props = 1 .. n
  BY LenProperties
<1>2. \A i \in 1 .. n : LayerOf(i) \in AnyLayer
  <2> TAKE i \in 1 .. n
  <2>1. props[i] \in Props
    BY <1>1, ElementOfSeq
  <2>2. props[i] # KeyLayer => \E prop \in Named : props[i] = Prop(prop)
    BY <2>1 DEF Props
  <2>3. props[i] # KeyLayer => props[i].kind \in Named
    BY <2>2, PropNotKey
  <2>4. props[i] # KeyLayer => Layer(props[i].kind, TRUE) \in AnyLayer
    BY <2>3, TRUE \in BOOLEAN, LayerIsAny
  <2>5. KeyLayer \in AnyLayer
    BY LayerIsAny
  <2> QED
    BY <2>4, <2>5
<1>3. Layers(props) = [i \in 1 .. n |-> LayerOf(i)]
  BY <1>1 DEF Layers
<1> HIDE DEF LayerOf, n
<1>4. [i \in 1 .. n |-> LayerOf(i)] \in Seq(AnyLayer) /\ Len([i \in 1 .. n |-> LayerOf(i)]) = n
  BY <1>1, <1>2, IsASeq, LenProperties
<1> QED
  BY <1>1, <1>3, <1>4 DEF n, LayerOf

\* One more property.
LEMMA LayersAppend ==
  ASSUME NEW props \in Seq(Props), NEW p \in Props
  PROVE  /\ Append(props, p) \in Seq(Props) /\ Len(Append(props, p)) = Len(props) + 1
         /\ \A i \in 1 .. Len(props) : Layers(Append(props, p))[i] = Layers(props)[i]
         /\ Layers(Append(props, p))[Len(props) + 1] = IF p = KeyLayer THEN KeyLayer ELSE Layer(p.kind, TRUE)
<1>1. /\ Append(props, p) \in Seq(Props) /\ Len(Append(props, p)) = Len(props) + 1
      /\ \A i \in 1 .. Len(props) : Append(props, p)[i] = props[i]
      /\ Append(props, p)[Len(props) + 1] = p
  BY AppendProperties
<1>2. Len(props) \in Nat
  BY LayersOfProps
<1>3. \A i \in 1 .. Len(props) : i \in 1 .. Len(props) + 1
  BY <1>2
<1>4. Len(props) + 1 \in 1 .. Len(props) + 1
  BY <1>2
<1>5. \A i \in 1 .. Len(props) + 1 : Layers(Append(props, p))[i] =
        IF Append(props, p)[i] = KeyLayer THEN KeyLayer ELSE Layer(Append(props, p)[i].kind, TRUE)
  BY <1>1, LayersOfProps
<1> QED
  BY <1>1, <1>3, <1>4, <1>5, LayersOfProps

\* What a proxy that has come to `at` from `id` has kept.
Leads(props, id, at) == props \in Seq(Props) /\ Along(Layers(props), id)[Len(props)] = at

LEMMA LeadsFurther ==
  ASSUME NEW props, NEW id, NEW at, Leads(props, id, at), NEW p \in Props
  PROVE  Leads(Append(props, p), id, Inside(at, IF p = KeyLayer THEN KeyLayer ELSE Layer(p.kind, TRUE)))
<1> DEFINE longer == Append(props, p)
           n == Len(props)
<1>1. n \in Nat
  BY LayersOfProps DEF Leads
<1>2. props \in Seq(Props) /\ Along(Layers(props), id)[n] = at
  BY DEF Leads
<1>3. /\ longer \in Seq(Props) /\ Len(longer) = n + 1
      /\ Layers(longer)[n + 1] = IF p = KeyLayer THEN KeyLayer ELSE Layer(p.kind, TRUE)
  BY <1>2, LayersAppend
<1>4. \A i \in 1 .. n : Layers(longer)[i] = Layers(props)[i]
  BY <1>2, LayersAppend
<1> HIDE DEF longer, n
<1>5. Along(Layers(longer), id)[n] = Along(Layers(props), id)[n]
  <2> DEFINE v == Layers(longer)
             w == Layers(props)
  <2>1. \A i \in 1 .. n : v[i] = w[i]
    BY <1>4
  <2> HIDE DEF v, w
  <2>2. Along(v, id)[n] = Along(w, id)[n]
    BY <1>1, <2>1, AlongAgrees
  <2> QED
    BY <2>2 DEF v, w
<1>6. Along(Layers(longer), id)[n + 1] = Inside(at, Layers(longer)[n + 1])
  BY <1>1, <1>2, <1>5, AlongUnfolds
<1>7. Leads(longer, id, Along(Layers(longer), id)[n + 1])
  BY <1>3 DEF Leads
<1> QED
  BY <1>3, <1>6, <1>7 DEF longer

\* The delegate a user takes is what the proxy's properties lead to.
LEMMA DelegateLeads ==
  ASSUME NEW role \in Roles, NEW props, NEW id, NEW at, Leads(props, id, at), Builds(role, at),
         NEW i \in Delegates(role, at), NEW entry, entry = Delegate(Emits[at].parts[i]),
         entry.next \in DOMAIN Emits
  PROVE  Leads(props \o (IF entry.t = "key" THEN <<Prop(entry.prop), KeyLayer>> ELSE <<Prop(entry.prop)>>),
               id, entry.next)
<1> DEFINE v == Emits[at].parts[i]
           prop == CamelCase(v.tag)
           named == Append(props, Prop(prop))
<1>1. at \in DOMAIN Emits /\ Emits[at].t = "enum"
  BY DEF Builds
<1>2. i \in DOMAIN Emits[at].parts /\ v \in Variants(at)
  BY <1>1, DelegatesAreParts, EmitParts
<1>3. prop \in Named /\ Prop(prop) \in Props /\ Prop(prop) # KeyLayer /\ Prop(prop).kind = prop
  BY <1>1, <1>2, CamelNamed, PropNotKey
<1>4. props \in Seq(Props)
  BY DEF Leads
<1>5. v.type \in DOMAIN Emits => Leads(named, id, v.type)
  <2> SUFFICES ASSUME v.type \in DOMAIN Emits PROVE Leads(named, id, v.type)
    OBVIOUS
  <2>1. v.type # Unit
    BY PrototypesAssumption
  <2>2. Inside(at, Layer(prop, TRUE)) = v.type
    BY <1>1, <1>2, <2>1, PropertyFits
  <2>3. Leads(named, id, Inside(at, IF Prop(prop) = KeyLayer THEN KeyLayer ELSE Layer(Prop(prop).kind, TRUE)))
    BY <1>3, LeadsFurther
  <2> HIDE DEF named, prop, v
  <2> QED
    BY <1>3, <2>2, <2>3
<1>6. CASE v.type \in MetadataKeys
  <2>1. entry = Entry("key", v.tag, Projection(v.type))
    BY <1>6 DEF Delegate
  <2>2. entry.t = "key" /\ entry.prop = prop /\ entry.next = Projection(v.type)
    BY <2>1 DEF Entry
  <2>3. v.type \in DOMAIN Emits /\ Emits[v.type].t = "struct"
    BY <1>6, PrototypesAssumption DEF Builds
  <2>4. KeyLayer \in Props /\ named \in Seq(Props)
    BY <1>5, <2>3 DEF Props, Leads
  <2>5. Leads(Append(named, KeyLayer), id, Projection(v.type))
    <3>1. Leads(named, id, v.type) /\ Inside(v.type, KeyLayer) = Projection(v.type)
      BY <1>5, <2>3, KeyFits
    <3>2. Leads(Append(named, KeyLayer), id,
                Inside(v.type, IF KeyLayer = KeyLayer THEN KeyLayer ELSE Layer(KeyLayer.kind, TRUE)))
      BY <2>4, <3>1, LeadsFurther
    <3> HIDE DEF named, v
    <3> QED
      BY <3>1, <3>2
  <2>6. props \o <<Prop(prop), KeyLayer>> = Append(named, KeyLayer)
    BY <1>3, <1>4, <2>4
  <2> HIDE DEF named, prop, v
  <2> QED
    BY <2>2, <2>5, <2>6
<1>7. CASE v.type \notin MetadataKeys
  <2>1. entry = Entry("nested", v.tag, v.type)
    BY <1>7 DEF Delegate
  <2>2. entry.t = "nested" /\ entry.prop = prop /\ entry.next = v.type
    BY <2>1 DEF Entry
  <2>3. props \o <<Prop(prop)>> = named
    BY <1>3, <1>4
  <2> HIDE DEF named, prop, v
  <2> QED
    BY <1>5, <2>2, <2>3
<1> QED
  BY <1>6, <1>7

\* A selector's value ends in the atom of what is selected.
LEMMA SelectorFits ==
  ASSUME NEW props, NEW id, NEW at, Leads(props, id, at), Builds("selector", at)
  PROVE  /\ Inhabits(SelectorValue(props), id)
         /\ Along(SelectorValue(props), id)[Len(SelectorValue(props)) - 1] = at
<1> DEFINE layers == Layers(props)
           value == SelectorValue(props)
           n == Len(props)
<1>1. props \in Seq(Props)
  BY DEF Leads
<1>2. n \in Nat
  BY <1>1, LayersOfProps
<1>3. layers \in Seq(AnyLayer) /\ Len(layers) = n
  BY <1>1, LayersOfProps
<1>4. Along(layers, id)[n] = at
  BY DEF Leads
<1>5. Atom(FALSE) \in AnyLayer
  BY FALSE \in BOOLEAN, LayerIsAny
<1>6. value = Append(layers, Atom(FALSE))
  BY DEF SelectorValue
<1> HIDE DEF layers, value, n
<1>7. Len(value) = n + 1 /\ value # <<>> /\ value[n + 1] = Atom(FALSE)
  BY <1>2, <1>3, <1>5, <1>6, AppendProperties
<1>8. \A i \in 1 .. n : value[i] = layers[i]
  BY <1>2, <1>3, <1>5, <1>6, AppendProperties
<1>9. Along(value, id)[n] = at
  BY <1>2, <1>4, <1>8, AlongAgrees
<1>10. Inside(at, Atom(FALSE)) = Unit
  <2>1. /\ at \in DOMAIN Emits /\ Emits[at].t = "enum" /\ Emits[at].parts # <<>>
        /\ Emits[at].parts[1] = [tag |-> "Atom", type |-> Unit]
    BY DEF Builds
  <2>2. 1 \in DOMAIN Emits[at].parts
    BY <2>1, EmitParts, EmptySeq
  <2>3. Emits[at].parts[1].tag = "Atom" /\ Emits[at].parts[1].type = Unit
    BY <2>1
  <2>4. Inside(at, Atom(FALSE)) = Emits[at].parts[1].type
    BY <2>1, <2>2, <2>3, AtomFits
  <2> QED
    BY <2>3, <2>4
<1>11. Along(value, id)[n + 1] = Inside(Along(value, id)[n], value[n + 1])
  BY <1>2, AlongUnfolds
<1>12. Unit \notin DOMAIN Emits \cup {""}
  BY PrototypesAssumption DEF Unit
<1>13. Len(value) - 1 = n
  BY <1>2, <1>7
<1>14. Inhabits(value, id) /\ Along(value, id)[Len(value) - 1] = at
  BY <1>7, <1>9, <1>10, <1>11, <1>12, <1>13 DEF Inhabits
<1> QED
  BY <1>14 DEF value

\* A predicate's value ends in the atom of what is tested, and the test.
LEMMA PredicateFits ==
  ASSUME NEW props, NEW id, NEW at, Leads(props, id, at), Builds("predicate", at),
         NEW entry \in Tests(at)
  PROVE  /\ Inhabits(PredicateValue(Append(props, Prop(entry.prop)), entry.t = "testValue"), id)
         /\ PredicateValue(Append(props, Prop(entry.prop)), entry.t = "testValue") # PASS
<1> DEFINE arg == entry.t = "testValue"
           layers == Layers(props)
           n == Len(props)
           longer == Append(props, Prop(entry.prop))
           value == PredicateValue(longer, arg)
           atom == Emits[at].parts[1].type
<1>1. props \in Seq(Props)
  BY DEF Leads
<1>2. n \in Nat
  BY <1>1, LayersOfProps
<1>3. layers \in Seq(AnyLayer) /\ Len(layers) = n
  BY <1>1, LayersOfProps
<1>4. Along(layers, id)[n] = at
  BY DEF Leads
<1>5. /\ at \in DOMAIN Emits /\ Emits[at].t = "enum" /\ Emits[at].parts # <<>>
      /\ Emits[at].parts[1].tag = "Atom" /\ atom \in DOMAIN Emits /\ Emits[atom].t = "enum"
  BY DEF Builds, Tests
<1>6. 1 \in DOMAIN Emits[at].parts /\ Emits[at].parts[1] = [tag |-> "Atom", type |-> atom]
  <2>1. 1 \in DOMAIN Emits[at].parts
    BY <1>5, EmitParts, EmptySeq
  <2>2. Emits[at].parts[1] \in [tag : STRING, type : STRING]
    BY <1>5, <2>1, EmitParts
  <2> QED
    BY <1>5, <2>1, <2>2
<1>7. PICK test \in Variants(atom) :
        entry = Entry(IF test.type = Unit THEN "test" ELSE "testValue", test.tag, "final")
  BY <1>5 DEF Tests
<1>8. PICK j \in DOMAIN Emits[atom].parts : test = Emits[atom].parts[j]
  BY <1>5, EmitParts
<1>9. entry.prop = CamelCase(test.tag) /\ arg = (test.type # Unit) /\ arg \in BOOLEAN
  BY <1>7 DEF Entry
<1>11. Prop(entry.prop) \in Props /\ Prop(entry.prop).kind = entry.prop /\ entry.prop \in Named
  BY <1>5, <1>7, <1>9, CamelNamed, PropNotKey
<1>12. /\ Len(longer) = n + 1 /\ longer[n + 1] = Prop(entry.prop)
       /\ SubSeq(longer, 1, n) = props
  BY <1>1, <1>2, <1>11
<1>13. (n + 1) - 1 = n
  BY <1>2
<1>14. value = Layers(SubSeq(longer, 1, Len(longer) - 1)) \o <<Atom(TRUE), Layer(longer[Len(longer)].kind, arg)>>
  BY DEF PredicateValue
<1>15. value = layers \o <<Atom(TRUE), Layer(entry.prop, arg)>>
  <2> HIDE DEF arg, n, longer, value
  <2> QED
    BY <1>11, <1>12, <1>13, <1>14
<1> HIDE DEF arg, layers, n, atom, longer, value
<1>16. Atom(TRUE) \in AnyLayer /\ Layer(entry.prop, arg) \in AnyLayer
  BY <1>9, <1>11, TRUE \in BOOLEAN, LayerIsAny
<1> DEFINE two == <<Atom(TRUE), Layer(entry.prop, arg)>>
<1>17. two \in Seq(AnyLayer) /\ Len(two) = 2 /\ two[1] = Atom(TRUE) /\ two[2] = Layer(entry.prop, arg)
  <2> DEFINE x == Atom(TRUE)
             y == Layer(entry.prop, arg)
  <2>1. x \in AnyLayer /\ y \in AnyLayer
    BY <1>16
  <2> HIDE DEF x, y
  <2>2. <<x, y>> \in Seq(AnyLayer) /\ Len(<<x, y>>) = 2 /\ <<x, y>>[1] = x /\ <<x, y>>[2] = y
    BY <2>1
  <2>3. two = <<x, y>>
    BY DEF x, y
  <2> QED
    BY <2>2, <2>3 DEF x, y
<1> HIDE DEF two
<1>18. Len(value) = n + 2 /\ \A i \in 1 .. n + 2 : value[i] = IF i <= n THEN layers[i] ELSE two[i - n]
  <2>1. /\ layers \o two \in Seq(AnyLayer) /\ Len(layers \o two) = Len(layers) + Len(two)
        /\ \A i \in 1 .. Len(layers) + Len(two) :
             (layers \o two)[i] = IF i <= Len(layers) THEN layers[i] ELSE two[i - Len(layers)]
    BY <1>3, <1>17, ConcatProperties
  <2>2. value = layers \o two
    BY <1>15 DEF two
  <2> QED
    BY <1>3, <1>17, <2>1, <2>2
<1>19. value[n + 1] = Atom(TRUE) /\ value[n + 2] = Layer(entry.prop, arg)
  <2>1. value[n + 1] = two[1] /\ value[n + 2] = two[2]
    BY <1>2, <1>18
  <2> QED
    BY <1>17, <2>1
<1>20. value # <<>>
  BY <1>2, <1>18
<1>21. \A i \in 1 .. n : value[i] = layers[i]
  BY <1>2, <1>18
<1>22. Along(value, id)[n] = at
  BY <1>2, <1>4, <1>21, AlongAgrees
<1>23. Inside(at, Atom(TRUE)) = atom
  <2>1. atom # Unit /\ Emits[at].parts[1].tag = "Atom" /\ Emits[at].parts[1].type = atom
    BY <1>5, PrototypesAssumption DEF atom
  <2>2. Inside(at, Atom(TRUE)) = Emits[at].parts[1].type
    BY <1>5, <1>6, <2>1, AtomFits
  <2> QED
    BY <2>1, <2>2
<1>24. Inside(atom, Layer(entry.prop, arg)) = test.type
  <2>1. Inside(atom, Layer(CamelCase(Emits[atom].parts[j].tag), arg)) = Emits[atom].parts[j].type
    BY <1>5, <1>8, <1>9, PropertyFits
  <2> QED
    BY <1>8, <1>9, <2>1
<1>25. test.type \notin DOMAIN Emits \cup {""}
  BY <1>5, <1>6, <1>8, PrototypesAssumption
<1>26. Along(value, id)[n + 1] = atom
  <2>1. Along(value, id)[n + 1] = Inside(Along(value, id)[n], value[n + 1])
    BY <1>2, AlongUnfolds
  <2> QED
    BY <1>19, <1>22, <1>23, <2>1
<1>27. Along(value, id)[n + 2] = test.type
  <2>1. n + 1 \in Nat
    BY <1>2
  <2>2. (n + 1) + 1 = n + 2
    BY <1>2
  <2>3. Along(value, id)[(n + 1) + 1] = Inside(Along(value, id)[n + 1], value[(n + 1) + 1])
    BY <2>1, AlongUnfolds
  <2> QED
    BY <1>19, <1>24, <1>26, <2>2, <2>3
<1>28. Len(value) = n + 2
  BY <1>18
<1>29. Inhabits(value, id) /\ value # PASS
  BY <1>20, <1>25, <1>27, <1>28 DEF Inhabits, PASS
<1> QED
  BY <1>29 DEF value, longer, arg

-----------------------------------------------------------------------------
(* The table of outputs                                                      *)

LEMMA OutputOfPosition ==
  ASSUME IdsDistinct, NEW query \in DOMAIN Queries, NEW pos \in Positions(query)
  PROVE  /\ SelectorId(pos.chain) \in DOMAIN OutputsOf(query)
         /\ OutputsOf(query)[SelectorId(pos.chain)] = Output(pos.at)
<1> DEFINE Ids == {SelectorId(p.chain) : p \in Positions(query)}
           Same(id) == {p \in Positions(query) : SelectorId(p.chain) = id}
           Latest(id) == CHOOSE p \in Same(id) : \A other \in Same(id) \ {p} : Precedes(other.path, p.path)
           id == SelectorId(pos.chain)
<1>1. OutputsOf(query) = [i \in Ids |-> Output(Latest(i).at)]
  BY DEF OutputsOf
<1>2. id \in Ids
  OBVIOUS
<1>3. Same(id) = {pos}
  <2>1. \A p \in Positions(query) : SelectorId(p.chain) = id => p = pos
    BY DEF IdsDistinct
  <2> QED
    BY <2>1
<1>4. Latest(id) = pos
  <2> HIDE DEF Same, id
  <2>1. Latest(id) = CHOOSE p \in {pos} : \A other \in {pos} \ {p} : Precedes(other.path, p.path)
    BY <1>3
  <2>2. \E p \in {pos} : \A other \in {pos} \ {p} : Precedes(other.path, p.path)
    OBVIOUS
  <2>3. (CHOOSE p \in {pos} : \A other \in {pos} \ {p} : Precedes(other.path, p.path)) \in {pos}
    BY <2>2
  <2> QED
    BY <2>1, <2>3
<1> HIDE DEF Ids, Latest, id
<1>5. id \in DOMAIN OutputsOf(query) /\ OutputsOf(query)[id] = Output(pos.at)
  BY <1>1, <1>2, <1>4
<1> QED
  BY <1>5 DEF id

LEMMA OutputOnTree ==
  ASSUME IdsDistinct, Generates, NEW query \in DOMAIN Queries, NEW at, NEW chain,
         OnTree(query, "selector", at, chain)
  PROVE  SelectorIdToOutput(SelectorId(chain)) = Output(at)
<1>1. PICK n \in Nat : \E pos \in Tree(query, "selector")[n] : pos.at = at /\ pos.chain = chain
  BY DEF OnTree
<1>2. PICK pos \in Tree(query, "selector")[n] : pos.at = at /\ pos.chain = chain
  BY <1>1
<1>3. pos \in Positions(query)
  <2>1. "selector" \in Roles
    BY DEF Roles
  <2>2. n \in 0 .. Depth
    BY <1>2, <2>1, TreeEnds DEF Generates
  <2> QED
    BY <1>2, <2>2 DEF Positions
<1> DEFINE id == SelectorId(chain)
           first == CHOOSE q \in DOMAIN Queries : id \in DOMAIN OutputsOf(q)
<1>4. id \in DOMAIN OutputsOf(query) /\ OutputsOf(query)[id] = Output(at)
  BY <1>2, <1>3, OutputOfPosition
<1>5. first \in DOMAIN Queries /\ id \in DOMAIN OutputsOf(first)
  <2> HIDE DEF id
  <2>1. \E q \in DOMAIN Queries : id \in DOMAIN OutputsOf(q)
    BY <1>4
  <2> QED
    BY <2>1
<1>6. SelectorIdToOutput(id) = OutputsOf(first)[id]
  BY DEF SelectorIdToOutput
<1>7. \A p, q \in DOMAIN Queries :
        \A i \in DOMAIN OutputsOf(p) \cap DOMAIN OutputsOf(q) : OutputsOf(p)[i] = OutputsOf(q)[i]
  BY DEF Generates
<1> HIDE DEF id, first
<1>8. SelectorIdToOutput(id) = Output(at)
  BY <1>4, <1>5, <1>6, <1>7
<1> QED
  BY <1>8 DEF id

-----------------------------------------------------------------------------
(* The invariant                                                             *)

BuilderShape ==
  builder \in [kind : {builder.kind}, payload : {builder.payload}, predicate : {builder.predicate},
               selector : {builder.selector}, output : {builder.output}]

\* There is a query only of generated types, and until then nothing in it.
Generated ==
  /\ builder.kind \in DOMAIN Queries => Generates
  /\ builder.kind \notin DOMAIN Queries =>
       builder.kind \in {"none", "bad arguments"} /\ builder.predicate = PASS /\ builder.selector = Default

\* The user is at a projection of the query's tree, and the proxy has kept
\* the properties that lead there from the query's projection.
ProxyFollows ==
  /\ proxy \in [role : {proxy.role}, at : {proxy.at}, chain : {proxy.chain}, props : {proxy.props}]
  /\ proxy # Idle =>
       /\ builder.kind \in DOMAIN Queries /\ proxy.role \in Roles
       /\ OnTree(builder.kind, proxy.role, proxy.at, proxy.chain)
       /\ Leads(proxy.props, Queries[builder.kind][proxy.role], proxy.at)

ValuesFit ==
  builder.kind \in DOMAIN Queries =>
    /\ ListMatches => builder.payload = Takes(builder.kind)
    /\ builder.predicate # PASS => Inhabits(builder.predicate, Query.predicate)
    /\ Inhabits(builder.selector, Query.selector)

IInv == BuilderShape /\ Generated /\ ProxyFollows /\ ValuesFit

LEMMA IdleRole ==
  ASSUME proxy = Idle
  PROVE  proxy.role \notin Roles
<1>1. proxy.role = "none"
  BY DEF Idle
<1> QED
  BY <1>1 DEF Roles

LEMMA EmptyLeads ==
  ASSUME NEW id
  PROVE  Leads(<<>>, id, id)
<1>1. <<>> \in Seq(Props) /\ Len(<<>>) = 0
  OBVIOUS
<1>2. Along(Layers(<<>>), id)[0] = id
  BY AlongUnfolds
<1> QED
  BY <1>1, <1>2 DEF Leads

LEMMA RootIsProjection ==
  ASSUME NEW query, NEW role
  PROVE  Root(query, role).at = Queries[query][role]
  BY DEF Root

\* The default selector selects the query's own type.
LEMMA DefaultFits ==
  ASSUME Generates, NEW query \in DOMAIN Queries
  PROVE  /\ Inhabits(Default, Queries[query].selector)
         /\ Along(Default, Queries[query].selector)[Len(Default) - 1] = Queries[query].selector
<1> DEFINE id == Queries[query]["selector"]
<1>1. OnTree(query, "selector", id, Root(query, "selector").chain)
  BY RootOnTree, RootIsProjection
<1>2. Builds("selector", id)
  BY <1>1, OnTreeBuilds DEF Roles
<1>3. Leads(<<>>, id, id)
  BY EmptyLeads
<1> HIDE DEF id
<1>4. /\ Inhabits(SelectorValue(<<>>), id)
      /\ Along(SelectorValue(<<>>), id)[Len(SelectorValue(<<>>)) - 1] = id
  BY <1>2, <1>3, SelectorFits
<1> QED
  BY <1>4 DEF id, Default

LEMMA InitIInv == Init => IInv
<1> SUFFICES ASSUME Init PROVE IInv
  OBVIOUS
<1>1. builder = [kind |-> "none", payload |-> FALSE, predicate |-> PASS, selector |-> Default, output |-> ""]
  BY DEF Init
<1>2. proxy = [role |-> "none", at |-> "", chain |-> <<>>, props |-> <<>>] /\ proxy = Idle
  BY DEF Init, Idle
<1>3. BuilderShape /\ builder.kind = "none" /\ builder.predicate = PASS /\ builder.selector = Default
  BY <1>1 DEF BuilderShape
<1>4. builder.kind \notin DOMAIN Queries
  BY <1>3, PrototypesAssumption
<1>5. Generated /\ ValuesFit
  BY <1>3, <1>4 DEF Generated, ValuesFit
<1>6. ProxyFollows
  BY <1>2 DEF ProxyFollows
<1> QED
  BY <1>3, <1>5, <1>6 DEF IInv

LEMMA FindPreserves ==
  ASSUME IInv, NEW query \in DOMAIN Queries, Find(query)
  PROVE  /\ IInv'
         /\ builder'.kind \in DOMAIN Queries =>
              /\ builder'.kind = query /\ builder'.selector = Default /\ Generates
              /\ builder'.output = Output(Queries[query].selector)
<1> DEFINE kind == IF Takes(query) /\ query \notin QUERIES_WITH_PAYLOAD THEN "bad arguments" ELSE query
           payload == query \in QUERIES_WITH_PAYLOAD
           output == Output(Queries[query].selector)
<1>1. /\ builder.kind = "none" /\ Generates
      /\ builder' = [builder EXCEPT !.kind = kind, !.payload = payload, !.output = output]
      /\ UNCHANGED proxy
  BY DEF Find
<1>2. builder.kind \notin DOMAIN Queries /\ "bad arguments" \notin DOMAIN Queries
  BY <1>1, PrototypesAssumption
<1>3. builder.predicate = PASS /\ builder.selector = Default /\ proxy = Idle
  BY <1>2 DEF IInv, Generated, ProxyFollows
<1>4. kind \in DOMAIN Queries => kind = query /\ (ListMatches => payload = Takes(query))
  <2>1. kind \in DOMAIN Queries => kind = query
    BY <1>2
  <2>2. ListMatches => payload = Takes(query)
    <3>1. ListMatches => (payload <=> Takes(query))
      BY DEF ListMatches
    <3>2. payload \in BOOLEAN /\ Takes(query) \in BOOLEAN
      BY DEF Takes
    <3> HIDE DEF payload
    <3> QED
      BY <3>1, <3>2
  <2> HIDE DEF kind, payload
  <2> QED
    BY <2>1, <2>2
<1>5. kind \notin DOMAIN Queries => kind = "bad arguments"
  OBVIOUS
<1> HIDE DEF kind, payload, output
<1>6. /\ builder' \in [kind : {builder'.kind}, payload : {builder'.payload}, predicate : {builder'.predicate},
                       selector : {builder'.selector}, output : {builder'.output}]
      /\ builder'.kind = kind /\ builder'.payload = payload /\ builder'.output = output
      /\ builder'.predicate = builder.predicate /\ builder'.selector = builder.selector
  BY <1>1 DEF IInv, BuilderShape
<1>7. BuilderShape'
  BY <1>6 DEF BuilderShape
<1>8. Generated'
  <2>1. Generates' <=> Generates
    BY DEF Generates
  <2> QED
    BY <1>1, <1>3, <1>5, <1>6 DEF Generated
<1>9. ProxyFollows'
  BY <1>1, <1>3 DEF IInv, ProxyFollows
<1>10. ValuesFit'
  <2>1. kind \in DOMAIN Queries => Inhabits(Default, Queries[kind].selector)
    BY <1>1, DefaultFits
  <2> QED
    BY <1>3, <1>4, <1>6, <2>1 DEF ValuesFit, Query
<1> QED
  BY <1>1, <1>3, <1>4, <1>6, <1>7, <1>8, <1>9, <1>10 DEF IInv, output

LEMMA OpenPreserves ==
  ASSUME IInv, NEW role \in Roles, Open(role)
  PROVE  IInv' /\ UNCHANGED builder
<1> DEFINE query == builder.kind
           root == Root(query, role)
<1>1. /\ query \in DOMAIN Queries /\ UNCHANGED builder
      /\ proxy' = [role |-> role, at |-> root.at, chain |-> root.chain, props |-> <<>>]
  BY DEF Open
<1>2. OnTree(query, role, root.at, root.chain)
  BY RootOnTree
<1>3. root.at = Queries[query][role]
  BY RootIsProjection
<1>4. Leads(<<>>, Queries[query][role], root.at)
  BY <1>3, EmptyLeads
<1> HIDE DEF root
<1>5. /\ proxy' \in [role : {proxy'.role}, at : {proxy'.at}, chain : {proxy'.chain}, props : {proxy'.props}]
      /\ proxy'.role = role /\ proxy'.at = root.at /\ proxy'.chain = root.chain /\ proxy'.props = <<>>
  BY <1>1
<1>6. ProxyFollows'
  BY <1>1, <1>2, <1>4, <1>5 DEF ProxyFollows, OnTree, Leads
<1>7. (BuilderShape /\ Generated /\ ValuesFit)'
  BY <1>1 DEF IInv, BuilderShape, Generated, ValuesFit, Query
<1> QED
  BY <1>1, <1>6, <1>7 DEF IInv

LEMMA StepPreserves ==
  ASSUME IInv, NEW entry, Step(entry)
  PROVE  IInv' /\ UNCHANGED builder
<1> DEFINE query == builder.kind
           role == proxy.role
           props == proxy.props \o (IF entry.t = "key" THEN <<Prop(entry.prop), KeyLayer>> ELSE <<Prop(entry.prop)>>)
           chain == Push(proxy.chain, entry)
<1>1. /\ proxy # Idle /\ entry \in Entries /\ entry.t \in {"nested", "key"} /\ UNCHANGED builder
      /\ proxy' = [proxy EXCEPT !.at = entry.next, !.chain = chain, !.props = props]
  BY DEF Step
<1>2. /\ query \in DOMAIN Queries /\ role \in Roles /\ Generates
      /\ OnTree(query, role, proxy.at, proxy.chain)
      /\ Leads(proxy.props, Queries[query][role], proxy.at)
  BY <1>1 DEF IInv, ProxyFollows, Generated
<1>3. PICK i \in Delegates(role, proxy.at) : entry = Delegate(Emits[proxy.at].parts[i])
  <2>1. entry \notin Tests(proxy.at)
    <3> SUFFICES ASSUME entry \in Tests(proxy.at) PROVE FALSE
      OBVIOUS
    <3>1. \E test \in Variants(Emits[proxy.at].parts[1].type) :
            entry = Entry(IF test.type = Unit THEN "test" ELSE "testValue", test.tag, "final")
      BY DEF Tests
    <3>2. entry.t \in {"test", "testValue"}
      BY <3>1 DEF Entry
    <3> QED
      BY <1>1, <3>2
  <2>2. entry \in {Delegate(Emits[proxy.at].parts[i]) : i \in Delegates(proxy.role, proxy.at)}
    BY <1>1, <2>1 DEF Entries
  <2> QED
    BY <2>2
<1>4. OnTree(query, role, entry.next, chain)
  <2>1. LET e == Delegate(Emits[proxy.at].parts[i]) IN OnTree(query, role, e.next, Push(proxy.chain, e))
    BY <1>2, <1>3, ChildOnTree
  <2> QED
    BY <1>3, <2>1
<1>5. entry.next \in DOMAIN Emits
  BY <1>2, <1>4, OnTreeBuilds DEF Builds
<1>6. Leads(props, Queries[query][role], entry.next)
  <2>1. Builds(role, proxy.at)
    BY <1>2, OnTreeBuilds
  <2> QED
    BY <1>2, <1>3, <1>5, <2>1, DelegateLeads
<1> HIDE DEF props, chain
<1>7. /\ proxy' \in [role : {proxy'.role}, at : {proxy'.at}, chain : {proxy'.chain}, props : {proxy'.props}]
      /\ proxy'.role = role /\ proxy'.at = entry.next /\ proxy'.chain = chain /\ proxy'.props = props
  BY <1>1 DEF IInv, ProxyFollows
<1>8. ProxyFollows'
  BY <1>1, <1>2, <1>4, <1>6, <1>7 DEF ProxyFollows, OnTree, Leads
<1>9. (BuilderShape /\ Generated /\ ValuesFit)'
  BY <1>1 DEF IInv, BuilderShape, Generated, ValuesFit, Query
<1> QED
  BY <1>1, <1>8, <1>9 DEF IInv

LEMMA SelectPreserves ==
  ASSUME IInv, Select
  PROVE  /\ IInv'
         /\ builder'.kind = builder.kind
         /\ builder'.output = SelectorIdToOutput(SelectorId(proxy.chain))
         /\ SelectedType' = proxy.at
         /\ builder.kind \in DOMAIN Queries /\ Generates
         /\ OnTree(builder.kind, "selector", proxy.at, proxy.chain)
<1> DEFINE query == builder.kind
           value == SelectorValue(proxy.props)
           output == SelectorIdToOutput(SelectorId(proxy.chain))
           id == Queries[query]["selector"]
<1>1. /\ proxy.role = "selector" /\ proxy' = Idle
      /\ builder' = [builder EXCEPT !.selector = value, !.output = output]
  BY DEF Select
<1>2. proxy # Idle
  BY <1>1, IdleRole DEF Roles
<1>3. /\ query \in DOMAIN Queries /\ Generates
      /\ OnTree(query, "selector", proxy.at, proxy.chain)
      /\ Leads(proxy.props, id, proxy.at)
  BY <1>1, <1>2 DEF IInv, ProxyFollows, Generated
<1>4. Inhabits(value, id) /\ Along(value, id)[Len(value) - 1] = proxy.at
  <2>1. Builds("selector", proxy.at)
    BY <1>3, OnTreeBuilds DEF Roles
  <2> HIDE DEF id
  <2> QED
    BY <1>3, <2>1, SelectorFits
<1>5. id = Queries[query].selector
  OBVIOUS
<1> HIDE DEF value, output, id
<1>6. /\ builder' \in [kind : {builder'.kind}, payload : {builder'.payload}, predicate : {builder'.predicate},
                       selector : {builder'.selector}, output : {builder'.output}]
      /\ builder'.kind = query /\ builder'.payload = builder.payload /\ builder'.output = output
      /\ builder'.predicate = builder.predicate /\ builder'.selector = value
  BY <1>1 DEF IInv, BuilderShape
<1>7. BuilderShape'
  BY <1>6 DEF BuilderShape
<1>8. Generated'
  BY <1>3, <1>6 DEF Generated
<1>9. ProxyFollows'
  BY <1>1 DEF ProxyFollows, Idle
<1>10. ValuesFit'
  BY <1>3, <1>4, <1>5, <1>6 DEF IInv, ValuesFit, Query
<1>11. SelectedType' = proxy.at
  BY <1>4, <1>5, <1>6 DEF SelectedType, Query
<1> QED
  BY <1>3, <1>6, <1>7, <1>8, <1>9, <1>10, <1>11 DEF IInv, output

LEMMA TestPreserves ==
  ASSUME IInv, NEW entry, Test(entry)
  PROVE  /\ IInv'
         /\ builder'.kind = builder.kind /\ builder'.selector = builder.selector
         /\ builder'.output = builder.output
<1> DEFINE query == builder.kind
           value == PredicateValue(Append(proxy.props, Prop(entry.prop)), entry.t = "testValue")
           id == Queries[query]["predicate"]
<1>1. /\ proxy.role = "predicate" /\ proxy' = Idle /\ entry \in Entries /\ entry.t \in {"test", "testValue"}
      /\ builder' = [builder EXCEPT !.predicate = value]
  BY DEF Test
<1>2. proxy # Idle
  BY <1>1, IdleRole DEF Roles
<1>3. /\ query \in DOMAIN Queries /\ Generates
      /\ OnTree(query, "predicate", proxy.at, proxy.chain)
      /\ Leads(proxy.props, id, proxy.at)
  BY <1>1, <1>2 DEF IInv, ProxyFollows, Generated
<1>4. entry \in Tests(proxy.at)
  <2>1. \A i \in Delegates(proxy.role, proxy.at) : entry # Delegate(Emits[proxy.at].parts[i])
    <3> TAKE i \in Delegates(proxy.role, proxy.at)
    <3>1. Delegate(Emits[proxy.at].parts[i]).t \in {"nested", "key"}
      BY DEF Delegate, Entry
    <3> QED
      BY <1>1, <3>1
  <2> QED
    BY <1>1, <2>1 DEF Entries
<1>5. Inhabits(value, id)
  <2>1. Builds("predicate", proxy.at)
    BY <1>3, OnTreeBuilds DEF Roles
  <2> HIDE DEF id
  <2> QED
    BY <1>3, <1>4, <2>1, PredicateFits
<1>6. id = Queries[query].predicate
  OBVIOUS
<1> HIDE DEF value, id
<1>7. /\ builder' \in [kind : {builder'.kind}, payload : {builder'.payload}, predicate : {builder'.predicate},
                       selector : {builder'.selector}, output : {builder'.output}]
      /\ builder'.kind = query /\ builder'.payload = builder.payload /\ builder'.output = builder.output
      /\ builder'.predicate = value /\ builder'.selector = builder.selector
  BY <1>1 DEF IInv, BuilderShape
<1>8. BuilderShape'
  BY <1>7 DEF BuilderShape
<1>9. Generated'
  BY <1>3, <1>7 DEF Generated
<1>10. ProxyFollows'
  BY <1>1 DEF ProxyFollows, Idle
<1>11. ValuesFit'
  BY <1>3, <1>5, <1>6, <1>7 DEF IInv, ValuesFit, Query
<1> QED
  BY <1>7, <1>8, <1>9, <1>10, <1>11 DEF IInv

LEMMA StutterPreserves ==
  ASSUME IInv, UNCHANGED vars
  PROVE  IInv'
<1>1. UNCHANGED builder /\ UNCHANGED proxy
  BY DEF vars
<1> QED
  BY <1>1 DEF IInv, BuilderShape, Generated, ProxyFollows, ValuesFit, Query

LEMMA NextCases ==
  ASSUME Next
  PROVE  \/ \E query \in DOMAIN Queries : Find(query)
         \/ \E role \in Roles : Open(role)
         \/ \E entry : Step(entry)
         \/ \E entry : Test(entry)
         \/ Select
  BY DEF Next, Roles

LEMMA Invariance == Spec => []IInv
<1>1. IInv /\ [Next]_vars => IInv'
  <2> SUFFICES ASSUME IInv, [Next]_vars PROVE IInv'
    OBVIOUS
  <2>1. CASE UNCHANGED vars
    BY <2>1, StutterPreserves
  <2>2. CASE Next
    BY <2>2, NextCases, FindPreserves, OpenPreserves, StepPreserves, TestPreserves, SelectPreserves
  <2> QED
    BY <2>1, <2>2
<1> QED
  BY <1>1, InitIInv, PTL DEF Spec

-----------------------------------------------------------------------------
(* What a user can build                                                     *)

ArgumentsAccepted == builder.kind # "bad arguments"

LEMMA Accepted ==
  ASSUME ListMatches
  PROVE  Spec => []ArgumentsAccepted
<1>1. Init => ArgumentsAccepted
  <2> SUFFICES ASSUME Init PROVE ArgumentsAccepted
    OBVIOUS
  <2>1. builder.kind = "none"
    BY DEF Init
  <2> QED
    BY <2>1 DEF ArgumentsAccepted
<1>2. IInv /\ ArgumentsAccepted /\ [Next]_vars => ArgumentsAccepted'
  <2> SUFFICES ASSUME IInv, ArgumentsAccepted, [Next]_vars PROVE ArgumentsAccepted'
    OBVIOUS
  <2>1. ASSUME NEW query \in DOMAIN Queries, Find(query) PROVE builder'.kind # "bad arguments"
    <3> DEFINE kind == IF Takes(query) /\ query \notin QUERIES_WITH_PAYLOAD THEN "bad arguments" ELSE query
               payload == query \in QUERIES_WITH_PAYLOAD
               output == Output(Queries[query].selector)
    <3>1. builder' = [builder EXCEPT !.kind = kind, !.payload = payload, !.output = output]
      BY <2>1 DEF Find
    <3>3. kind = query
      BY DEF ListMatches
    <3>4. query # "bad arguments"
      BY PrototypesAssumption
    <3> HIDE DEF kind, payload, output
    <3>5. builder'.kind = kind
      BY <3>1 DEF IInv, BuilderShape
    <3> QED
      BY <3>3, <3>4, <3>5
  <2>2. CASE UNCHANGED vars
    BY <2>2 DEF vars, ArgumentsAccepted
  <2>3. CASE Next
    BY <2>1, <2>3, NextCases, OpenPreserves, StepPreserves, TestPreserves, SelectPreserves DEF ArgumentsAccepted
  <2> QED
    BY <2>2, <2>3
<1> QED
  BY <1>1, <1>2, Invariance, PTL DEF Spec

\* Whatever schema the types are generated from: if the properties
\* give the tags back and QUERIES_WITH_PAYLOAD agrees with it, all a user can write against the types builds a value of
\* QueryBox, however deep the projections nest: the proxies, which know no
\* schema, put the path together as the types had it.
THEOREM QueriesAreValues ==
  ASSUME ListMatches
  PROVE  Spec => []BuildsQueryBox
<1>1. IInv /\ ArgumentsAccepted => BuildsQueryBox
  BY DEF IInv, ValuesFit, ArgumentsAccepted, BuildsQueryBox
<1> QED
  BY <1>1, Accepted, Invariance, PTL

\* If the ids tell the positions of each selector's tree apart, the type
\* the prototypes give a result is the type of what is selected, although it
\* is looked up in one table for all queries.
THEOREM OutputsAreSelected ==
  ASSUME IdsDistinct
  PROVE  Spec => []OutputIsSelected
<1>1. Init => OutputIsSelected
  <2> SUFFICES ASSUME Init PROVE OutputIsSelected
    OBVIOUS
  <2>1. builder.kind = "none"
    BY DEF Init
  <2> QED
    BY <2>1, PrototypesAssumption DEF OutputIsSelected
<1>2. IInv /\ OutputIsSelected /\ [Next]_vars => OutputIsSelected'
  <2> SUFFICES ASSUME IInv, OutputIsSelected, [Next]_vars PROVE OutputIsSelected'
    OBVIOUS
  <2>1. ASSUME NEW query \in DOMAIN Queries, Find(query) PROVE OutputIsSelected'
    <3>1. builder'.kind \in DOMAIN Queries =>
            /\ builder'.kind = query /\ builder'.selector = Default /\ Generates
            /\ builder'.output = Output(Queries[query].selector)
      BY <2>1, FindPreserves
    <3>2. builder'.kind \in DOMAIN Queries => SelectedType' = Queries[query].selector
      BY <3>1, DefaultFits DEF SelectedType, Query
    <3> QED
      BY <3>1, <3>2 DEF OutputIsSelected
  <2>2. CASE UNCHANGED builder
    BY <2>2 DEF OutputIsSelected, SelectedType, Query
  <2>3. CASE Select
    <3>1. /\ builder'.output = SelectorIdToOutput(SelectorId(proxy.chain))
          /\ SelectedType' = proxy.at
          /\ builder.kind \in DOMAIN Queries /\ Generates
          /\ OnTree(builder.kind, "selector", proxy.at, proxy.chain)
      BY <2>3, SelectPreserves
    <3>2. builder'.output = Output(proxy.at)
      BY <3>1, OutputOnTree
    <3>3. Output(SelectedType') = Output(SelectedType)'
      BY DEF Output
    <3> QED
      BY <3>1, <3>2, <3>3 DEF OutputIsSelected
  <2>4. ASSUME NEW entry, Test(entry) PROVE OutputIsSelected'
    <3>1. builder'.kind = builder.kind /\ builder'.selector = builder.selector /\ builder'.output = builder.output
      BY <2>4, TestPreserves
    <3> QED
      BY <3>1 DEF OutputIsSelected, SelectedType, Query
  <2>5. CASE UNCHANGED vars
    BY <2>2, <2>5 DEF vars
  <2>6. CASE Next
    BY <2>1, <2>2, <2>3, <2>4, <2>6, NextCases, OpenPreserves, StepPreserves
  <2> QED
    BY <2>5, <2>6
<1> QED
  BY <1>1, <1>2, Invariance, PTL DEF Spec
=============================================================================
