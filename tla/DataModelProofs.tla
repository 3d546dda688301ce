--------------------------- MODULE DataModelProofs ---------------------------
(***************************************************************************)
(* What leaves the program comes back: for every table of codecs, however  *)
(* they refer to one another, and for every value that fits one of them,   *)
(* decode gives what the value means and encode depends on nothing else.   *)
(* The argument is an induction on how deep codecs are nested: GoodCodec   *)
(* says of one codec what its users rely on, and a codec is good when      *)
(* those it looks up are.                                                  *)
(***************************************************************************)
EXTENDS DataModel, SequenceTheorems, FiniteSetTheorems, NaturalsInduction, TLAPS

-----------------------------------------------------------------------------
(* Induction, and what the recursive functions compute *)

\* Induction on a set instead of an operator.
LEMMA SetInduction ==
  ASSUME NEW S, 0 \in S, \A n \in Nat : n \in S => n + 1 \in S
  PROVE  \A n \in Nat : n \in S
<1> DEFINE T == {n \in Nat : n \notin S}
<1>1. SUFFICES ASSUME T # {} PROVE FALSE
  OBVIOUS
<1>2. PICK m \in T : \A k \in T : ~ (<<k, m>> \in OpToRel(<, Nat))
  <2> HIDE DEF T
  <2>1. T \subseteq Nat
    BY DEF T
  <2>2. QED
    BY <1>1, <2>1, NatLessThanWellFounded, WFMin, Zenon
<1>3. m # 0 /\ m - 1 \in Nat /\ m - 1 \in S
  <2>1. m # 0 /\ m - 1 \in Nat /\ m - 1 < m
    OBVIOUS
  <2>2. <<m - 1, m>> \in OpToRel(<, Nat)
    BY <2>1, Zenon DEF OpToRel
  <2>3. QED
    BY <2>1, <2>2, <1>2
<1>4. QED
  BY <1>3

LEMMA SeqFrom ==
  ASSUME NEW S, NEW n \in Nat, NEW f \in [1 .. n -> S]
  PROVE  f \in Seq(S) /\ Len(f) = n /\ DOMAIN f = 1 .. n
<1>1. f \in Seq(S)
  BY SeqDef
<1> QED
  BY <1>1

LEMMA ConcatThrice ==
  ASSUME NEW T
  PROVE  \A a, b, c \in Seq(T) : (a \o b) \o c = a \o (b \o c)
BY ConcatAssociative

\* The step of Built.
BuildOn(n, before) == [c \in DOMAIN Codecs |-> IF n = 0 THEN NeverCodec ELSE GenCodec(Codecs[c], before)]

LEMMA BuiltUnfolds ==
  /\ Built[0] = [c \in DOMAIN Codecs |-> NeverCodec]
  /\ \A n \in 1 .. Depth : Built[n] = [c \in DOMAIN Codecs |-> GenCodec(Codecs[c], Built[n - 1])]
<1> DEFINE Upto(g, n) == g = [i \in 0 .. n |-> BuildOn(i, g[i - 1])]
           S == {n \in Nat : \E g : Upto(g, n)}
<1>1. 0 \in S
  <2> DEFINE g == [i \in 0 .. 0 |-> [c \in DOMAIN Codecs |-> NeverCodec]]
  <2>1. \A i \in 0 .. 0 : g[i] = BuildOn(i, g[i - 1])
    BY DEF BuildOn
  <2>2. Upto(g, 0)
    BY <2>1
  <2> QED
    BY <2>2
<1>2. ASSUME NEW n \in Nat, n \in S PROVE n + 1 \in S
  <2>1. PICK g : Upto(g, n)
    BY <1>2
  <2> DEFINE h == [i \in 0 .. n + 1 |-> IF i = n + 1 THEN BuildOn(n + 1, g[n]) ELSE g[i]]
  <2>2. ASSUME NEW i \in 0 .. n + 1 PROVE h[i] = BuildOn(i, h[i - 1])
    <3>1. CASE i = n + 1
      BY <3>1, (n + 1) - 1 = n, n \in 0 .. n + 1, n # n + 1
    <3>2. CASE i # n + 1 /\ i # 0
      <4>1. i \in 0 .. n /\ i - 1 \in 0 .. n + 1 /\ i - 1 # n + 1
        BY <3>2
      <4> QED
        BY <4>1, <2>1
    <3>3. CASE i # n + 1 /\ i = 0
      <4>1. i \in 0 .. n /\ h[i] = g[i] /\ g[i] = BuildOn(i, g[i - 1])
        BY <3>3, <2>1
      <4> QED
        BY <4>1, <3>3 DEF BuildOn
    <3> QED
      BY <3>1, <3>2, <3>3
  <2>3. Upto(h, n + 1)
    BY <2>2
  <2> HIDE DEF Upto
  <2> QED
    BY <2>3
<1>3. \E g : Upto(g, Depth)
  <2> HIDE DEF S
  <2>1. \A n \in Nat : n \in S
    BY <1>1, <1>2, SetInduction
  <2> QED
    BY <2>1, DepthAssumption DEF S
<1>4. Built = [i \in 0 .. Depth |-> BuildOn(i, Built[i - 1])]
  BY <1>3 DEF Built, BuildOn
<1> DEFINE B == Built
<1>5. B = [i \in 0 .. Depth |-> BuildOn(i, B[i - 1])]
  BY <1>4
<1> HIDE DEF B
<1>6. \A i \in 0 .. Depth : B[i] = BuildOn(i, B[i - 1])
  BY <1>5
<1> QED
  BY <1>6, DepthAssumption DEF B, BuildOn

FlattenOn(seqs, i, before) == IF i = 1 THEN seqs[i] ELSE before \o seqs[i]

\* What the recursions of FlattenSeq, FromMask and DecodeAll compute.
LEMMA FlattenUnfolds ==
  ASSUME NEW seqs, Len(seqs) \in Nat, Len(seqs) # 0
  PROVE  \E f : /\ f = [i \in 1 .. Len(seqs) |-> FlattenOn(seqs, i, f[i - 1])]
               /\ FlattenSeq(seqs) = f[Len(seqs)]
<1> DEFINE Upto(g, n) == g = [i \in 1 .. n |-> FlattenOn(seqs, i, g[i - 1])]
           S == {n \in Nat : \E g : Upto(g, n)}
<1>1. 0 \in S
  <2> DEFINE g == [i \in 1 .. 0 |-> FlattenOn(seqs, i, <<>>)]
  <2>1. \A i \in 1 .. 0 : g[i] = FlattenOn(seqs, i, g[i - 1])
    BY DEF FlattenOn
  <2>2. Upto(g, 0)
    BY <2>1
  <2> HIDE DEF Upto
  <2> QED
    BY <2>2
<1>2. ASSUME NEW n \in Nat, n \in S PROVE n + 1 \in S
  <2>1. PICK g : Upto(g, n)
    BY <1>2
  <2> DEFINE h == [i \in 1 .. n + 1 |-> IF i = n + 1 THEN FlattenOn(seqs, n + 1, g[n]) ELSE g[i]]
  <2>2. ASSUME NEW i \in 1 .. n + 1 PROVE h[i] = FlattenOn(seqs, i, h[i - 1])
    <3>1. CASE i = n + 1 /\ i # 1
      BY <3>1, (n + 1) - 1 = n, n \in 1 .. n + 1, n # n + 1
    <3>2. CASE i # n + 1 /\ i # 1
      <4>1. i \in 1 .. n /\ i - 1 \in 1 .. n + 1 /\ i - 1 # n + 1
        BY <3>2
      <4> QED
        BY <4>1, <2>1
    <3>3. CASE i # n + 1 /\ i = 1
      <4>1. i \in 1 .. n /\ h[i] = g[i] /\ g[i] = FlattenOn(seqs, i, g[i - 1])
        BY <3>3, <2>1
      <4> QED
        BY <4>1, <3>3 DEF FlattenOn
    <3>4. CASE i = n + 1 /\ i = 1
      BY <3>4 DEF FlattenOn
    <3> QED
      BY <3>1, <3>2, <3>3, <3>4
  <2>3. Upto(h, n + 1)
    BY <2>2
  <2> HIDE DEF Upto
  <2> QED
    BY <2>3
<1>3. \E g : Upto(g, Len(seqs))
  <2> HIDE DEF S
  <2>1. \A n \in Nat : n \in S
    BY <1>1, <1>2, SetInduction
  <2> QED
    BY <2>1 DEF S
<1> DEFINE f == CHOOSE g : g = [i \in 1 .. Len(seqs) |-> FlattenOn(seqs, i, g[i - 1])]
<1>4. FlattenSeq(seqs) = f[Len(seqs)]
  BY DEF FlattenSeq, FlattenOn
<1>5. f = [i \in 1 .. Len(seqs) |-> FlattenOn(seqs, i, f[i - 1])]
  BY <1>3
<1> HIDE DEF f
<1> QED
  BY <1>4, <1>5

ClearOn(def, word, k, before) ==
  IF k = 0 THEN word
  ELSE IF Recognised(def.parts[k].mask, before) THEN before \ def.parts[k].mask ELSE before

LEMMA ClearUnfolds ==
  ASSUME NEW def, NEW word, Len(def.parts) \in Nat
  PROVE  \E left :
            /\ left = [k \in 0 .. Len(def.parts) |-> ClearOn(def, word, k, left[k - 1])]
            /\ FromMask(def, word) =
                 IF left[Len(def.parts)] = {}
                 THEN Flags({def.parts[i].name :
                               i \in {i \in DOMAIN def.parts : Recognised(def.parts[i].mask, left[i - 1])}})
                 ELSE Throw
<1> DEFINE Upto(g, n) == g = [i \in 0 .. n |-> ClearOn(def, word, i, g[i - 1])]
           S == {n \in Nat : \E g : Upto(g, n)}
<1>1. 0 \in S
  <2> DEFINE g == [i \in 0 .. 0 |-> ClearOn(def, word, i, <<>>)]
  <2>1. \A i \in 0 .. 0 : g[i] = ClearOn(def, word, i, g[i - 1])
    BY DEF ClearOn
  <2>2. Upto(g, 0)
    BY <2>1
  <2> HIDE DEF Upto
  <2> QED
    BY <2>2
<1>2. ASSUME NEW n \in Nat, n \in S PROVE n + 1 \in S
  <2>1. PICK g : Upto(g, n)
    BY <1>2
  <2> DEFINE h == [i \in 0 .. n + 1 |-> IF i = n + 1 THEN ClearOn(def, word, n + 1, g[n]) ELSE g[i]]
  <2>2. ASSUME NEW i \in 0 .. n + 1 PROVE h[i] = ClearOn(def, word, i, h[i - 1])
    <3>1. CASE i = n + 1 /\ i # 0
      BY <3>1, (n + 1) - 1 = n, n \in 0 .. n + 1, n # n + 1
    <3>2. CASE i # n + 1 /\ i # 0
      <4>1. i \in 0 .. n /\ i - 1 \in 0 .. n + 1 /\ i - 1 # n + 1
        BY <3>2
      <4> QED
        BY <4>1, <2>1
    <3>3. CASE i # n + 1 /\ i = 0
      <4>1. i \in 0 .. n /\ h[i] = g[i] /\ g[i] = ClearOn(def, word, i, g[i - 1])
        BY <3>3, <2>1
      <4> QED
        BY <4>1, <3>3 DEF ClearOn
    <3>4. CASE i = n + 1 /\ i = 0
      BY <3>4 DEF ClearOn
    <3> QED
      BY <3>1, <3>2, <3>3, <3>4
  <2>3. Upto(h, n + 1)
    BY <2>2
  <2> HIDE DEF Upto
  <2> QED
    BY <2>3
<1>3. \E g : Upto(g, Len(def.parts))
  <2> HIDE DEF S
  <2>1. \A n \in Nat : n \in S
    BY <1>1, <1>2, SetInduction
  <2> QED
    BY <2>1 DEF S
<1> DEFINE f == CHOOSE g : g = [k \in 0 .. Len(def.parts) |-> ClearOn(def, word, k, g[k - 1])]
<1>4. FromMask(def, word) =
        IF f[Len(def.parts)] = {}
        THEN Flags({def.parts[i].name : i \in {i \in DOMAIN def.parts : Recognised(def.parts[i].mask, f[i - 1])}})
        ELSE Throw
  BY DEF FromMask, ClearOn
<1>5. f = [k \in 0 .. Len(def.parts) |-> ClearOn(def, word, k, f[k - 1])]
  BY <1>3
<1> HIDE DEF f
<1> QED
  BY <1>4, <1>5

DecodeOn(codecs, bytes, inner, k, before) ==
  IF k = 0 THEN [vs |-> <<>>, rest |-> bytes]
  ELSE LET next == inner[codecs[k]].decode[before.rest]
       IN IF Len(before.vs) < k - 1 \/ next.v = Throw THEN before
          ELSE [vs |-> Append(before.vs, next.v), rest |-> next.rest]

Decodes(codecs, bytes, inner, d) == d = [k \in 0 .. Len(codecs) |-> DecodeOn(codecs, bytes, inner, k, d[k - 1])]

LEMMA DecodeUnfolds ==
  ASSUME NEW codecs, NEW bytes, NEW inner, Len(codecs) \in Nat
  PROVE  \E d : Decodes(codecs, bytes, inner, d) /\ DecodeAll(codecs, bytes, inner) = d[Len(codecs)]
<1> DEFINE Upto(g, n) == g = [i \in 0 .. n |-> DecodeOn(codecs, bytes, inner, i, g[i - 1])]
           S == {n \in Nat : \E g : Upto(g, n)}
<1>1. 0 \in S
  <2> DEFINE g == [i \in 0 .. 0 |-> [vs |-> <<>>, rest |-> bytes]]
  <2>1. \A i \in 0 .. 0 : g[i] = DecodeOn(codecs, bytes, inner, i, g[i - 1])
    BY DEF DecodeOn
  <2>2. Upto(g, 0)
    BY <2>1
  <2> HIDE DEF Upto
  <2> QED
    BY <2>2
<1>2. ASSUME NEW n \in Nat, n \in S PROVE n + 1 \in S
  <2>1. PICK g : Upto(g, n)
    BY <1>2
  <2> DEFINE h == [i \in 0 .. n + 1 |-> IF i = n + 1 THEN DecodeOn(codecs, bytes, inner, n + 1, g[n]) ELSE g[i]]
  <2>2. ASSUME NEW i \in 0 .. n + 1 PROVE h[i] = DecodeOn(codecs, bytes, inner, i, h[i - 1])
    <3>1. CASE i = n + 1 /\ i # 0
      BY <3>1, (n + 1) - 1 = n, n \in 0 .. n + 1, n # n + 1
    <3>2. CASE i # n + 1 /\ i # 0
      <4>1. i \in 0 .. n /\ i - 1 \in 0 .. n + 1 /\ i - 1 # n + 1
        BY <3>2
      <4> QED
        BY <4>1, <2>1
    <3>3. CASE i # n + 1 /\ i = 0
      <4>1. i \in 0 .. n /\ h[i] = g[i] /\ g[i] = DecodeOn(codecs, bytes, inner, i, g[i - 1])
        BY <3>3, <2>1
      <4> QED
        BY <4>1, <3>3 DEF DecodeOn
    <3>4. CASE i = n + 1 /\ i = 0
      BY <3>4 DEF DecodeOn
    <3> QED
      BY <3>1, <3>2, <3>3, <3>4
  <2>3. Upto(h, n + 1)
    BY <2>2
  <2> HIDE DEF Upto
  <2> QED
    BY <2>3
<1>3. \E g : Upto(g, Len(codecs))
  <2> HIDE DEF S
  <2>1. \A n \in Nat : n \in S
    BY <1>1, <1>2, SetInduction
  <2> QED
    BY <2>1 DEF S
<1> DEFINE f == CHOOSE g : g = [k \in 0 .. Len(codecs) |-> DecodeOn(codecs, bytes, inner, k, g[k - 1])]
<1>4. DecodeAll(codecs, bytes, inner) = f[Len(codecs)]
  BY DEF DecodeAll, DecodeOn
<1>5. Decodes(codecs, bytes, inner, f)
  BY <1>3 DEF Decodes
<1> HIDE DEF f
<1> QED
  BY <1>4, <1>5

-----------------------------------------------------------------------------
(* Sorting *)

RankIn(S, R, s) == Cardinality({r \in S : <<r, s>> \in R})

StrictOrder(S, R) ==
  /\ \A a \in S : <<a, a>> \notin R
  /\ \A a, b, c \in S : <<a, b>> \in R /\ <<b, c>> \in R => <<a, c>> \in R
  /\ \A a, b \in S : a # b => <<a, b>> \in R \/ <<b, a>> \in R

\* The more come before, the higher the rank.
LEMMA RankGrows ==
  ASSUME NEW S, IsFiniteSet(S), NEW R, StrictOrder(S, R), NEW a \in S, NEW b \in S, <<a, b>> \in R
  PROVE  RankIn(S, R, a) < RankIn(S, R, b)
<1> DEFINE A == {r \in S : <<r, a>> \in R}
           B == {r \in S : <<r, b>> \in R}
<1>1. A \subseteq B /\ a \in B /\ a \notin A /\ B \subseteq S
  BY DEF StrictOrder
<1>2. IsFiniteSet(B)
  BY <1>1, FS_Subset
<1> HIDE DEF A, B
<1>3. Cardinality(A) <= Cardinality(B) /\ Cardinality(A) # Cardinality(B) /\ IsFiniteSet(A)
  BY <1>1, <1>2, FS_Subset
<1>4. Cardinality(A) \in Nat /\ Cardinality(B) \in Nat
  BY <1>2, <1>3, FS_CardinalityType
<1> QED
  BY <1>3, <1>4 DEF A, B, RankIn

\* Every rank below the number of members is somebody's, and nobody else's.
LEMMA Ranks ==
  ASSUME NEW S, IsFiniteSet(S), NEW R, StrictOrder(S, R)
  PROVE  /\ \A a, b \in S : RankIn(S, R, a) = RankIn(S, R, b) => a = b
         /\ \A s \in S : RankIn(S, R, s) \in 0 .. Cardinality(S) - 1
         /\ \A k \in 0 .. Cardinality(S) - 1 : \E s \in S : RankIn(S, R, s) = k
<1>1. \A s \in S : RankIn(S, R, s) \in Nat /\ RankIn(S, R, s) < Cardinality(S)
  <2> SUFFICES ASSUME NEW s \in S PROVE RankIn(S, R, s) \in Nat /\ RankIn(S, R, s) < Cardinality(S)
    OBVIOUS
  <2> DEFINE A == {r \in S : <<r, s>> \in R}
  <2>1. A \subseteq S /\ A # S
    BY DEF StrictOrder
  <2> HIDE DEF A
  <2>2. IsFiniteSet(A) /\ Cardinality(A) <= Cardinality(S) /\ Cardinality(A) # Cardinality(S)
    BY <2>1, FS_Subset
  <2>3. Cardinality(A) \in Nat /\ Cardinality(S) \in Nat
    BY <2>2, FS_CardinalityType
  <2> QED
    BY <2>2, <2>3 DEF A, RankIn
<1>2. ASSUME NEW a \in S, NEW b \in S, RankIn(S, R, a) = RankIn(S, R, b), a # b PROVE FALSE
  <2>1. RankIn(S, R, a) < RankIn(S, R, b) \/ RankIn(S, R, b) < RankIn(S, R, a)
    BY <1>2, RankGrows DEF StrictOrder
  <2> QED
    BY <2>1, <1>1, <1>2
<1>3. Cardinality(S) \in Nat
  BY FS_CardinalityType
<1> DEFINE T == 0 .. Cardinality(S) - 1
           f == [s \in S |-> RankIn(S, R, s)]
<1>4. f \in Injection(S, T)
  BY <1>1, <1>2, <1>3 DEF Injection, IsInjective
<1>5. IsFiniteSet(T) /\ Cardinality(T) = Cardinality(S)
  BY <1>3, FS_Interval
<1>6. \A t \in T : \E s \in S : f[s] = t
  <2> HIDE DEF f, T
  <2>1. f \in Surjection(S, T)
    BY <1>4, <1>5, FS_Injection
  <2> QED
    BY <2>1 DEF Surjection
<1> QED
  BY <1>1, <1>2, <1>3, <1>6

\* What Ascending enumerates: every member, at the place of its rank.
LEMMA AscendingMembers ==
  ASSUME NEW S, IsFiniteSet(S), NEW R, StrictOrder(S, R)
  PROVE  /\ Cardinality(S) \in Nat
         /\ Ascending(S, R) \in [1 .. Cardinality(S) -> S]
         /\ \A k \in 1 .. Cardinality(S) : RankIn(S, R, Ascending(S, R)[k]) = k - 1
<1>1. Cardinality(S) \in Nat
  BY FS_CardinalityType
<1>2. ASSUME NEW k \in 1 .. Cardinality(S)
      PROVE  Ascending(S, R)[k] \in S /\ RankIn(S, R, Ascending(S, R)[k]) = k - 1
  <2>1. k - 1 \in 0 .. Cardinality(S) - 1
    BY <1>1
  <2>2. \E s \in S : RankIn(S, R, s) = k - 1
    BY <2>1, Ranks
  <2>3. Ascending(S, R)[k] = CHOOSE s \in S : RankIn(S, R, s) = k - 1
    BY DEF Ascending, RankIn
  <2> QED
    BY <2>2, <2>3
<1>3. Ascending(S, R) = [k \in 1 .. Cardinality(S) |-> Ascending(S, R)[k]]
  <2> DEFINE at(k) == CHOOSE s \in S : RankIn(S, R, s) = k - 1
  <2>1. Ascending(S, R) = [k \in 1 .. Cardinality(S) |-> at(k)]
    BY DEF Ascending, RankIn
  <2> HIDE DEF at
  <2> QED
    BY <2>1
<1> QED
  BY <1>1, <1>2, <1>3

\* A map that keeps the order takes one enumeration to the other.
LEMMA AscendingAlong ==
  ASSUME NEW S, IsFiniteSet(S), NEW R, StrictOrder(S, R), NEW T, NEW Q, StrictOrder(T, Q),
         NEW f \in Bijection(S, T), \A a, b \in S : <<a, b>> \in R <=> <<f[a], f[b]>> \in Q
  PROVE  /\ Cardinality(T) = Cardinality(S) /\ IsFiniteSet(T)
         /\ \A k \in 1 .. Cardinality(S) : Ascending(T, Q)[k] = f[Ascending(S, R)[k]]
<1>1. IsFiniteSet(T) /\ Cardinality(T) = Cardinality(S)
  BY FS_Bijection DEF ExistsBijection
<1>2. f \in [S -> T] /\ (\A a, b \in S : f[a] = f[b] => a = b) /\ (\A t \in T : \E s \in S : f[s] = t)
  BY DEF Bijection, Injection, Surjection, IsInjective
<1>3. ASSUME NEW s \in S PROVE RankIn(T, Q, f[s]) = RankIn(S, R, s)
  <2> DEFINE A == {r \in S : <<r, s>> \in R}
             B == {t \in T : <<t, f[s]>> \in Q}
             g == [r \in A |-> f[r]]
  <2>1. g \in Bijection(A, B)
    BY <1>2 DEF Bijection, Injection, Surjection, IsInjective
  <2>2. IsFiniteSet(A)
    BY FS_Subset
  <2> HIDE DEF A, B, g
  <2>3. Cardinality(B) = Cardinality(A)
    BY <2>1, <2>2, FS_Bijection DEF ExistsBijection
  <2> QED
    BY <2>3 DEF A, B, RankIn
<1>4. ASSUME NEW k \in 1 .. Cardinality(S) PROVE Ascending(T, Q)[k] = f[Ascending(S, R)[k]]
  <2>1. Ascending(S, R)[k] \in S /\ RankIn(S, R, Ascending(S, R)[k]) = k - 1
    BY AscendingMembers
  <2>2. Ascending(T, Q)[k] \in T /\ RankIn(T, Q, Ascending(T, Q)[k]) = k - 1
    BY <1>1, AscendingMembers
  <2>3. f[Ascending(S, R)[k]] \in T /\ RankIn(T, Q, f[Ascending(S, R)[k]]) = k - 1
    BY <2>1, <1>2, <1>3
  <2> QED
    BY <2>2, <2>3, <1>1, Ranks
<1> QED
  BY <1>1, <1>4

\* Before is a strict order of the keys.
LEMMA BeforeIrreflexive ==
  ASSUME NEW a \in Seq(Int)
  PROVE  ~ Before(a, a)
BY DEF Before

LEMMA BeforeTransitive ==
  ASSUME NEW a \in Seq(Int), NEW b \in Seq(Int), NEW c \in Seq(Int), Before(a, b), Before(b, c)
  PROVE  Before(a, c)
<1>1. PICK i \in DOMAIN b : (\A k \in 1 .. i - 1 : k \in DOMAIN a /\ a[k] = b[k]) /\ (i \in DOMAIN a => a[i] < b[i])
  BY DEF Before
<1>2. PICK j \in DOMAIN c : (\A k \in 1 .. j - 1 : k \in DOMAIN b /\ b[k] = c[k]) /\ (j \in DOMAIN b => b[j] < c[j])
  BY DEF Before
<1>3. /\ DOMAIN a = 1 .. Len(a) /\ Len(a) \in Nat /\ \A k \in DOMAIN a : a[k] \in Int
      /\ DOMAIN b = 1 .. Len(b) /\ Len(b) \in Nat /\ \A k \in DOMAIN b : b[k] \in Int
      /\ DOMAIN c = 1 .. Len(c) /\ Len(c) \in Nat /\ \A k \in DOMAIN c : c[k] \in Int
  OBVIOUS
<1>4. CASE i < j
  <2>1. i \in DOMAIN c /\ b[i] = c[i]
    <3>1. i \in Nat /\ j \in Nat /\ i # 0 /\ j <= Len(c)
      BY <1>3
    <3>2. i \in 1 .. j - 1 /\ i \in 1 .. Len(c)
      BY <3>1, <1>4, <1>3
    <3> QED
      BY <3>2, <1>2, <1>3
  <2>2. \A k \in 1 .. i - 1 : k \in DOMAIN a /\ a[k] = c[k]
    BY <1>1, <1>2, <1>3, <1>4
  <2> QED
    BY <2>1, <2>2, <1>1 DEF Before
<1>5. CASE i = j
  <2>1. i \in DOMAIN a => a[i] < c[i]
    BY <1>1, <1>2, <1>3, <1>5
  <2>2. \A k \in 1 .. i - 1 : k \in DOMAIN a /\ a[k] = c[k]
    BY <1>1, <1>2, <1>3, <1>5
  <2> QED
    BY <2>1, <2>2, <1>2, <1>5 DEF Before
<1>6. CASE j < i
  <2>1. j \in DOMAIN a /\ a[j] = b[j] /\ j \in DOMAIN b
    BY <1>1, <1>2, <1>3, <1>6
  <2>2. \A k \in 1 .. j - 1 : k \in DOMAIN a /\ a[k] = c[k]
    BY <1>1, <1>2, <1>3, <1>6
  <2> QED
    BY <2>1, <2>2, <1>2 DEF Before
<1> QED
  BY <1>3, <1>4, <1>5, <1>6

LEMMA BeforeTotal ==
  ASSUME NEW a \in Seq(Int), NEW b \in Seq(Int), a # b
  PROVE  Before(a, b) \/ Before(b, a)
<1>1. /\ DOMAIN a = 1 .. Len(a) /\ Len(a) \in Nat /\ \A k \in DOMAIN a : a[k] \in Int
      /\ DOMAIN b = 1 .. Len(b) /\ Len(b) \in Nat /\ \A k \in DOMAIN b : b[k] \in Int
  OBVIOUS
<1> DEFINE Same(i) == i \in DOMAIN a /\ i \in DOMAIN b /\ a[i] = b[i]
           T == {i \in Nat : i # 0 /\ ~ Same(i) /\ (i \in DOMAIN a \/ i \in DOMAIN b)}
<1>2. T # {}
  <2>1. SUFFICES ASSUME T = {} PROVE a = b
    OBVIOUS
  <2>2. \A i \in DOMAIN a : i \in DOMAIN b /\ a[i] = b[i]
    BY <2>1, <1>1
  <2>3. \A i \in DOMAIN b : i \in DOMAIN a
    BY <2>1, <1>1
  <2>4. Len(a) = Len(b)
    <3>1. Len(a) # 0 => Len(a) \in 1 .. Len(b)
      BY <2>2, <1>1
    <3>2. Len(b) # 0 => Len(b) \in 1 .. Len(a)
      BY <2>3, <1>1
    <3>3. Len(a) \in Nat /\ Len(b) \in Nat
      OBVIOUS
    <3>4. \A m, n \in Nat : (m # 0 => m \in 1 .. n) /\ (n # 0 => n \in 1 .. m) => m = n
      OBVIOUS
    <3> QED
      BY <3>1, <3>2, <3>3, <3>4
  <2> QED
    BY <2>2, <2>4, SeqEqual
<1>3. PICK i \in T : \A k \in T : ~ (<<k, i>> \in OpToRel(<, Nat))
  <2> HIDE DEF T
  <2>1. T \subseteq Nat
    BY DEF T
  <2> QED
    BY <1>2, <2>1, NatLessThanWellFounded, WFMin, Zenon
<1>4. ASSUME NEW k \in 1 .. i - 1 PROVE Same(k)
  <2>1. k \in Nat /\ k # 0 /\ k < i /\ i \in Nat
    OBVIOUS
  <2>2. <<k, i>> \in OpToRel(<, Nat)
    BY <2>1, Zenon DEF OpToRel
  <2>3. k \notin T
    BY <2>2, <1>3
  <2>4. k \in DOMAIN a \/ k \in DOMAIN b
    BY <2>1, <1>1
  <2> QED
    BY <2>1, <2>3, <2>4
<1>5. \A k \in 1 .. i - 1 : k \in DOMAIN a /\ k \in DOMAIN b /\ a[k] = b[k] /\ b[k] = a[k]
  BY <1>4
<1>6. CASE i \in DOMAIN b /\ (i \in DOMAIN a => a[i] < b[i])
  BY <1>5, <1>6 DEF Before
<1>7. CASE i \in DOMAIN a /\ (i \in DOMAIN b => b[i] < a[i])
  BY <1>5, <1>7 DEF Before
<1>8. (i \in DOMAIN b /\ (i \in DOMAIN a => a[i] < b[i])) \/ (i \in DOMAIN a /\ (i \in DOMAIN b => b[i] < a[i]))
  BY <1>1
<1> QED
  BY <1>6, <1>7, <1>8

LEMMA Latest ==
  ASSUME NEW n \in Nat, NEW S \in SUBSET (1 .. n), S # {}
  PROVE  \E m \in S : \A k \in S : k <= m
<1> DEFINE T == {n - i : i \in S}
<1>1. T # {} /\ T \subseteq Nat
  <2>1. \A i \in S : n - i \in Nat
    OBVIOUS
  <2>2. PICK i \in S : TRUE
    OBVIOUS
  <2>3. n - i \in T
    OBVIOUS
  <2> QED
    BY <2>1, <2>3
<1>2. PICK t \in T : \A u \in T : ~ (<<u, t>> \in OpToRel(<, Nat))
  <2> HIDE DEF T
  <2> QED
    BY <1>1, NatLessThanWellFounded, WFMin, Zenon
<1>3. PICK m \in S : t = n - m
  OBVIOUS
<1>4. ASSUME NEW k \in S, ~ (k <= m) PROVE FALSE
  <2>1. n - k \in T /\ n - k \in Nat /\ n - m \in Nat /\ n - k < n - m
    BY <1>4
  <2>2. <<n - k, t>> \in OpToRel(<, Nat)
    BY <2>1, <1>3, Zenon DEF OpToRel
  <2> QED
    BY <2>1, <2>2, <1>2
<1> QED
  BY <1>4

\* The greatest of a set is the one that is.
LEMMA MaxIs ==
  ASSUME NEW S \in SUBSET Nat, NEW m \in S, \A k \in S : k <= m
  PROVE  Max(S) = m
<1>1. \E x \in S : \A y \in S : x >= y
  OBVIOUS
<1>2. Max(S) \in S /\ \A y \in S : Max(S) >= y
  BY <1>1 DEF Max
<1>3. Max(S) \in Nat /\ m \in Nat /\ Max(S) <= m /\ Max(S) >= m
  BY <1>2
<1> QED
  BY <1>3

AscendingKeys(key) ==
  LET keys == {key[i] : i \in DOMAIN key} IN Ascending(keys, {p \in keys \X keys : Before(p[1], p[2])})

LastOf(key, k) == Max({i \in DOMAIN key : key[i] = AscendingKeys(key)[k]})

\* What the items of a set are sorted into: for each of the keys in ascending
\* order the last item that has it.
LEMMA SortedSetIs ==
  ASSUME NEW V, NEW items \in Seq(V), NEW key, key \in [DOMAIN items -> Seq(Int)]
  PROVE  LET at == AscendingKeys(key) IN
         \E n \in Nat :
           /\ DOMAIN at = 1 .. n
           /\ \A k \in 1 .. n : LastOf(key, k) \in DOMAIN items
           /\ ToSortedSet(items, key) \in Seq(V) /\ DOMAIN ToSortedSet(items, key) = 1 .. n
           /\ \A k \in 1 .. n : ToSortedSet(items, key)[k] = items[LastOf(key, k)]
<1> DEFINE places == {i \in DOMAIN items : \A j \in DOMAIN items : i < j => key[j] # key[i]}
           R == {p \in places \X places :
                   Before(key[p[1]], key[p[2]]) \/ (key[p[1]] = key[p[2]] /\ p[1] < p[2])}
           keys == {key[i] : i \in DOMAIN key}
           Q == {p \in keys \X keys : Before(p[1], p[2])}
           f == [i \in places |-> key[i]]
<1>1. Len(items) \in Nat /\ DOMAIN items = 1 .. Len(items) /\ DOMAIN key = DOMAIN items /\ \A i \in DOMAIN items : key[i] \in Seq(Int)
  OBVIOUS
<1>2. \A i, j \in places : key[i] = key[j] => i = j
  BY <1>1
<1>3. \A i, j \in places : <<i, j>> \in R <=> Before(key[i], key[j])
  BY <1>2, <1>1
<1>4. keys \subseteq Seq(Int) /\ \A a, b \in keys : <<a, b>> \in Q <=> Before(a, b)
  BY <1>1
<1>5. \A i \in places : key[i] \in keys /\ i \in DOMAIN items
  BY <1>1
<1>6. StrictOrder(keys, Q)
  <2> HIDE DEF keys, Q
  <2>1. \A a \in keys : <<a, a>> \notin Q
    BY <1>4, BeforeIrreflexive
  <2>2. \A a, b, c \in keys : <<a, b>> \in Q /\ <<b, c>> \in Q => <<a, c>> \in Q
    BY <1>4, BeforeTransitive
  <2>3. \A a, b \in keys : a # b => <<a, b>> \in Q \/ <<b, a>> \in Q
    BY <1>4, BeforeTotal
  <2> QED
    BY <2>1, <2>2, <2>3 DEF StrictOrder
<1>7. StrictOrder(places, R)
  <2> HIDE DEF places, R, keys, Q
  <2> QED
    BY <1>2, <1>3, <1>4, <1>5, <1>6 DEF StrictOrder
<1>8. IsFiniteSet(places)
  <2>1. IsFiniteSet(1 .. Len(items)) /\ places \subseteq 1 .. Len(items)
    BY <1>1, FS_Interval
  <2> QED
    BY <2>1, FS_Subset
<1>9. f \in Bijection(places, keys)
  <2>1. ASSUME NEW a \in keys PROVE \E i \in places : key[i] = a
    <3> DEFINE T == {i \in 1 .. Len(items) : key[i] = a}
    <3>1. T # {} /\ T \subseteq 1 .. Len(items)
      BY <1>1
    <3>2. PICK m \in T : \A k \in T : k <= m
      <4> HIDE DEF T
      <4> QED
        BY <3>1, <1>1, Latest
    <3>3. m \in places
      BY <3>2, <1>1
    <3> QED
      BY <3>3
  <2>2. f \in [places -> keys] /\ \A i \in places : f[i] = key[i]
    BY <1>5
  <2> HIDE DEF f, places, keys
  <2> QED
    BY <2>1, <2>2, <1>2 DEF Bijection, Injection, Surjection, IsInjective
<1>10. \A i, j \in places : <<i, j>> \in R <=> <<f[i], f[j]>> \in Q
  <2>1. \A i \in places : f[i] = key[i]
    OBVIOUS
  <2> HIDE DEF places, R, Q, keys, f
  <2> QED
    BY <2>1, <1>3, <1>4, <1>5
<1> DEFINE n == Cardinality(places)
           left == Ascending(places, R)
           at == Ascending(keys, Q)
<1>11. Cardinality(keys) = n /\ IsFiniteSet(keys) /\ \A k \in 1 .. n : at[k] = f[left[k]]
  <2> HIDE DEF places, R, Q, keys, f
  <2> QED
    BY <1>6, <1>7, <1>8, <1>9, <1>10, AscendingAlong
<1>12. n \in Nat /\ left \in [1 .. n -> places]
  <2> HIDE DEF places, R
  <2> QED
    BY <1>7, <1>8, AscendingMembers
<1>13. DOMAIN at = 1 .. n
  <2> HIDE DEF keys, Q
  <2> QED
    BY <1>6, <1>11, AscendingMembers
<1>14. ASSUME NEW k \in 1 .. n PROVE Max({i \in DOMAIN key : key[i] = at[k]}) = left[k]
  <2> DEFINE m == left[k]
  <2>1. m \in places
    BY <1>12
  <2>2. at[k] = key[m]
    <3> HIDE DEF left, at, places
    <3> QED
      BY <1>11, <2>1
  <2> HIDE DEF left, at, m
  <2>3. m \in DOMAIN key /\ \A j \in DOMAIN key : m < j => key[j] # key[m]
    BY <2>1, <1>1
  <2> DEFINE T == {i \in DOMAIN key : key[i] = at[k]}
  <2>4. T \subseteq Nat /\ m \in T /\ \A j \in T : j <= m
    BY <2>2, <2>3, <1>1
  <2> HIDE DEF T
  <2>5. Max(T) = m
    BY <2>4, MaxIs
  <2> QED
    BY <2>5 DEF T, m
<1>15. ToSortedSet(items, key) = [k \in 1 .. n |-> items[left[k]]]
  <2>1. ToSortedSet(items, key) = [k \in DOMAIN left |-> items[left[k]]]
    BY DEF ToSortedSet, InOrder
  <2>2. DOMAIN left = 1 .. n
    <3> HIDE DEF left
    <3> QED
      BY <1>12
  <2> HIDE DEF left, n
  <2> QED
    BY <2>1, <2>2
<1>16. AscendingKeys(key) = at
  BY DEF AscendingKeys
<1>17. \A k \in 1 .. n : left[k] \in DOMAIN items
  <2> HIDE DEF left, n
  <2> QED
    BY <1>12
<1> HIDE DEF n, at, left
<1>18. \A k \in 1 .. n : LastOf(key, k) = left[k]
  BY <1>14, <1>16 DEF LastOf
<1>19. ToSortedSet(items, key) = [k \in 1 .. n |-> items[LastOf(key, k)]]
  BY <1>15, <1>18
<1>20. n \in Nat /\ DOMAIN AscendingKeys(key) = 1 .. n /\ \A k \in 1 .. n : LastOf(key, k) \in DOMAIN items
  BY <1>12, <1>13, <1>16, <1>17, <1>18
<1>21. ToSortedSet(items, key) \in Seq(V) /\ DOMAIN ToSortedSet(items, key) = 1 .. n
  <2>1. ToSortedSet(items, key) \in [1 .. n -> V]
    BY <1>19, <1>20
  <2> QED
    BY <2>1, <1>20, SeqFrom
<1> QED
  BY <1>19, <1>20, <1>21

-----------------------------------------------------------------------------
(* Flags *)

LEMMA MaskRead ==
  ASSUME NEW def, Len(def.parts) \in Nat, DOMAIN def.parts = 1 .. Len(def.parts), Separable(def),
         \A i, j \in DOMAIN def.parts : i # j => def.parts[i].name # def.parts[j].name,
         NEW flags, flags \subseteq {def.parts[i].name : i \in DOMAIN def.parts}
  PROVE  FromMask(def, ToMask(def, flags)) = Flags(flags)
<1> DEFINE n == Len(def.parts)
           mask(i) == def.parts[i].mask
           name(i) == def.parts[i].name
           word == ToMask(def, flags)
           From(k) == UNION {mask(i) : i \in {j \in 1 .. n : k < j /\ name(j) \in flags}}
<1>1. PICK left :
        /\ left = [k \in 0 .. n |-> ClearOn(def, word, k, left[k - 1])]
        /\ FromMask(def, word) =
             IF left[n] = {}
             THEN Flags({name(i) : i \in {i \in DOMAIN def.parts : Recognised(mask(i), left[i - 1])}})
             ELSE Throw
  BY ClearUnfolds, Zenon
<1>2. /\ \A i \in 1 .. n : mask(i) # {} /\ SignBit \notin mask(i)
      /\ \A i, j \in 1 .. n : i # j => mask(i) \cap mask(j) = {}
  <2>1. SignBit \notin 0 .. SignBit - 1
    BY DEF SignBit
  <2> QED
    BY <2>1 DEF Separable
<1>3. word = From(0)
  BY DEF ToMask
<1>4. \A k \in 1 .. n : Recognised(mask(k), From(k - 1)) <=> name(k) \in flags
  <2> SUFFICES ASSUME NEW k \in 1 .. n PROVE Recognised(mask(k), From(k - 1)) <=> name(k) \in flags
    OBVIOUS
  <2>1. ASSUME name(k) \in flags PROVE Recognised(mask(k), From(k - 1))
    <3>1. k \in {j \in 1 .. n : k - 1 < j /\ name(j) \in flags}
      BY <2>1
    <3>2. mask(k) \subseteq From(k - 1)
      BY <3>1
    <3> QED
      BY <3>2, <1>2 DEF Recognised
  <2>2. ASSUME Recognised(mask(k), From(k - 1)) PROVE name(k) \in flags
    <3>1. PICK b \in mask(k) : TRUE
      BY <1>2
    <3>2. b \in From(k - 1)
      BY <2>2, <3>1 DEF Recognised
    <3>3. PICK i \in {j \in 1 .. n : k - 1 < j /\ name(j) \in flags} : b \in mask(i)
      BY <3>2
    <3>4. i = k
      BY <3>1, <3>3, <1>2
    <3> QED
      BY <3>3, <3>4
  <2> QED
    BY <2>1, <2>2
<1>5. \A k \in 1 .. n : From(k) = IF name(k) \in flags THEN From(k - 1) \ mask(k) ELSE From(k - 1)
  <2> SUFFICES ASSUME NEW k \in 1 .. n
               PROVE  From(k) = IF name(k) \in flags THEN From(k - 1) \ mask(k) ELSE From(k - 1)
    OBVIOUS
  <2> DEFINE J(m) == {j \in 1 .. n : m < j /\ name(j) \in flags}
  <2>1. J(k - 1) = IF name(k) \in flags THEN J(k) \cup {k} ELSE J(k)
    <3>1. \A j \in 1 .. n : k - 1 < j <=> k < j \/ j = k
      OBVIOUS
    <3> QED
      BY <3>1
  <2>2. \A j \in J(k) : j \in 1 .. n /\ j # k
    OBVIOUS
  <2>3. \A m : From(m) = UNION {mask(i) : i \in J(m)}
    OBVIOUS
  <2>4. \A j \in J(k) : mask(j) \cap mask(k) = {}
    BY <2>2, <1>2
  <2> HIDE DEF J, From, mask, name
  <2>5. CASE name(k) \in flags
    <3>1. From(k - 1) = From(k) \cup mask(k)
      BY <2>1, <2>3, <2>5
    <3>2. From(k) \cap mask(k) = {}
      BY <2>3, <2>4
    <3> QED
      BY <3>1, <3>2, <2>5
  <2>6. CASE name(k) \notin flags
    BY <2>1, <2>3, <2>6
  <2> QED
    BY <2>5, <2>6
<1> DEFINE S == {k \in Nat : k <= n => left[k] = From(k)}
<1>6. 0 \in S
  <2>1. 0 \in 0 .. n
    OBVIOUS
  <2>2. left[0] = ClearOn(def, word, 0, left[0 - 1])
    BY <1>1, <2>1
  <2> HIDE DEF From, word
  <2> QED
    BY <2>2, <1>3 DEF ClearOn
<1>7. ASSUME NEW k \in Nat, k \in S PROVE k + 1 \in S
  <2> SUFFICES ASSUME k + 1 <= n PROVE left[k + 1] = From(k + 1)
    OBVIOUS
  <2>1. k + 1 \in 0 .. n /\ k + 1 \in 1 .. n /\ k + 1 # 0 /\ (k + 1) - 1 = k
    OBVIOUS
  <2>2. left[k] = From(k)
    BY <1>7
  <2>3. left[k + 1] = ClearOn(def, word, k + 1, left[k])
    BY <1>1, <2>1
  <2>4. left[k + 1] = IF Recognised(mask(k + 1), From(k)) THEN From(k) \ mask(k + 1) ELSE From(k)
    <3> HIDE DEF From
    <3> QED
      BY <2>1, <2>2, <2>3 DEF ClearOn
  <2>5. Recognised(mask(k + 1), From(k)) <=> name(k + 1) \in flags
    BY <2>1, <1>4
  <2>6. From(k + 1) = IF name(k + 1) \in flags THEN From(k) \ mask(k + 1) ELSE From(k)
    BY <2>1, <1>5
  <2> HIDE DEF From, mask, name
  <2> QED
    BY <2>4, <2>5, <2>6
<1>8. \A k \in 0 .. n : left[k] = From(k)
  <2> HIDE DEF S, From
  <2>1. \A k \in Nat : k \in S
    BY <1>6, <1>7, SetInduction
  <2> QED
    BY <2>1 DEF S
<1>9. left[n] = {}
  <2>1. From(n) = {}
    OBVIOUS
  <2> HIDE DEF From
  <2> QED
    BY <2>1, <1>8
<1>10. \A i \in DOMAIN def.parts : Recognised(mask(i), left[i - 1]) <=> name(i) \in flags
  <2>1. \A i \in 1 .. n : i - 1 \in 0 .. n
    OBVIOUS
  <2> HIDE DEF From, mask, name
  <2> QED
    BY <2>1, <1>4, <1>8
<1>11. {name(i) : i \in {i \in DOMAIN def.parts : Recognised(mask(i), left[i - 1])}} = flags
  BY <1>10
<1> HIDE DEF mask, name, word
<1> QED
  BY <1>1, <1>9, <1>11 DEF word

-----------------------------------------------------------------------------
(* Bytes put together and taken apart *)

\* FlattenSeq, by the prefixes of what is put together.
LEMMA FlattenPrefix ==
  ASSUME NEW T, NEW seqs \in Seq(Seq(T))
  PROVE  \E flat : /\ flat[0] = <<>>
                   /\ \A k \in 1 .. Len(seqs) : flat[k] = flat[k - 1] \o seqs[k]
                   /\ \A k \in 0 .. Len(seqs) : flat[k] \in Seq(T)
                   /\ FlattenSeq(seqs) = flat[Len(seqs)]
<1>1. Len(seqs) \in Nat /\ DOMAIN seqs = 1 .. Len(seqs) /\ \A k \in 1 .. Len(seqs) : seqs[k] \in Seq(T)
  OBVIOUS
<1>2. CASE Len(seqs) = 0
  <2> DEFINE flat == [k \in 0 .. 0 |-> <<>>]
  <2>1. seqs = <<>>
    BY <1>2, EmptySeq
  <2>2. FlattenSeq(seqs) = <<>>
    BY <2>1, <1>2 DEF FlattenSeq
  <2>3. /\ flat[0] = <<>> /\ \A k \in 1 .. Len(seqs) : flat[k] = flat[k - 1] \o seqs[k]
        /\ \A k \in 0 .. Len(seqs) : flat[k] \in Seq(T)
        /\ flat[Len(seqs)] = <<>>
    BY <1>2
  <2> HIDE DEF flat
  <2> QED
    BY <2>2, <2>3
<1>3. CASE Len(seqs) # 0
  <2>1. PICK f : f = [i \in 1 .. Len(seqs) |-> FlattenOn(seqs, i, f[i - 1])] /\ FlattenSeq(seqs) = f[Len(seqs)]
    BY <1>1, <1>3, FlattenUnfolds
  <2>2. \A i \in 1 .. Len(seqs) : f[i] = IF i = 1 THEN seqs[i] ELSE f[i - 1] \o seqs[i]
    BY <2>1 DEF FlattenOn
  <2> DEFINE S == {k \in Nat : k + 1 <= Len(seqs) => f[k + 1] \in Seq(T)}
  <2>3. 0 \in S
    BY <2>2, <1>1
  <2>4. ASSUME NEW k \in Nat, k \in S PROVE k + 1 \in S
    <3> SUFFICES ASSUME (k + 1) + 1 <= Len(seqs) PROVE f[(k + 1) + 1] \in Seq(T)
      OBVIOUS
    <3>1. f[k + 1] \in Seq(T)
      BY <2>4
    <3>2. (k + 1) + 1 \in 1 .. Len(seqs) /\ (k + 1) + 1 # 1 /\ ((k + 1) + 1) - 1 = k + 1
      OBVIOUS
    <3>3. f[(k + 1) + 1] = f[k + 1] \o seqs[(k + 1) + 1]
      BY <2>2, <3>2
    <3>4. seqs[(k + 1) + 1] \in Seq(T)
      BY <1>1, <3>2
    <3> QED
      BY <3>1, <3>3, <3>4, ConcatProperties
  <2>5. \A k \in 1 .. Len(seqs) : f[k] \in Seq(T)
    <3> HIDE DEF S
    <3>1. \A k \in Nat : k \in S
      BY <2>3, <2>4, SetInduction
    <3>2. \A k \in Nat : k + 1 <= Len(seqs) => f[k + 1] \in Seq(T)
      BY <3>1 DEF S
    <3>3. ASSUME NEW k \in 1 .. Len(seqs) PROVE f[k] \in Seq(T)
      <4>1. k - 1 \in Nat /\ (k - 1) + 1 = k /\ k <= Len(seqs)
        BY <1>1
      <4>2. (k - 1) + 1 <= Len(seqs) => f[(k - 1) + 1] \in Seq(T)
        BY <3>2, <4>1
      <4> QED
        BY <4>1, <4>2
    <3> QED
      BY <3>3
  <2> DEFINE flat == [k \in 0 .. Len(seqs) |-> IF k = 0 THEN <<>> ELSE f[k]]
  <2>6. flat[0] = <<>> /\ \A k \in 1 .. Len(seqs) : flat[k] = f[k]
    OBVIOUS
  <2>7. ASSUME NEW k \in 1 .. Len(seqs) PROVE flat[k] = flat[k - 1] \o seqs[k]
    <3>1. seqs[k] \in Seq(T) /\ <<>> \o seqs[k] = seqs[k]
      BY <1>1, ConcatEmptySeq
    <3>2. k # 1 => k - 1 \in 1 .. Len(seqs)
      BY <1>1
    <3> HIDE DEF flat
    <3>3. CASE k = 1
      <4>1. flat[k] = seqs[k] /\ flat[k - 1] = <<>>
        BY <3>3, <2>2, <2>6
      <4> QED
        BY <4>1, <3>1
    <3>4. CASE k # 1
      BY <3>2, <3>4, <2>2, <2>6
    <3> QED
      BY <3>3, <3>4
  <2>8. \A k \in 0 .. Len(seqs) : flat[k] \in Seq(T)
    <3>1. <<>> \in Seq(T) /\ \A k \in 0 .. Len(seqs) : k = 0 \/ k \in 1 .. Len(seqs)
      BY EmptySeq, <1>1
    <3> HIDE DEF flat
    <3> QED
      BY <3>1, <2>5, <2>6
  <2>9. FlattenSeq(seqs) = flat[Len(seqs)]
    BY <2>1, <1>1, <1>3
  <2> HIDE DEF flat
  <2> QED
    BY <2>6, <2>7, <2>8, <2>9
<1> QED
  BY <1>2, <1>3

\* Each of the codecs decodes its part to its value, and leaves what follows.
EachDecodes(inner, codecs, parts, means) ==
  /\ DOMAIN codecs = DOMAIN parts /\ Len(codecs) = Len(parts) /\ Len(means) = Len(parts)
  /\ means = [i \in 1 .. Len(parts) |-> means[i]]
  /\ \A i \in 1 .. Len(parts) : \A r \in Bytes : inner[codecs[i]].decode[parts[i] \o r] = Result(means[i], r)
  /\ \A i \in 1 .. Len(parts) : means[i] # Throw

\* Values encoded one after the other are decoded one after the other, and what
\* follows them is left.
LEMMA DecodeAllEncoded ==
  ASSUME NEW inner, NEW codecs, NEW parts \in Seq(Bytes), NEW means,
         EachDecodes(inner, codecs, parts, means), NEW rest \in Bytes
  PROVE  DecodeAll(codecs, FlattenSeq(parts) \o rest, inner) = [vs |-> means, rest |-> rest]
<1> DEFINE n == Len(parts)
<1> USE DEF EachDecodes
<1>0. PICK T : Bytes = Seq(T)
  BY DEF Bytes
<1>1. n \in Nat /\ \A k \in 1 .. n : parts[k] \in Seq(T)
  BY <1>0
<1>2. PICK flat : /\ flat[0] = <<>>
                  /\ \A k \in 1 .. n : flat[k] = flat[k - 1] \o parts[k]
                  /\ \A k \in 0 .. n : flat[k] \in Seq(T)
                  /\ FlattenSeq(parts) = flat[n]
  BY <1>0, FlattenPrefix
<1> DEFINE Upto(d, m, r) ==
             /\ d[0] = [vs |-> <<>>, rest |-> flat[m] \o r]
             /\ \A k \in 1 .. n : d[k] = DecodeOn(codecs, flat[m] \o r, inner, k, d[k - 1])
           First(m) == [i \in 1 .. m |-> means[i]]
           ReadBack(m) == \A r \in Seq(T) : \A d : Upto(d, m, r) => d[m] = [vs |-> First(m), rest |-> r]
           S == {m \in Nat : m <= n => ReadBack(m)}
<1>3. ReadBack(0)
  <2> SUFFICES ASSUME NEW r \in Seq(T), NEW d, Upto(d, 0, r) PROVE d[0] = [vs |-> First(0), rest |-> r]
    OBVIOUS
  <2>1. flat[0] \o r = r
    BY <1>2, ConcatEmptySeq
  <2>2. First(0) = <<>>
    OBVIOUS
  <2> HIDE DEF First
  <2> QED
    BY <2>1, <2>2
<1>4. ASSUME NEW m \in Nat, ReadBack(m), m + 1 <= n PROVE ReadBack(m + 1)
  <2> SUFFICES ASSUME NEW r \in Seq(T), NEW d, Upto(d, m + 1, r)
               PROVE  d[m + 1] = [vs |-> First(m + 1), rest |-> r]
    OBVIOUS
  <2>1. m + 1 \in 1 .. n /\ (m + 1) - 1 = m /\ m \in 0 .. n /\ m <= n /\ m + 1 # 0
    BY <1>1, <1>4
  <2> DEFINE q == parts[m + 1] \o r
  <2>2. q \in Seq(T) /\ flat[m + 1] \o r = flat[m] \o q
    <3>1. parts[m + 1] \in Seq(T) /\ flat[m] \in Seq(T) /\ flat[m + 1] = flat[m] \o parts[m + 1]
      BY <2>1, <1>1, <1>2
    <3>2. q \in Seq(T)
      BY <3>1, ConcatProperties
    <3>3. (flat[m] \o parts[m + 1]) \o r = flat[m] \o q
      <4> HIDE DEF EachDecodes, Upto
      <4>1. \A a, b, c \in Seq(T) : (a \o b) \o c = a \o (b \o c)
        BY ConcatThrice
      <4> QED
        BY <4>1, <3>1
    <3> QED
      BY <3>1, <3>2, <3>3
  <2>3. Upto(d, m, q)
    <3> HIDE DEF q
    <3> QED
      BY <2>2
  <2>4. d[m] = [vs |-> First(m), rest |-> q]
    <3> HIDE DEF q, First, Upto
    <3> QED
      BY <1>4, <2>1, <2>2, <2>3
  <2>5. d[m + 1] = DecodeOn(codecs, flat[m + 1] \o r, inner, m + 1, d[m])
    BY <2>1
  <2>6. inner[codecs[m + 1]].decode[q] = Result(means[m + 1], r)
    BY <2>1, <1>0
  <2>7. Len(First(m)) = m /\ First(m) \in Seq({means[i] : i \in 1 .. n})
    <3> DEFINE M == {means[i] : i \in 1 .. n}
    <3>1. First(m) \in [1 .. m -> M]
      BY <2>1, <1>1
    <3> HIDE DEF First, M
    <3> QED
      BY <3>1, SeqFrom DEF M
  <2>8. d[m + 1] = [vs |-> Append(First(m), means[m + 1]), rest |-> r]
    <3>1. means[m + 1] # Throw
      BY <2>1
    <3>2. ~ (Len(First(m)) < (m + 1) - 1)
      BY <2>7, <2>1
    <3> HIDE DEF q, First, Upto, n
    <3>3. inner[codecs[m + 1]].decode[d[m].rest] = Result(means[m + 1], r) /\ d[m].vs = First(m)
      BY <2>4, <2>6
    <3>4. DecodeOn(codecs, flat[m + 1] \o r, inner, m + 1, d[m])
            = [vs |-> Append(First(m), means[m + 1]), rest |-> r]
      BY <2>1, <3>1, <3>2, <3>3 DEF DecodeOn, Result
    <3> QED
      BY <2>5, <3>4
  <2>9. Append(First(m), means[m + 1]) = First(m + 1)
    <3>1. Append(First(m), means[m + 1]) = [i \in 1 .. Len(First(m)) + 1 |-> IF i \in 1 .. Len(First(m)) THEN First(m)[i] ELSE means[m + 1]]
      BY <2>7, AppendProperties
    <3> QED
      BY <3>1, <2>7
  <2> HIDE DEF First
  <2> QED
    BY <2>8, <2>9
<1>5. n \in S
  <2> HIDE DEF ReadBack
  <2>2. 0 \in S
    BY <1>3
  <2>3. ASSUME NEW m \in Nat, m \in S PROVE m + 1 \in S
    BY <2>3, <1>4, <1>1
  <2> HIDE DEF S
  <2>1. \A m \in Nat : m \in S
    BY <2>2, <2>3, SetInduction
  <2> QED
    BY <2>1, <1>1
<1>6. PICK d : /\ Decodes(codecs, flat[n] \o rest, inner, d)
               /\ DecodeAll(codecs, flat[n] \o rest, inner) = d[Len(codecs)]
  <2>1. Len(codecs) \in Nat
    BY <1>1
  <2> QED
    BY <2>1, DecodeUnfolds
<1>7. Upto(d, n, rest)
  <2>1. \A k \in 0 .. n : d[k] = DecodeOn(codecs, flat[n] \o rest, inner, k, d[k - 1])
    BY <1>6 DEF Decodes
  <2>2. 0 \in 0 .. n /\ \A k \in 1 .. n : k \in 0 .. n
    BY <1>1
  <2>3. d[0] = [vs |-> <<>>, rest |-> flat[n] \o rest]
    <3>1. d[0] = DecodeOn(codecs, flat[n] \o rest, inner, 0, d[0 - 1])
      BY <2>1, <2>2
    <3> HIDE DEF n
    <3> QED
      BY <3>1 DEF DecodeOn
  <2> QED
    BY <2>1, <2>2, <2>3
<1>8. d[n] = [vs |-> First(n), rest |-> rest]
  <2> HIDE DEF Upto, First
  <2> QED
    BY <1>5, <1>7, <1>0, <1>1
<1>9. First(n) = means
  OBVIOUS
<1> HIDE DEF First, Upto, S
<1> QED
  BY <1>2, <1>6, <1>8, <1>9

-----------------------------------------------------------------------------
(* One codec, when those it looks up are good *)

Tokens == [n : Nat, s : Seq(Alphabet), bits : SUBSET (0 .. SignBit)]

\* What a value and its meaning have in common, which is what the codecs around
\* it look at.
Tagged(v, m) == m.v = v.v /\ m.n = v.n /\ v.n \in Nat /\ v.v # "throw" /\ (v.v = "null" => v = Null)

\* What the users of a codec rely on.
GoodCodec(k) ==
  \A v \in Values : k.fits[v] =>
    /\ k.encode[v] \in Bytes /\ k.key[v] \in Seq(Int)
    /\ \A r \in Bytes : k.decode[k.encode[v] \o r] = Result(k.means[v], r)
    /\ Tagged(v, k.means[v])
    /\ \A w \in Values : k.fits[w] /\ k.means[w] = k.means[v] => k.encode[w] = k.encode[v]

LEMMA GenCodecIs ==
  ASSUME NEW def, NEW inner
  PROVE  LET k == GenCodec(def, inner) IN
         /\ \A v \in Values : /\ k.encode[v] = Encoding(def, v, inner)
                              /\ k.key[v] = Key(def, v, inner)
                              /\ k.fits[v] <=> Fitting(def, v, inner)
                              /\ k.means[v] = Meaning(def, v, inner)
         /\ \A b \in Bytes : k.decode[b] = Decoding(def, b, inner)
BY DEF GenCodec

\* What is sorted before it is written, what is inside it, and what it means.
Sorted(def, v, inner) ==
  IF def.t = "set" THEN List(ToSortedSet(v.items, KeysOf(def, v.items, inner))) ELSE v
Opened(def, base) == IF def.t \in Bare THEN Token(0) ELSE Head(Opening(def, base))
CodecsOf(inside) == [i \in DOMAIN inside |-> inside[i][1]]
MeansOf(inside, inner) == [i \in DOMAIN inside |-> inner[inside[i][1]].means[inside[i][2]]]

\* What has been written says what is expected, and is put together again.
ReadsAs(def, base, meaning, inner) ==
  LET inside == Inside(def, base)
      token == Opened(def, base)
  IN /\ inside \in Seq((DOMAIN Codecs) \X Values)
     /\ \A i \in DOMAIN inside : inner[inside[i][1]].fits[inside[i][2]]
     /\ token \in Tokens
     /\ Opening(def, base) = IF def.t \in Bare THEN <<>> ELSE <<token>>
     /\ Expected(def, token) = CodecsOf(inside)
     /\ Made(def, token, MeansOf(inside, inner)) = meaning

Reads(def, v, inner) ==
  /\ ReadsAs(def, Sorted(def, v, inner), Meaning(def, v, inner), inner)
  /\ Tagged(v, Meaning(def, v, inner))

LEMMA Forms ==
  /\ \A t, n : Scalar(t, n).v = t /\ Scalar(t, n).n = n
  /\ \A s : Str(s).v = "string" /\ Str(s).n = 0 /\ Str(s).s = s
  /\ \A l : List(l).v = "array" /\ List(l).n = 0 /\ List(l).items = l
  /\ \A f : Object(f).v = "object" /\ Object(f).n = 0 /\ Object(f).fields = f
  /\ \A f : Flags(f).v = "set" /\ Flags(f).n = 0 /\ Flags(f).flags = f
  /\ \A k, l : Variant(k, l).v = "variant" /\ Variant(k, l).n = 0 /\ Variant(k, l).kind = k /\ Variant(k, l).items = l
  /\ Null.v = "null" /\ Null.n = 0 /\ Throw.v = "throw"
  /\ \A n : Token(n).n = n /\ Token(n).s = <<>> /\ Token(n).bits = {}
BY DEF Scalar, Str, List, Object, Flags, Variant, Null, Throw, Token

LEMMA TokensAre ==
  /\ \A n \in Nat : Token(n) \in Tokens
  /\ \A s \in Seq(Alphabet) : [Token(0) EXCEPT !.s = s] \in Tokens /\ [Token(0) EXCEPT !.s = s].s = s
  /\ \A b \in SUBSET (0 .. SignBit) : [Token(0) EXCEPT !.bits = b] \in Tokens /\ [Token(0) EXCEPT !.bits = b].bits = b
  /\ Bytes = Seq(Tokens)
<1>1. <<>> \in Seq(Alphabet)
  BY EmptySeq
<1> QED
  BY <1>1 DEF Tokens, Token, Bytes

Usable(def, inner) == def.t \in Types /\ WellFormed(def) /\ \A c \in DOMAIN Codecs : GoodCodec(inner[c])

LEMMA PartsAre ==
  ASSUME NEW def, WellFormed(def)
  PROVE  /\ Len(def.parts) \in Nat /\ DOMAIN def.parts = 1 .. Len(def.parts)
         /\ \A i \in DOMAIN def.parts :
              /\ def.parts[i].n \in Nat
              /\ def.parts[i].codec \in DOMAIN Codecs \cup {"unit"}
              /\ def.t \notin {"enum", "bitmap"} => def.parts[i].codec \in DOMAIN Codecs
<1> DEFINE P == [name : STRING, n : Nat, mask : SUBSET (0 .. SignBit), codec : DOMAIN Codecs \cup {"unit"}]
<1>1. def.parts \in Seq(P)
  BY DEF WellFormed
<1>2. \A p \in P : p.n \in Nat /\ p.codec \in DOMAIN Codecs \cup {"unit"}
  OBVIOUS
<1> HIDE DEF P
<1>3. \A i \in DOMAIN def.parts : def.parts[i] \in P
  BY <1>1
<1>4. def.t \notin {"enum", "bitmap"} => \A i \in DOMAIN def.parts : def.parts[i].codec # "unit"
  BY DEF WellFormed
<1> QED
  BY <1>1, <1>2, <1>3, <1>4

LEMMA NothingInside ==
  ASSUME NEW inner
  PROVE  MeansOf(<<>>, inner) = <<>> /\ CodecsOf(<<>>) = <<>> /\ <<>> \in Seq((DOMAIN Codecs) \X Values)
BY EmptySeq DEF MeansOf, CodecsOf

LEMMA LeafReads ==
  ASSUME NEW def, NEW inner, Usable(def, inner), NEW v \in Values, Fitting(def, v, inner),
         def.t \in Scalars \cup Texts \cup {"null", "bitmap"}
  PROVE  Reads(def, v, inner)
<1>1. Sorted(def, v, inner) = v /\ Inside(def, v) = <<>> /\ Meaning(def, v, inner) = v
  BY DEF Sorted, Inside, Meaning, Scalars, Texts, Lists, Records
<1>2. Shaped(def, v)
  BY DEF Fitting
<1>3. CASE def.t \in Scalars
  <2>1. v.n \in Nat /\ v = Scalar(def.t, v.n)
    BY <1>2, <1>3 DEF Shaped, Scalars, Texts, Lists, Records
  <2>2. Opening(def, v) = <<Token(v.n)>> /\ def.t \notin Bare /\ Opened(def, v) = Token(v.n)
    BY <1>3 DEF Opening, Opened, Scalars, Texts, Lists, Records, Bare
  <2>3. Expected(def, Token(v.n)) = <<>> /\ Made(def, Token(v.n), <<>>) = Scalar(def.t, v.n)
    BY <1>3, Forms DEF Expected, Made, Scalars, Texts, Lists, Records
  <2>4. Tagged(v, v)
    <3>1. v.v = def.t
      BY <2>1, Forms
    <3> QED
      BY <3>1, <2>1, <1>3 DEF Tagged, Scalars
  <2> QED
    BY <1>1, <2>1, <2>2, <2>3, <2>4, TokensAre, NothingInside DEF Reads, ReadsAs
<1>4. CASE def.t \in Texts
  <2> DEFINE token == [Token(0) EXCEPT !.s = v.s]
  <2>1. v.s \in Seq(Alphabet) /\ v = Str(v.s) /\ (def.t = "name" => ~ BadName(v.s))
    BY <1>2, <1>4 DEF Shaped, Scalars, Texts, Lists, Records
  <2>2. Opening(def, v) = <<token>> /\ def.t \notin Bare /\ Opened(def, v) = token
    BY <1>4 DEF Opening, Opened, Scalars, Texts, Lists, Records, Bare
  <2>3. token \in Tokens /\ token.s = v.s
    BY <2>1, TokensAre
  <2> HIDE DEF token
  <2>4. Expected(def, token) = <<>> /\ Made(def, token, <<>>) = Str(v.s)
    BY <1>4, <2>1, <2>3 DEF Expected, Made, Scalars, Texts, Lists, Records
  <2>5. Tagged(v, v)
    <3>1. v.v = "string" /\ v.n = 0
      BY <2>1, Forms
    <3> QED
      BY <3>1 DEF Tagged
  <2> QED
    BY <1>1, <2>1, <2>2, <2>3, <2>4, <2>5, NothingInside DEF Reads, ReadsAs
<1>5. CASE def.t = "null"
  <2>1. v = Null
    BY <1>2, <1>5 DEF Shaped, Scalars, Texts, Lists, Records
  <2>2. Opening(def, v) = <<>> /\ def.t \in Bare /\ Opened(def, v) = Token(0)
    BY <1>5 DEF Opening, Opened, Scalars, Texts, Lists, Records, Bare
  <2>3. Expected(def, Token(0)) = <<>> /\ Made(def, Token(0), <<>>) = Null
    BY <1>5 DEF Expected, Made, Scalars, Texts, Lists, Records
  <2>4. Tagged(v, v)
    BY <2>1, Forms DEF Tagged
  <2> QED
    BY <1>1, <2>1, <2>2, <2>3, <2>4, TokensAre, NothingInside DEF Reads, ReadsAs
<1>6. CASE def.t = "bitmap"
  <2> DEFINE token == [Token(0) EXCEPT !.bits = ToMask(def, v.flags)]
  <2>1. Separable(def) /\ v.flags \subseteq {def.parts[i].name : i \in DOMAIN def.parts} /\ v = Flags(v.flags)
    BY <1>2, <1>6 DEF Shaped, Scalars, Texts, Lists, Records
  <2>2. Opening(def, v) = <<token>> /\ def.t \notin Bare /\ Opened(def, v) = token
    BY <1>6 DEF Opening, Opened, Scalars, Texts, Lists, Records, Bare
  <2>3. ToMask(def, v.flags) \in SUBSET (0 .. SignBit)
    BY <2>1 DEF ToMask, Separable, SignBit
  <2>4. token \in Tokens /\ token.bits = ToMask(def, v.flags)
    BY <2>3, TokensAre
  <2>5. FromMask(def, ToMask(def, v.flags)) = Flags(v.flags)
    <3>1. WellFormed(def)
      BY DEF Usable
    <3>2. \A i, j \in DOMAIN def.parts : i # j => def.parts[i].name # def.parts[j].name
      BY <3>1, <1>6 DEF WellFormed
    <3> QED
      BY <2>1, <3>1, <3>2, PartsAre, MaskRead
  <2> HIDE DEF token
  <2>6. Expected(def, token) = <<>> /\ Made(def, token, <<>>) = FromMask(def, token.bits)
    BY <1>6 DEF Expected, Made, Scalars, Texts, Lists, Records
  <2>7. Tagged(v, v)
    <3>1. v.v = "set" /\ v.n = 0
      BY <2>1, Forms
    <3> QED
      BY <3>1 DEF Tagged
  <2> QED
    BY <1>1, <2>1, <2>2, <2>4, <2>5, <2>6, <2>7, NothingInside DEF Reads, ReadsAs
<1> QED
  BY <1>3, <1>4, <1>5, <1>6

LEMMA InnerIs ==
  ASSUME NEW def, WellFormed(def), def.t \in Lists \cup {"option", "nonZero"}
  PROVE  Inner(def) \in DOMAIN Codecs
<1>1. Len(def.parts) = 1 /\ def.t \notin {"enum", "bitmap"}
  BY DEF WellFormed, Lists
<1> QED
  BY <1>1, PartsAre DEF Inner

\* A list of things that fit, each written by the same codec.
LEMMA ListInside ==
  ASSUME NEW def, NEW inner, def.t \in Lists, Inner(def) \in DOMAIN Codecs, NEW items \in Seq(Values),
         \A i \in DOMAIN items : inner[Inner(def)].fits[items[i]]
  PROVE  LET means == [i \in DOMAIN items |-> inner[Inner(def)].means[items[i]]]
         IN /\ ReadsAs(def, List(items), List(means), inner)
            /\ Opening(def, List(items)) = <<Token(Len(items))>>
            /\ MeansOf(Inside(def, List(items)), inner) = means
<1> DEFINE inside == Inside(def, List(items))
           token == Opened(def, List(items))
<1>1. Len(items) \in Nat /\ DOMAIN items = 1 .. Len(items) /\ List(items).items = items
  BY Forms
<1>2. inside = [i \in 1 .. Len(items) |-> <<Inner(def), items[i]>>]
  BY <1>1 DEF Inside, Lists, Records
<1>3. inside \in Seq((DOMAIN Codecs) \X Values) /\ DOMAIN inside = 1 .. Len(items)
  <2>1. inside \in [1 .. Len(items) -> (DOMAIN Codecs) \X Values]
    BY <1>1, <1>2
  <2> QED
    BY <2>1, <1>1, SeqFrom
<1>4. Opening(def, List(items)) = <<Token(Len(items))>> /\ token = Token(Len(items))
  BY <1>1 DEF Opening, Opened, Scalars, Texts, Lists, Bare, Records
<1>5. token \in Tokens /\ token.n = Len(items)
  BY <1>4, <1>1, TokensAre, Forms
<1> HIDE DEF token, inside
<1>6. Expected(def, token) = [i \in 1 .. Len(items) |-> Inner(def)]
  BY <1>5 DEF Expected, Lists, Records
<1>7. CodecsOf(inside) = [i \in 1 .. Len(items) |-> Inner(def)]
  BY <1>2 DEF CodecsOf
<1>8. MeansOf(inside, inner) = [i \in DOMAIN items |-> inner[Inner(def)].means[items[i]]]
  BY <1>1, <1>2 DEF MeansOf
<1>9. Made(def, token, MeansOf(inside, inner)) = List(MeansOf(inside, inner))
  BY DEF Made, Scalars, Texts, Lists, Records
<1>10. \A i \in DOMAIN inside : inner[inside[i][1]].fits[inside[i][2]]
  BY <1>1, <1>2, <1>3
<1>11. def.t \notin Bare
  BY DEF Bare, Records, Lists
<1> QED
  BY <1>3, <1>4, <1>5, <1>6, <1>7, <1>8, <1>9, <1>10, <1>11 DEF token, inside, ReadsAs

LEMMA ListReads ==
  ASSUME NEW def, NEW inner, Usable(def, inner), NEW v \in Values, Fitting(def, v, inner), def.t \in Lists
  PROVE  Reads(def, v, inner)
<1>1. WellFormed(def) /\ Inner(def) \in DOMAIN Codecs /\ GoodCodec(inner[Inner(def)])
  BY InnerIs DEF Usable
<1>2. v.items \in Seq(Values) /\ v = List(v.items)
  BY DEF Fitting, Shaped, Scalars, Texts, Lists, Records
<1>3. \A i \in DOMAIN v.items : inner[Inner(def)].fits[v.items[i]]
  <2>1. Inside(def, v) = [i \in DOMAIN v.items |-> <<Inner(def), v.items[i]>>]
    BY DEF Inside, Lists, Records
  <2> DEFINE inside == Inside(def, v)
  <2>2. \A i \in DOMAIN inside : inner[inside[i][1]].fits[inside[i][2]]
    BY DEF Fitting
  <2> HIDE DEF inside
  <2>3. inside = [i \in DOMAIN v.items |-> <<Inner(def), v.items[i]>>]
    BY <2>1 DEF inside
  <2>4. \A i \in DOMAIN v.items : i \in DOMAIN inside /\ inside[i][1] = Inner(def) /\ inside[i][2] = v.items[i]
    BY <2>3
  <2> QED
    BY <2>2, <2>4
<1>4. def.t \notin Bare
  BY DEF Bare, Records, Lists
<1>5. \A m : Tagged(v, List(m))
  <2>1. v.v = "array" /\ v.n = 0
    BY <1>2, Forms
  <2> QED
    BY <2>1, Forms DEF Tagged
<1>6. CASE def.t = "vec"
  <2>1. Sorted(def, v, inner) = List(v.items)
    BY <1>2, <1>6 DEF Sorted
  <2>2. Meaning(def, v, inner) = List([i \in DOMAIN v.items |-> inner[Inner(def)].means[v.items[i]]])
    BY <1>6 DEF Meaning, Records
  <2> QED
    BY <2>1, <2>2, <1>1, <1>2, <1>3, <1>4, <1>5, ListInside DEF Reads
<1>7. CASE def.t = "set"
  <2> DEFINE items == v.items
             key == KeysOf(def, items, inner)
  <2>1. key \in [DOMAIN items -> Seq(Int)]
    <3>1. \A i \in DOMAIN items : items[i] \in Values
      BY <1>2
    <3>2. \A i \in DOMAIN items : inner[Inner(def)].key[items[i]] \in Seq(Int)
      BY <3>1, <1>1, <1>3 DEF GoodCodec
    <3> QED
      BY <3>2 DEF KeysOf
  <2> HIDE DEF key, items
  <2>2. PICK n \in Nat : /\ DOMAIN AscendingKeys(key) = 1 .. n
                         /\ \A k \in 1 .. n : LastOf(key, k) \in DOMAIN items
                         /\ ToSortedSet(items, key) \in Seq(Values) /\ DOMAIN ToSortedSet(items, key) = 1 .. n
                         /\ \A k \in 1 .. n : ToSortedSet(items, key)[k] = items[LastOf(key, k)]
    <3>1. items \in Seq(Values)
      BY <1>2 DEF items
    <3> QED
      BY <3>1, <2>1, SortedSetIs
  <2> DEFINE sorted == ToSortedSet(items, key)
  <2> HIDE DEF sorted
  <2>3. \A k \in 1 .. n : sorted[k] = items[LastOf(key, k)]
    BY <2>2 DEF sorted
  <2>4. sorted \in Seq(Values) /\ DOMAIN sorted = 1 .. n
    BY <2>2 DEF sorted
  <2>5. \A i \in DOMAIN sorted : inner[Inner(def)].fits[sorted[i]]
    BY <2>2, <2>3, <2>4, <1>3 DEF items
  <2>6. Sorted(def, v, inner) = List(sorted)
    BY <1>7 DEF Sorted, sorted, key, items
  <2>7. Meaning(def, v, inner) = List([i \in DOMAIN sorted |-> inner[Inner(def)].means[sorted[i]]])
    <3>1. Meaning(def, v, inner) = List([k \in DOMAIN AscendingKeys(key) |-> inner[Inner(def)].means[items[LastOf(key, k)]]])
      BY <1>7 DEF Meaning, AscendingKeys, key, items, LastOf, Records
    <3>2. [k \in DOMAIN AscendingKeys(key) |-> inner[Inner(def)].means[items[LastOf(key, k)]]]
            = [i \in DOMAIN sorted |-> inner[Inner(def)].means[sorted[i]]]
      BY <2>2, <2>3, <2>4
    <3> QED
      BY <3>1, <3>2
  <2> QED
    BY <2>4, <2>5, <2>6, <2>7, <1>1, <1>4, <1>5, ListInside DEF Reads
<1> QED
  BY <1>6, <1>7 DEF Lists

\* What is inside fits.
LEMMA InsideFits ==
  ASSUME NEW def, NEW inner, NEW v, Fitting(def, v, inner)
  PROVE  Shaped(def, v) /\ \A i \in DOMAIN Inside(def, v) : inner[Inside(def, v)[i][1]].fits[Inside(def, v)[i][2]]
BY DEF Fitting

LEMMA TupleReads ==
  ASSUME NEW def, NEW inner, Usable(def, inner), NEW v \in Values, Fitting(def, v, inner), def.t = "tuple"
  PROVE  Reads(def, v, inner)
<1> DEFINE inside == Inside(def, v)
           n == Len(v.items)
<1>1. /\ v.items \in Seq(Values) /\ Len(v.items) = Len(def.parts) /\ v = List(v.items)
      /\ \A i \in DOMAIN inside : inner[inside[i][1]].fits[inside[i][2]]
  <2>1. Shaped(def, v) /\ \A i \in DOMAIN inside : inner[inside[i][1]].fits[inside[i][2]]
    BY InsideFits
  <2> HIDE DEF inside
  <2> QED
    BY <2>1 DEF Shaped, Scalars, Texts, Lists, Records
<1>2. /\ n \in Nat /\ DOMAIN v.items = 1 .. n /\ DOMAIN def.parts = 1 .. n
      /\ \A i \in 1 .. n : v.items[i] \in Values /\ def.parts[i].codec \in DOMAIN Codecs
  BY <1>1, PartsAre DEF Usable
<1>3. inside = [i \in 1 .. n |-> <<def.parts[i].codec, v.items[i]>>]
  BY <1>2 DEF Inside, Lists, Records
<1>4. Sorted(def, v, inner) = v /\ def.t \in Bare
  BY DEF Sorted, Bare
<1>5. Opening(def, v) = <<>> /\ Opened(def, v) = Token(0) /\ Token(0) \in Tokens
  BY TokensAre DEF Opening, Opened, Scalars, Texts, Lists, Bare, Records
<1>6. Expected(def, Token(0)) = [i \in 1 .. n |-> def.parts[i].codec]
  BY <1>2 DEF Expected, Lists, Records
<1>7. Meaning(def, v, inner) = List([i \in 1 .. n |-> inner[def.parts[i].codec].means[v.items[i]]])
  BY <1>2 DEF Meaning, Records
<1>8. \A m : Made(def, Token(0), m) = List(m)
  BY DEF Made, Scalars, Texts, Lists, Records
<1>9. Tagged(v, Meaning(def, v, inner))
  <2>1. v.v = "array" /\ v.n = 0
    BY <1>1, Forms
  <2>2. \A l : Tagged(v, List(l))
    BY <2>1, Forms DEF Tagged
  <2> QED
    BY <2>2, <1>7
<1> HIDE DEF inside, n
<1>10. MeansOf(inside, inner) = [i \in 1 .. n |-> inner[def.parts[i].codec].means[v.items[i]]]
  BY <1>3 DEF MeansOf
<1>11. CodecsOf(inside) = [i \in 1 .. n |-> def.parts[i].codec]
  BY <1>3 DEF CodecsOf
<1>12. inside \in Seq((DOMAIN Codecs) \X Values)
  <2>1. inside \in [1 .. n -> (DOMAIN Codecs) \X Values]
    BY <1>2, <1>3
  <2> QED
    BY <2>1, <1>2, SeqFrom
<1> QED
  BY <1>1, <1>4, <1>5, <1>6, <1>7, <1>8, <1>9, <1>10, <1>11, <1>12 DEF Reads, ReadsAs, inside

LEMMA PlaceIs ==
  ASSUME NEW def, NEW name, name \in {def.parts[i].name : i \in DOMAIN def.parts}
  PROVE  /\ PlaceOf(def, name) \in DOMAIN def.parts /\ def.parts[PlaceOf(def, name)].name = name
         /\ VariantNamed(def, name) = def.parts[PlaceOf(def, name)]
<1>1. \E i \in DOMAIN def.parts : def.parts[i].name = name
  OBVIOUS
<1>2. PlaceOf(def, name) \in DOMAIN def.parts /\ def.parts[PlaceOf(def, name)].name = name
  BY <1>1 DEF PlaceOf
<1> QED
  BY <1>2 DEF PlaceOf, VariantNamed

LEMMA RecordReads ==
  ASSUME NEW def, NEW inner, Usable(def, inner), NEW v \in Values, Fitting(def, v, inner), def.t \in Records
  PROVE  Reads(def, v, inner)
<1> DEFINE inside == Inside(def, v)
           n == Len(def.parts)
           names == {def.parts[i].name : i \in DOMAIN def.parts}
           field(i) == v.fields[def.parts[i].name]
<1>1. /\ v.fields \in [names -> Values] /\ v = Object(v.fields)
      /\ \A i \in DOMAIN inside : inner[inside[i][1]].fits[inside[i][2]]
  <2>1. Shaped(def, v) /\ \A i \in DOMAIN inside : inner[inside[i][1]].fits[inside[i][2]]
    BY InsideFits
  <2> HIDE DEF inside
  <2> QED
    BY <2>1 DEF Shaped, Scalars, Texts, Lists, Records
<1>2. /\ n \in Nat /\ DOMAIN def.parts = 1 .. n
      /\ \A i \in 1 .. n : field(i) \in Values /\ def.parts[i].codec \in DOMAIN Codecs
  <2>1. n \in Nat /\ DOMAIN def.parts = 1 .. n /\ \A i \in 1 .. n : def.parts[i].codec \in DOMAIN Codecs
    BY PartsAre DEF Usable, Records
  <2>2. \A i \in 1 .. n : def.parts[i].name \in names
    BY <2>1
  <2> HIDE DEF names
  <2> QED
    BY <2>1, <2>2, <1>1
<1>3. inside = [i \in 1 .. n |-> <<def.parts[i].codec, field(i)>>]
  BY <1>2 DEF Inside, Lists, Records
<1>4. Sorted(def, v, inner) = v /\ def.t \in Bare
  BY DEF Sorted, Bare, Records
<1>5. Opening(def, v) = <<>> /\ Opened(def, v) = Token(0) /\ Token(0) \in Tokens
  BY TokensAre DEF Opening, Opened, Scalars, Texts, Lists, Bare, Records
<1>6. Expected(def, Token(0)) = [i \in 1 .. n |-> def.parts[i].codec]
  BY <1>2 DEF Expected, Lists, Records
<1>7. Meaning(def, v, inner)
        = Object([name \in DOMAIN v.fields |-> inner[VariantNamed(def, name).codec].means[v.fields[name]]])
  BY DEF Meaning, Records
<1>8. \A m : Made(def, Token(0), m) = Object([name \in names |-> m[PlaceOf(def, name)]])
  BY DEF Made, Scalars, Texts, Lists, Records
<1>9. Tagged(v, Meaning(def, v, inner))
  <2>1. v.v = "object" /\ v.n = 0
    BY <1>1, Forms
  <2> QED
    BY <2>1, <1>7, Forms DEF Tagged
<1> DEFINE m == MeansOf(inside, inner)
<1>10. m = [i \in 1 .. n |-> inner[def.parts[i].codec].means[field(i)]]
  <2> HIDE DEF inside, n, field
  <2> QED
    BY <1>3 DEF MeansOf
<1>11. [name \in names |-> m[PlaceOf(def, name)]]
         = [name \in DOMAIN v.fields |-> inner[VariantNamed(def, name).codec].means[v.fields[name]]]
  <2>1. ASSUME NEW name \in names
        PROVE  m[PlaceOf(def, name)] = inner[VariantNamed(def, name).codec].means[v.fields[name]]
    <3>1. /\ PlaceOf(def, name) \in 1 .. n /\ def.parts[PlaceOf(def, name)].name = name
          /\ VariantNamed(def, name) = def.parts[PlaceOf(def, name)]
      BY PlaceIs, <1>2
    <3> HIDE DEF names, m, inside
    <3> QED
      BY <3>1, <1>10
  <2>2. DOMAIN v.fields = names
    BY <1>1
  <2> HIDE DEF names, m
  <2> QED
    BY <2>1, <2>2
<1> HIDE DEF inside, n, field, names
<1>12. CodecsOf(inside) = [i \in 1 .. n |-> def.parts[i].codec]
  BY <1>3 DEF CodecsOf
<1>13. inside \in Seq((DOMAIN Codecs) \X Values)
  <2>1. inside \in [1 .. n -> (DOMAIN Codecs) \X Values]
    BY <1>2, <1>3
  <2> QED
    BY <2>1, <1>2, SeqFrom
<1>14. Made(def, Token(0), m) = Meaning(def, v, inner)
  <2> HIDE DEF m
  <2> QED
    BY <1>7, <1>8, <1>11
<1> QED
  BY <1>1, <1>4, <1>5, <1>6, <1>9, <1>12, <1>13, <1>14 DEF Reads, ReadsAs, inside

LEMMA EnumReads ==
  ASSUME NEW def, NEW inner, Usable(def, inner), NEW v \in Values, Fitting(def, v, inner), def.t = "enum"
  PROVE  Reads(def, v, inner)
<1> DEFINE inside == Inside(def, v)
           n == Len(v.items)
           part == VariantNamed(def, v.kind)
<1>1. /\ v.items \in Seq(Values) /\ v = Variant(v.kind, v.items)
      /\ v.kind \in {def.parts[i].name : i \in DOMAIN def.parts}
      /\ n = IF part.codec = "unit" THEN 0 ELSE 1
      /\ \A i \in DOMAIN inside : inner[inside[i][1]].fits[inside[i][2]]
  <2>1. Shaped(def, v) /\ \A i \in DOMAIN inside : inner[inside[i][1]].fits[inside[i][2]]
    BY InsideFits
  <2> HIDE DEF inside
  <2> QED
    BY <2>1 DEF Shaped, Scalars, Texts, Lists, Records
<1>2. n \in Nat /\ DOMAIN v.items = 1 .. n /\ \A i \in 1 .. n : v.items[i] \in Values
  BY <1>1
<1>3. PICK p \in DOMAIN def.parts : part = def.parts[p] /\ part.name = v.kind
  BY <1>1, PlaceIs
<1>4. part.n \in Nat /\ part.codec \in DOMAIN Codecs \cup {"unit"}
  BY <1>3, PartsAre DEF Usable
<1>5. Known(def, part.n) = {p}
  <2>1. \A i, j \in DOMAIN def.parts : i # j => def.parts[i].n # def.parts[j].n
    BY DEF Usable, WellFormed
  <2> QED
    BY <2>1, <1>3 DEF Known
<1>6. VariantNumbered(def, part.n) = part
  <2>1. VariantNumbered(def, part.n) = def.parts[CHOOSE i \in {p} : \A j \in {p} : j <= i]
    BY <1>5 DEF VariantNumbered
  <2>2. p \in Nat
    BY PartsAre DEF Usable
  <2>3. (CHOOSE i \in {p} : \A j \in {p} : j <= i) = p
    BY <2>2
  <2> QED
    BY <2>1, <2>3, <1>3
<1>7. inside = [i \in 1 .. n |-> <<part.codec, v.items[i]>>]
  BY <1>2 DEF Inside, Lists, Records
<1>8. Sorted(def, v, inner) = v /\ def.t \notin Bare
  BY DEF Sorted, Bare, Records
<1>9. Opening(def, v) = <<Token(part.n)>> /\ Opened(def, v) = Token(part.n)
  BY DEF Opening, Opened, Scalars, Texts, Lists, Bare, Records
<1>10. Meaning(def, v, inner) = Variant(v.kind, [i \in 1 .. n |-> inner[part.codec].means[v.items[i]]])
  BY <1>2 DEF Meaning, Records
<1>11. Token(part.n) \in Tokens /\ Token(part.n).n = part.n
  BY <1>4, TokensAre, Forms
<1>12. Tagged(v, Meaning(def, v, inner))
  <2>1. v.v = "variant" /\ v.n = 0
    BY <1>1, Forms
  <2> QED
    BY <2>1, <1>10, Forms DEF Tagged
<1> HIDE DEF inside, part
<1>13. Expected(def, Token(part.n)) = [i \in 1 .. n |-> part.codec]
  <2>1. Expected(def, Token(part.n)) = IF part.codec = "unit" THEN <<>> ELSE <<part.codec>>
    BY <1>5, <1>6, <1>11 DEF Expected, Lists, Records
  <2>2. CASE part.codec = "unit"
    BY <2>1, <2>2, <1>1
  <2>3. CASE part.codec # "unit"
    <3>1. n = 1
      BY <2>3, <1>1
    <3> HIDE DEF n
    <3> QED
      BY <2>1, <2>3, <3>1
  <2> QED
    BY <2>2, <2>3
<1>14. \A m : Made(def, Token(part.n), m) = Variant(v.kind, m)
  BY <1>3, <1>5, <1>6, <1>11 DEF Made, Scalars, Texts, Lists, Records
<1> HIDE DEF n
<1>15. MeansOf(inside, inner) = [i \in 1 .. n |-> inner[part.codec].means[v.items[i]]]
  BY <1>7 DEF MeansOf
<1>16. CodecsOf(inside) = [i \in 1 .. n |-> part.codec]
  BY <1>7 DEF CodecsOf
<1>17. inside \in Seq((DOMAIN Codecs) \X Values)
  <2>1. n # 0 => part.codec \in DOMAIN Codecs
    BY <1>1, <1>4 DEF n
  <2>2. inside \in [1 .. n -> (DOMAIN Codecs) \X Values]
    BY <2>1, <1>2, <1>7
  <2> QED
    BY <2>2, <1>2, SeqFrom
<1> QED
  BY <1>1, <1>8, <1>9, <1>10, <1>11, <1>12, <1>13, <1>14, <1>15, <1>16, <1>17 DEF Reads, ReadsAs, inside

LEMMA WrapReads ==
  ASSUME NEW def, NEW inner, Usable(def, inner), NEW v \in Values, Fitting(def, v, inner), def.t \in {"option", "nonZero"}
  PROVE  Reads(def, v, inner)
<1> DEFINE inside == Inside(def, v)
           c == Inner(def)
<1>1. c \in DOMAIN Codecs /\ GoodCodec(inner[c])
  BY InnerIs DEF Usable
<1>2. Sorted(def, v, inner) = v
  BY DEF Sorted
<1>3. CASE def.t = "option" /\ v = Null
  <2>1. inside = <<>> /\ Meaning(def, v, inner) = Null
    BY <1>3 DEF Inside, Meaning, Lists, Records
  <2>2. Opening(def, v) = <<Token(0)>> /\ Opened(def, v) = Token(0) /\ def.t \notin Bare
    BY <1>3 DEF Opening, Opened, Scalars, Texts, Lists, Bare, Records
  <2>3. Expected(def, Token(0)) = <<>> /\ \A m : Made(def, Token(0), m) = Null
    BY <1>3, Forms DEF Expected, Made, Scalars, Texts, Lists, Records
  <2>4. Tagged(v, Null)
    BY <1>3, Forms DEF Tagged
  <2> QED
    BY <1>2, <2>1, <2>2, <2>3, <2>4, TokensAre, NothingInside DEF Reads, ReadsAs
<1>4. CASE ~ (def.t = "option" /\ v = Null)
  <2> DEFINE token == IF def.t = "option" THEN Token(1) ELSE Token(0)
             m == inner[c].means[v]
  <2>1. inside = << <<c, v>> >> /\ Meaning(def, v, inner) = m
    BY <1>4 DEF Inside, Meaning, Lists, Records
  <2>2. Opened(def, v) = token /\ Opening(def, v) = IF def.t \in Bare THEN <<>> ELSE <<token>>
    BY <1>4 DEF Opening, Opened, Scalars, Texts, Lists, Bare, Records
  <2>3. inner[c].fits[v]
    <3>1. \A i \in DOMAIN inside : inner[inside[i][1]].fits[inside[i][2]]
      BY InsideFits
    <3> HIDE DEF inside, c
    <3>2. 1 \in DOMAIN inside /\ inside[1][1] = c /\ inside[1][2] = v
      BY <2>1
    <3> QED
      BY <3>1, <3>2
  <2>4. Tagged(v, m)
    BY <2>3, <1>1 DEF GoodCodec
  <2>5. def.t = "nonZero" => ~ IsZero(m)
    <3>1. def.t = "nonZero" => ~ IsZero(v)
      <4>1. Shaped(def, v)
        BY InsideFits
      <4> QED
        BY <4>1 DEF Shaped, Scalars, Texts, Lists, Records
    <3> HIDE DEF m
    <3> QED
      BY <3>1, <2>4 DEF IsZero, Tagged
  <2>6. token \in Tokens /\ (def.t = "option" => token.n = 1)
    BY TokensAre, Forms
  <2> HIDE DEF inside, c, m, token
  <2>7. Expected(def, token) = <<c>>
    BY <2>6 DEF Expected, Lists, Records, c
  <2>8. Made(def, token, <<m>>) = m
    BY <2>5, <2>6 DEF Made, Scalars, Texts, Lists, Records
  <2>9. MeansOf(inside, inner) = <<m>> /\ CodecsOf(inside) = <<c>>
    BY <2>1 DEF MeansOf, CodecsOf, m
  <2>10. inside \in Seq((DOMAIN Codecs) \X Values) /\ \A i \in DOMAIN inside : inner[inside[i][1]].fits[inside[i][2]]
    BY <2>1, <2>3, <1>1
  <2> QED
    BY <1>2, <2>1, <2>2, <2>4, <2>6, <2>7, <2>8, <2>9, <2>10 DEF Reads, ReadsAs, inside
<1> QED
  BY <1>3, <1>4

LEMMA EveryTypeReads ==
  ASSUME NEW def, NEW inner, Usable(def, inner), NEW v \in Values, Fitting(def, v, inner)
  PROVE  Reads(def, v, inner)
<1>1. def.t \in Types
  BY DEF Usable
<1> QED
  BY <1>1, LeafReads, ListReads, TupleReads, RecordReads, EnumReads, WrapReads DEF Types, Bare, Lists

\* What means the same opens in the same way, and what is inside means the same.
SameWritten(def, v, w, inner) ==
  LET a == Sorted(def, v, inner)
      b == Sorted(def, w, inner)
  IN Opening(def, a) = Opening(def, b) /\ MeansOf(Inside(def, a), inner) = MeansOf(Inside(def, b), inner)

LEMMA ListsSame ==
  ASSUME NEW def, NEW inner, NEW v, NEW w, Reads(def, v, inner), Reads(def, w, inner),
         Meaning(def, v, inner) = Meaning(def, w, inner), def.t \in Lists
  PROVE  SameWritten(def, v, w, inner)
<1> DEFINE a == Sorted(def, v, inner)
           b == Sorted(def, w, inner)
           ReadBack(x, t, m) ==
             /\ t \in Tokens /\ Opening(def, x) = <<t>> /\ t = Token(Len(x.items)) /\ m = MeansOf(Inside(def, x), inner)
             /\ DOMAIN m = 1 .. t.n /\ List(m) = Meaning(def, v, inner)
<1>1. ASSUME NEW x, ReadsAs(def, x, Meaning(def, v, inner), inner)
      PROVE  ReadBack(x, Opened(def, x), MeansOf(Inside(def, x), inner))
  <2> DEFINE inside == Inside(def, x)
             t == Opened(def, x)
  <2>1. t \in Tokens /\ def.t \notin Bare /\ Opening(def, x) = <<t>>
    BY <1>1 DEF ReadsAs, Bare, Records, Lists
  <2>2. t = Token(Len(x.items))
    BY DEF Opened, Opening, Scalars, Texts, Lists, Bare, Records
  <2>3. Expected(def, t) = CodecsOf(inside) /\ Made(def, t, MeansOf(inside, inner)) = Meaning(def, v, inner)
    BY <1>1 DEF ReadsAs
  <2> HIDE DEF inside, t
  <2>4. Made(def, t, MeansOf(inside, inner)) = List(MeansOf(inside, inner))
    BY DEF Made, Scalars, Texts, Lists, Records
  <2>5. DOMAIN MeansOf(inside, inner) = 1 .. t.n
    <3>1. Expected(def, t) = [i \in 1 .. t.n |-> Inner(def)]
      BY DEF Expected, Lists, Records
    <3>2. DOMAIN CodecsOf(inside) = 1 .. t.n
      BY <3>1, <2>3
    <3> QED
      BY <3>2 DEF CodecsOf, MeansOf
  <2> QED
    BY <2>1, <2>2, <2>3, <2>4, <2>5 DEF inside, t
<1>2. PICK t, m : ReadBack(a, t, m)
  BY <1>1 DEF Reads
<1>3. PICK u, n : ReadBack(b, u, n)
  BY <1>1 DEF Reads
<1> HIDE DEF a, b
<1>4. m = n
  BY <1>2, <1>3, Forms
<1>5. t.n \in Nat /\ u.n \in Nat /\ 1 .. t.n = 1 .. u.n
  <2>1. \A x \in Tokens : x.n \in Nat
    BY DEF Tokens
  <2> QED
    BY <2>1, <1>2, <1>3, <1>4
<1>6. t.n = u.n
  <2>1. \A i, j \in Nat : 1 .. i = 1 .. j => i = j
    OBVIOUS
  <2> QED
    BY <2>1, <1>5
<1>7. t = u
  <2>1. t.n = Len(a.items) /\ u.n = Len(b.items)
    BY <1>2, <1>3, Forms
  <2> QED
    BY <2>1, <1>2, <1>3, <1>6
<1> QED
  BY <1>2, <1>3, <1>4, <1>7 DEF SameWritten, a, b

LEMMA TupleSame ==
  ASSUME NEW def, NEW inner, NEW v, NEW w, Reads(def, v, inner), Reads(def, w, inner),
         Meaning(def, v, inner) = Meaning(def, w, inner), def.t = "tuple"
  PROVE  SameWritten(def, v, w, inner)
<1>1. ASSUME NEW x, ReadsAs(def, x, Meaning(def, v, inner), inner)
      PROVE  Opening(def, x) = <<>> /\ List(MeansOf(Inside(def, x), inner)) = Meaning(def, v, inner)
  <2>1. def.t \in Bare
    BY DEF Bare
  <2>2. \A t, m : Made(def, t, m) = List(m)
    BY DEF Made, Scalars, Texts, Lists, Records
  <2> QED
    BY <1>1, <2>1, <2>2 DEF ReadsAs
<1>2. \A l, m : List(l) = List(m) => l = m
  BY Forms
<1> QED
  BY <1>1, <1>2 DEF SameWritten, Reads

LEMMA RecordsSame ==
  ASSUME NEW def, NEW inner, NEW v, NEW w, WellFormed(def), Reads(def, v, inner), Reads(def, w, inner),
         Meaning(def, v, inner) = Meaning(def, w, inner), def.t \in Records
  PROVE  SameWritten(def, v, w, inner)
<1> DEFINE names == {def.parts[i].name : i \in DOMAIN def.parts}
           Made1(m) == [name \in names |-> m[PlaceOf(def, name)]]
<1>1. ASSUME NEW x, ReadsAs(def, x, Meaning(def, v, inner), inner)
      PROVE  /\ Opening(def, x) = <<>> /\ DOMAIN Inside(def, x) = DOMAIN def.parts
             /\ Object(Made1(MeansOf(Inside(def, x), inner))) = Meaning(def, v, inner)
  <2>1. def.t \in Bare
    BY DEF Bare
  <2>2. \A t, m : Made(def, t, m) = Object(Made1(m))
    BY DEF Made, Scalars, Texts, Lists, Records
  <2>3. DOMAIN Inside(def, x) = DOMAIN def.parts
    BY DEF Inside, Lists, Records
  <2> HIDE DEF Made1
  <2> QED
    BY <1>1, <2>1, <2>2, <2>3 DEF ReadsAs
<1> DEFINE m == MeansOf(Inside(def, Sorted(def, v, inner)), inner)
           n == MeansOf(Inside(def, Sorted(def, w, inner)), inner)
<1>2. /\ Opening(def, Sorted(def, v, inner)) = Opening(def, Sorted(def, w, inner))
      /\ DOMAIN Inside(def, Sorted(def, v, inner)) = DOMAIN def.parts
      /\ DOMAIN Inside(def, Sorted(def, w, inner)) = DOMAIN def.parts
      /\ Object(Made1(m)) = Object(Made1(n))
  <2> HIDE DEF Made1
  <2> QED
    BY <1>1 DEF Reads
<1>3. /\ m = [i \in DOMAIN def.parts |-> m[i]] /\ n = [i \in DOMAIN def.parts |-> n[i]]
  BY <1>2 DEF MeansOf
<1>4. Made1(m) = Made1(n)
  <2> HIDE DEF Made1, m, n
  <2> QED
    BY <1>2, Forms
<1> HIDE DEF m, n
<1>5. ASSUME NEW i \in DOMAIN def.parts PROVE m[i] = n[i]
  <2>1. PlaceOf(def, def.parts[i].name) = i
    <3>1. \A j \in DOMAIN def.parts : def.parts[j].name = def.parts[i].name => j = i
      BY DEF WellFormed
    <3> QED
      BY <3>1, PlaceIs
  <2>2. def.parts[i].name \in names
    OBVIOUS
  <2>3. Made1(m)[def.parts[i].name] = Made1(n)[def.parts[i].name]
    BY <1>4
  <2> HIDE DEF names
  <2> QED
    BY <2>1, <2>2, <2>3
<1>6. m = n
  BY <1>3, <1>5
<1> QED
  BY <1>2, <1>6 DEF SameWritten, m, n

LEMMA EnumSame ==
  ASSUME NEW def, NEW inner, NEW v, NEW w, Reads(def, v, inner), Reads(def, w, inner),
         Meaning(def, v, inner) = Meaning(def, w, inner), def.t = "enum"
  PROVE  SameWritten(def, v, w, inner)
<1>1. Sorted(def, v, inner) = v /\ Sorted(def, w, inner) = w
  BY DEF Sorted
<1>2. \A x : /\ Opening(def, x) = <<Token(VariantNamed(def, x.kind).n)>>
             /\ Meaning(def, x, inner).kind = x.kind
  <2> TAKE x
  <2>1. Opening(def, x) = <<Token(VariantNamed(def, x.kind).n)>>
    BY DEF Opening, Scalars, Texts, Lists, Bare, Records
  <2> DEFINE l == [i \in DOMAIN x.items |-> inner[VariantNamed(def, x.kind).codec].means[x.items[i]]]
  <2>2. Meaning(def, x, inner) = Variant(x.kind, l)
    BY DEF Meaning, Records
  <2> HIDE DEF l
  <2> QED
    BY <2>1, <2>2, Forms
<1>3. \A t, m : Made(def, t, m) = Throw \/ \E k : Made(def, t, m) = Variant(k, m)
  BY DEF Made, Scalars, Texts, Lists, Records
<1>4. Meaning(def, v, inner) # Throw
  BY Forms DEF Reads, Tagged
<1>5. ASSUME NEW x, ReadsAs(def, x, Meaning(def, v, inner), inner)
      PROVE  MeansOf(Inside(def, x), inner) = Meaning(def, v, inner).items
  <2>1. PICK t, m : Made(def, t, m) = Meaning(def, v, inner) /\ m = MeansOf(Inside(def, x), inner)
    BY <1>5 DEF ReadsAs
  <2>2. PICK k : Made(def, t, m) = Variant(k, m)
    BY <2>1, <1>3, <1>4
  <2> QED
    BY <2>1, <2>2, Forms
<1> QED
  BY <1>1, <1>2, <1>5 DEF SameWritten, Reads

LEMMA WrapSame ==
  ASSUME NEW def, NEW inner, NEW v, NEW w, Reads(def, v, inner), Reads(def, w, inner),
         Meaning(def, v, inner) = Meaning(def, w, inner), def.t \in {"option", "nonZero"}
  PROVE  SameWritten(def, v, w, inner)
<1>1. Sorted(def, v, inner) = v /\ Sorted(def, w, inner) = w
  BY DEF Sorted
<1> DEFINE Empty(x) == def.t = "option" /\ x = Null
<1>2. Meaning(def, v, inner).v = v.v /\ Meaning(def, w, inner).v = w.v /\ (v.v = "null" => v = Null) /\ (w.v = "null" => w = Null)
  BY DEF Reads, Tagged
<1>3. (v = Null) <=> (w = Null)
  BY <1>2, Forms
<1>4. CASE Empty(v)
  BY <1>1, <1>3, <1>4 DEF SameWritten
<1>5. CASE ~ Empty(v)
  <2>1. ASSUME NEW x, ~ Empty(x)
        PROVE  /\ MeansOf(Inside(def, x), inner) = <<Meaning(def, x, inner)>>
               /\ Opening(def, x) = IF def.t = "option" THEN <<Token(1)>> ELSE <<>>
    <3>1. Inside(def, x) = << <<Inner(def), x>> >> /\ Meaning(def, x, inner) = inner[Inner(def)].means[x]
      BY <2>1 DEF Inside, Meaning, Lists, Records
    <3>2. Opening(def, x) = IF def.t = "option" THEN <<Token(1)>> ELSE <<>>
      BY <2>1 DEF Opening, Scalars, Texts, Lists, Bare, Records
    <3> QED
      BY <3>1, <3>2 DEF MeansOf
  <2> QED
    BY <2>1, <1>1, <1>3, <1>5 DEF SameWritten
<1> QED
  BY <1>4, <1>5

LEMMA EveryTypeSame ==
  ASSUME NEW def, NEW inner, Usable(def, inner), NEW v, NEW w, Reads(def, v, inner), Reads(def, w, inner),
         Meaning(def, v, inner) = Meaning(def, w, inner)
  PROVE  SameWritten(def, v, w, inner)
<1>1. def.t \in Types /\ WellFormed(def)
  BY DEF Usable
<1>2. CASE def.t \in Scalars \cup Texts \cup {"null", "bitmap"}
  <2>1. Meaning(def, v, inner) = v /\ Meaning(def, w, inner) = w
    BY <1>2 DEF Meaning, Scalars, Texts, Lists, Records
  <2> QED
    BY <2>1 DEF SameWritten
<1> QED
  BY <1>1, <1>2, ListsSame, TupleSame, RecordsSame, EnumSame, WrapSame DEF Types, Bare

\* The keys of what fits are sequences of numbers, which Before orders.
LEMMA KeyIs ==
  ASSUME NEW def, NEW inner, Usable(def, inner), NEW v \in Values, Fitting(def, v, inner), v.n \in Nat
  PROVE  Key(def, v, inner) \in Seq(Int)
<1> DEFINE fields == [i \in DOMAIN def.parts |-> inner[def.parts[i].codec].key[v.fields[def.parts[i].name]]]
<1>1. Shaped(def, v)
  BY InsideFits
<1>2. CASE def.t \in Texts
  <2>1. Key(def, v, inner) = <<IF def.t = "string" THEN Collation[v.s] ELSE CodeUnits[v.s]>>
    BY <1>2 DEF Key, Texts
  <2>2. Collation[v.s] \in Int /\ CodeUnits[v.s] \in Int
    BY OrderAssumption
  <2> QED
    BY <2>1, <2>2
<1>3. ASSUME def.t \in Records
      PROVE  fields \in Seq(Seq(Int)) /\ DOMAIN fields = DOMAIN def.parts /\ Len(fields) = Len(def.parts)
  <2>1. Len(def.parts) \in Nat /\ DOMAIN def.parts = 1 .. Len(def.parts)
    BY PartsAre DEF Usable
  <2>2. ASSUME NEW i \in DOMAIN def.parts PROVE fields[i] \in Seq(Int)
    <3>1. v.fields \in [{def.parts[j].name : j \in DOMAIN def.parts} -> Values]
      BY <1>1, <1>3 DEF Shaped, Scalars, Texts, Lists, Records
    <3>2. v.fields[def.parts[i].name] \in Values
      BY <3>1
    <3>3. Inside(def, v) = [j \in DOMAIN def.parts |-> <<def.parts[j].codec, v.fields[def.parts[j].name]>>]
      BY <1>3 DEF Inside, Lists, Records
    <3>4. inner[def.parts[i].codec].fits[v.fields[def.parts[i].name]]
      <4> DEFINE inside == Inside(def, v)
      <4>1. \A j \in DOMAIN inside : inner[inside[j][1]].fits[inside[j][2]]
        BY InsideFits
      <4>2. inside = [j \in DOMAIN def.parts |-> <<def.parts[j].codec, v.fields[def.parts[j].name]>>]
        BY <3>3
      <4> HIDE DEF inside
      <4>3. i \in DOMAIN inside /\ inside[i][1] = def.parts[i].codec /\ inside[i][2] = v.fields[def.parts[i].name]
        BY <4>2
      <4> QED
        BY <4>1, <4>3
    <3>5. def.parts[i].codec \in DOMAIN Codecs
      BY PartsAre, <1>3 DEF Usable, Records
    <3> QED
      BY <3>2, <3>4, <3>5 DEF Usable, GoodCodec
  <2>3. fields \in [1 .. Len(def.parts) -> Seq(Int)]
    BY <2>1, <2>2
  <2> HIDE DEF fields
  <2> QED
    BY <2>1, <2>3, SeqFrom
<1>4. def.t \in {"entry", "multihash"} => Len(def.parts) = 2
  BY DEF Usable, WellFormed
<1>5. CASE def.t = "struct"
  <2>1. Key(def, v, inner) = FlattenSeq(fields)
    BY <1>5 DEF Key, Texts
  <2> HIDE DEF fields
  <2>2. PICK flat : (\A k \in 0 .. Len(fields) : flat[k] \in Seq(Int)) /\ FlattenSeq(fields) = flat[Len(fields)]
    BY <1>3, <1>5, FlattenPrefix DEF Records
  <2>3. Len(fields) \in 0 .. Len(fields)
    BY <1>3, <1>5 DEF Records
  <2> QED
    BY <2>1, <2>2, <2>3
<1>6. CASE def.t = "multihash"
  <2>1. Key(def, v, inner) = <<Code[v.fields["algorithm"].kind]>> \o fields[2]
    BY <1>6 DEF Key, Texts
  <2>2. v.fields["algorithm"].kind \in DOMAIN Code
    BY <1>1, <1>6 DEF Shaped, Scalars, Texts, Lists, Records
  <2> HIDE DEF fields
  <2>3. fields[2] \in Seq(Int)
    BY <1>3, <1>4, <1>6 DEF Records
  <2>4. <<Code[v.fields["algorithm"].kind]>> \in Seq(Int)
    BY <2>2, CodeAssumption
  <2> QED
    BY <2>1, <2>3, <2>4, ConcatProperties
<1>7. CASE def.t = "entry"
  <2>1. Key(def, v, inner) = fields[1]
    BY <1>7 DEF Key, Texts
  <2> HIDE DEF fields
  <2> QED
    BY <2>1, <1>3, <1>4, <1>7 DEF Records
<1>8. CASE def.t \notin Texts \cup Records
  <2>1. Key(def, v, inner) = <<v.n>>
    BY <1>8 DEF Key, Texts, Records
  <2> QED
    BY <2>1
<1> QED
  BY <1>2, <1>5, <1>6, <1>7, <1>8 DEF Records

\* A codec is good when those it looks up are.
LEMMA GoodStep ==
  ASSUME NEW def, NEW inner, Usable(def, inner)
  PROVE  GoodCodec(GenCodec(def, inner))
<1> DEFINE inside(v) == Inside(def, Sorted(def, v, inner))
           parts(v) == [i \in DOMAIN inside(v) |-> inner[inside(v)[i][1]].encode[inside(v)[i][2]]]
           token(v) == Opened(def, Sorted(def, v, inner))
           opening(v) == Opening(def, Sorted(def, v, inner))
           means(v) == MeansOf(inside(v), inner)
<1>1. ASSUME NEW v \in Values, Fitting(def, v, inner)
      PROVE  /\ Reads(def, v, inner) /\ Encoding(def, v, inner) = opening(v) \o FlattenSeq(parts(v))
             /\ parts(v) \in Seq(Bytes) /\ Len(parts(v)) = Len(inside(v)) /\ DOMAIN parts(v) = DOMAIN inside(v)
             /\ Len(inside(v)) \in Nat /\ DOMAIN inside(v) = 1 .. Len(inside(v))
             /\ \A i \in DOMAIN inside(v) : /\ inside(v)[i][1] \in DOMAIN Codecs /\ inside(v)[i][2] \in Values
                                            /\ inner[inside(v)[i][1]].fits[inside(v)[i][2]]
                                            /\ GoodCodec(inner[inside(v)[i][1]])
  <2>1. Reads(def, v, inner)
    BY <1>1, EveryTypeReads
  <2>2. Encoding(def, v, inner) = opening(v) \o FlattenSeq(parts(v))
    BY DEF Encoding, Sorted
  <2>3. inside(v) \in Seq((DOMAIN Codecs) \X Values) /\ \A i \in DOMAIN inside(v) : inner[inside(v)[i][1]].fits[inside(v)[i][2]]
    BY <2>1 DEF Reads, ReadsAs
  <2> HIDE DEF inside
  <2>4. Len(inside(v)) \in Nat /\ DOMAIN inside(v) = 1 .. Len(inside(v))
    BY <2>3
  <2>5. \A i \in DOMAIN inside(v) : inside(v)[i] \in (DOMAIN Codecs) \X Values
    BY <2>3
  <2>6. \A i \in DOMAIN inside(v) : /\ inside(v)[i][1] \in DOMAIN Codecs /\ inside(v)[i][2] \in Values
                                    /\ GoodCodec(inner[inside(v)[i][1]])
    BY <2>5 DEF Usable
  <2>7. parts(v) \in [1 .. Len(inside(v)) -> Bytes]
    BY <2>3, <2>4, <2>6 DEF GoodCodec
  <2> HIDE DEF parts
  <2>8. parts(v) \in Seq(Bytes) /\ Len(parts(v)) = Len(inside(v)) /\ DOMAIN parts(v) = DOMAIN inside(v)
    BY <2>4, <2>7, SeqFrom
  <2> QED
    BY <2>1, <2>2, <2>3, <2>4, <2>6, <2>8
<1>2. ASSUME NEW v \in Values, Fitting(def, v, inner)
      PROVE  FlattenSeq(parts(v)) \in Bytes /\ opening(v) \in Bytes /\ Encoding(def, v, inner) \in Bytes
  <2>1. parts(v) \in Seq(Seq(Tokens)) /\ Len(parts(v)) \in 0 .. Len(parts(v))
    BY <1>1, <1>2, TokensAre
  <2>2. opening(v) \in Seq(Tokens)
    <3>1. token(v) \in Tokens /\ (opening(v) = <<>> \/ opening(v) = <<token(v)>>)
      BY <1>1, <1>2 DEF Reads, ReadsAs
    <3>2. <<>> \in Seq(Tokens) /\ \A t \in Tokens : <<t>> \in Seq(Tokens)
      BY EmptySeq
    <3> HIDE DEF opening, token
    <3> QED
      BY <3>1, <3>2
  <2>3. Encoding(def, v, inner) = opening(v) \o FlattenSeq(parts(v))
    BY <1>1, <1>2
  <2> HIDE DEF parts, opening
  <2>4. FlattenSeq(parts(v)) \in Seq(Tokens)
    BY <2>1, FlattenPrefix
  <2> QED
    BY <2>2, <2>3, <2>4, TokensAre, ConcatProperties
<1>3. ASSUME NEW v \in Values, Fitting(def, v, inner), NEW r \in Bytes
      PROVE  Decoding(def, Encoding(def, v, inner) \o r, inner) = Result(Meaning(def, v, inner), r)
  <2> DEFINE flat == FlattenSeq(parts(v))
             codecs == CodecsOf(inside(v))
  <2>1. /\ opening(v) = IF def.t \in Bare THEN <<>> ELSE <<token(v)>>
        /\ token(v) \in Tokens /\ (def.t \in Bare => token(v) = Token(0))
        /\ Expected(def, token(v)) = codecs /\ Made(def, token(v), means(v)) = Meaning(def, v, inner)
        /\ Meaning(def, v, inner) # Throw
    <3>1. Reads(def, v, inner)
      BY <1>1, <1>3
    <3>2. Meaning(def, v, inner).v # "throw"
      BY <3>1 DEF Reads, Tagged
    <3> QED
      BY <3>1, <3>2, Forms DEF Reads, ReadsAs, Opened
  <2>2. codecs = [i \in DOMAIN inside(v) |-> inside(v)[i][1]] /\ means(v) = [i \in DOMAIN inside(v) |-> inner[inside(v)[i][1]].means[inside(v)[i][2]]]
    BY DEF CodecsOf, MeansOf
  <2>3. ASSUME NEW i \in DOMAIN inside(v)
        PROVE  /\ \A q \in Bytes : inner[codecs[i]].decode[parts(v)[i] \o q] = Result(means(v)[i], q)
               /\ means(v)[i] # Throw
    <3>1. /\ GoodCodec(inner[inside(v)[i][1]]) /\ inside(v)[i][2] \in Values
          /\ inner[inside(v)[i][1]].fits[inside(v)[i][2]]
      BY <1>1, <1>3
    <3>2. codecs[i] = inside(v)[i][1] /\ means(v)[i] = inner[inside(v)[i][1]].means[inside(v)[i][2]]
      BY <2>2
    <3>3. parts(v)[i] = inner[inside(v)[i][1]].encode[inside(v)[i][2]]
      OBVIOUS
    <3> HIDE DEF inside, parts, means, codecs
    <3>4. means(v)[i].v # "throw"
      BY <3>1, <3>2 DEF GoodCodec, Tagged
    <3> QED
      BY <3>1, <3>2, <3>3, <3>4, Forms DEF GoodCodec
  <2>4. DecodeAll(codecs, flat \o r, inner) = [vs |-> means(v), rest |-> r]
    <3>1. /\ parts(v) \in Seq(Bytes) /\ DOMAIN inside(v) = 1 .. Len(parts(v)) /\ Len(parts(v)) \in Nat
          /\ DOMAIN parts(v) = DOMAIN inside(v)
      BY <1>1, <1>3
    <3>2. /\ DOMAIN codecs = DOMAIN parts(v) /\ DOMAIN means(v) = DOMAIN parts(v)
          /\ means(v) = [i \in DOMAIN parts(v) |-> means(v)[i]]
      <4>1. DOMAIN parts(v) = DOMAIN inside(v)
        OBVIOUS
      <4> HIDE DEF inside, parts
      <4> QED
        BY <2>2, <4>1
    <3> HIDE DEF inside, parts, means, codecs
    <3>3. Len(codecs) = Len(parts(v)) /\ Len(means(v)) = Len(parts(v))
      BY <3>1, <3>2
    <3>4. means(v) = [i \in 1 .. Len(parts(v)) |-> means(v)[i]]
      BY <3>1, <3>2
    <3>5. \A i \in 1 .. Len(parts(v)) : /\ \A q \in Bytes : inner[codecs[i]].decode[parts(v)[i] \o q] = Result(means(v)[i], q)
                                        /\ means(v)[i] # Throw
      BY <2>3, <3>1
    <3> DEFINE p == parts(v)
               m == means(v)
    <3>6. p \in Seq(Bytes) /\ EachDecodes(inner, codecs, p, m)
      BY <3>1, <3>2, <3>3, <3>4, <3>5 DEF EachDecodes
    <3> HIDE DEF p, m
    <3>7. DecodeAll(codecs, FlattenSeq(p) \o r, inner) = [vs |-> m, rest |-> r]
      BY <3>6, <1>3, DecodeAllEncoded
    <3> QED
      BY <3>7 DEF p, m
  <2>5. flat \in Seq(Tokens) /\ r \in Seq(Tokens)
    BY <1>2, <1>3, TokensAre
  <2>6. Encoding(def, v, inner) = opening(v) \o flat
    BY <1>1, <1>3
  <2>7. Len(codecs) = Len(means(v)) /\ Len(codecs) \in Nat
    <3>1. Len(inside(v)) \in Nat /\ DOMAIN inside(v) = 1 .. Len(inside(v))
      BY <1>1, <1>3
    <3> HIDE DEF inside
    <3>2. DOMAIN codecs = 1 .. Len(inside(v)) /\ DOMAIN means(v) = 1 .. Len(inside(v))
      BY <3>1, <2>2
    <3> QED
      BY <3>1, <3>2
  <2> DEFINE bytes == Encoding(def, v, inner) \o r
  <2>8. /\ token(v) = IF def.t \in Bare THEN Token(0) ELSE Head(bytes)
        /\ flat \o r = IF def.t \in Bare THEN bytes ELSE Tail(bytes)
    <3> HIDE DEF flat, opening, token
    <3>1. CASE def.t \in Bare
      BY <2>1, <2>5, <2>6, <3>1, ConcatEmptySeq
    <3>2. CASE def.t \notin Bare
      <4>1. opening(v) = <<token(v)>> /\ <<token(v)>> \in Seq(Tokens)
        BY <2>1, <3>2
      <4>2. bytes = <<token(v)>> \o (flat \o r) /\ flat \o r \in Seq(Tokens)
        BY <4>1, <2>5, <2>6, ConcatThrice, ConcatProperties
      <4>3. \A t \in Tokens : \A s \in Seq(Tokens) : Head(<<t>> \o s) = t /\ Tail(<<t>> \o s) = s
        OBVIOUS
      <4> QED
        BY <4>2, <4>3, <2>1, <3>2
    <3> QED
      BY <3>1, <3>2
  <2>9. ~ (Len(means(v)) < Len(codecs))
    BY <2>7
  <2> DEFINE tail == flat \o r
             t == token(v)
             vs == means(v)
             m == Meaning(def, v, inner)
  <2> HIDE DEF flat, bytes, codecs, means, token, tail, t, vs, m
  <2>10. Decoding(def, bytes, inner) = Result(m, r)
    <3>1. t = IF def.t \in Bare THEN Token(0) ELSE Head(bytes)
      BY <2>8 DEF t
    <3>2. tail = IF def.t \in Bare THEN bytes ELSE Tail(bytes)
      BY <2>8 DEF tail
    <3>3. DecodeAll(Expected(def, t), tail, inner) = [vs |-> vs, rest |-> r]
      BY <2>1, <2>4 DEF t, tail, vs
    <3>4. ~ (Len(vs) < Len(Expected(def, t))) /\ Made(def, t, vs) = m /\ m # Throw
      BY <2>1, <2>9 DEF t, vs, m
    <3> DEFINE all == DecodeAll(Expected(def, t), tail, inner)
               made == IF Len(all.vs) < Len(Expected(def, t)) THEN Throw ELSE Made(def, t, all.vs)
    <3>5. Decoding(def, bytes, inner) = Result(made, IF made = Throw THEN <<>> ELSE all.rest)
      BY <3>1, <3>2, Zenon DEF Decoding
    <3>6. all.vs = vs /\ all.rest = r
      BY <3>3
    <3> HIDE DEF all
    <3> QED
      BY <3>4, <3>5, <3>6
  <2> QED
    BY <2>10 DEF bytes, m
<1>4. ASSUME NEW v \in Values, NEW w \in Values, Fitting(def, v, inner), Fitting(def, w, inner),
             Meaning(def, w, inner) = Meaning(def, v, inner)
      PROVE  Encoding(def, w, inner) = Encoding(def, v, inner)
  <2>1. Reads(def, v, inner) /\ Reads(def, w, inner)
    BY <1>1, <1>4
  <2>2. opening(v) = opening(w) /\ means(v) = means(w)
    BY <2>1, <1>4, EveryTypeSame DEF SameWritten
  <2>3. CodecsOf(inside(v)) = CodecsOf(inside(w))
    BY <2>1, <2>2 DEF Reads, ReadsAs, Opened
  <2>4. /\ \A i \in DOMAIN inside(v) : /\ GoodCodec(inner[inside(v)[i][1]]) /\ inside(v)[i][2] \in Values
                                       /\ inner[inside(v)[i][1]].fits[inside(v)[i][2]]
        /\ \A i \in DOMAIN inside(w) : inside(w)[i][2] \in Values /\ inner[inside(w)[i][1]].fits[inside(w)[i][2]]
    BY <1>1, <1>4
  <2>5. Encoding(def, v, inner) = opening(v) \o FlattenSeq(parts(v)) /\ Encoding(def, w, inner) = opening(w) \o FlattenSeq(parts(w))
    BY <1>1, <1>4
  <2> HIDE DEF inside, opening
  <2>6. DOMAIN inside(v) = DOMAIN inside(w) /\ \A i \in DOMAIN inside(v) : inside(v)[i][1] = inside(w)[i][1]
    BY <2>3 DEF CodecsOf
  <2>7. \A i \in DOMAIN inside(v) : inner[inside(v)[i][1]].means[inside(v)[i][2]] = inner[inside(w)[i][1]].means[inside(w)[i][2]]
    BY <2>2, <2>6 DEF MeansOf
  <2>8. \A i \in DOMAIN inside(v) : inner[inside(w)[i][1]].encode[inside(w)[i][2]] = inner[inside(v)[i][1]].encode[inside(v)[i][2]]
    BY <2>4, <2>6, <2>7 DEF GoodCodec
  <2>9. parts(v) = parts(w)
    BY <2>6, <2>8
  <2> QED
    BY <2>2, <2>5, <2>9
<1> DEFINE k == GenCodec(def, inner)
<1>5. ASSUME NEW v \in Values, k.fits[v]
      PROVE  /\ k.encode[v] \in Bytes /\ k.key[v] \in Seq(Int)
             /\ \A r \in Bytes : k.decode[k.encode[v] \o r] = Result(k.means[v], r)
             /\ Tagged(v, k.means[v])
             /\ \A w \in Values : k.fits[w] /\ k.means[w] = k.means[v] => k.encode[w] = k.encode[v]
  <2> HIDE DEF k
  <2>1. /\ \A w \in Values : /\ k.encode[w] = Encoding(def, w, inner) /\ k.key[w] = Key(def, w, inner)
                             /\ (k.fits[w] <=> Fitting(def, w, inner)) /\ k.means[w] = Meaning(def, w, inner)
        /\ \A b \in Bytes : k.decode[b] = Decoding(def, b, inner)
    BY GenCodecIs DEF k
  <2>2. Fitting(def, v, inner)
    BY <1>5, <2>1
  <2>3. Tagged(v, Meaning(def, v, inner))
    BY <2>2, EveryTypeReads DEF Reads
  <2>4. Key(def, v, inner) \in Seq(Int)
    BY <2>2, <2>3, KeyIs DEF Tagged
  <2>5. Encoding(def, v, inner) \in Bytes
    BY <2>2, <1>2
  <2>6. ASSUME NEW r \in Bytes PROVE k.decode[k.encode[v] \o r] = Result(k.means[v], r)
    <3>1. Encoding(def, v, inner) \o r \in Bytes
      BY <2>5, TokensAre, ConcatProperties
    <3> QED
      BY <2>1, <2>2, <3>1, <1>3
  <2>7. ASSUME NEW w \in Values, k.fits[w], k.means[w] = k.means[v] PROVE k.encode[w] = k.encode[v]
    BY <2>1, <2>2, <2>7, <1>4
  <2> QED
    BY <2>1, <2>3, <2>4, <2>5, <2>6, <2>7
<1> QED
  BY <1>5 DEF GoodCodec

\* Every codec of the table is good for what it fits.
LEMMA EveryCodecGood ==
  \A c \in DOMAIN Codecs : GoodCodec(Built[Depth][c])
<1> DEFINE S == {n \in Nat : n <= Depth => \A c \in DOMAIN Codecs : GoodCodec(Built[n][c])}
<1>1. 0 \in S
  <2>1. \A c \in DOMAIN Codecs : Built[0][c] = NeverCodec
    BY BuiltUnfolds
  <2>2. \A v \in Values : ~ NeverCodec.fits[v]
    BY DEF NeverCodec
  <2> QED
    BY <2>1, <2>2 DEF GoodCodec
<1>2. ASSUME NEW n \in Nat, n \in S PROVE n + 1 \in S
  <2> SUFFICES ASSUME n + 1 <= Depth, NEW c \in DOMAIN Codecs PROVE GoodCodec(Built[n + 1][c])
    OBVIOUS
  <2>1. n + 1 \in 1 .. Depth /\ (n + 1) - 1 = n /\ n <= Depth
    BY DepthAssumption
  <2>2. Built[n + 1] = [d \in DOMAIN Codecs |-> GenCodec(Codecs[d], Built[n])]
    BY <2>1, BuiltUnfolds
  <2>3. Built[n + 1][c] = GenCodec(Codecs[c], Built[n])
    BY <2>2
  <2>4. \A d \in DOMAIN Codecs : GoodCodec(Built[n][d])
    BY <1>2, <2>1
  <2>5. Usable(Codecs[c], Built[n])
    BY <2>4, CodecsAssumption DEF Usable
  <2> QED
    BY <2>3, <2>5, GoodStep
<1> HIDE DEF S
<1>3. \A n \in Nat : n \in S
  BY <1>1, <1>2, SetInduction
<1> QED
  BY <1>3, DepthAssumption DEF S

-----------------------------------------------------------------------------
(* The text of ids *)

Characters == STRING \cup {"#", "@", "$"}
Join(p, c, q) == p \o <<c>> \o q
Free(s, c) == \A i \in DOMAIN s : s[i] # c

Joined(p, c, q, r) ==
  /\ r \in Seq(Characters) /\ Len(p) \in Nat /\ Len(q) \in Nat /\ Len(r) = Len(p) + 1 + Len(q)
  /\ \A i \in 1 .. Len(p) : r[i] = p[i]
  /\ r[Len(p) + 1] = c
  /\ \A i \in 1 .. Len(q) : r[Len(p) + 1 + i] = q[i]

LEMMA JoinIs ==
  ASSUME NEW p \in Seq(Characters), NEW c \in Characters, NEW q \in Seq(Characters)
  PROVE  Joined(p, c, q, Join(p, c, q))
<1> DEFINE r == p \o <<c>>
<1>1. Len(p) \in Nat /\ Len(q) \in Nat /\ <<c>> \in Seq(Characters) /\ Len(<<c>>) = 1
  OBVIOUS
<1>2. /\ r \in Seq(Characters) /\ Len(r) = Len(p) + 1
      /\ \A i \in 1 .. Len(p) + 1 : r[i] = IF i <= Len(p) THEN p[i] ELSE <<c>>[i - Len(p)]
  BY <1>1, ConcatProperties
<1> HIDE DEF r
<1>3. /\ r \o q \in Seq(Characters) /\ Len(r \o q) = Len(r) + Len(q)
      /\ \A i \in 1 .. Len(r) + Len(q) : (r \o q)[i] = IF i <= Len(r) THEN r[i] ELSE q[i - Len(r)]
  BY <1>2, ConcatProperties
<1> DEFINE t == r \o q
<1>4. \A i \in 1 .. Len(p) : t[i] = p[i]
  BY <1>1, <1>2, <1>3
<1>5. t[Len(p) + 1] = c
  <2>1. Len(p) + 1 \in 1 .. Len(p) + 1 /\ ~ (Len(p) + 1 <= Len(p)) /\ (Len(p) + 1) - Len(p) = 1
    BY <1>1
  <2> QED
    BY <2>1, <1>1, <1>2, <1>3
<1>6. \A i \in 1 .. Len(q) : t[Len(p) + 1 + i] = q[i]
  <2> TAKE i \in 1 .. Len(q)
  <2>1. Len(p) + 1 + i \in 1 .. Len(r) + Len(q) /\ ~ (Len(p) + 1 + i <= Len(r)) /\ (Len(p) + 1 + i) - Len(r) = i
    BY <1>1, <1>2
  <2> QED
    BY <2>1, <1>3
<1> QED
  BY <1>1, <1>2, <1>3, <1>4, <1>5, <1>6 DEF Join, Joined, r

\* A part of a text, by its characters.
Piece(text, k, s) == k + Len(s) <= Len(text) /\ \A i \in 1 .. Len(s) : text[k + i] = s[i]

LEMMA PieceIs ==
  ASSUME NEW text \in Seq(Characters), NEW s \in Seq(Characters), NEW k \in Nat, Piece(text, k, s)
  PROVE  SubSeq(text, k + 1, k + Len(s)) = s
<1>1. Len(s) \in Nat /\ Len(text) \in Nat /\ DOMAIN s = 1 .. Len(s)
  OBVIOUS
<1> DEFINE r == SubSeq(text, k + 1, k + Len(s))
<1>2. k + 1 \in 1 .. Len(text) + 1 /\ k + Len(s) \in k + 1 - 1 .. Len(text)
  BY <1>1 DEF Piece
<1>3. r \in Seq(Characters) /\ Len(r) = Len(s) /\ \A i \in 1 .. Len(s) : r[i] = text[k + i]
  <2>1. (k + Len(s)) - (k + 1) + 1 = Len(s) /\ \A i \in 1 .. Len(s) : (k + 1) + i - 1 = k + i
    BY <1>1
  <2> QED
    BY <1>1, <1>2, <2>1
<1>4. \A i \in 1 .. Len(s) : text[k + i] = s[i]
  BY DEF Piece
<1> HIDE DEF r
<1> QED
  BY <1>1, <1>3, <1>4, SeqEqual DEF r

\* A text of two parts is split where it was joined.
SplitBack(p, c, q, first, second) ==
  TwoParts(Join(p, c, q), c, first, second) = NewId([Blank EXCEPT ![first] = p, ![second] = q])

LEMMA TwoPartsJoined ==
  ASSUME NEW p \in Seq(Characters), NEW c \in Characters, NEW q \in Seq(Characters), Free(p, c), Free(q, c),
         NEW first, NEW second
  PROVE  SplitBack(p, c, q, first, second)
<1> DEFINE text == Join(p, c, q)
           n == Len(p) + 1
<1>1. /\ text \in Seq(Characters) /\ Len(p) \in Nat /\ Len(q) \in Nat /\ Len(text) = n + Len(q)
      /\ \A i \in 1 .. Len(p) : text[i] = p[i]
      /\ text[n] = c
      /\ \A i \in 1 .. Len(q) : text[n + i] = q[i]
  BY JoinIs DEF Joined
<1> HIDE DEF text
<1>2. {i \in DOMAIN text : text[i] = c} = {n}
  <2>1. DOMAIN text = 1 .. n + Len(q) /\ n \in 1 .. n + Len(q)
    BY <1>1
  <2>2. ASSUME NEW i \in 1 .. n + Len(q), i # n PROVE text[i] # c
    <3>1. CASE i < n
      BY <1>1, <3>1 DEF Free
    <3>2. CASE i > n
      <4> DEFINE k == i - n
      <4>1. k \in 1 .. Len(q) /\ n + k = i
        BY <1>1, <3>2
      <4> HIDE DEF k, n
      <4>2. text[n + k] = q[k] /\ k \in DOMAIN q
        BY <4>1, <1>1
      <4> QED
        BY <4>1, <4>2 DEF Free
    <3>3. n \in Nat /\ i \in Nat
      BY <1>1
    <3>4. i < n \/ i > n
      BY <2>2, <3>3
    <3> QED
      BY <3>1, <3>2, <3>4
  <2> QED
    BY <2>1, <2>2, <1>1
<1>3. Cardinality({n}) = 1 /\ (CHOOSE i \in {n} : TRUE) = n
  BY FS_Singleton
<1>4. SubSeq(text, 1, n - 1) = p
  <2>1. SubSeq(text, 0 + 1, 0 + Len(p)) = p
    BY <1>1, PieceIs DEF Piece
  <2> QED
    BY <2>1, <1>1
<1>5. SubSeq(text, n + 1, Len(text)) = q
  BY <1>1, PieceIs DEF Piece
<1> HIDE DEF n
<1>6. TwoParts(text, c, first, second) = NewId([Blank EXCEPT ![first] = p, ![second] = q])
  BY <1>2, <1>3, <1>4, <1>5 DEF TwoParts
<1> QED
  BY <1>6 DEF text, SplitBack

\* A text of four parts has one match, whose groups are the parts.
LEMMA AssetIdJoined ==
  ASSUME NEW name \in Seq(Characters), NEW middle \in Seq(Characters), NEW signatory \in Seq(Characters), NEW home \in Seq(Characters),
         \A s \in {name, middle, signatory, home} : Free(s, "#") /\ Free(s, "@"),
         name # <<>>, signatory # <<>>, home # <<>>
  PROVE  AssetIdFromStr(Join(Join(name, "#", middle), "#", Join(signatory, "@", home)))
           = NewId([name |-> name, domain |-> IF middle = <<>> THEN home ELSE middle, signatory |-> signatory, home |-> home])
<1> DEFINE left == Join(name, "#", middle)
           right == Join(signatory, "@", home)
           text == Join(left, "#", right)
           a == Len(name) + 1
           b == a + Len(middle) + 1
           c == b + Len(signatory) + 1
           n == c + Len(home)
<1>0. "#" \in Characters /\ "@" \in Characters
  BY DEF Characters
<1>1. /\ Len(name) \in Nat /\ Len(middle) \in Nat /\ Len(signatory) \in Nat /\ Len(home) \in Nat
      /\ Len(name) # 0 /\ Len(signatory) # 0 /\ Len(home) # 0 /\ (middle = <<>> <=> Len(middle) = 0)
  <2>1. \A s \in Seq(Characters) : Len(s) \in Nat /\ (s = <<>> <=> Len(s) = 0)
    BY EmptySeq
  <2> QED
    BY <2>1
<1>2. /\ text \in Seq(Characters) /\ Len(text) = n
      /\ \A i \in 1 .. Len(name) : text[i] = name[i]
      /\ \A i \in 1 .. Len(middle) : text[a + i] = middle[i]
      /\ \A i \in 1 .. Len(signatory) : text[b + i] = signatory[i]
      /\ \A i \in 1 .. Len(home) : text[c + i] = home[i]
      /\ text[a] = "#" /\ text[b] = "#" /\ text[c] = "@"
  <2>01. Joined(name, "#", middle, left) /\ Joined(signatory, "@", home, right)
    BY <1>0, JoinIs
  <2>1. /\ left \in Seq(Characters) /\ Len(left) = a + Len(middle)
        /\ \A i \in 1 .. Len(name) : left[i] = name[i]
        /\ \A i \in 1 .. Len(middle) : left[a + i] = middle[i]
        /\ left[a] = "#"
    BY <2>01 DEF Joined
  <2>2. /\ right \in Seq(Characters) /\ Len(right) = Len(signatory) + 1 + Len(home)
        /\ \A i \in 1 .. Len(signatory) : right[i] = signatory[i]
        /\ \A i \in 1 .. Len(home) : right[Len(signatory) + 1 + i] = home[i]
        /\ right[Len(signatory) + 1] = "@"
    BY <2>01 DEF Joined
  <2> HIDE DEF left, right
  <2>02. Joined(left, "#", right, text)
    BY <1>0, <2>1, <2>2, JoinIs
  <2>3. /\ text \in Seq(Characters) /\ Len(text) = Len(left) + 1 + Len(right)
        /\ \A i \in 1 .. Len(left) : text[i] = left[i]
        /\ \A i \in 1 .. Len(right) : text[Len(left) + 1 + i] = right[i]
        /\ text[Len(left) + 1] = "#"
    BY <2>02 DEF Joined
  <2> HIDE DEF text
  <2>4. b = Len(left) + 1
    BY <1>1, <2>1
  <2>5. /\ \A i \in 1 .. Len(name) : text[i] = name[i]
        /\ text[a] = "#"
    BY <1>1, <2>1, <2>3
  <2>6. \A i \in 1 .. Len(middle) : text[a + i] = middle[i]
    <3> TAKE i \in 1 .. Len(middle)
    <3>1. a + i \in 1 .. Len(left)
      BY <1>1, <2>1
    <3> QED
      BY <3>1, <2>1, <2>3
  <2>7. \A i \in 1 .. Len(right) : text[b + i] = right[i]
    BY <2>3, <2>4
  <2>8. \A i \in 1 .. Len(signatory) : text[b + i] = signatory[i]
    BY <1>1, <2>2, <2>7
  <2>9. \A i \in 1 .. Len(home) : text[c + i] = home[i]
    <3> TAKE i \in 1 .. Len(home)
    <3>1. Len(signatory) + 1 + i \in 1 .. Len(right) /\ b + (Len(signatory) + 1 + i) = c + i
      BY <1>1, <2>2
    <3> HIDE DEF a, b, c
    <3> QED
      BY <3>1, <2>2, <2>7
  <2>10. text[c] = "@"
    <3>1. Len(signatory) + 1 \in 1 .. Len(right) /\ b + (Len(signatory) + 1) = c
      BY <1>1, <2>2
    <3> HIDE DEF a, b, c
    <3> QED
      BY <3>1, <2>2, <2>7
  <2>11. Len(text) = n
    BY <1>1, <2>1, <2>2, <2>3
  <2> QED
    BY <2>3, <2>4, <2>5, <2>6, <2>8, <2>9, <2>10, <2>11
<1>3. /\ a \in Nat /\ b \in Nat /\ c \in Nat /\ n \in Nat
      /\ 1 < a /\ a < b /\ b + 1 < c /\ c < n /\ DOMAIN text = 1 .. n
      /\ a = Len(name) + 1 /\ b = a + Len(middle) + 1 /\ c = b + Len(signatory) + 1 /\ n = c + Len(home)
      /\ (b = a + 1 <=> middle = <<>>)
  <2>1. DOMAIN text = 1 .. n
    <3> HIDE DEF text, n
    <3> QED
      BY <1>2
  <2> HIDE DEF text
  <2> QED
    BY <1>1, <2>1
<1> HIDE DEF text, a, b, c, n
<1>4. ASSUME NEW i \in 1 .. n
      PROVE  (text[i] = "#" => i = a \/ i = b) /\ (text[i] = "@" => i = c)
  <2>1. i < a \/ i = a \/ (a < i /\ i < b) \/ i = b \/ (b < i /\ i < c) \/ i = c \/ (c < i)
    BY <1>3
  <2>2. CASE i < a
    <3>1. i \in 1 .. Len(name) /\ i \in DOMAIN name
      BY <2>2, <1>1, <1>3
    <3> QED
      BY <3>1, <1>2 DEF Free
  <2>3. CASE a < i /\ i < b
    <3> DEFINE k == i - a
    <3>1. k \in 1 .. Len(middle) /\ a + k = i
      BY <2>3, <1>1, <1>3
    <3> HIDE DEF k
    <3>2. text[a + k] = middle[k] /\ k \in DOMAIN middle
      BY <3>1, <1>1, <1>2
    <3> QED
      BY <3>1, <3>2 DEF Free
  <2>4. CASE b < i /\ i < c
    <3> DEFINE k == i - b
    <3>1. k \in 1 .. Len(signatory) /\ b + k = i
      BY <2>4, <1>1, <1>3
    <3> HIDE DEF k
    <3>2. text[b + k] = signatory[k] /\ k \in DOMAIN signatory
      BY <3>1, <1>1, <1>2
    <3> QED
      BY <3>1, <3>2 DEF Free
  <2>5. CASE c < i
    <3> DEFINE k == i - c
    <3>1. k \in 1 .. Len(home) /\ c + k = i
      BY <2>5, <1>1, <1>3
    <3> HIDE DEF k
    <3>2. text[c + k] = home[k] /\ k \in DOMAIN home
      BY <3>1, <1>1, <1>2
    <3> QED
      BY <3>1, <3>2 DEF Free
  <2>6. i = a \/ i = b => text[i] # "@"
    BY <1>2
  <2>7. i = c => text[i] # "#"
    BY <1>2
  <2> QED
    BY <2>1, <2>2, <2>3, <2>4, <2>5, <2>6, <2>7
<1> DEFINE matches == {m \in (DOMAIN text) \X (DOMAIN text) \X (DOMAIN text) :
                         /\ text[m[1]] = "#" /\ text[m[2]] = "#" /\ text[m[3]] = "@"
                         /\ 1 < m[1] /\ m[1] < m[2] /\ m[2] + 1 < m[3] /\ m[3] < Len(text)}
<1>5. matches = {<<a, b, c>>}
  <2>1. <<a, b, c>> \in matches
    BY <1>2, <1>3
  <2>2. ASSUME NEW m \in matches PROVE m = <<a, b, c>>
    <3>1. m \in (1 .. n) \X (1 .. n) \X (1 .. n) /\ text[m[1]] = "#" /\ text[m[2]] = "#" /\ text[m[3]] = "@" /\ m[1] < m[2]
      BY <1>3
    <3>2. (m[1] = a \/ m[1] = b) /\ (m[2] = a \/ m[2] = b) /\ m[3] = c
      BY <3>1, <1>4
    <3>3. m[1] = a /\ m[2] = b
      BY <3>1, <3>2, <1>3
    <3> QED
      BY <3>1, <3>2, <3>3
  <2> QED
    BY <2>1, <2>2
<1> HIDE DEF matches
<1>6. \A k \in Nat : Max({k}) = k
  <2> TAKE k \in Nat
  <2> DEFINE S == {k}
  <2>1. S \in SUBSET Nat /\ k \in S /\ \A j \in S : j <= k
    OBVIOUS
  <2> HIDE DEF S
  <2> QED
    BY <2>1, MaxIs DEF S
<1>7. /\ Max({m[1] : m \in matches}) = a
      /\ Max({m[2] : m \in {q \in matches : q[1] = a}}) = b
      /\ Max({m[3] : m \in {q \in matches : q[1] = a /\ q[2] = b}}) = c
  <2>1. /\ {m[1] : m \in matches} = {a}
        /\ {m[2] : m \in {q \in matches : q[1] = a}} = {b}
        /\ {m[3] : m \in {q \in matches : q[1] = a /\ q[2] = b}} = {c}
    BY <1>5
  <2> QED
    BY <2>1, <1>3, <1>6
<1>14. Piece(text, 0, name) /\ Piece(text, a, middle) /\ Piece(text, b, signatory) /\ Piece(text, c, home)
  BY <1>1, <1>2, <1>3 DEF Piece
<1>8. SubSeq(text, 1, a - 1) = name
  <2>1. SubSeq(text, 0 + 1, 0 + Len(name)) = name
    BY <1>1, <1>2, <1>3, <1>14, PieceIs
  <2> QED
    BY <2>1, <1>1, <1>3
<1>9. SubSeq(text, a + 1, b - 1) = middle
  <2>1. SubSeq(text, a + 1, a + Len(middle)) = middle
    BY <1>1, <1>2, <1>3, <1>14, PieceIs
  <2> QED
    BY <2>1, <1>1, <1>3
<1>10. SubSeq(text, b + 1, c - 1) = signatory
  <2>1. SubSeq(text, b + 1, b + Len(signatory)) = signatory
    BY <1>1, <1>2, <1>3, <1>14, PieceIs
  <2> QED
    BY <2>1, <1>1, <1>3
<1>11. SubSeq(text, c + 1, Len(text)) = home
  <2>1. SubSeq(text, c + 1, c + Len(home)) = home
    BY <1>1, <1>2, <1>3, <1>14, PieceIs
  <2> QED
    BY <2>1, <1>2, <1>3
<1> DEFINE home2 == SubSeq(text, c + 1, Len(text))
<1>12. AssetIdFromStr(text)
         = IF matches = {} THEN NoId
           ELSE NewId([name |-> SubSeq(text, 1, a - 1),
                       domain |-> IF b = a + 1 THEN home2 ELSE SubSeq(text, a + 1, b - 1),
                       signatory |-> SubSeq(text, b + 1, c - 1),
                       home |-> home2])
  BY <1>7, Zenon DEF AssetIdFromStr, matches
<1>13. AssetIdFromStr(text) = NewId([name |-> name, domain |-> IF middle = <<>> THEN home ELSE middle, signatory |-> signatory, home |-> home])
  BY <1>3, <1>5, <1>8, <1>9, <1>10, <1>11, <1>12
<1> QED
  BY <1>13 DEF text

\* The names of an id are texts without what separates them.
LEMMA IdNames ==
  ASSUME NEW kind \in Kinds, NEW id, IsId(kind, id)
  PROVE  /\ id \in [Roles -> Seq(Characters)]
         /\ \A role \in RolesOf(kind) : role \in Roles /\ Free(id[role], "#") /\ Free(id[role], "@") /\ id[role] # <<>>
         /\ \A role \in Roles : ~ BadName(id[role]) /\ id[role] # <<>>
         /\ NewId(id) = id
<1>1. id \in [Roles -> Seq(STRING)] /\ \A role \in RolesOf(kind) : ~ BadName(id[role])
  BY DEF IsId
<1>2. \A role \in Roles \ RolesOf(kind) : id[role] = <<"-">>
  BY DEF IsId, Blank
<1>3. Seq(STRING) \subseteq Seq(Characters)
  <2>1. STRING \subseteq Characters
    BY DEF Characters
  <2> QED
    BY <2>1, SeqMonotonic
<1>4. ~ BadName(<<"-">>)
  <2> DEFINE s == <<"-">>
  <2>1. s # <<>> /\ DOMAIN s = {1} /\ s[1] = "-"
    OBVIOUS
  <2> HIDE DEF s
  <2>2. ~ BadName(s)
    BY <2>1 DEF BadName
  <2> QED
    BY <2>2 DEF s
<1>5. \A role \in Roles : ~ BadName(id[role]) /\ id[role] # <<>>
  BY <1>1, <1>2, <1>4 DEF BadName
<1>6. RolesOf(kind) \subseteq Roles
  BY DEF RolesOf, Roles, Kinds
<1>7. NewId(id) = id
  <2>1. {"name", "domain", "home", "signatory"} \subseteq Roles
    BY DEF Roles
  <2> QED
    BY <1>5, <2>1 DEF NewId
<1>8. \A s \in Seq(STRING) : ~ BadName(s) => Free(s, "#") /\ Free(s, "@")
  BY DEF BadName, Free
<1> QED
  BY <1>1, <1>3, <1>5, <1>6, <1>7, <1>8

\* Every id but an NFT id with a `$` is parsed from its text.
LEMMA TextParses ==
  ASSUME NEW kind \in Kinds, NEW id, IsId(kind, id)
  PROVE  \/ /\ Parse(kind, IdText(kind, id)) = id
            /\ kind = "AssetId" =>
                 Parse("AssetId", AssetDefinitionText(id) \o <<"#">> \o AccountText(id.signatory, id.home)) = id
         \/ kind = "NftId" /\ \E role \in {"name", "domain"} : "$" \in ToSet(id[role])
<1> DEFINE name == id["name"]
           domain == id["domain"]
           signatory == id["signatory"]
           home == id["home"]
<1>1. /\ id \in [Roles -> Seq(Characters)] /\ NewId(id) = id
      /\ \A role \in Roles \ RolesOf(kind) : id[role] = Blank[role]
      /\ \A role \in RolesOf(kind) : role \in Roles /\ Free(id[role], "#") /\ Free(id[role], "@") /\ id[role] # <<>>
  BY IdNames DEF IsId
<1>2. "#" \in Characters /\ "@" \in Characters /\ "$" \in Characters
  BY DEF Characters
<1>3. /\ name \in Seq(Characters) /\ domain \in Seq(Characters) /\ signatory \in Seq(Characters) /\ home \in Seq(Characters)
      /\ id = [role \in Roles |-> id[role]]
  BY <1>1 DEF Roles
<1>4. CASE kind = "AccountId"
  <2>1. RolesOf(kind) = {"signatory", "domain"} /\ Parse(kind, IdText(kind, id)) = TwoParts(Join(signatory, "@", domain), "@", "signatory", "domain")
    BY <1>4 DEF RolesOf, Parse, IdText, AccountText, Join
  <2>2. [Blank EXCEPT !["signatory"] = signatory, !["domain"] = domain] = id
    <3>1. \A role \in Roles \ {"signatory", "domain"} : id[role] = Blank[role]
      BY <1>1, <2>1
    <3> QED
      BY <1>3, <3>1 DEF Blank
  <2>3. TwoParts(Join(signatory, "@", domain), "@", "signatory", "domain") = NewId([Blank EXCEPT !["signatory"] = signatory, !["domain"] = domain])
    <3>1. Free(signatory, "@") /\ Free(domain, "@")
      BY <1>1, <2>1
    <3> HIDE DEF signatory, domain
    <3>2. SplitBack(signatory, "@", domain, "signatory", "domain")
      BY <1>2, <1>3, <3>1, TwoPartsJoined
    <3> QED
      BY <3>2 DEF SplitBack
  <2> QED
    BY <1>1, <1>4, <2>1, <2>2, <2>3
<1>5. CASE kind = "AssetDefinitionId"
  <2>1. RolesOf(kind) = {"name", "domain"} /\ Parse(kind, IdText(kind, id)) = TwoParts(Join(name, "#", domain), "#", "name", "domain")
    BY <1>5 DEF RolesOf, Parse, IdText, AssetDefinitionText, Join
  <2>2. [Blank EXCEPT !["name"] = name, !["domain"] = domain] = id
    <3>1. \A role \in Roles \ {"name", "domain"} : id[role] = Blank[role]
      BY <1>1, <2>1
    <3> QED
      BY <1>3, <3>1 DEF Blank
  <2>3. TwoParts(Join(name, "#", domain), "#", "name", "domain") = NewId([Blank EXCEPT !["name"] = name, !["domain"] = domain])
    <3>1. Free(name, "#") /\ Free(domain, "#")
      BY <1>1, <2>1
    <3> HIDE DEF name, domain
    <3>2. SplitBack(name, "#", domain, "name", "domain")
      BY <1>2, <1>3, <3>1, TwoPartsJoined
    <3> QED
      BY <3>2 DEF SplitBack
  <2> QED
    BY <1>1, <1>5, <2>1, <2>2, <2>3
<1>6. CASE kind = "NftId"
  <2>1. RolesOf(kind) = {"name", "domain"} /\ Parse(kind, IdText(kind, id)) = TwoParts(Join(name, "$", domain), "$", "name", "domain")
    BY <1>6 DEF RolesOf, Parse, IdText, Join
  <2>2. [Blank EXCEPT !["name"] = name, !["domain"] = domain] = id
    <3>1. \A role \in Roles \ {"name", "domain"} : id[role] = Blank[role]
      BY <1>1, <2>1
    <3> QED
      BY <1>3, <3>1 DEF Blank
  <2>3. CASE Free(name, "$") /\ Free(domain, "$")
    <3>1. TwoParts(Join(name, "$", domain), "$", "name", "domain") = NewId([Blank EXCEPT !["name"] = name, !["domain"] = domain])
      <4> HIDE DEF name, domain
      <4>1. SplitBack(name, "$", domain, "name", "domain")
        BY <1>2, <1>3, <2>3, TwoPartsJoined
      <4> QED
        BY <4>1 DEF SplitBack
    <3> QED
      BY <1>1, <1>6, <2>1, <2>2, <3>1
  <2>4. CASE ~ (Free(name, "$") /\ Free(domain, "$"))
    BY <1>6, <2>4 DEF Free, ToSet
  <2> QED
    BY <2>3, <2>4
<1>7. CASE kind = "AssetId"
  <2>1. RolesOf(kind) = Roles
    BY <1>7 DEF RolesOf
  <2>2. \A s \in {name, domain, signatory, home, <<>>} : Free(s, "#") /\ Free(s, "@")
    BY <1>1, <2>1 DEF Roles, Free
  <2>3. name # <<>> /\ domain # <<>> /\ signatory # <<>> /\ home # <<>> /\ <<>> \in Seq(Characters)
    BY <1>1, <2>1, EmptySeq DEF Roles
  <2> DEFINE Text(middle) == Join(Join(name, "#", middle), "#", Join(signatory, "@", home))
             Of4(m) == [name |-> name, domain |-> IF m = <<>> THEN home ELSE m, signatory |-> signatory, home |-> home]
  <2>4. \A middle \in {domain, <<>>} : AssetIdFromStr(Text(middle)) = NewId(Of4(middle))
    <3> TAKE middle \in {domain, <<>>}
    <3>1. middle \in Seq(Characters) /\ \A s \in {name, middle, signatory, home} : Free(s, "#") /\ Free(s, "@")
      BY <1>3, <2>2, <2>3
    <3> HIDE DEF name, domain, signatory, home
    <3> QED
      BY <1>3, <2>3, <3>1, AssetIdJoined
  <2>5. id = Of4(domain) /\ (home = domain => id = Of4(<<>>))
    BY <1>3, <2>3 DEF Roles
  <2>6. AssetDefinitionText(id) \o <<"#">> \o AccountText(signatory, home) = Text(domain)
    BY DEF AssetDefinitionText, AccountText, Join
  <2>7. IdText(kind, id) = Text(IF home = domain THEN <<>> ELSE domain)
    <3>1. IdText(kind, id) = (IF home = domain THEN name \o <<"#">> ELSE Join(name, "#", domain)) \o <<"#">> \o Join(signatory, "@", home)
      BY <1>7 DEF IdText, AssetDefinitionText, AccountText, Join
    <3>2. name \o <<"#">> = Join(name, "#", <<>>)
      <4>1. name \o <<"#">> \in Seq(Characters)
        BY <1>2, <1>3, ConcatProperties
      <4> QED
        BY <4>1, ConcatEmptySeq DEF Join
    <3> HIDE DEF name, domain, signatory, home
    <3> QED
      BY <3>1, <3>2 DEF Join
  <2>8. \A text : Parse(kind, text) = AssetIdFromStr(text)
    BY <1>7 DEF Parse
  <2> HIDE DEF Text, Of4, name, domain, signatory, home
  <2> QED
    BY <1>1, <1>7, <2>4, <2>5, <2>6, <2>7, <2>8 DEF signatory, home
<1> QED
  BY <1>4, <1>5, <1>6, <1>7 DEF Kinds

-----------------------------------------------------------------------------
(* The theorems *)

\* What is on the wire and what was read, by the stage.
Transit ==
  /\ task \in Tasks /\ stage \in {"chosen", "written", "read"}
  /\ stage # "chosen" =>
       wire = IF task.form = "bytes" THEN Encode(task.codec, task.value) ELSE IdText(task.form, task.value)
  /\ stage = "read" => back = IF task.form = "bytes" THEN Decode(task.codec, wire) ELSE Parse(task.form, wire)

LEMMA TransitInvariant == Spec => []Transit
<1>1. Init => Transit
  BY DEF Init, Transit
<1>2. Transit /\ [Next]_vars => Transit'
  <2> SUFFICES ASSUME Transit, [Next]_vars PROVE Transit'
    OBVIOUS
  <2>1. CASE Write
    BY <2>1 DEF Write, Transit
  <2>2. CASE Read
    BY <2>2 DEF Read, Transit
  <2>3. CASE UNCHANGED vars
    BY <2>3 DEF vars, Transit
  <2> QED
    BY <2>1, <2>2, <2>3 DEF Next
<1> QED
  BY <1>1, <1>2, PTL DEF Spec

\* A task of bytes is of a codec of the table that it fits, any other of an id.
LEMMA TasksAre ==
  ASSUME NEW t \in Tasks
  PROVE  /\ t.form = "bytes" => t.codec \in DOMAIN Codecs /\ t.value \in Values /\ Built[Depth][t.codec].fits[t.value]
         /\ t.form # "bytes" => t.form \in Kinds /\ IsId(t.form, t.value)
<1>1. "bytes" \notin Kinds
  BY DEF Kinds
<1> QED
  BY <1>1, TasksAssumption DEF Fits

\* Whatever the codecs of the table and the values that fit them: decode gives
\* what the value means and leaves no bytes (codec.ts, primitives.ts, compound.ts).
THEOREM DecodesBack == Spec => []BytesDecodeBack
<1>1. Transit => BytesDecodeBack
  <2> SUFFICES ASSUME Transit, stage = "read", task.form = "bytes"
               PROVE  back = Result(Means(task.codec, task.value), <<>>)
    BY DEF BytesDecodeBack
  <2> DEFINE k == Built[Depth][task.codec]
  <2>1. back = k.decode[k.encode[task.value]]
    BY DEF Transit, Decode, Encode
  <2>2. task.value \in Values /\ k.fits[task.value] /\ GoodCodec(k)
    BY TasksAre, EveryCodecGood DEF Transit
  <2> HIDE DEF k
  <2>3. k.encode[task.value] \in Seq(Tokens) /\ <<>> \in Bytes
    BY <2>2, TokensAre, EmptySeq DEF GoodCodec
  <2>4. k.encode[task.value] \o <<>> = k.encode[task.value]
    BY <2>3, ConcatEmptySeq
  <2>5. k.decode[k.encode[task.value] \o <<>>] = Result(k.means[task.value], <<>>)
    BY <2>2, <2>3 DEF GoodCodec
  <2> QED
    BY <2>1, <2>4, <2>5 DEF Means, k
<1> QED
  BY <1>1, TransitInvariant, PTL

\* Values that mean the same are encoded alike, and no others: for sets and maps
\* whatever the order and the repetitions they were given with (codec.ts, traits.ts).
THEOREM EncodedOnce == Spec => []OneEncoding
<1>1. Transit => OneEncoding
  <2> SUFFICES ASSUME Transit, stage = "written", task.form = "bytes",
                      NEW other \in {t \in Tasks : t.form = "bytes" /\ t.codec = task.codec}
               PROVE  Means(task.codec, other.value) = Means(task.codec, task.value)
                        <=> Encode(task.codec, other.value) = wire
    BY DEF OneEncoding
  <2> DEFINE k == Built[Depth][task.codec]
             v == task.value
             w == other.value
  <2>1. wire = k.encode[v]
    BY DEF Transit, Encode
  <2>2. v \in Values /\ k.fits[v] /\ w \in Values /\ k.fits[w] /\ GoodCodec(k)
    BY TasksAre, EveryCodecGood DEF Transit
  <2> HIDE DEF k, v, w
  <2>3. k.means[w] = k.means[v] => k.encode[w] = k.encode[v]
    BY <2>2 DEF GoodCodec
  <2>4. <<>> \in Bytes
    BY TokensAre, EmptySeq
  <2>5. k.decode[k.encode[v] \o <<>>] = Result(k.means[v], <<>>) /\ k.decode[k.encode[w] \o <<>>] = Result(k.means[w], <<>>)
    BY <2>2, <2>4 DEF GoodCodec
  <2>6. k.encode[w] = k.encode[v] => k.means[w] = k.means[v]
    BY <2>5 DEF Result
  <2> QED
    BY <2>1, <2>3, <2>6 DEF Means, Encode, k, v, w
<1> QED
  BY <1>1, TransitInvariant, PTL

\* An id is parsed from its text, an asset id from either of its forms, and an NFT
\* id unless a name has a `$` (data-model/compound.ts).
THEOREM ParsesBack == Spec => []TextParsesBack
<1>1. Transit => TextParsesBack
  <2> SUFFICES ASSUME Transit, stage = "read", task.form # "bytes" PROVE TextParsesBack
    BY DEF TextParsesBack
  <2> DEFINE kind == task.form
             id == task.value
  <2>1. kind \in Kinds /\ IsId(kind, id)
    BY TasksAre DEF Transit
  <2>2. back = Parse(kind, IdText(kind, id))
    BY DEF Transit
  <2>3. \/ /\ Parse(kind, IdText(kind, id)) = id
           /\ kind = "AssetId" =>
                Parse("AssetId", AssetDefinitionText(id) \o <<"#">> \o AccountText(id.signatory, id.home)) = id
        \/ kind = "NftId" /\ \E role \in {"name", "domain"} : "$" \in ToSet(id[role])
    <3> HIDE DEF kind, id
    <3> QED
      BY <2>1, TextParses
  <2> QED
    BY <2>2, <2>3 DEF TextParsesBack
<1> QED
  BY <1>1, TransitInvariant, PTL
=============================================================================
