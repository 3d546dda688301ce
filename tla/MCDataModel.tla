----------------------------- MODULE MCDataModel -----------------------------
EXTENDS DataModel

\* An accented letter is one character, or two that localeCompare holds equal to
\* it; in the order of `<` the one comes after, the other before every b.
MCAlphabet == {"$", "a", "b", "acute", "a-acute"}
OneAccented == <<"a-acute">>
TwoAccented == <<"a", "acute">>

MCCollation ==
  <<>> :> 0 @@ <<"a">> :> 1 @@ OneAccented :> 2 @@ TwoAccented :> 2 @@ <<"a", "b">> :> 3 @@ <<"b">> :> 4
  @@ <<"b", "a">> :> 5

MCCodeUnits ==
  <<>> :> 0 @@ <<"a">> :> 1 @@ <<"a", "b">> :> 2 @@ TwoAccented :> 3 @@ <<"b">> :> 4 @@ <<"b", "a">> :> 5
  @@ OneAccented :> 6

MCCode == [ed25519 |-> 2, secp256k1 |-> 1, bls_normal |-> 4, bls_small |-> 3]

\* Duration is a type with isZero() of its own.
MCCodecs ==
  DataModelCodecs
  @@ [Status |-> EnumOf(<< Part("Ok", 0, {}, "unit"), Part("Err", 2, {}, "String"), Part("Pair", 1, {}, "NumberVec") >>),
      NumberVec |-> Vec("Number"),
      Events |-> Bitmap(<< <<"Created", {0}>>, <<"Deleted", {2}>>, <<"Changed", {1, 3}>> >>),
      Triple |-> Codec("tuple", <<Part("", 0, {}, "Number"), Part("", 0, {}, "Status"), Part("", 0, {}, "Events")>>),
      NumberSet |-> BTreeSet("Number"),
      NumberSetOption |-> Option("NumberSet"),
      NumberOption |-> Option("Number"),
      NumberOptionOption |-> Option("NumberOption"),
      NumberByName |-> BTreeSet("NumberByNameEntry"),
      NumberByNameEntry |-> Entry("Name", "Number"),
      NamesByString |-> BTreeSet("NamesByStringEntry"),
      NamesByStringEntry |-> Entry("String", "NameSet"),
      NameSet |-> BTreeSet("Name"),
      AccountSet |-> BTreeSet("AccountId"),
      DefinitionVec |-> Vec("AssetDefinitionId"),
      SignatureSet |-> BTreeSet("BlockSignature"),
      NumberPredicate |-> Predicate("Number", "NumberPredicate", "NumberPredicateVec"),
      NumberPredicateVec |-> Vec("NumberPredicate"),
      NonZeroNumber |-> NonZero("Number"),
      NonZeroBigInt |-> NonZero("BigInt"),
      Duration |-> Leaf("duration"),
      NonZeroDuration |-> NonZero("Duration"),
      NonZeroDurationOption |-> Option("NonZeroDuration")]

\* The deepest is a number in a predicate in a list in a predicate in a predicate.
MCDepth == 5

Upto(S, n) == BoundedSeq(S, n)
Names == {<<"a">>, <<"b">>, <<"a", "b">>, <<"a", "$">>, <<"$", "b">>}

Number(n) == Scalar("number", n)
BigInt(n) == Scalar("bigint", n)
Numbers == {Number(n) : n \in 0 .. 2}
BigInts == {BigInt(n) : n \in 0 .. 1}
Strings == {Str(<<>>), Str(<<"a">>), Str(<<"b">>), Str(<<"b", "a">>)}
NameValues == {Str(<<"a">>), Str(<<"a", "b">>), Str(<<"b">>)}
Algorithms == {Variant("ed25519", <<>>), Variant("secp256k1", <<>>)}

ListsOf(S, n) == {List(l) : l \in Upto(S, n)}
Objects(fields) == {Object(f) : f \in fields}
Keys == Objects([algorithm : Algorithms, payload : {Str(<<"a">>), Str(<<"b">>)}])
Accounts == Objects([domain : NameValues, signatory : Keys])
Definitions == Objects([domain : NameValues, name : NameValues])
Assets == Objects([account : {a \in Accounts : Len(a.fields.domain.s) = 1}, definition : Definitions])
NumberEntries == Objects([key : NameValues, value : {Number(1), Number(2)}])
NameSets == {List(<<>>), List(<<Str(OneAccented), Str(<<"b">>)>>)}
NamesEntries == Objects([key : {Str(<<"b">>), Str(OneAccented), Str(TwoAccented)}, value : NameSets])
Signatures == Objects([index : BigInts, signature : {Str(<<"a">>), Str(<<"b">>)}])

StatusValues ==
  {Variant("Ok", <<>>)} \cup {Variant("Err", <<s>>) : s \in Strings} \cup {Variant("Pair", <<l>>) : l \in ListsOf(Numbers, 2)}
Flagged == {Flags(f) : f \in SUBSET {"Created", "Deleted", "Changed"}}

Predicates0 == {Variant("Atom", <<Number(n)>>) : n \in 0 .. 1} \cup {Variant(kind, <<List(<<>>)>>) : kind \in {"And", "Or"}}
Wrap(inner) == {Variant("Not", <<p>>) : p \in inner}
                 \cup {Variant(kind, <<l>>) : kind \in {"And", "Or"}, l \in ListsOf(inner, 2)}
PredicateValues == Predicates0 \cup Wrap(Predicates0) \cup {Variant("Not", <<p>>) : p \in Wrap(Predicates0)}

ByteValues ==
  [Triple |-> {List(<<n, v, f>>) : n \in Numbers, v \in StatusValues, f \in {Flags({}), Flags({"Created", "Changed"})}},
   NumberSetOption |-> {Null} \cup ListsOf(Numbers, 3),
   NumberOptionOption |-> {Null} \cup Numbers,
   NumberByName |-> ListsOf(NumberEntries, 3),
   NamesByString |-> ListsOf(NamesEntries, 2),
   AccountSet |-> ListsOf(Accounts, 2),
   AssetId |-> Assets,
   DefinitionVec |-> ListsOf(Definitions, 1),
   SignatureSet |-> ListsOf(Signatures, 2),
   Algorithm |-> Algorithms,
   NumberPredicate |-> PredicateValues,
   Events |-> Flagged,
   NonZeroNumber |-> Numbers \ {Number(0)},
   NonZeroBigInt |-> BigInts,
   NonZeroDurationOption |-> {Null, Scalar("duration", 1)}]

ByteTasks == UNION {{[form |-> "bytes", codec |-> c, value |-> v] : v \in ByteValues[c]} : c \in DOMAIN ByteValues}

\* What is chosen, and what is inside it.
AllValues ==
  UNION {ByteValues[c] : c \in DOMAIN ByteValues}
  \cup Numbers \cup BigInts \cup Strings \cup NameValues \cup {Str(OneAccented), Str(TwoAccented)} \cup Algorithms \cup Keys \cup Accounts \cup Definitions
  \cup NumberEntries \cup NamesEntries \cup NameSets \cup Signatures \cup StatusValues \cup ListsOf(Numbers, 2) \cup Flagged
  \cup Wrap(Predicates0) \cup ListsOf(Predicates0, 2)

Text(kind, ids) == {[form |-> kind, codec |-> "", value |-> id] : id \in ids}
TextTasks ==
  Text("AccountId", {[Blank EXCEPT !.signatory = s, !.domain = d] : s \in {<<"a">>, <<"b", "a">>}, d \in Names})
  \cup UNION {Text(kind, {[Blank EXCEPT !.name = n, !.domain = d] : n, d \in Names})
                : kind \in {"AssetDefinitionId", "NftId"}}
  \cup Text("AssetId", [name : Names, domain : Names, signatory : {<<"a">>, <<"b", "a">>}, home : Names])

MCValues == AllValues

MCTasks == ByteTasks \cup TextTasks
=============================================================================
