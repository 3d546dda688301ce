----------------------------- MODULE Prototypes -----------------------------
(***************************************************************************)
(* From projections to queries.  generatePrototypes and generateClientFind *)
(* API (etc/codegen.ts) turn the projection enums of the schema into the   *)
(* types a user writes `nft.accountId.domain` against; at run time the     *)
(* same expression is evaluated by proxies that know nothing of the schema *)
(* (core/query-internal.ts) and its value goes into a QueryBuilder         *)
(* (core/query.ts).  The user does only what the types allow.              *)
(***************************************************************************)
EXTENDS Naturals, Sequences, SequencesExt, FiniteSets

CONSTANTS
  Emits,        \* projections: id -> [t, parts: sequence of [tag, type]]
  Words,        \* the words of a tag or of a selected type's name
  Selects,      \* selector id -> name of the type it selects from
  OutputBox,    \* variants of QueryOutputBatchBox: tag -> element type
  Queries,      \* variants of QueryBox: tag -> [predicate, selector, payload]
  Camel,        \* what toCamelCase of @std/text makes of a tag
  Capital,      \* a property with its first letter in upper case
  MetadataKeys  \* ids that start with MetadataKeyProjection

QUERIES_WITH_PAYLOAD ==
  {"FindAccountsWithAsset", "FindPermissionsByAccountId", "FindRolesByAccountId",
   "FindBlocks", "FindBlockHeaders"}

CamelCase(tag) == Camel[tag]
FixPropCase(prop) == Capital[prop]

Unit == "null"
Roles == {"predicate", "selector"}

\* The projections are Rust enums, so no two variants have one tag, and structs;
\* a test takes no projection and is not called `key`, as the method for a
\* metadata key is; and a query's name starts with `Find`.
ASSUME PrototypesAssumption ==
  /\ IsFiniteSet(DOMAIN Emits)
  /\ \A id \in DOMAIN Emits : Emits[id].parts \in Seq([tag : STRING, type : STRING])
  /\ {Unit, ""} \cap DOMAIN Emits = {}
  /\ \A id \in DOMAIN Emits : \A i, j \in DOMAIN Emits[id].parts :
       Emits[id].parts[i].tag = Emits[id].parts[j].tag => i = j
  /\ \A id, atom \in DOMAIN Emits : \A i \in DOMAIN Emits[id].parts :
       Emits[id].parts[i] = [tag |-> "Atom", type |-> atom] =>
         \A j \in DOMAIN Emits[atom].parts : /\ Emits[atom].parts[j].type \notin DOMAIN Emits \cup {""}
                                             /\ CamelCase(Emits[atom].parts[j].tag) # "key"
  /\ DOMAIN Queries \cap {"none", "bad arguments"} = {}
  /\ MetadataKeys \subseteq DOMAIN Emits
  /\ \A id \in DOMAIN Emits : \A i \in DOMAIN Emits[id].parts :
       Emits[id].parts[i].type \in MetadataKeys => CamelCase(Emits[id].parts[i].tag) = "key"

\* A tag is words that begin with a capital and go on in small letters, so that
\* the proxies get it back from the property: an acronym would be lost.
ASSUME CaseAssumption ==
  \A id \in DOMAIN Emits : Emits[id].t = "enum" =>
    \A i \in DOMAIN Emits[id].parts :
      FixPropCase(CamelCase(Emits[id].parts[i].tag)) = Emits[id].parts[i].tag

VARIABLES
  builder,     \* the QueryBuilder
  proxy        \* the prototype expression the user is in, and what it has become

vars == <<builder, proxy>>

-----------------------------------------------------------------------------
(* Generation *)

Variants(id) == Range(Emits[id].parts)

\* The struct a metadata key leads to holds the key and its projection.
Projection(id) == Emits[id].parts[2].type

Entry(t, tag, next) == [t |-> t, tag |-> tag, prop |-> CamelCase(tag), next |-> next]

Delegate(variant) ==
  IF variant.type \in MetadataKeys THEN Entry("key", variant.tag, Projection(variant.type))
  ELSE Entry("nested", variant.tag, variant.type)

\* The variants that buildPredicateTree and buildSelectorTree go on with: every
\* one but the atom, for predicates up to a metadata key, where it returns.
Delegates(role, id) ==
  LET parts == Emits[id].parts
      delegates == 2 .. Len(parts)
      keys == {i \in delegates : parts[i].type \in MetadataKeys}
  IN IF id \notin DOMAIN Emits THEN {}
     ELSE IF role = "selector" THEN delegates
     ELSE {i \in delegates : \A k \in keys : i <= k}

\* expandFinal: a function for each test of the atom.
Tests(id) ==
  IF Emits[id].parts = <<>> THEN {}
  ELSE {Entry(IF test.type = Unit THEN "test" ELSE "testValue", test.tag, "final") :
          test \in Variants(Emits[id].parts[1].type)}

\* resolveSelectorAtomOutputBoxTag.
OutputTag(type) ==
  CASE type = "PeerId" -> "Peer"
    [] type = "SignedBlock" -> "Block"
    [] type = "TransactionError" -> "TransactionRejectionReason"
    [] OTHER -> type

Output(id) == OutputBox[OutputTag(Selects[id])]

\* BuildTreeAcc.selectorId: the chain of names, each in kebab case.
SelectorId(chain) == FlattenSeq([i \in DOMAIN chain |-> Words[chain[i]]])

\* What both assert of a projection; the selector of a type that
\* QueryOutputBatchBox has.
Builds(role, id) ==
  LET parts == Emits[id].parts IN
  /\ id \in DOMAIN Emits /\ Emits[id].t = "enum"
  /\ \A i \in Delegates(role, id) : parts[i].type \in MetadataKeys =>
       Emits[parts[i].type].t = "struct" /\ Len(Emits[parts[i].type].parts) >= 2
  /\ \/ /\ role = "selector"
        /\ parts # <<>> /\ parts[1] = [tag |-> "Atom", type |-> Unit]
        /\ id \in DOMAIN Selects /\ OutputTag(Selects[id]) \in DOMAIN OutputBox
     \/ role = "predicate" /\ parts = <<>>
     \/ /\ role = "predicate"
        /\ parts # <<>> /\ parts[1].tag = "Atom"
        /\ parts[1].type \in DOMAIN Emits /\ Emits[parts[1].type].t = "enum"

\* BuildTreeAcc.push, with the tag, or `key`.
Push(chain, entry) == Append(chain, IF entry.t = "key" THEN "key" ELSE entry.tag)

\* A position of a tree: the projection, the chain of names that lead to it,
\* and the numbers of the variants.
Root(query, role) ==
  [at |-> Queries[query][role], chain |-> <<Selects[Queries[query].selector]>>, path |-> <<>>]

Child(pos, i) ==
  LET entry == Delegate(Emits[pos.at].parts[i]) IN
  [at |-> entry.next, chain |-> Push(pos.chain, entry), path |-> Append(pos.path, i)]

Children(role, pos) == {Child(pos, i) : i \in Delegates(role, pos.at)}

\* The recursion of both: the positions n variants deep.
Tree(query, role) ==
  LET level[n \in Nat] ==
        IF n = 0 THEN {Root(query, role)} ELSE UNION {Children(role, pos) : pos \in level[n - 1]}
  IN level

\* So deep, a projection would be inside itself.
Depth == Cardinality(DOMAIN Emits)

Positions(query) == UNION {Tree(query, "selector")[n] : n \in 0 .. Depth}

\* A node comes before its children, a child and what is in it before the next.
Precedes(p, q) ==
  \/ IsStrictPrefix(p, q)
  \/ \E i \in DOMAIN p \cap DOMAIN q : p[i] < q[i] /\ \A j \in 1 .. i - 1 : p[j] = q[j]

\* collectSelectorOutputs, a Map: of two positions with one id the later stays.
OutputsOf(query) ==
  [id \in {SelectorId(pos.chain) : pos \in Positions(query)} |->
     LET same == {pos \in Positions(query) : SelectorId(pos.chain) = id}
         last == CHOOSE pos \in same : \A other \in same \ {pos} : Precedes(other.path, pos.path)
     IN Output(last.at)]

\* generatePrototypes throws nowhere: not in a tree, which comes to its end,
\* and not at the assertEquals across queries.
Generates ==
  /\ \A query \in DOMAIN Queries : \A role \in Roles :
       /\ Tree(query, role)[Depth] = {}
       /\ \A n \in 0 .. Depth : \A pos \in Tree(query, role)[n] : Builds(role, pos.at)
  /\ \A p, q \in DOMAIN Queries :
       \A id \in DOMAIN OutputsOf(p) \cap DOMAIN OutputsOf(q) : OutputsOf(p)[id] = OutputsOf(q)[id]

\* SelectorIdToOutput
SelectorIdToOutput(id) ==
  LET query == CHOOSE q \in DOMAIN Queries : id \in DOMAIN OutputsOf(q) IN OutputsOf(query)[id]

-----------------------------------------------------------------------------
(* Run time: the proxies.  A value is the path of its layers, outermost      *)
(* first: a variant, or the key and projection of a metadata key.            *)

Layer(prop, arg) == [key |-> FALSE, kind |-> FixPropCase(prop), arg |-> arg]
KeyLayer == [key |-> TRUE, kind |-> "", arg |-> FALSE]
Atom(arg) == [key |-> FALSE, kind |-> "Atom", arg |-> arg]
Layers(props) == [i \in DOMAIN props |-> IF props[i] = KeyLayer THEN KeyLayer ELSE Layer(props[i].kind, TRUE)]

Prop(prop) == [key |-> FALSE, kind |-> prop, arg |-> FALSE]

\* buildSelector
SelectorValue(props) == Append(Layers(props), Atom(FALSE))

\* Faulty variant: the atom is put around the path and not around the test.
PredicateValueInsideOut(props, arg) ==
  LET last == Len(props) IN
  <<Atom(TRUE)>> \o Layers(SubSeq(props, 1, last - 1)) \o <<Layer(props[last].kind, arg)>>

\* predicateBuilderCall, when it is final: the test, in an atom, in the path.
PredicateValue(props, arg) ==
  LET last == Len(props) IN
  Layers(SubSeq(props, 1, last - 1)) \o <<Atom(TRUE), Layer(props[last].kind, arg)>>

\* What a layer of a value leads to in the type `id`; "" when it does not fit.
Inside(id, layer) ==
  LET fits == {v \in Variants(id) : v.tag = layer.kind /\ layer.arg = (v.type # Unit)}
  IN IF id \notin DOMAIN Emits \/ layer.key # (Emits[id].t = "struct") THEN ""
     ELSE IF layer.key THEN Projection(id)
     ELSE IF fits = {} THEN "" ELSE (CHOOSE v \in fits : TRUE).type

\* The types that the layers of a value lead to, one inside the other.
Along(value, id) ==
  LET at[n \in Nat] == IF n = 0 THEN id ELSE Inside(at[n - 1], value[n])
  IN at

\* The value is of the type, to the end.
Inhabits(value, id) ==
  value # <<>> /\ Along(value, id)[Len(value)] \notin DOMAIN Emits \cup {""}

-----------------------------------------------------------------------------
Default == SelectorValue(<<>>)     \* DEFAULT_SELECTOR
PASS == <<>>                       \* CompoundPredicate.PASS

Idle == [role |-> "none", at |-> "", chain |-> <<>>, props |-> <<>>]

Init ==
  /\ builder = [kind |-> "none", payload |-> FALSE, predicate |-> PASS, selector |-> Default, output |-> ""]
  /\ proxy = Idle

Takes(query) == Queries[query].payload # Unit

\* A FindAPI method: generateClientFindAPI gives the ones whose variant has a
\* payload an argument for it.  The QueryBuilder constructor goes by its own
\* list: of a query in it, the second of two arguments is the payload, though
\* the method meant it for the parameters; of others, three are 'bad arguments'.
Find(query) ==
  /\ builder.kind = "none" /\ Generates
  /\ builder' = [builder EXCEPT
       !.kind = IF Takes(query) /\ query \notin QUERIES_WITH_PAYLOAD THEN "bad arguments" ELSE query,
       !.payload = query \in QUERIES_WITH_PAYLOAD,
       !.output = Output(Queries[query].selector)]
  /\ UNCHANGED proxy

\* selectWith and filterWith call the user with a fresh prototype.
Open(role) ==
  /\ builder.kind \in DOMAIN Queries /\ proxy = Idle
  /\ \/ role = "selector" /\ builder.selector = Default
     \/ role = "predicate" /\ builder.predicate = PASS
  /\ LET root == Root(builder.kind, role) IN
     proxy' = [role |-> role, at |-> root.at, chain |-> root.chain, props |-> <<>>]
  /\ UNCHANGED builder

Entries ==
  {Delegate(Emits[proxy.at].parts[i]) : i \in Delegates(proxy.role, proxy.at)}
  \cup (IF proxy.role = "predicate" THEN Tests(proxy.at) ELSE {})

\* Property access, and the call of key(name): prop by prop for the proxy.
Step(entry) ==
  /\ proxy # Idle /\ entry \in Entries /\ entry.t \in {"nested", "key"}
  /\ proxy' = [proxy EXCEPT
       !.at = entry.next,
       !.chain = Push(@, entry),
       !.props = @ \o (IF entry.t = "key" THEN <<Prop(entry.prop), KeyLayer>> ELSE <<Prop(entry.prop)>>)]
  /\ UNCHANGED builder

\* Faulty variant: selectWith has the type of the builder it was called on.
SelectSameType ==
  /\ proxy.role = "selector"
  /\ builder' = [builder EXCEPT !.selector = SelectorValue(proxy.props)]
  /\ proxy' = Idle

\* The function given to selectWith returns the proxy it has come to.
Select ==
  /\ proxy.role = "selector"
  /\ builder' = [builder EXCEPT !.selector = SelectorValue(proxy.props),
                                !.output = SelectorIdToOutput(SelectorId(proxy.chain))]
  /\ proxy' = Idle

\* The call of a test; its value is what filterWith gets.
Test(entry) ==
  /\ proxy.role = "predicate" /\ entry \in Entries /\ entry.t \in {"test", "testValue"}
  /\ builder' = [builder EXCEPT
       !.predicate = PredicateValue(Append(proxy.props, Prop(entry.prop)), entry.t = "testValue")]
  /\ proxy' = Idle

Next ==
  \/ \E query \in DOMAIN Queries : Find(query)
  \/ \E role \in {"selector", "predicate"} : Open(role)
  \/ \E entry \in IF proxy = Idle THEN {} ELSE Entries : Step(entry) \/ Test(entry)
  \/ Select

Spec == Init /\ [][Next]_vars

-----------------------------------------------------------------------------
Query == Queries[builder.kind]

\* Whatever the generated types let a user write, the query that is built is
\* a value of QueryBox: the predicate and the selector are values of the
\* query's projections, and it has a payload exactly when its type has one.
BuildsQueryBox ==
  /\ builder.kind # "bad arguments"
  /\ builder.kind \in DOMAIN Queries =>
       /\ builder.payload = Takes(builder.kind)
       /\ builder.predicate # PASS => Inhabits(builder.predicate, Query.predicate)
       /\ Inhabits(builder.selector, Query.selector)

\* The type a selector's value leads to, its last atom taken off.
SelectedType == Along(builder.selector, Query.selector)[Len(builder.selector) - 1]

\* The type the prototypes give the result, looked up by the selector's id in
\* one table for all queries, is the type of what the peer will select.
OutputIsSelected ==
  builder.kind \in DOMAIN Queries => builder.output = Output(SelectedType)

\* What both rest on and nothing in the code makes sure of.  The list is
\* written by hand and names the queries that have a payload in the schema;
ListMatches == \A query \in DOMAIN Queries : Takes(query) <=> query \in QUERIES_WITH_PAYLOAD

\* the ids, words joined by a dash, tell the positions of a tree apart.
IdsDistinct ==
  \A query \in DOMAIN Queries : \A p1, p2 \in Positions(query) :
    SelectorId(p1.chain) = SelectorId(p2.chain) => p1 = p2
=============================================================================
