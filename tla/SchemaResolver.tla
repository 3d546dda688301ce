--------------------------- MODULE SchemaResolver ---------------------------
(***************************************************************************)
(* The Resolver of etc/codegen.ts: from the schema of the data model to    *)
(* the map of types to emit.  resolve() memoises what a schema key refers  *)
(* to; a reference to a local type comes with a closure, run later by      *)
(* fillEmits, that makes the type's definition.  A step of the model is    *)
(* one #resolved.set or one emit; the keys of the schema object, and so    *)
(* the depth-first order of those steps, come in any order.                *)
(***************************************************************************)
EXTENDS Naturals, Sequences, SequencesExt, FiniteSetsExt, Functions, TLC

CONSTANTS
  Schemas,       \* the schemas to try: key -> [shape, parts, len]
  Tokens,        \* a type's name, without paths, as SchemaId.parse splits it
  Unsuffixed     \* field and variant names that end with _ms or Ms, without it

BreakPoints == {"InstructionBox"}      \* CYCLE_BREAK_POINTS
Unit == ""                             \* the type of a variant without one

VARIABLES
  schema,
  phase,      \* "resolve", "fill", "never", ... ; "failed": something threw
  resolved,   \* #resolved: key -> reference and form of its emit closure
  visited,    \* what the loop of the phase has gone through
  emits       \* #emits: local id -> definition

resolverVars == <<schema, phase, resolved, visited, emits>>

-----------------------------------------------------------------------------
(* TypeRef, in one shape: t, id, params, lazy; an index or length is n.      *)

Ref(t, id, params) == [t |-> t, id |-> id, params |-> params, lazy |-> FALSE, n |-> 0]
Lib(id) == Ref("lib", id, <<>>)
LibOf(id, params) == Ref("lib", id, params)
Local(id) == Ref("local", id, <<>>)
Param(i) == [t |-> "param", id |-> "", params |-> <<>>, lazy |-> FALSE, n |-> i]
ArrayOf(type, len) == [t |-> "array", id |-> "", params |-> <<type>>, lazy |-> FALSE, n |-> len]
NoValue == Ref("null", "", <<>>)
Unexpected == Ref("unexpected", "", <<>>)      \* an error, thrown where it is met

\* Map.set, on #resolved and #emits.
MapSet(map, key, value) == [k \in DOMAIN map \cup {key} |-> IF k = key THEN value ELSE map[k]]

Part(name, type) == [name |-> name, type |-> type]
Emit(t, parts) == [t |-> t, parts |-> parts]

(* SchemaId.parse, on the tokens of a key: a stack of identifiers whose last *)
(* items are still open.                                                     *)
Id(id, items) == [id |-> id, items |-> items]
NullId == Id("", <<>>)

Close(open) ==
  LET n == Len(open) IN
  Append(SubSeq(open, 1, n - 2),
         [open[n - 1] EXCEPT !.items[Len(open[n - 1].items)] = open[n]])

Token(open, token) ==
  LET n == Len(open) IN
  IF n = 0 THEN <<>>
  ELSE CASE token = "<" -> Append(open, Last(open[n].items))
         [] token = ">" -> IF n = 1 THEN <<>> ELSE Close(open)
         [] OTHER -> [open EXCEPT ![n].items = Append(@, Id(token, <<>>))]

ParseId(tokens) ==
  LET after[n \in 0 .. Len(tokens)] ==
        IF n = 0 THEN <<Id("__root__", <<>>)>> ELSE Token(after[n - 1], tokens[n])
      open == after[Len(tokens)]
  IN IF Len(open) = 1 /\ Len(open[1].items) = 1 THEN open[1].items[1] ELSE NullId

\* What every name is parsed to.
Parsed == (Unit :> NullId) @@ [type \in DOMAIN Tokens |-> ParseId(Tokens[type])]

-----------------------------------------------------------------------------
(* What resolveInner matches on.  A definition of the schema has a shape and *)
(* parts: fields, variants (type "" for a unit), the types of a tuple, key   *)
(* and value, ok and err, or one target.                                     *)

Name(k) == Parsed[k].id
Items(k) == Parsed[k].items
Shape(k) == schema[k].shape
Names(k) == [i \in DOMAIN schema[k].parts |-> schema[k].parts[i].name]
Type(k, i) == schema[k].parts[i].type
To(type) == resolved[type].ref

Named == {"String", "Json", "Name", "DomainId", "AccountId", "AssetId", "NftId",
          "AssetDefinitionId", "Compact", "Algorithm", "BlockSignature"}
Integers == [u8 |-> "U8", u16 |-> "U16", u32 |-> "U32", u64 |-> "U64", u128 |-> "U128"]
Signatures == {"TransactionSignature", "QuerySignature"}

LibName ==
  [id \in Named |-> id] @@ Integers @@ [bool |-> "Bool"]
  @@ [id \in Signatures \cup {"SignatureOf"} |-> "Signature"]
  @@ [HashOf |-> "Hash", Hash |-> "Hash", PublicKey |-> "PublicKey", Signature |-> "Signature"]

\* The fields a struct must have to be what its name says ("_": any field).
Fields ==
  [Register |-> <<"object">>, Unregister |-> <<"object">>,
   SetKeyValue |-> <<"object", "_", "_">>, RemoveKeyValue |-> <<"object", "_">>,
   Mint |-> <<"object", "destination">>, Burn |-> <<"object", "destination">>,
   Grant |-> <<"object", "destination">>, Revoke |-> <<"object", "destination">>,
   Transfer |-> <<"source", "object", "destination">>,
   QueryWithFilter |-> <<"query", "predicate", "selector">>,
   MetadataChanged |-> <<"target", "key", "value">>, Mismatch |-> <<"expected", "actual">>,
   MerkleProof |-> <<"_", "_">>, FetchSize |-> <<"fetch_size">>,
   QueryOutputBatchBoxTuple |-> <<"tuple">>]

HasFields(k) ==
  LET names == Fields[Name(k)] IN
  /\ Shape(k) = "Struct" /\ Len(schema[k].parts) = Len(names)
  /\ \A i \in DOMAIN names : names[i] \in {"_", schema[k].parts[i].name}

\* Generic structs: the fields whose types are the parameters of the reference.
Generic ==
  [SetKeyValue |-> 1, RemoveKeyValue |-> 1, Mint |-> 2, Burn |-> 2, Grant |-> 2, Revoke |-> 2,
   Transfer |-> 3, QueryWithFilter |-> 3, MetadataChanged |-> 1, Mismatch |-> 1]

Container == [Option |-> "Option", Vec |-> "Vec", SortedVec |-> "BTreeSet",
              SortedMap |-> "BTreeMap", NonZero |-> "NonZero"]
Marker == [PredicateMarker |-> "Predicate", SelectorMarker |-> "Selector"]

\* Structs with definitions of their own: the name each part gets.
Request == [BlockSubscriptionRequest |-> "from_block_height", EventSubscriptionRequest |-> "filters"]

\* The patterns, in the order of the source; neighbours that lead to the same
\* are one.  Shape "Bitmap" is one over u32, "Alias" a string.
Clauses ==
  <<"unit", "library", "uptime", "object", "generic", "marked", "metadata", "selector", "compound",
    "mismatch", "address", "signature", "hash", "proof", "tree", "key", "fetch", "blocks", "events",
    "batch", "name", "bitmap", "option", "permissions", "bytes", "vec", "array", "map", "struct",
    "enum", "nonZero", "result", "alias", "null">>

Fits(k, clause) ==
  LET id == Name(k)
      n == Len(Items(k))
      simple == Parsed[k] # NullId /\ n = 0
  IN
  \/ clause = "unit" /\ k = "()"
  \/ clause = "library" /\ (k = "bool" \/ id \in Named \/ (k \in DOMAIN Integers /\ Shape(k) = "Int"))
  \/ clause = "uptime" /\ k = "Uptime" /\ Shape(k) = "Tuple"
     /\ schema[k].parts = <<Part("", "Compact<u64>"), Part("", "u32")>>
  \/ clause = "object" /\ id \in {"Register", "Unregister"} /\ n = 1 /\ HasFields(k)
  \/ clause = "generic" /\ id \in DOMAIN Generic \ {"MetadataChanged", "Mismatch"}
     /\ n = (IF id = "QueryWithFilter" THEN 1 ELSE Generic[id]) /\ HasFields(k)
  \/ clause = "marked" /\ n = 1 /\ Items(k)[1].id \in DOMAIN Marker /\ Items(k)[1].items = <<>>
  \/ clause = "metadata" /\ id = "MetadataChanged" /\ n = 1 /\ HasFields(k)
  \/ clause = "selector" /\ id = "SelectorTuple" /\ n = 1 /\ Shape(k) = "Alias"
  \/ clause = "compound" /\ id = "CompoundPredicate" /\ n = 1
     /\ Shape(k) = "Enum" /\ Names(k) = <<"Atom", "Not", "And", "Or">>
  \/ clause = "mismatch" /\ id = "Mismatch" /\ n = 1 /\ HasFields(k)
  \/ clause = "address" /\ id \in {"Ipv4Addr", "Ipv6Addr"} /\ n = 0 /\ Shape(k) = "Alias"
  \/ clause = "signature"
     /\ (k \in Signatures \/ (id = "SignatureOf" /\ n = 1 /\ Shape(k) = "Alias" /\ Type(k, 1) = "Signature"))
  \/ clause = "hash" /\ id = "HashOf" /\ n = 1 /\ Shape(k) = "Alias" /\ Type(k, 1) = "Hash"
  \/ clause = "proof" /\ id = "MerkleProof" /\ n = 1 /\ HasFields(k)
  \/ clause = "tree" /\ id = "MerkleTree" /\ n = 1 /\ Shape(k) = "Vec"
  \/ clause = "key" /\ k \in {"Hash", "PublicKey", "Signature"}
  \/ clause = "fetch" /\ k = "FetchSize" /\ HasFields(k)
  \/ clause = "blocks" /\ k = "BlockSubscriptionRequest" /\ Shape(k) = "Alias" /\ Type(k, 1) = "NonZero<u64>"
  \/ clause = "events" /\ k = "EventSubscriptionRequest" /\ Shape(k) = "Alias"
  \/ clause = "batch" /\ k = "QueryOutputBatchBoxTuple" /\ HasFields(k)
  \/ clause = "name" /\ simple /\ Shape(k) = "Struct" /\ schema[k].parts = <<Part("name", "Name")>>
  \/ clause = "bitmap" /\ simple /\ Shape(k) = "Bitmap"
  \/ clause = "option" /\ id = "Option" /\ n = 1 /\ Shape(k) = "Option"
  \/ clause = "permissions" /\ id = "SortedVec" /\ n = 1 /\ Items(k)[1].id = "Permission"
  \/ clause = "bytes" /\ id = "Vec" /\ n = 1 /\ Items(k)[1].id = "u8"
  \/ clause = "vec" /\ id \in {"Vec", "SortedVec"} /\ n = 1 /\ Shape(k) = "Vec"
  \/ clause = "array" /\ id = "Array" /\ n = 2 /\ Shape(k) = "Array"
  \/ clause = "map" /\ id = "SortedMap" /\ n = 2 /\ Shape(k) = "Map"
  \/ clause = "struct" /\ simple /\ Shape(k) = "Struct"
  \/ clause = "enum" /\ simple /\ Shape(k) = "Enum"
  \/ clause = "nonZero" /\ id = "NonZero" /\ n = 1 /\ Items(k)[1].items = <<>> /\ Shape(k) = "Alias"
  \/ clause = "result" /\ Shape(k) = "Result"
  \/ clause = "alias" /\ simple /\ Shape(k) = "Alias"
  \/ clause = "null" /\ Shape(k) = "Null"

\* match().with()...: the first pattern that k fits is one of these.
Takes(k, clauses) ==
  \E i \in DOMAIN Clauses :
    /\ Clauses[i] \in clauses /\ Fits(k, Clauses[i])
    /\ \A j \in 1 .. i - 1 : ~ Fits(k, Clauses[j])

Entry(ref, form, key) == [ref |-> ref, form |-> form, key |-> key]

-----------------------------------------------------------------------------
ResolverInit ==
  /\ schema \in Schemas
  /\ phase = "resolve"
  /\ resolved = <<>> /\ visited = {} /\ emits = <<>>

Fail == phase' = "failed" /\ UNCHANGED <<schema, resolved, visited, emits>>

\* #resolved.set, once the first n types of k, which the clause resolves at
\* once, are; resolve() marks what refers to a cycle break point.
Bind(k, n, entry) ==
  LET needed == {Type(k, i) : i \in 1 .. n} IN
  \/ /\ needed \subseteq DOMAIN resolved
     /\ resolved' = MapSet(resolved, k, [entry EXCEPT !.ref.lazy = entry.ref.id \in BreakPoints])
     /\ UNCHANGED <<schema, phase, visited, emits>>
  \/ ~ needed \subseteq DOMAIN schema /\ Fail

Types(k, n) == [i \in 1 .. n |-> To(Type(k, i))]

ResolveLib(k) ==
  /\ Takes(k, {"library", "signature", "hash", "key"})
  /\ Bind(k, 0, Entry(Lib(LibName[Name(k)]), "none", k))

\* The very object the target resolves to, its closure included.
ResolveTransparent(k) ==
  /\ Takes(k, {"object", "selector", "fetch"})
  /\ Bind(k, 1, resolved[Type(k, 1)])

ResolveGeneric(k) ==
  LET n == Generic[Name(k)] IN
  /\ Takes(k, {"generic", "metadata"})
  /\ IF Name(k) = "QueryWithFilter" /\ Items(k)[1] # Parsed[Type(k, 1)] THEN Fail
     ELSE Bind(k, n, Entry(Ref("local", Name(k), Types(k, n)), "generic", k))

ResolveMismatch(k) ==
  /\ Takes(k, {"mismatch"})
  /\ IF Type(k, 1) # Type(k, 2) THEN Fail
     ELSE Bind(k, 1, Entry(Ref("local", "Mismatch", Types(k, 1)), "generic", k))

ResolveMarked(k) ==
  /\ Takes(k, {"marked"})
  /\ Bind(k, 0, Entry(Local(Name(k) \o Marker[Items(k)[1].id]), "shape", k))

\* Atom, Not, And, Or: only the atom is resolved.
ResolveCompound(k) ==
  /\ Takes(k, {"compound"})
  /\ IF \/ Type(k, 2) # k \/ Type(k, 3) # Type(k, 4)
        \/ Parsed[Type(k, 3)] # Id("Vec", <<Parsed[k]>>) THEN Fail
     ELSE Bind(k, 1, Entry(LibOf("CompoundPredicate", <<To(Type(k, 1))>>), "none", k))

\* Vec<u8>, the set of permissions, and the containers of the library.
ResolveContainer(k) ==
  \/ /\ Takes(k, {"bytes"})
     /\ Bind(k, 0, Entry(Lib("BytesVec"), "none", k))
  \/ /\ Takes(k, {"permissions"})
     /\ Bind(k, 0, Entry(Local("PermissionsSet"), "permissions", k))
  \/ /\ Takes(k, {"option", "vec", "map", "nonZero"})
     /\ IF Name(k) = "NonZero" /\ Items(k)[1].id # Type(k, 1) THEN Fail
        ELSE LET n == Len(schema[k].parts) IN
             Bind(k, n, Entry(LibOf(Container[Name(k)], Types(k, n)), "none", k))

ResolveArray(k) ==
  /\ Takes(k, {"array"})
  /\ Bind(k, 1, Entry(ArrayOf(To(Type(k, 1)), schema[k].len), "none", k))

\* An address is an array of 4 or 8 numbers, made a tuple.
IsAddress(ref) == ref.t = "array" /\ ref.n \in {4, 8} /\ ref.params[1] \in {Lib("U8"), Lib("U16")}

ResolveAddress(k) ==
  /\ Takes(k, {"address"})
  /\ IF Type(k, 1) \in DOMAIN resolved /\ ~ IsAddress(To(Type(k, 1))) THEN Fail
     ELSE Bind(k, 1, Entry(Local(Name(k)), "address", k))

ResolveOwn(k) ==
  \/ Takes(k, {"uptime"}) /\ Bind(k, 0, Entry(Local(k), "uptime", k))
  \/ Takes(k, {"proof"}) /\ Bind(k, 0, Entry(Local("MerkleProof"), "shape", k))
  \/ Takes(k, {"tree"}) /\ Bind(k, 0, Entry(Local("MerkleTree"), "merkleTree", k))
  \/ Takes(k, {"batch"}) /\ Bind(k, 0, Entry(Local(k), "batch", k))

\* The filters are resolved at once and must be a Vec.
ResolveRequest(k) ==
  \/ /\ Takes(k, {"blocks"})
     /\ Bind(k, 0, Entry(Local(k), "request", k))
  \/ /\ Takes(k, {"events"})
     /\ IF Type(k, 1) \in DOMAIN resolved /\ ~ (To(Type(k, 1)).t = "lib" /\ To(Type(k, 1)).id = "Vec") THEN Fail
        ELSE Bind(k, 1, Entry(Local(k), "request", k))

\* Structs, enums, bitmaps and aliases without parameters.
ResolvePlain(k) ==
  \/ Takes(k, {"struct", "enum"}) /\ Bind(k, 0, Entry(Local(Name(k)), "shape", k))
  \/ Takes(k, {"bitmap"}) /\ Bind(k, 0, Entry(Local(Name(k)), "bitmap", k))
  \/ Takes(k, {"name"}) /\ Bind(k, 0, Entry(Local(Name(k)), "named", k))
  \/ Takes(k, {"alias"}) /\ Bind(k, 0, Entry(Local(Name(k)), "alias", k))

ResolveResult(k) ==
  /\ Takes(k, {"result"})
  /\ Bind(k, 2, Entry(Ref("result", "", Types(k, 2)), "none", k))

ResolveNull(k) ==
  /\ Takes(k, {"unit", "null"})
  /\ Bind(k, 0, Entry(NoValue, "none", k))

\* otherwise(): no clause matches.
ResolveNothing(k) ==
  /\ \A i \in DOMAIN Clauses : ~ Fits(k, Clauses[i])
  /\ Fail

\* resolve(k), at the point where its own entry is set: whatever it resolves
\* itself is there already.
Resolve(k) ==
  /\ phase = "resolve" /\ k \in DOMAIN schema \ DOMAIN resolved
  /\ \/ ResolveLib(k) \/ ResolveTransparent(k) \/ ResolveGeneric(k) \/ ResolveMismatch(k) \/ ResolveMarked(k)
     \/ ResolveCompound(k) \/ ResolveContainer(k) \/ ResolveArray(k) \/ ResolveAddress(k)
     \/ ResolveOwn(k) \/ ResolveRequest(k) \/ ResolvePlain(k) \/ ResolveResult(k)
     \/ ResolveNull(k) \/ ResolveNothing(k)

ResolvedAll ==
  /\ phase = "resolve" /\ DOMAIN resolved = DOMAIN schema
  /\ phase' = "fill"
  /\ UNCHANGED <<schema, resolved, visited, emits>>

-----------------------------------------------------------------------------
(* fillEmits: the closures *)

Timestamps == {"start_ms", "creation_time_ms", "since_ms", "proposed_at_ms", "expires_at_ms"}

\* mapFields, for a name that ends with _ms.
TimeType(name, ref) ==
  LET time == IF name \in Timestamps THEN "Timestamp" ELSE "Duration"
      NonZeroOf(r) == LibOf("NonZero", <<r>>)
      OptionOf(r) == LibOf("Option", <<r>>)
  IN CASE ref = Lib("U64") -> Lib(time)
       [] ref = NonZeroOf(Lib("U64")) -> IF time = "Timestamp" THEN Lib(time) ELSE NonZeroOf(Lib(time))
       [] ref = OptionOf(Lib("U64")) -> OptionOf(Lib(time))
       [] ref = OptionOf(NonZeroOf(Lib("U64"))) /\ time = "Duration" -> OptionOf(NonZeroOf(Lib(time)))
       [] ref = Lib("Compact") /\ time = "Duration" -> Lib("DurationCompact")
       [] OTHER -> Unexpected

\* mapFields, for the field `errors`: a map from index to error becomes a
\* set of produced records.
Rejection == Local("TransactionRejectionReason")
IsErrors(field) ==
  /\ field.name = "errors"
  /\ \E i \in DOMAIN Tokens[field.type] : Tokens[field.type][i] = Rejection.id
ErrorsType(ref) ==
  IF ref = LibOf("BTreeMap", <<Lib("U64"), Rejection>>) THEN Local("TransactionErrors") ELSE Unexpected
HasErrors(k) == Shape(k) = "Struct" /\ \E i \in DOMAIN schema[k].parts : IsErrors(schema[k].parts[i])

MapField(field) ==
  CASE field.name \in DOMAIN Unsuffixed -> Part(Unsuffixed[field.name], TimeType(field.name, To(field.type)))
    [] IsErrors(field) -> Part(field.name, ErrorsType(To(field.type)))
    [] OTHER -> Part(field.name, To(field.type))

MapVariant(variant) ==
  CASE variant.name \in DOMAIN Unsuffixed ->
         Part(Unsuffixed[variant.name], IF variant.type = "u64" THEN Lib("Duration") ELSE Unexpected)
    [] variant.type = Unit -> Part(variant.name, NoValue)
    [] OTHER -> Part(variant.name, To(variant.type))

AliasTo(ref) ==
  IF ref.t = "result"
  THEN Emit("enum", <<Part("Ok", ref.params[1]), Part("Err", ref.params[2])>>)
  ELSE Emit("alias", <<Part("", ref)>>)

SetWithCmp(ref) == Emit("alias", <<Part("", Ref("set", "", <<ref>>))>>)

\* The definition the closure of a resolved key makes, `k` its own key.
Definition(form, k) ==
  LET parts == schema[k].parts IN
  CASE form = "shape" /\ Shape(k) = "Struct" -> Emit("struct", [i \in DOMAIN parts |-> MapField(parts[i])])
    [] form = "shape" /\ Shape(k) = "Enum" -> Emit("enum", [i \in DOMAIN parts |-> MapVariant(parts[i])])
    [] form = "bitmap" -> Emit("bitmap", <<>>)
    [] form = "generic" ->
         Emit("struct", [i \in DOMAIN parts |->
           Part(parts[i].name, IF Name(k) = "Mismatch" THEN Param(0)
                               ELSE IF i <= Generic[Name(k)] THEN Param(i - 1)
                               ELSE To(parts[i].type))])
    [] form = "address" ->
         Emit("tuple", [i \in 1 .. To(parts[1].type).n |-> Part("", To(parts[1].type).params[1])])
    [] form = "uptime" -> Emit("struct", <<Part("secs", Lib("Compact")), Part("nanos", Lib("U32"))>>)
    [] form = "merkleTree" -> AliasTo(LibOf("Vec", <<LibOf("Option", <<Lib("Hash")>>)>>))
    [] form = "named" -> AliasTo(Lib("Name"))
    [] form = "alias" -> AliasTo(To(parts[1].type))
    [] form = "batch" -> Emit("alias", <<Part("", To(parts[1].type))>>)
    [] form = "request" -> Emit("struct", <<Part(Request[k], To(parts[1].type))>>)
    [] form = "permissions" -> SetWithCmp(To("Permission"))
    [] form = "errors" -> SetWithCmp(Local("TransactionErrorWithIndex"))
    [] form = "errorWithIndex" -> Emit("struct", <<Part("index", Lib("U64")), Part("error", Rejection)>>)
    [] OTHER -> Emit("struct", <<Part("", Unexpected)>>)

\* What the closure resolves.
Deferred(form, k) ==
  CASE form = "shape" /\ Shape(k) = "Enum" -> {Type(k, i) : i \in DOMAIN schema[k].parts} \ {Unit}
    [] form = "generic" \/ (form = "shape" /\ Shape(k) = "Struct") -> {Type(k, i) : i \in DOMAIN schema[k].parts}
    [] form \in {"alias", "batch", "request"} -> {Type(k, 1)}
    [] form = "permissions" -> {"Permission"}
    [] OTHER -> {}

\* produceType: both entries are (re)set; new keys are appended to the Map
\* that fillEmits is going through, and so visited by it.
Produced ==
  [k \in {"TransactionErrors", "TransactionErrorWithIndex"} |->
     Entry(Local(k), IF k = "TransactionErrors" THEN "errors" ELSE "errorWithIndex", k)]

\* Whatever is referred to has a name; a definition has its parts in a list;
\* only a name with the suffix is rid of it; the produced types are not in the
\* schema; and it has permissions as the produced comparison reads them, a
\* struct without parameters.
ASSUME TokensAssumption ==
  \A s \in Schemas : \A k \in DOMAIN s :
    {k} \cup ({s[k].parts[i].type : i \in DOMAIN s[k].parts} \ {Unit}) \subseteq DOMAIN Tokens
ASSUME PartsAssumption ==
  \A s \in Schemas : \A k \in DOMAIN s : s[k].parts \in Seq([name : STRING, type : STRING])
ASSUME UnsuffixedAssumption == "errors" \notin DOMAIN Unsuffixed
ASSUME ProducedAssumption == \A s \in Schemas : DOMAIN s \cap DOMAIN Produced = {}
ASSUME PermissionAssumption ==
  \A s \in Schemas : "Permission" \in DOMAIN s =>
    /\ s["Permission"].shape = "Struct"
    /\ Parsed["Permission"] = Id("Permission", <<>>)

\* Faulty variant: the produced types are referred to but not registered.
RegisterNone(entry) == resolved

\* #resolved once the closure of an entry has run.
Register(entry) ==
  IF entry.form = "shape" /\ HasErrors(entry.key)
  THEN [k \in DOMAIN Produced \cup DOMAIN resolved |->
          IF k \in DOMAIN Produced THEN Produced[k] ELSE resolved[k]]
  ELSE resolved

\* One turn of the loop of fillEmits.
Fill(k) ==
  LET entry == resolved[k]
      id == entry.ref.id
      new == Definition(entry.form, entry.key)
  IN
  /\ phase = "fill" /\ k \in DOMAIN resolved \ visited
  /\ \/ /\ entry.form = "none"
        /\ visited' = visited \cup {k}
        /\ UNCHANGED <<schema, phase, resolved, emits>>
     \/ /\ entry.form # "none"
        /\ IF \/ ~ Deferred(entry.form, entry.key) \subseteq DOMAIN resolved
              \/ \E i \in DOMAIN new.parts : new.parts[i].type = Unexpected
              \/ id \in DOMAIN emits /\ emits[id] # new
           THEN Fail
           ELSE /\ visited' = visited \cup {k}
                /\ emits' = MapSet(emits, id, new)
                /\ resolved' = Register(entry)
                /\ UNCHANGED <<schema, phase>>

FilledAll ==
  /\ phase = "fill" /\ visited = DOMAIN resolved
  /\ phase' = "never" /\ visited' = {}
  /\ UNCHANGED <<schema, resolved, emits>>

-----------------------------------------------------------------------------
(* enumShortcuts and processNeverEnums *)

Enums(types) == {id \in DOMAIN types : types[id].t = "enum"}

\* Where each alias of a local type leads.
Targets(types) ==
  LET aliases == {id \in DOMAIN types : types[id].t = "alias" /\ types[id].parts[1].type.t = "local"}
  IN [id \in aliases |-> types[id].parts[1].type.id]

\* Going on from where one is, once for every entry of the map.
Follow(map, id) ==
  LET after[n \in Nat] ==
        IF n = 0 THEN id
        ELSE LET x == after[n - 1] IN IF x \in DOMAIN map THEN map[x] ELSE x
  IN after[Cardinality(DOMAIN map)]

\* findEnum: the enum an id names, through aliases, as a set: {} for none.
FindEnum(types, id) == {Follow(Targets(types), id)} \cap Enums(types)

EnumOf(types, ref) == IF ref.t = "local" THEN FindEnum(types, ref.id) ELSE {}

\* enumShortcuts: the enums for which the tree of constructors is not empty,
\* one with a constructor besides those of enums that have none themselves.
HasShortcuts(types) ==
  LET has[id \in Enums(types)] ==
        \E i \in DOMAIN types[id].parts : \A enum \in EnumOf(types, types[id].parts[i].type) : has[enum]
  IN has

\* The enums with a unit variant somewhere in that tree.
HasUnit(types) ==
  LET has[id \in Enums(types)] ==
        \E i \in DOMAIN types[id].parts :
          \/ types[id].parts[i].type = NoValue
          \/ \E enum \in EnumOf(types, types[id].parts[i].type) : has[enum]
  IN has

\* An enum that is a variant of itself, or an alias of itself: enumShortcuts or
\* findEnum does not return.
Endless(types) ==
  \/ \E ids \in SUBSET Enums(types) \ {{}} : \A id \in ids :
       \E i \in DOMAIN types[id].parts : EnumOf(types, types[id].parts[i].type) \cap ids # {}
  \/ \E ids \in SUBSET DOMAIN Targets(types) \ {{}} : \A id \in ids : Targets(types)[id] \in ids

\* Faulty variant: only enums that already have no variants count.
BarrenShallow(id) ==
  \A i \in DOMAIN emits[id].parts :
    \E enum \in EnumOf(emits, emits[id].parts[i].type) : emits[enum].parts = <<>>

\* No constructor is left: a never type.
Barren(id) == ~ HasShortcuts(emits)[id]

ProcessNever(id) ==
  /\ phase = "never" /\ id \in Enums(emits) \ visited
  /\ IF Endless(emits) THEN Fail
     ELSE /\ visited' = visited \cup {id}
          /\ emits' = IF Barren(id) THEN [emits EXCEPT ![id].parts = <<>>] ELSE emits
          /\ UNCHANGED <<schema, phase, resolved>>

Constructed ==
  /\ phase = "never" /\ visited = Enums(emits)
  /\ phase' = "constructed"
  /\ UNCHANGED <<schema, resolved, visited, emits>>

ResolverStep ==
  \/ \E k \in DOMAIN schema : Resolve(k)
  \/ ResolvedAll
  \/ \E k \in DOMAIN resolved : Fill(k)
  \/ FilledAll
  \/ \E id \in DOMAIN emits : ProcessNever(id)
  \/ Constructed
=============================================================================
