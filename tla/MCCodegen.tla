------------------------------ MODULE MCCodegen ------------------------------
(* Fragments of the schema of Iroha, under the names it has there, each with *)
(* the shapes resolveInner tells apart and the refusals it has for them.     *)
(* A definition comes with the tokens of its key.                            *)
EXTENDS Codegen

Def(tokens, shape, parts) == [tokens |-> tokens, shape |-> shape, parts |-> parts, len |-> 0]
One(name, shape, parts) == name :> Def(<<name>>, shape, parts)
Of(generic, arg) == <<generic, "<", arg, ">">>
Of2(generic, a, b) == <<generic, "<", a, b, ">">>
To1(type) == <<Part("", type)>>
Fields2(a, x, b, y) == <<Part(a, x), Part(b, y)>>
U64 == One("u64", "Int", <<>>)

\* The one cycle, and what leads into it.
Instructions ==
  One("InstructionBox", "Enum", Fields2("Register", "RegisterBox", "Log", "Log")) @@
  One("RegisterBox", "Enum", Fields2("Trigger", "Register<Trigger>", "Nft", "Unit0")) @@
  One("Unit0", "Enum", To1(Unit)) @@
  "Register<Trigger>" :> Def(Of("Register", "Trigger"), "Struct", <<Part("object", "Trigger")>>) @@
  One("Trigger", "Struct", Fields2("action", "Executable", "id", "()")) @@
  One("()", "Null", <<>>) @@
  One("Executable", "Enum", Fields2("Instructions", "Vec<InstructionBox>", "Ivm", "Log")) @@
  "Vec<InstructionBox>" :> Def(Of("Vec", "InstructionBox"), "Vec", To1("InstructionBox")) @@
  One("Log", "Struct", Fields2("msg", "String", "level", "Unit0")) @@
  One("String", "Alias", To1("String"))

\* Generic structs, twice with different parameters.
Generics1 ==
  One("Name", "Alias", To1("String")) @@ One("u32", "Int", <<>>) @@
  One("Domain", "Struct", <<Part("name", "Name")>>) @@
  One("Parameters", "Struct", Fields2("count", "u32", "of", "Mint<u32, Domain>")) @@
  "SetKeyValue<Domain>" :> Def(Of("SetKeyValue", "Domain"), "Struct",
     <<Part("object", "Domain"), Part("key", "Name"), Part("value", "Parameters")>>) @@
  "SetKeyValue<u32>" :> Def(Of("SetKeyValue", "u32"), "Struct",
     <<Part("object", "u32"), Part("key", "Name"), Part("value", "Parameters")>>) @@
  "Mint<u32, Domain>" :> Def(Of2("Mint", "u32", "Domain"), "Struct",
     Fields2("object", "u32", "destination", "Domain")) @@
  "Mismatch<Domain>" :> Def(Of("Mismatch", "Domain"), "Struct", Fields2("expected", "Domain", "actual", "Domain")) @@
  One("Fault", "Enum", Fields2("Mismatch", "Mismatch<Domain>", "Set", "SetKeyValue<Domain>"))

\* The two instances of a generic struct disagree on a type that is no parameter.
Disagreement ==
  Generics1 @@
  "SetKeyValue<Fault>" :> Def(Of("SetKeyValue", "Fault"), "Struct",
     <<Part("object", "Fault"), Part("key", "u32"), Part("value", "Parameters")>>)

\* A query, its predicate and its selector.
Queries ==
  LET projection == <<"AccountProjection", "<", "PredicateMarker", ">">>
      compound == <<"CompoundPredicate", "<">> \o projection \o <<">">>
      selector == <<"AccountProjection", "<", "SelectorMarker", ">">> IN
  One("FindAccounts", "Null", <<>>) @@
  One("QueryBox", "Enum", <<Part("FindAccounts", "QueryWithFilter<FindAccounts>")>>) @@
  "QueryWithFilter<FindAccounts>" :> Def(Of("QueryWithFilter", "FindAccounts"), "Struct",
     <<Part("query", "FindAccounts"), Part("predicate", "Compound"), Part("selector", "SelectorTuple<Account>")>>) @@
  "Compound" :> Def(compound, "Enum", <<Part("Atom", "Predicate"), Part("Not", "Compound"),
     Part("And", "Vec<Compound>"), Part("Or", "Vec<Compound>")>>) @@
  "Vec<Compound>" :> Def(<<"Vec", "<">> \o compound \o <<">">>, "Vec", To1("Compound")) @@
  "Predicate" :> Def(projection, "Enum", <<Part("Atom", "AtomPredicate")>>) @@
  "AtomPredicate" :> Def(<<"AtomPredicate">>, "Enum", <<>>) @@
  "SelectorTuple<Account>" :> Def(Of("SelectorTuple", "Account"), "Alias", To1("Vec<Selector>")) @@
  "Vec<Selector>" :> Def(<<"Vec", "<">> \o selector \o <<">">>, "Vec", To1("Selector")) @@
  "Selector" :> Def(selector, "Enum", <<Part("Atom", Unit)>>) @@
  One("QueryOutputBatchBoxTuple", "Struct", <<Part("tuple", "Vec<Selector>")>>)

\* Blocks: times, transaction errors, requests.
Blocks ==
  U64 @@
  "NonZero<u64>" :> Def(Of("NonZero", "u64"), "Alias", To1("u64")) @@
  "Option<NonZero<u64>>" :> Def(<<"Option", "<", "NonZero", "<", "u64", ">", ">">>, "Option", To1("NonZero<u64>")) @@
  "Compact<u64>" :> Def(Of("Compact", "u64"), "Alias", To1("u64")) @@
  One("BlockHeader", "Struct", <<Part("creation_time_ms", "u64"), Part("since_ms", "NonZero<u64>"),
      Part("ttl_ms", "Option<NonZero<u64>>"), Part("uptime_ms", "Compact<u64>")>>) @@
  One("SumeragiParameter", "Enum", <<Part("BlockTimeMs", "u64")>>) @@
  One("BlockResult", "Struct", <<Part("errors", "SortedMap<u64, TransactionRejectionReason>")>>) @@
  "SortedMap<u64, TransactionRejectionReason>" :>
     Def(Of2("SortedMap", "u64", "TransactionRejectionReason"), "Map",
         Fields2("", "u64", "", "TransactionRejectionReason")) @@
  One("TransactionRejectionReason", "Enum", <<Part("Validation", Unit)>>) @@
  One("BlockSubscriptionRequest", "Alias", To1("NonZero<u64>"))

\* Never types, aliases and results, addresses, permissions.
Others ==
  One("Never0", "Enum", <<>>) @@
  One("Never1", "Enum", To1("Never0")) @@
  One("Never2", "Enum", To1("NeverAlias")) @@
  One("NeverAlias", "Alias", To1("Never1")) @@
  One("Maybe", "Enum", Fields2("No", "Never2", "Yes", "Permission")) @@
  One("Permission", "Struct", Fields2("name", "Json", "payload", "Json")) @@ One("Json", "Alias", To1("String")) @@
  "SortedVec<Permission>" :> Def(Of("SortedVec", "Permission"), "Vec", To1("Permission")) @@
  One("ExecutorResult", "Alias", To1("Result")) @@
  "Result" :> Def(Of2("Result", "Permission", "Never2"), "Result", Fields2("", "Never2", "", "SortedVec<Permission>"))

Addressing ==
  One("u8", "Int", <<>>) @@
  "Array<u8, 4>" :> [Def(Of2("Array", "u8", "4"), "Array", To1("u8")) EXCEPT !.len = 4] @@
  One("Ipv4Addr", "Alias", To1("Array<u8, 4>")) @@
  One("Uptime", "Tuple", Fields2("", "Compact<u64>", "", "u32")) @@
  "Vec<u8>" :> Def(Of("Vec", "u8"), "Vec", To1("u8")) @@
  One("Status", "Struct", Fields2("uptime", "Uptime", "peer", "Ipv4Addr")) @@
  "MerkleTree<Status>" :> Def(Of("MerkleTree", "Status"), "Vec", To1("Status")) @@
  One("PermissionSet", "Bitmap", <<>>) @@
  "EventSubscriptionRequest" :> Def(<<"EventSubscriptionRequest">>, "Alias", To1("Vec<Set>")) @@
  "Vec<Set>" :> Def(Of("Vec", "PermissionSet"), "Vec", To1("PermissionSet"))

\* Types of the library, and a struct that stands for its field.
Leaves ==
  One("bool", "Alias", To1("bool")) @@
  One("Hash", "Alias", To1("Vec<u8>")) @@
  "MerkleProof<Log>" :> Def(Of("MerkleProof", "Log"), "Struct", Fields2("leaf_index", "bool", "audit_path", "Hash")) @@
  One("TransactionSignature", "Alias", To1("SignatureOf<Log>")) @@
  "SignatureOf<Log>" :> Def(Of("SignatureOf", "Log"), "Alias", To1("Signature")) @@
  "HashOf<Log>" :> Def(Of("HashOf", "Log"), "Alias", To1("Hash")) @@
  One("FetchSize", "Struct", <<Part("fetch_size", "Option<Log>")>>) @@
  "Option<Log>" :> Def(Of("Option", "Log"), "Option", To1("HashOf<Log>"))

\* What the generator refuses.
Unknown == One("Status", "Struct", <<Part("peer", "PeerId")>>) @@ One("Json", "Alias", To1("String"))
UnknownElement == "Vec<PeerId>" :> Def(Of("Vec", "PeerId"), "Vec", To1("PeerId"))
Cyclic == One("Left", "Struct", To1("Right")) @@ One("Right", "Struct", To1("Vec<Left>")) @@
          "Vec<Left>" :> Def(Of("Vec", "Left"), "Vec", To1("Left"))
EnumCycle == One("Left", "Enum", To1("Right")) @@ One("Right", "Enum", Fields2("L", "Left", "U", Unit))
RawArray == One("u8", "Int", <<>>) @@ One("Key", "Struct", To1("Array<u8, 4>")) @@
            "Array<u8, 4>" :> Def(Of2("Array", "u8", "4"), "Array", To1("u8"))
Unmatched == "Weird<u8>" :> Def(Of("Weird", "u8"), "Struct", <<>>)
BadTime == One("Clock", "Struct", <<Part("since_ms", "String")>>) @@ One("String", "Alias", To1("String"))
Unbalanced == "Vec<" :> Def(<<"Vec", "<", "u8">>, "Vec", <<>>)
WrongAddress == RawArray @@ One("Ipv6Addr", "Alias", To1("Array<u8, 4>"))
WrongZero == U64 @@ "NonZero<u32>" :> Def(Of("NonZero", "u32"), "Alias", To1("u64"))
WrongField == One("Trigger", "Struct", <<>>) @@
              "Register<Trigger>" :> Def(Of("Register", "Trigger"), "Struct", <<Part("item", "Trigger")>>)
WrongHash == One("Trigger", "Struct", <<>>) @@
             "HashOf<Trigger>" :> Def(Of("HashOf", "Trigger"), "Alias", To1("Trigger"))
WrongQuery ==
  One("FindAssets", "Null", <<>>) @@ One("FindAccounts", "Null", <<>>) @@
  "QueryWithFilter<FindAccounts>" :> Def(Of("QueryWithFilter", "FindAccounts"), "Struct",
     <<Part("query", "FindAssets"), Part("predicate", "FindAssets"), Part("selector", "FindAssets")>>)
WrongCompound ==
  "CompoundPredicate<Log>" :> Def(Of("CompoundPredicate", "Log"), "Enum",
     <<Part("Atom", "Unit0"), Part("Not", "CompoundPredicate<Log>"), Part("And", "Vec<Log>"), Part("Or", "Vec<Log>")>>) @@
  One("Unit0", "Enum", To1(Unit))

Fragments == {Instructions, Generics1, Disagreement, Queries, Blocks, Others, Addressing, Leaves, Unknown,
              UnknownElement, Cyclic, EnumCycle, RawArray, Unmatched, BadTime, Unbalanced, WrongAddress, WrongZero,
              WrongField, WrongHash, WrongQuery, WrongCompound}

MCSchemas == {[k \in DOMAIN s |-> [shape |-> s[k].shape, parts |-> s[k].parts, len |-> s[k].len]] : s \in Fragments}

\* A type that is only referred to has a name of one token.
MCTokens ==
  LET keys == UNION {DOMAIN s : s \in Fragments}
      targets == UNION {UNION {{s[k].parts[i].type : i \in DOMAIN s[k].parts} : k \in DOMAIN s} : s \in Fragments}
  IN [type \in keys |-> (CHOOSE s \in Fragments : type \in DOMAIN s)[type].tokens]
     @@ [type \in targets |-> <<type>>]

MCUnsuffixed == [creation_time_ms |-> "creation_time", since_ms |-> "since", ttl_ms |-> "ttl",
                 uptime_ms |-> "uptime", BlockTimeMs |-> "BlockTime"]

MCIds ==
  {"InstructionBox", "RegisterBox", "Unit0", "Trigger", "Executable", "Log", "Domain", "Parameters",
   "SetKeyValue", "Mint", "Mismatch", "Fault", "QueryBox", "QueryWithFilter", "AtomPredicate",
   "AccountProjectionPredicate", "AccountProjectionSelector", "QueryOutputBatchBoxTuple", "BlockHeader",
   "SumeragiParameter", "BlockResult", "TransactionRejectionReason", "TransactionErrors",
   "TransactionErrorWithIndex", "BlockSubscriptionRequest", "Never0", "Never1", "Never2", "NeverAlias",
   "Maybe", "Permission", "PermissionsSet", "ExecutorResult", "Ipv4Addr", "Ipv6Addr", "Uptime", "Status",
   "MerkleProof", "MerkleTree", "PermissionSet", "EventSubscriptionRequest", "Left", "Right", "Key", "Clock"}
=============================================================================
