---------------------------- MODULE MCPrototypes ----------------------------
(* Projections of Iroha: nested ids, metadata keys, a query with a payload,  *)
(* a predicate without tests, and selectors whose ids have words in common.  *)
EXTENDS Prototypes, TLC

V(tag, type) == [tag |-> tag, type |-> type]
Enum(parts) == [t |-> "enum", parts |-> parts]
KeyOf(projection) == [t |-> "struct", parts |-> <<V("key", "Name"), V("projection", projection)>>]

Both(name, fields) ==
  (name \o "Predicate") :> Enum(<<V("Atom", name \o "Atom")>> \o [i \in DOMAIN fields |-> V(fields[i][1], fields[i][2] \o "Predicate")]) @@
  (name \o "Selector") :> Enum(<<V("Atom", Unit)>> \o [i \in DOMAIN fields |-> V(fields[i][1], fields[i][2] \o "Selector")])

Equals == <<V("Equals", "String")>>
Atoms == [StringAtom |-> Enum(Equals \o <<V("Contains", "String")>>), JsonAtom |-> Enum(Equals),
          IdAtom |-> Enum(Equals), NftAtom |-> Enum(<<>>), MetadataAtom |-> Enum(<<>>),
          PermissionAtom |-> Enum(<<>>), TransactionAtom |-> Enum(<<>>), PeerAtom |-> Enum(Equals),
          HashAtom |-> Enum(Equals), EntrypointAtom |-> Enum(<<V("IsExternal", Unit)>>),
          BlockAtom |-> Enum(<<V("IsEmpty", Unit)>>)]

MCEmits ==
  Atoms @@ Both("String", <<>>) @@ Both("Json", <<>>) @@ Both("Hash", <<>>) @@
  Both("Metadata", <<<<"Key", "MetadataKey">>>>) @@
  [MetadataKeyPredicate |-> KeyOf("JsonPredicate"), MetadataKeySelector |-> KeyOf("JsonSelector")] @@
  Both("Id", <<<<"Domain", "String">>, <<"Name", "String">>>>) @@
  Both("Nft", <<<<"Id", "Id">>, <<"Metadata", "Metadata">>, <<"AccountId", "Id">>>>) @@
  Both("Peer", <<<<"PublicKey", "Hash">>>>) @@
  Both("Transaction", <<<<"EntrypointHash", "Hash">>, <<"Entrypoint", "Entrypoint">>>>) @@
  Both("Entrypoint", <<<<"Authority", "Id">>>>) @@
  Both("Block", <<<<"Hash", "Hash">>>>) @@
  [PermissionPredicate |-> Enum(<<>>), PermissionSelector |-> Enum(<<V("Atom", Unit)>>)]

MCSelects ==
  [StringSelector |-> "Name", JsonSelector |-> "JsonValue", HashSelector |-> "Hash", MetadataSelector |-> "Metadata",
   IdSelector |-> "AccountId", NftSelector |-> "Nft", PeerSelector |-> "PeerId", BlockSelector |-> "SignedBlock",
   TransactionSelector |-> "CommittedTransaction", EntrypointSelector |-> "TransactionEntrypoint",
   PermissionSelector |-> "Permission"]

MCOutputBox ==
  [tag \in {"Name", "JsonValue", "Hash", "Metadata", "AccountId", "Nft", "CommittedTransaction",
            "TransactionEntrypoint", "Permission"} |-> tag] @@ [Peer |-> "PeerId", Block |-> "SignedBlock"]

MCWords ==
  [AccountId |-> <<"account", "id">>, PeerId |-> <<"peer", "id">>, SignedBlock |-> <<"signed", "block">>,
   CommittedTransaction |-> <<"committed", "transaction">>, EntrypointHash |-> <<"entrypoint", "hash">>,
   PublicKey |-> <<"public", "key">>, Id |-> <<"id">>, Name |-> <<"name">>, Domain |-> <<"domain">>, Nft |-> <<"nft">>,
   Metadata |-> <<"metadata">>, key |-> <<"key">>, Entrypoint |-> <<"entrypoint">>, Hash |-> <<"hash">>,
   Authority |-> <<"authority">>, Permission |-> <<"permission">>]

\* Both ways as they are read, so that TLC looks at CaseAssumption.
MCCamel ==
  [Atom |-> "atom", Equals |-> "equals", Contains |-> "contains", IsExternal |-> "isExternal", IsEmpty |-> "isEmpty",
   Key |-> "key", Domain |-> "domain", Name |-> "name", Id |-> "id", Metadata |-> "metadata", AccountId |-> "accountId",
   PublicKey |-> "publicKey", EntrypointHash |-> "entrypointHash", Entrypoint |-> "entrypoint",
   Authority |-> "authority", Hash |-> "hash"]

MCCapital ==
  [atom |-> "Atom", equals |-> "Equals", contains |-> "Contains", isExternal |-> "IsExternal", isEmpty |-> "IsEmpty",
   key |-> "Key", domain |-> "Domain", name |-> "Name", id |-> "Id", metadata |-> "Metadata", accountId |-> "AccountId",
   publicKey |-> "PublicKey", entrypointHash |-> "EntrypointHash", entrypoint |-> "Entrypoint",
   authority |-> "Authority", hash |-> "Hash"]

Q(name, payload) == [predicate |-> name \o "Predicate", selector |-> name \o "Selector", payload |-> payload]

MCQueries ==
  [FindNfts |-> Q("Nft", Unit), FindTransactions |-> Q("Transaction", Unit), FindPeers |-> Q("Peer", Unit),
   FindBlocks |-> Q("Block", "FindBlocks"), FindPermissionsByAccountId |-> Q("Permission", "FindPermissionsByAccountId")]

\* What the theorems of PrototypesProofs are under.
ASSUME MCPrototypesAssumption == ListMatches /\ IdsDistinct
=============================================================================
