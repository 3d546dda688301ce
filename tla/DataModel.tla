------------------------------ MODULE DataModel ------------------------------
(***************************************************************************)
(* Values of the data model as they leave the program and come back: as    *)
(* bytes, through the codecs, and the ids of data-model/compound.ts as     *)
(* text.  A value is chosen, written and read again; the value that is     *)
(* read must be the one that was written.                                  *)
(***************************************************************************)
EXTENDS Codec

CONSTANT Tasks      \* [form, codec, value]: form is "bytes" or the kind of an id; codec is a name

VARIABLES
  task,
  stage,      \* "chosen", "written", "read"
  wire,       \* tokens of bytes, or characters
  back        \* the value read

vars == <<task, stage, wire, back>>

-----------------------------------------------------------------------------
(* The text of ids.  An id has names (sequences of characters): of its       *)
(* domain, its signatory (a multihash), its own, and home, the account's     *)
(* domain in an asset id.                                                    *)

NoId == [refused |-> TRUE]
Kinds == {"AccountId", "AssetDefinitionId", "NftId", "AssetId"}
Roles == {"name", "domain", "signatory", "home"}
RolesOf(kind) ==
  CASE kind = "AccountId" -> {"signatory", "domain"}
    [] kind \in {"AssetDefinitionId", "NftId"} -> {"name", "domain"}
    [] kind = "AssetId" -> Roles
Blank == [role \in Roles |-> <<"-">>]      \* what an id does not have

\* The constructors of the names refuse some of them; a multihash comes from
\* outside and only an empty one is known to be bad.
NewId(id) ==
  IF id.signatory = <<>> \/ \E role \in {"name", "domain", "home"} : BadName(id[role])
  THEN NoId ELSE id

AccountText(signatory, domain) == signatory \o <<"@">> \o domain
AssetDefinitionText(id) == id.name \o <<"#">> \o id.domain

\* Faulty variant: the domain of the definition is left out of every asset id.
IdTextShort(kind, id) ==
  CASE kind = "AccountId" -> AccountText(id.signatory, id.domain)
    [] kind = "AssetDefinitionId" -> AssetDefinitionText(id)
    [] kind = "NftId" -> id.name \o <<"$">> \o id.domain
    [] kind = "AssetId" -> id.name \o <<"#", "#">> \o AccountText(id.signatory, id.home)

IdText(kind, id) ==
  CASE kind = "AccountId" -> AccountText(id.signatory, id.domain)
    [] kind = "AssetDefinitionId" -> AssetDefinitionText(id)
    [] kind = "NftId" -> id.name \o <<"$">> \o id.domain
    [] kind = "AssetId" ->
         (IF id.home = id.domain THEN id.name \o <<"#">> ELSE AssetDefinitionText(id))
         \o <<"#">> \o AccountText(id.signatory, id.home)

\* text.split(char), which must give two parts.
TwoParts(text, char, first, second) ==
  LET places == {i \in DOMAIN text : text[i] = char}
      at == CHOOSE i \in places : TRUE
  IN IF Cardinality(places) # 1 THEN NoId
     ELSE NewId([Blank EXCEPT ![first] = SubSeq(text, 1, at - 1), ![second] = SubSeq(text, at + 1, Len(text))])

\* /^(.+)#(.+)?#(.+)@(.+)$/: each group takes as much as the others allow.
AssetIdFromStr(text) ==
  LET matches == {m \in (DOMAIN text) \X (DOMAIN text) \X (DOMAIN text) :
                    /\ text[m[1]] = "#" /\ text[m[2]] = "#" /\ text[m[3]] = "@"
                    /\ 1 < m[1] /\ m[1] < m[2] /\ m[2] + 1 < m[3] /\ m[3] < Len(text)}
      a == Max({m[1] : m \in matches})
      b == Max({m[2] : m \in {n \in matches : n[1] = a}})
      c == Max({m[3] : m \in {n \in matches : n[1] = a /\ n[2] = b}})
      home == SubSeq(text, c + 1, Len(text))
  IN IF matches = {} THEN NoId
     ELSE NewId([name |-> SubSeq(text, 1, a - 1),
                 domain |-> IF b = a + 1 THEN home ELSE SubSeq(text, a + 1, b - 1),
                 signatory |-> SubSeq(text, b + 1, c - 1),
                 home |-> home])

Parse(kind, text) ==
  CASE kind = "AccountId" -> TwoParts(text, "@", "signatory", "domain")
    [] kind = "AssetDefinitionId" -> TwoParts(text, "#", "name", "domain")
    [] kind = "NftId" -> TwoParts(text, "$", "name", "domain")
    [] kind = "AssetId" -> AssetIdFromStr(text)

-----------------------------------------------------------------------------
Init ==
  /\ task \in Tasks /\ stage = "chosen"
  /\ wire = <<>> /\ back = NoId

Write ==
  /\ stage = "chosen" /\ stage' = "written"
  /\ wire' = IF task.form = "bytes" THEN Encode(task.codec, task.value)
             ELSE IdText(task.form, task.value)
  /\ UNCHANGED <<task, back>>

Read ==
  /\ stage = "written" /\ stage' = "read"
  /\ back' = IF task.form = "bytes" THEN Decode(task.codec, wire) ELSE Parse(task.form, wire)
  /\ UNCHANGED <<task, wire>>

Next == Write \/ Read

Spec == Init /\ [][Next]_vars

-----------------------------------------------------------------------------
\* What is decoded is what was encoded, to the last byte, whatever codecs are
\* combined: maps with the last value given for a key, sets without what
\* compare() holds equal, predicates of any nesting.
BytesDecodeBack ==
  stage = "read" /\ task.form = "bytes" => back = Result(Means(task.codec, task.value), <<>>)

\* One value, one encoding: what is hashed and signed does not depend on the
\* order in which the entries of a map or a set were given, nor on how many
\* times.
OneEncoding ==
  stage = "written" /\ task.form = "bytes" =>
    \A other \in {t \in Tasks : t.form = "bytes" /\ t.codec = task.codec} :
      Means(task.codec, other.value) = Means(task.codec, task.value) <=> Encode(task.codec, other.value) = wire

\* An id is parsed from its own text, and an asset id from its long form too.
\* (A `$` in a name is not excluded by Name: an NFT id with one is lost.)
TextParsesBack ==
  stage = "read" /\ task.form # "bytes" =>
    \/ /\ back = task.value
       /\ task.form = "AssetId" =>
            Parse("AssetId", AssetDefinitionText(back) \o <<"#">> \o AccountText(back.signatory, back.home)) = back
    \/ task.form = "NftId" /\ \E role \in {"name", "domain"} : "$" \in ToSet(task.value[role])

\* A NonZero never holds zero.
NonZeroIsNotZero ==
  stage = "read" /\ task.form = "bytes" /\ Codecs[task.codec].t = "nonZero" => back.v.n # 0

-----------------------------------------------------------------------------
\* An id as its constructors leave it: a multihash is hexadecimal digits.
IsId(kind, id) ==
  /\ id \in [Roles -> Seq(STRING)]
  /\ \A role \in Roles \ RolesOf(kind) : id[role] = Blank[role]
  /\ \A role \in RolesOf(kind) : ~ BadName(id[role])

ASSUME TasksAssumption ==
  \A t \in Tasks :
    \/ t.form = "bytes" /\ t.codec \in DOMAIN Codecs /\ t.value \in Values /\ Fits(t.codec, t.value)
    \/ t.form \in Kinds /\ IsId(t.form, t.value)
=============================================================================
