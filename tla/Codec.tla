-------------------------------- MODULE Codec --------------------------------
(***************************************************************************)
(* The codecs of packages/core: codec.ts and data-model/primitives.ts, put *)
(* together from combinators.  The bytes of a SCALE primitive are one      *)
(* token; a word of flags is a set of bits; a string is its characters.    *)
(* Codecs refer to one another by name and are looked up when they are     *)
(* used, as lazyCodec does, so that they may refer to themselves.          *)
(***************************************************************************)
EXTENDS Integers, Sequences, FiniteSets, SequencesExt, FiniteSetsExt

CONSTANTS
  Alphabet,     \* of texts
  Collation,    \* a text's place in the order of localeCompare, which goes by no single
                \* character and may hold different texts equal
  CodeUnits,    \* its place in the order of `<`, which Name.compare goes by
  Code,         \* what the multihash of a public key begins with, by algorithm
  Codecs,       \* the codecs, by name
  Values,       \* the values that are written, and all that is inside them
  Depth         \* how deep values may be nested

SignBit == 31      \* bitmapCodec counts in signed 32-bit integers

-----------------------------------------------------------------------------
(* Values and codecs *)

Null == [v |-> "null", n |-> 0, s |-> <<>>, kind |-> "", items |-> <<>>, fields |-> <<>>, flags |-> {}]
Throw == [Null EXCEPT !.v = "throw"]
Scalar(t, n) == [Null EXCEPT !.v = t, !.n = n]
Str(s) == [Null EXCEPT !.v = "string", !.s = s]
List(items) == [Null EXCEPT !.v = "array", !.items = items]
Object(fields) == [Null EXCEPT !.v = "object", !.fields = fields]
Flags(set) == [Null EXCEPT !.v = "set", !.flags = set]
Variant(kind, content) == [Null EXCEPT !.v = "variant", !.kind = kind, !.items = content]

\* A part is a field, a variant with its discriminant, a flag with its mask; it
\* names the codec of what it holds.
Codec(t, parts) == [t |-> t, parts |-> parts]
Leaf(t) == Codec(t, <<>>)
Part(name, n, mask, codec) == [name |-> name, n |-> n, mask |-> mask, codec |-> codec]
Of(t, codec) == Codec(t, <<Part("", 0, {}, codec)>>)
Inner(def) == def.parts[1].codec
Fields(t, fields) == Codec(t, [i \in DOMAIN fields |-> Part(fields[i][1], 0, {}, fields[i][2])])

Scalars == {"number", "bigint", "duration"}
Texts == {"string", "name"}
Lists == {"vec", "set"}
Records == {"struct", "entry", "multihash"}      \* not compared alike: Key
Bare == {"null", "tuple", "nonZero"} \cup Records      \* nothing of their own in the bytes

Struct(fields) == Fields("struct", fields)
EnumOf(variants) == Codec("enum", variants)
Option(codec) == Of("option", codec)
Vec(codec) == Of("vec", codec)
BTreeSet(codec) == Of("set", codec)
\* A BTreeMap is a set of entries, which are compared by their keys.
Entry(key, value) == Fields("entry", << <<"key", key>>, <<"value", value>> >>)
NonZero(codec) == Of("nonZero", codec)
Bitmap(masks) == Codec("bitmap", [i \in DOMAIN masks |-> Part(masks[i][1], 0, masks[i][2], "unit")])

\* CompoundPredicate.with: Not, And and Or look the codec up lazily.
Predicate(atom, self, list) ==
  EnumOf(<< Part("Atom", 0, {}, atom), Part("Not", 1, {}, self), Part("And", 2, {}, list), Part("Or", 3, {}, list) >>)

PublicKeyCodec == Fields("multihash", << <<"algorithm", "Algorithm">>, <<"payload", "String">> >>)

DataModelCodecs ==
  [Number |-> Leaf("number"), BigInt |-> Leaf("bigint"), String |-> Leaf("string"), Name |-> Leaf("name"),
   Algorithm |-> EnumOf(<< Part("ed25519", 0, {}, "unit"), Part("secp256k1", 1, {}, "unit"),
                           Part("bls_normal", 2, {}, "unit"), Part("bls_small", 3, {}, "unit") >>),
   PublicKey |-> PublicKeyCodec,
   AccountId |-> Struct(<< <<"domain", "Name">>, <<"signatory", "PublicKey">> >>),
   AssetDefinitionId |-> Struct(<< <<"domain", "Name">>, <<"name", "Name">> >>),
   AssetId |-> Struct(<< <<"account", "AccountId">>, <<"definition", "AssetDefinitionId">> >>),
   BlockSignature |-> Struct(<< <<"index", "BigInt">>, <<"signature", "String">> >>)]

-----------------------------------------------------------------------------
(* compare() and toSortedSet; inner holds the codecs that are looked up *)

\* What compare() goes by: lexicographic on the fields in the order of the codec,
\* an entry's key, a public key's multihash, whose hexadecimal digits begin with
\* those of its algorithm.
Key(def, v, inner) ==
  LET fields == [i \in DOMAIN def.parts |-> inner[def.parts[i].codec].key[v.fields[def.parts[i].name]]] IN
  CASE def.t = "string" -> <<Collation[v.s]>>
    [] def.t = "name" -> <<CodeUnits[v.s]>>
    [] def.t = "struct" -> FlattenSeq(fields)
    [] def.t = "multihash" -> <<Code[v.fields["algorithm"].kind]>> \o fields[2]
    [] def.t = "entry" -> fields[1]
    [] OTHER -> <<v.n>>

Before(a, b) ==
  \E i \in DOMAIN b : /\ \A j \in 1 .. i - 1 : j \in DOMAIN a /\ a[j] = b[j]
                      /\ i \in DOMAIN a => a[i] < b[i]

\* The members of S in the order R: the k-th has k - 1 of them before it.
Ascending(S, R) ==
  [k \in 1 .. Cardinality(S) |-> CHOOSE s \in S : Cardinality({r \in S : <<r, s>> \in R}) = k - 1]

\* The items at some places, ordered by their keys, and in places that are equal
\* as they were given.
InOrder(items, key, places) ==
  LET order == {p \in places \X places : Before(key[p[1]], key[p[2]]) \/ (key[p[1]] = key[p[2]] /\ p[1] < p[2])}
      at == Ascending(places, order)
  IN [k \in DOMAIN at |-> items[at[k]]]

\* Faulty variant: of equal items the first one is left.
ToSortedSetFirst(items, key) ==
  InOrder(items, key, {i \in DOMAIN items : \A j \in 1 .. i - 1 : key[j] # key[i]})

\* Faulty variant: equal items stay.
ToSortedSetAll(items, key) == InOrder(items, key, DOMAIN items)

\* In the sorted list equal items are side by side, as they were given; an item
\* goes when the next one is equal to it, so that the last of equals is left.
ToSortedSet(items, key) ==
  InOrder(items, key, {i \in DOMAIN items : \A j \in DOMAIN items : i < j => key[j] # key[i]})

-----------------------------------------------------------------------------
(* The bitmap *)

ToMask(def, flags) == UNION {def.parts[i].mask : i \in {j \in DOMAIN def.parts : def.parts[j].name \in flags}}

\* `&` gives a signed number, so that a mask with the sign bit never matches.
Recognised(mask, word) == SignBit \notin mask /\ mask \subseteq word

\* The flags in order; the bits of those that are recognised are cleared.
FromMask(def, word) ==
  LET left[k \in 0 .. Len(def.parts)] ==
        IF k = 0 THEN word
        ELSE IF Recognised(def.parts[k].mask, left[k - 1]) THEN left[k - 1] \ def.parts[k].mask ELSE left[k - 1]
      found == {i \in DOMAIN def.parts : Recognised(def.parts[i].mask, left[i - 1])}
  IN IF left[Len(def.parts)] = {} THEN Flags({def.parts[i].name : i \in found}) ELSE Throw

-----------------------------------------------------------------------------
(* encode: what opens a value, then what is inside it *)

Token(n) == [n |-> n, s |-> <<>>, bits |-> {}]
Bytes == Seq([n : Nat, s : Seq(Alphabet), bits : SUBSET (0 .. SignBit)])

VariantNamed(def, kind) == def.parts[CHOOSE i \in DOMAIN def.parts : def.parts[i].name = kind]

Opening(def, v) ==
  CASE def.t \in Scalars -> <<Token(v.n)>>
    [] def.t \in Texts -> <<[Token(0) EXCEPT !.s = v.s]>>
    [] def.t = "option" -> <<Token(IF v = Null THEN 0 ELSE 1)>>
    [] def.t \in Lists -> <<Token(Len(v.items))>>
    [] def.t = "enum" -> <<Token(VariantNamed(def, v.kind).n)>>
    [] def.t = "bitmap" -> <<[Token(0) EXCEPT !.bits = ToMask(def, v.flags)]>>
    [] def.t \in Bare -> <<>>

Inside(def, v) ==
  CASE def.t \in Lists -> [i \in DOMAIN v.items |-> <<Inner(def), v.items[i]>>]
    [] def.t = "tuple" -> [i \in DOMAIN def.parts |-> <<def.parts[i].codec, v.items[i]>>]
    [] def.t \in Records -> [i \in DOMAIN def.parts |-> <<def.parts[i].codec, v.fields[def.parts[i].name]>>]
    [] def.t = "enum" -> [i \in DOMAIN v.items |-> <<VariantNamed(def, v.kind).codec, v.items[i]>>]
    [] def.t = "nonZero" \/ (def.t = "option" /\ v # Null) -> << <<Inner(def), v>> >>
    [] OTHER -> <<>>

KeysOf(def, items, inner) == [i \in DOMAIN items |-> inner[Inner(def)].key[items[i]]]

Encoding(def, v, inner) ==
  LET base == IF def.t = "set" THEN List(ToSortedSet(v.items, KeysOf(def, v.items, inner))) ELSE v
      inside == Inside(def, base)
  IN Opening(def, base) \o FlattenSeq([i \in DOMAIN inside |-> inner[inside[i][1]].encode[inside[i][2]]])

-----------------------------------------------------------------------------
(* decode *)

\* The constructor of a name, and that of NonZero: `value === 0` for a number and
\* for a bigint, isZero() otherwise.
BadName(s) == s = <<>> \/ \E i \in DOMAIN s : s[i] \in {" ", "#", "@"}
IsZero(v) == v.v # "bigint" /\ v.n = 0

\* The decoder that was registered last for a discriminant.
Known(def, n) == {i \in DOMAIN def.parts : def.parts[i].n = n}
VariantNumbered(def, n) == def.parts[CHOOSE i \in Known(def, n) : \A j \in Known(def, n) : j <= i]

\* The codecs of what is inside, by the token that opens the value.
Expected(def, token) ==
  CASE def.t \in Lists -> [i \in 1 .. token.n |-> Inner(def)]
    [] def.t \in Records \cup {"tuple"} -> [i \in DOMAIN def.parts |-> def.parts[i].codec]
    [] def.t = "nonZero" \/ (def.t = "option" /\ token.n # 0) -> <<Inner(def)>>
    [] def.t = "enum" /\ Known(def, token.n) # {} ->
         IF VariantNumbered(def, token.n).codec = "unit" THEN <<>> ELSE <<VariantNumbered(def, token.n).codec>>
    [] OTHER -> <<>>

PlaceOf(def, name) == CHOOSE i \in DOMAIN def.parts : def.parts[i].name = name

\* The value, from its token and what was decoded inside it.
Made(def, token, vs) ==
  CASE def.t \in Scalars -> Scalar(def.t, token.n)
    [] def.t \in Texts -> IF def.t = "name" /\ BadName(token.s) THEN Throw ELSE Str(token.s)
    [] def.t = "option" -> IF token.n = 0 THEN Null ELSE vs[1]
    [] def.t = "nonZero" -> IF IsZero(vs[1]) THEN Throw ELSE vs[1]
    [] def.t \in Lists \cup {"tuple"} -> List(vs)
    [] def.t \in Records ->
         Object([name \in {def.parts[i].name : i \in DOMAIN def.parts} |-> vs[PlaceOf(def, name)]])
    [] def.t = "enum" ->
         IF Known(def, token.n) = {} THEN Throw ELSE Variant(VariantNumbered(def, token.n).name, vs)
    [] def.t = "bitmap" -> FromMask(def, token.bits)
    [] def.t = "null" -> Null

Result(v, rest) == [v |-> v, rest |-> rest]

\* Values one after the other: a sequence of them, shorter when one throws.
DecodeAll(codecs, bytes, inner) ==
  LET upto[k \in 0 .. Len(codecs)] ==
        IF k = 0 THEN [vs |-> <<>>, rest |-> bytes]
        ELSE LET next == inner[codecs[k]].decode[upto[k - 1].rest]
             IN IF Len(upto[k - 1].vs) < k - 1 \/ next.v = Throw THEN upto[k - 1]
                ELSE [vs |-> Append(upto[k - 1].vs, next.v), rest |-> next.rest]
  IN upto[Len(codecs)]

Decoding(def, bytes, inner) ==
  LET token == IF def.t \in Bare THEN Token(0) ELSE Head(bytes)
      codecs == Expected(def, token)
      all == DecodeAll(codecs, IF def.t \in Bare THEN bytes ELSE Tail(bytes), inner)
      v == IF Len(all.vs) < Len(codecs) THEN Throw ELSE Made(def, token, all.vs)
  IN Result(v, IF v = Throw THEN <<>> ELSE all.rest)

-----------------------------------------------------------------------------
(* What TypeScript lets a codec be given, and what that means. *)

\* A set of flags only where decode can tell the flags apart: none without bits,
\* with the bits of another or with the sign bit.
Separable(def) ==
  \A i, j \in DOMAIN def.parts :
    /\ def.parts[i].mask # {} /\ def.parts[i].mask \subseteq 0 .. SignBit - 1
    /\ i # j => def.parts[i].mask \cap def.parts[j].mask = {}

Shaped(def, v) ==
  CASE def.t \in Scalars -> v.n \in Nat /\ v = Scalar(def.t, v.n)
    [] def.t \in Texts -> v.s \in Seq(Alphabet) /\ v = Str(v.s) /\ (def.t = "name" => ~ BadName(v.s))
    [] def.t = "nonZero" -> ~ IsZero(v)
    [] def.t \in Lists -> v.items \in Seq(Values) /\ v = List(v.items)
    [] def.t = "tuple" -> v.items \in Seq(Values) /\ Len(v.items) = Len(def.parts) /\ v = List(v.items)
    [] def.t \in Records ->
         /\ v.fields \in [{def.parts[i].name : i \in DOMAIN def.parts} -> Values] /\ v = Object(v.fields)
         /\ def.t = "multihash" => v.fields["algorithm"].kind \in DOMAIN Code
    [] def.t = "enum" ->
         /\ v.items \in Seq(Values) /\ v = Variant(v.kind, v.items)
         /\ \E i \in DOMAIN def.parts : def.parts[i].name = v.kind
         /\ Len(v.items) = IF VariantNamed(def, v.kind).codec = "unit" THEN 0 ELSE 1
    [] def.t = "bitmap" ->
         Separable(def) /\ v.flags \subseteq {def.parts[i].name : i \in DOMAIN def.parts} /\ v = Flags(v.flags)
    [] def.t = "null" -> v = Null
    [] def.t = "option" -> TRUE

Fitting(def, v, inner) ==
  Shaped(def, v) /\ \A i \in DOMAIN Inside(def, v) : inner[Inside(def, v)[i][1]].fits[Inside(def, v)[i][2]]

\* Sets and maps mean what they contain: for each key the last item that has it.
Meaning(def, v, inner) ==
  LET mean(c, w) == inner[c].means[w] IN
  CASE def.t = "set" ->
         LET key == KeysOf(def, v.items, inner)
             keys == {key[i] : i \in DOMAIN key}
             ascending == Ascending(keys, {p \in keys \X keys : Before(p[1], p[2])})
         IN List([k \in DOMAIN ascending |->
                    mean(Inner(def), v.items[Max({i \in DOMAIN key : key[i] = ascending[k]})])])
    [] def.t = "vec" -> List([i \in DOMAIN v.items |-> mean(Inner(def), v.items[i])])
    [] def.t = "tuple" -> List([i \in DOMAIN v.items |-> mean(def.parts[i].codec, v.items[i])])
    [] def.t \in Records -> Object([name \in DOMAIN v.fields |-> mean(VariantNamed(def, name).codec, v.fields[name])])
    [] def.t = "enum" -> Variant(v.kind, [i \in DOMAIN v.items |-> mean(VariantNamed(def, v.kind).codec, v.items[i])])
    [] def.t = "nonZero" \/ (def.t = "option" /\ v # Null) -> mean(Inner(def), v)
    [] OTHER -> v

-----------------------------------------------------------------------------
(* The codecs put together *)

\* Too deep for any value: nothing fits, so that `encode`, which throws in the
\* neverCodec of the source, is never called.
NeverCodec ==
  [encode |-> [v \in Values |-> <<>>], decode |-> [bytes \in Bytes |-> Result(Throw, <<>>)],
   key |-> [v \in Values |-> <<>>], fits |-> [v \in Values |-> FALSE], means |-> [v \in Values |-> v]]

GenCodec(def, inner) ==
  [encode |-> [v \in Values |-> Encoding(def, v, inner)],
   decode |-> [bytes \in Bytes |-> Decoding(def, bytes, inner)],
   key |-> [v \in Values |-> Key(def, v, inner)],
   fits |-> [v \in Values |-> Fitting(def, v, inner)],
   means |-> [v \in Values |-> Meaning(def, v, inner)]]

Built[n \in 0 .. Depth] == [c \in DOMAIN Codecs |-> IF n = 0 THEN NeverCodec ELSE GenCodec(Codecs[c], Built[n - 1])]

Encode(c, v) == Built[Depth][c].encode[v]
Decode(c, bytes) == Built[Depth][c].decode[bytes]
Fits(c, v) == Built[Depth][c].fits[v]
Means(c, v) == Built[Depth][c].means[v]

\* The parts of a codec name codecs, and are told apart by their names and, in an
\* enum, by their discriminants: they are properties of a JavaScript object.
WellFormed(def) ==
  /\ def.parts \in Seq([name : STRING, n : Nat, mask : SUBSET (0 .. SignBit), codec : DOMAIN Codecs \cup {"unit"}])
  /\ def.t \in Records \cup {"enum", "bitmap"} => \A i, j \in DOMAIN def.parts : i # j => def.parts[i].name # def.parts[j].name
  /\ def.t = "enum" => \A i, j \in DOMAIN def.parts : i # j => def.parts[i].n # def.parts[j].n
  /\ def.t \in Lists \cup {"option", "nonZero"} => Len(def.parts) = 1
  /\ def.t \notin {"enum", "bitmap"} => \A i \in DOMAIN def.parts : def.parts[i].codec # "unit"
  /\ def.t \in {"entry", "multihash"} => Len(def.parts) = 2
  /\ def.t = "multihash" => def.parts[1].name = "algorithm"

Types == Scalars \cup Texts \cup Lists \cup Bare \cup {"option", "enum", "bitmap"}

ASSUME OrderAssumption == \A v \in Values : Collation[v.s] \in Nat /\ CodeUnits[v.s] \in Nat
ASSUME CodeAssumption == \A algorithm \in DOMAIN Code : Code[algorithm] \in Nat
ASSUME CodecsAssumption == \A c \in DOMAIN Codecs : Codecs[c].t \in Types /\ WellFormed(Codecs[c])
ASSUME DepthAssumption == Depth \in Nat
=============================================================================
