------------------------------- MODULE Codegen -------------------------------
(***************************************************************************)
(* generateDataModel of etc/codegen.ts: the definitions the Resolver made, *)
(* put in order by arrangeEmits and rendered.  What matters of the text of *)
(* a definition is which other definitions it reads while the generated    *)
(* module is being loaded, where one that comes later is a ReferenceError. *)
(***************************************************************************)
EXTENDS SchemaResolver, Arrange

CONSTANT MaxNesting    \* bound: how deep the parameters of a reference are nested

ASSUME NestingAssumption == MaxNesting \in Nat

-----------------------------------------------------------------------------
Kinds == {"lib", "local", "param", "null", "array", "result", "set"}

\* A reference and, n deep, what is inside it by way of references of `kinds`.
Level(ref, kinds) ==
  LET at[n \in Nat] ==
        IF n = 0 THEN {ref}
        ELSE UNION {Range(outer.params) : outer \in {r \in at[n - 1] : r.t \in kinds}}
  IN at

Within(ref, kinds) == UNION {Level(ref, kinds)[n] : n \in 0 .. MaxNesting}

AllRefs(ref) == Within(ref, Kinds)

\* Faulty variant: the parameters of a reference are not visited.
VisitRefsShallow(ref) == {ref}

\* visitRefs; it does not look inside a result, an array, or the element type
\* of a set with a comparator.
VisitRefs(ref) ==
  LET open == Within(ref, {"lib", "local"}) IN
  open \cup {r.params[1] : r \in {s \in open : s.t = "set"}}

VisitEmitRefs(emit) == UNION {VisitRefs(emit.parts[i].type) : i \in DOMAIN emit.parts}

LocalRefs(emit) == {ref \in VisitEmitRefs(emit) : ref.t = "local"}

GraphOf(types) ==
  [id \in DOMAIN types |-> {ref.id : ref \in LocalRefs(types[id])} \ BreakPoints]

-----------------------------------------------------------------------------
\* renderRef(ref).codec: what evaluating it reads.  A codec with parameters
\* is a call, made at once; a lazy one is read when it is first used.
CodecReads(ref) ==
  {r.id : r \in {s \in AllRefs(ref) : s.t = "local" /\ (s.params # <<>> \/ ~ s.lazy)}}

\* renderRef throws for an array or a result.
Renderable(ref) == \A r \in AllRefs(ref) : r.t \notin {"array", "result"}

\* renderShortcutsTree: the constructor of a unit variant inside the enum of
\* another variant is a frozen object that holds that enum's own constructor;
\* one with a value is a function.
ShortcutReads(types, emit) ==
  {emit.parts[i].type.id : i \in
     {j \in DOMAIN emit.parts : \E enum \in EnumOf(types, emit.parts[j].type) : HasUnit(types)[enum]}}

Generics(emit) ==
  Max({ref.n + 1 : ref \in {r \in VisitEmitRefs(emit) : r.t = "param"}} \cup {0})

\* renderEmit: what the initialiser of the definition reads.  The codec of a
\* generic struct is a function of its parameters' codecs.
LoadReads(types, id) ==
  LET emit == types[id]
      codecs == UNION {CodecReads(emit.parts[i].type) : i \in DOMAIN emit.parts}
  IN CASE emit.t = "enum" -> codecs \cup ShortcutReads(types, emit)
       [] emit.t = "struct" /\ Generics(emit) > 0 -> {}
       [] OTHER -> codecs

-----------------------------------------------------------------------------
CodegenInit ==
  /\ ResolverInit
  /\ StartOn(<<>>)

Resolving ==
  /\ ResolverStep
  /\ UNCHANGED arrangeVars

\* The graph of arrangeEmits, and its assert on the cycle break points.  Ids
\* bounds the names there are.
StartArrange ==
  /\ phase = "constructed"
  /\ IF \E id \in DOMAIN emits : \E ref \in LocalRefs(emits[id]) : ref.id \in BreakPoints /\ ~ ref.lazy
     THEN Fail /\ UNCHANGED arrangeVars
     ELSE /\ DOMAIN emits \subseteq Ids
          /\ \A id \in DOMAIN emits : GraphOf(emits)[id] \subseteq Ids
          /\ phase' = "arrange"
          /\ graph' = GraphOf(emits) /\ roots' = DOMAIN emits
          /\ UNCHANGED <<schema, resolved, visited, emits>>
          /\ UNCHANGED <<stack, temporary, permanent, sorted, outcome>>

Arranging ==
  /\ phase = "arrange"
  /\ ArrangeStep
  /\ UNCHANGED resolverVars

Render ==
  /\ phase = "arrange" /\ outcome # "running"
  /\ IF outcome = "sorted" /\ \A id \in DOMAIN emits : \A i \in DOMAIN emits[id].parts :
                                  Renderable(emits[id].parts[i].type)
     THEN phase' = "rendered" /\ UNCHANGED <<schema, resolved, visited, emits>>
     ELSE Fail
  /\ UNCHANGED arrangeVars

Ended == phase \in {"rendered", "failed"} /\ UNCHANGED <<resolverVars, arrangeVars>>

CodegenNext == Resolving \/ StartArrange \/ Arranging \/ Render \/ Ended

CodegenSpec == CodegenInit /\ [][CodegenNext]_<<resolverVars, arrangeVars>>

-----------------------------------------------------------------------------
Constructing == phase \in {"resolve", "fill", "failed"}

\* Loading the generated module reads no definition that comes later in it,
\* whatever the order of the schema's keys: arrangeEmits' search and the
\* laziness of the references it leaves out cover all that renderEmit writes.
LoadsCleanly ==
  phase = "rendered" =>
    \A i \in 1 .. Len(sorted) :
      LoadReads(emits, sorted[i]) \subseteq {sorted[j] : j \in 1 .. i - 1}

\* Once the closures have run, every local type a definition names, however
\* deep, has a definition, with as many parameters as the reference gives it:
\* the types mapFields produces on the way included.
NothingDangles ==
  ~ Constructing =>
    \A id \in DOMAIN emits : \A i \in DOMAIN emits[id].parts :
      \A ref \in AllRefs(emits[id].parts[i].type) :
        ref.t = "local" => /\ ref.id \in DOMAIN emits
                           /\ Len(ref.params) = Generics(emits[ref.id])

\* The enums no value of which can be made: the largest set of enums whose
\* variants all lead back into the set.
NeverIn(types) ==
  UNION {ids \in SUBSET Enums(types) :
           \A id \in ids : \A i \in DOMAIN types[id].parts :
             EnumOf(types, types[id].parts[i].type) \cap ids # {}}

\* What the closures made, before processNeverEnums.
Made ==
  [id \in DOMAIN emits |->
    LET k == CHOOSE k \in DOMAIN resolved : resolved[k].ref.id = id /\ resolved[k].form # "none"
    IN Definition(resolved[k].form, resolved[k].key)]

NeverTypes == NeverIn(Made)

\* One pass in any order, changing the map it reads, empties exactly these.
NeverExactly ==
  ~ Constructing /\ phase # "never" =>
    \A id \in Enums(Made) : (emits[id].parts = <<>>) <=> (id \in NeverTypes)
=============================================================================
