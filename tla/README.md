# A TLA+ model of iroha-javascript

`iroha-javascript` is the TypeScript SDK of Hyperledger Iroha 2: a data model
with a SCALE codec, cryptography compiled to WebAssembly, and a client that
talks to a peer over HTTP and WebSocket. Its hardest part sits in
`packages/client`: callbacks, event emitters, promises and async generators
whose steps interleave with a network and a peer. Beside it are a code
generator that must order and resolve the types of a schema, the codecs and
query prototypes it produces, and tools that start processes and reuse files.
This directory models these parts, checks them with TLC and proves the results
that matter most with TLAPS.

## 1. Inventory

| Component | State it keeps | Operations | Talks to |
|---|---|---|---|
| WebSocket layer (`client/util.ts`, `client/web-socket/native.ts`, `client-web-socket-node`) | the socket's readyState, two `once` listeners, Blob reads under way | `setupWebSocket`, `accepted()`, `send`, `close`/`stop`, `isClosed` | the peer; an Emittery instance above |
| Block stream (`client/api-ws.ts`) | an async generator and its queue of calls, one deferred per iteration | `blocksStream`, `next()`, `return()`, `stop()` | WebSocket layer, consumer |
| Events stream and `submit` (`client/api-ws.ts`, `client/client.ts`) | one deferred (`confirmation`) per verified submit, its socket | `events`, `TransactionHandle.submit`, `AbortSignal` | WebSocket layer, HTTP API |
| Query execution (`client/query.ts`, `core/query.ts`) | a builder changed in place; per iteration a cursor | `selectWith`, `filterWith`, `batches`, `executeAll`, `executeSingle`, `executeSingleOpt` | HTTP API |
| HTTP API (`client/api.ts`) | none (a `fetch`) | `transaction`, `query`, `health`, `getConfig`, ... | the peer |
| Data model (`core/data-model`, `core/codec.ts`, `core/traits.ts`, `core/util.ts`) | immutable values | parse, print, compare, encode, decode | everything |
| Cryptography (`core/crypto`, `crypto-wasm`) | WASM handles | sign, verify, hash, multihash | transactions, queries |
| Code generator (`etc/codegen.ts`) | resolved types, emits | resolve, shortcut, sort, render | the schema |
| Build tasks (`etc/task-*.ts`) | a directory of artifacts | clone/link, build, copy, reuse | disk |
| Test peer (`tests/support/test-peer`) | one child process and a handle on it | start, kill, is-alive | `irohad` |

What is hard here:

* **Callbacks and promises.** Socket events, `await`s, Blob reads, `stop()`,
  the abort signal and the consumer's calls meet in any order; Emittery calls
  only the listeners that were registered when `emit` was called.
* **Failure.** A connection may break at any step, a POST may fail after or
  before the peer has acted on it, a cursor may expire.
* **Ordering.** Subscription and POST travel on different connections; the
  native adapter reads each message asynchronously, so messages overtake each
  other and `close` overtakes messages.
* **Aliasing.** A query builder is changed in place while iterations over it run.

What makes each part correct:

* *WebSocket layer*: messages neither lost nor doubled while the socket is
  open, and in order under Node.js; `accepted()` and `stop()` always settle.
* *Block stream*: consecutive blocks from the height asked for, though no block
  is ever buffered; a waiting `next()` settles.
* *submit*: what it reports is the peer's decision, it reports as soon as one
  is known to it, and it releases its stream on every exit.
* *Queries*: the batches of an iteration are consecutive pieces of one result,
  the end is never reached early, `executeSingle` judges the whole result.
* *Data model*: what prints parses back; zero never enters a `NonZero`; sets
  are sorted and free of duplicates.
* *Code generator*: no type is emitted before one it refers to eagerly.
* *Build tasks and test peer*: reused artifacts belong to the repository in
  use; at most one peer, and it can always be stopped.

The hazards behind these, each at its line, are listed in `PROJECT.json`.

## 2. Modules

| Module | Models | Proofs |
|---|---|---|
| `EventSocket` | WebSocket layer, connection, peer's end | `EventSocketProofs` |
| `BlockFeed`, `BlocksStream` | the abstract feed; the generator over `EventSocket` | `BlocksStreamProofs`, with the refinement |
| `TxSubmit` | `submit` over `EventSocket`, the POST and the peer's decision | `TxSubmitProofs` |
| `QueryExecution` | builder, iterations, cursors | `QueryExecutionProofs` |
| `Arrange` | the order in which generated types are written | `CodegenProofs` |
| `SchemaResolver`, `Codegen` | from the schema to a module that loads; uses `Arrange` | `CodegenProofs` |
| `Prototypes` | query prototypes, their proxies and the Find API | `PrototypesProofs` |
| `Codec`, `DataModel` | codecs, ordered sets and maps, ids and their text | `DataModelProofs` |
| `TestPeer` | start, kill, crash and the HTTP server of the test peer | `ToolProofs` |
| `PrepIroha` | the cache of artifacts, interrupted anywhere | `ToolProofs` |

Each has an `MC` module and a configuration; `Codegen` is checked together with
`SchemaResolver` and `Arrange`, `DataModel` with `Codec`.

Composition: `BlocksStream` and `TxSubmit` each INSTANCE `EventSocket`, and
every step of theirs that concerns a socket conjoins the socket's action with
what the listeners above do in the same task of the event loop; that both
implement the socket's specification is proved. `BlocksStream` implements
`BlockFeed`. `Codegen` EXTENDS `SchemaResolver` and `Arrange`, whose variables
are its own: a phase of `generateDataModel` begins where the one before has
ended.

What could come next, in order of use: the phases of the browser tests' runner
(`tests/browser/etc/test-run.ts`), which starts processes and kills them all
when one ends; `Json` and `Timestamp`, if a model of JSON text is wanted.

## 3. How state and actions correspond to the code

One action is one task of the JavaScript event loop: a socket callback, the
`emit` it makes and every listener that runs in the microtasks behind it. Where
a promise's continuation is a step of its own (a generator that resumes, a
`submit` that runs its `finally`), the model has a `Busy` predicate that lets no
socket event or call of the application come before it, as the microtask queue
does. Only the peer and the network move meanwhile.

**EventSocket.** `adapter` is which of the two adapters the client was given.
`ready` is `socket.readyState`; `handshake` and `stopCall` are the promises
returned by `accepted()` and `closeAsync()`; `uplink` and `downlink` are the
connection's two directions; `reads` are the native adapter's Blob reads. `sent`
and `emitted` are histories. `OnMessage` is the `message` event: directly from
the wire under Node.js, at the end of a Blob read under the native adapter, in
any order and even after `close`. `OnClose` fires both `once('close')`
listeners, in whatever way the connection ends (`CleanClose`,
`ConnectionLost`). The socket's own behaviour (silent `send` after close, frames
dropped by a native socket that is closing) and the peer are external.

**BlocksStream.** `gen` is where the generator `lazyBlocks` is and `calls` the
queue an AsyncGenerator keeps. `ResumeNext` is the loop's head (`sendNext()`,
then both listeners), `GotBlock` and `Halted` are the listeners. The peer sends
one block per `Next` once it is committed.

**TxSubmit.** `pc` is where each `submit` is; `confirmation` its deferred, which
only the first settlement changes; `unhandled` records that it was rejected
while nothing awaited it. `Opened` is what happens in one task when `events()`
resolves: deferred, listeners, POST. `Finish` is the `finally` block. The peer
queues the transaction once, decides once, and tells the streams subscribed at
that moment. `post` is followed at both ends: "accepted" and "refused" are
answers still on their way, and may be lost.

**QueryExecution.** `builder` is the shared builder: `predicate` and `width` (of
the selected tuple) stand for everything `filterWith` and `selectWith` change.
`query[s]` is what `build()` returned at the first `next()` of iteration `s`.
`continueCursor` is read from the answer after the `yield`; the model sets it
when the batch arrives, which is the same since nothing else reads it before.
`settled` is what `executeAll`, `executeSingle` or `executeSingleOpt` settled
with. The peer answers in columns; `GenerateOutputTuples` is the client's
transposition.

**Arrange.** `stack` is the recursion of `visit()`: a frame is an activation
with the neighbours it has left. `temporary`, `permanent` and `sorted` are the
source's. `Set` and `Map` are iterated in any order, which covers every order of
the schema's keys. `outcome` is how `arrangeEmits` ends: a result, the error for
a cycle, or the TypeError of a name that is no key.

**SchemaResolver, Codegen.** A step is one `#resolved.set` or one emit. `resolve`
is recursive; since it memoises, what is left of the recursion is that a key is
bound after the keys its clause resolves at once, and that is the guard in
`Bind`. The patterns that `resolveInner` tries are `Clauses`, in its order; `Fits` is a
pattern with the assertions behind it (the shape of the schema, the names of its
fields, the generic that an id is parsed to), and a key takes the first that
fits (`Takes`). A key that no clause takes, or whose
assertions fail, ends the resolution. Ids are parsed from tokens (`Tokens`), so
that the text between the angle brackets is compared as the code compares it.
One `Resolve...` operator stands for each group of clauses, `Definition` for the closures they leave and `Deferred` for what
those closures resolve. The text of a definition is reduced to the set of other
definitions that its initialiser reads when the generated module is loaded
(`LoadReads`): that is all its order depends on.

Recursion over references is by depth: `Within` collects what is at most
`MaxNesting` deep, which is where `visitRefs` and `renderRef` stop because no
schema nests deeper. `findEnum` is `Follow`, one step for each alias there is.
The recursion of `enumShortcuts` is a function defined by its own equation
(`HasShortcuts`); where that recursion would not end, `Endless` holds and
`ProcessNever` fails, as the code does by running out of stack. An enum that a
reference names is a set of at most one id (`EnumOf`), where the code has an
enum or null.

**Prototypes.** The user's expression moves through the generated types
(`Entries`); the proxies see only property names, which they capitalise to get the
tag back. `Camel` and `Capital` are what the two conversions make of each name;
that the second undoes the first is an assumption on the schema's tags, and
evaluated. `buildPredicateTree` and `buildSelectorTree` recurse over
projections: `Tree` has their positions level by level, `Builds` what they assert at
each. `Tree[Depth] = {}` says that the recursion ends: a path longer than there are
projections goes through one of them twice, and on for ever. A value is the path
of its layers, and `Along` what type each leads to.

**Codec, DataModel.** A value is a record with a tag. `Codecs` is a table: a codec
is a combinator with its parts, which name other codecs, and a name is looked up when
it is used, as `lazyCodec` does; so a codec may refer to itself, as that of a
predicate does. `Built[n]` is the table with values nested up to n deep, beyond
which no value fits. `GenCodec` puts one codec together from those it looks up: what
the methods of the class do (`Encoding`, `Decoding`), `Key`, which is what its
`compare` method goes by, and two that are not in the code, `Fitting` (what
TypeScript lets it be given) and `Meaning` (a set of its members, a map of the last
value for each key). The bytes of a SCALE primitive (the library's) are one token, a
word of flags is its set of bits, and `decode` takes a token off a sequence. Texts
have a place in two orders, `Collation` for `localeCompare` and `CodeUnits` for the
`<` that `Name.compare` uses; neither goes by single characters, and two texts may
have one place. `Code` is what a public key's multihash begins with. All three are
constants: the properties need nothing but that they are orders.
Sorting is by rank: `Ascending` puts each member of a set behind as many as are
before it. The text of ids is sequences of characters; `TwoParts` and
`AssetIdFromStr` are the parsers, the latter a regular expression as the choice of
its groups' ends.

**TestPeer.** A handler runs up to its `await`, and what an event settles runs
in the same step: `Closes` is the `close` event of a child with everything that
waits for its `exitPromise`. `StatusAnswered` is a request to whoever has the
port, which is how one peer can answer for another. `overlap` is a history; it
names the case of two `/start` requests under way at a time.

**PrepIroha.** Each step is one change on disk; `Interrupted` may come between
any two. A file that is being copied is there, incomplete, from the first
moment; `emptyDir` removes one file after the other, and the removal of an earlier
clone may stop half way. `artifactsReady` looks at
names only.

Definitions commented *Faulty variant* are not part of the model: no action of
`Next` uses them. Each is a plausible bug; `PROJECT.json` says which property
finds it when it takes the place of the definition after it.

## 4. Runs

| Run | Bounds | Distinct states | Shows |
|---|---|---|---|
| `event_socket` | 1 connection, 2 callers of `stop`, 3 messages, 2 unread frames, both adapters | 24.6 thousand | delivery, `stop()` and listeners under every interleaving |
| `blocks_stream` | blocks 2..4 of a chain of 4, 4 calls of `next`/`return`, 2 of `stop` | 30.6 thousand | demand and supply match, refinement of `BlockFeed`, waiting calls settle |
| `tx_submit` | one verified and one plain `submit` of one transaction | 56 thousand | outcome, quiet success, settlement, release |
| `tx_submit_post_failure` | the same | violated | the FIXME at `client.ts:205` |
| `query_execution` | 2 iterations over one builder, results of 0, 1 and 5 rows, fetch size 2, tuples of 1 and 2 | 336 thousand | snapshot, completeness, cursors, single results |
| `arrange` | every graph on at most 4 types, symmetric, edges to missing types included | 185 thousand | topological order, completeness, true complaints |
| `codegen` | 22 fragments of the schema, valid and broken | 80.9 thousand | the generated module loads, names nothing undefined, never types are exactly the uninhabited enums |
| `prototypes` | 5 queries over the projections of nested ids, metadata keys and events | 465 | what types allow builds a `QueryBox`; the output type is the selection's |
| `data_model` | 823 values under 15 codecs, 310 ids of 4 kinds, `Depth` 5 | 3.4 thousand | bytes and text come back; one value, one encoding |
| `non_zero` | the same | violated | `0n` passes `NonZero` (`primitives.ts:64`) |
| `test_peer` | 2 requests to start, 2 to kill, 2 blocks | 240 thousand | nothing escapes, own genesis, killed is gone, every call is answered |
| `prep_iroha` | 2 revisions, 1 clone, any number of runs | 96.7 thousand | accepted artifacts are of one source; a fresh run delivers |

Why these bounds are enough to be interesting: three messages let two Blob
reads be under way while a third is on the wire; two callers of `stop` race
each other and the peer's close; four calls let a generator be asked for a block
while it waits, and after its end; a plain and a verified `submit` suffice for a
transaction queued by one call and refused to the other; five rows with fetch
size two need two Continues and end in a short batch, one row is a single
answer and none the empty one. Connections do not interact in the code, so one
is enough for TLC; the theorems hold for any number.

A graph on four types has every shape the search distinguishes (a chain below a
fork, a cycle reached from outside, a shared descendant, a missing name at any
depth), and the proofs cover the others. The fragments of `codegen` have at least
one instance of every clause of the resolver that the model has, fifteen schemas
it refuses, and the one cycle Iroha's schema has; their references are nested at
most four deep (`MaxNesting`), and `Ids` has every name in them. In `data_model` sets and maps have up
to three entries, so that two can be equal and a third in between, and among the keys
are two different strings that `localeCompare` holds equal and a name that its order
and that of `<` put on different sides of another; predicates
nest three deep, which is what takes a `Depth` of 5; every combinator is used, an
`Option` of an `Option` among them. In `test_peer` two starts are what it takes to overlap, or for
one process to be left with the port another is to have, and two kills to wait
for one process. Two revisions and a clone let every pair of sources meet in
`prep/iroha`.

Deadlock is checked in `arrange`, `codegen` and `prep_iroha`: their programs end
only where they return or throw. Elsewhere `CHECK_DEADLOCK FALSE` says that a
client may make its last call, a value be read, or a server have been stopped.

What some properties leave out, and why:

* `CommittedBlockArrives` and `CloseReleasesWaiter` say nothing of a `next()`
  *called after* the socket has closed: that one waits for ever, because
  `close` is not emitted again (`api-ws.ts:119`).
* `NoBlockDropped`, `ClosedOnlyWithoutVerdict` and `InOrderDelivery` make an
  exception for the native adapter, whose Blob reads can be overtaken.
* `DecisionSettlesSubmit` excepts a stream whose subscription the peer read
  too late (`Missed`): that `submit` waits until the stream closes or it is
  aborted.
* `SuccessIsQuiet` speaks of submits that resolve. Others may leave an
  unhandled rejection, which is what `tx_submit_post_failure` shows for the
  case the source's own FIXME names.
* `BytesDecodeBack` and `OneEncoding` speak of values that fit their codec. A set of
  flags fits only a bitmap that is `Separable`: one whose flags share bits, or have
  bit 31 (`codec.ts:202` counts in signed 32 bits), loses flags or throws. No bitmap
  of the schema is such a one.
* `TextParsesBack` excepts the NFT ids with a `$` in a name, which a name may have
  (`compound.ts:469`).
* `NothingEscapes` and `SawItsOwnGenesis` except overlapping starts
  (`server.ts:18`), and the process a deadline leaves behind (`mod.ts:154`), which
  keeps the port and may answer for the next peer.
* `EveryCallAnswered` ends with the server: a peer that dies by a signal fails the
  assertion in its `close` listener (`mod.ts:142`), which nothing catches.
* `AcceptedIsOfOneSource` leaves the file copied last, `schema.json`: interrupted
  then, it is there, incomplete, and accepted by the next run.
* `FreshRunDelivers` is about `--git` and `--force`. After `--path` alone, what an
  earlier repository left in `prep/iroha` is still used (`task-prep-iroha.ts:141`).

## 5. Fairness

Weak fairness only, and only of what the platform owes: the event loop runs its
microtasks and the tasks whose event has happened; a handshake ends one way or
the other (the platform has timeouts); a Blob read ends; a frame that has
arrived is handed over; the closing handshake ends; an HTTP request is answered
or fails; the peer reads its frames and sends what it owes. Nobody owes a
message, a call, an abort, a commit, a decision or a failure. In
`QueryExecution` the client's own loop is fair (`executeAll` drives its
generator without anyone's help), a consumer of `batches()` is not. In `TestPeer` timers fire, requests and
`close` events are answered, and a process that was sent SIGTERM stops; nobody
owes a process that starts, a port or a block. `Arrange`, `Codegen`, `DataModel`,
`Prototypes` and `PrepIroha` state no liveness.

## 6. Proofs

Every theorem holds for every value of the constants, under the assumptions
named in the modules, all of them about the shape of the constants:
`FramesAssumption` (the close frame is no other frame), `BoundAssumption`,
`BlocksStreamAssumption` and `QueryAssumption` (numbers are naturals, a height or a
fetch size is not 0), `VerifyingAssumption` (the calls that verify are calls),
`NobodyAssumption` and `NothingAssumption` (a sentinel is none of the things it
stands beside), `NestingAssumption` (a depth is a natural),
`TokensAssumption` (every type that a schema names has a text),
`PartsAssumption` (a definition has a list of names and types), `UnsuffixedAssumption`
(`errors` does not end with `_ms`), `ProducedAssumption` (the types `mapFields`
makes are not in the schema) and `PermissionAssumption` (a permission is a plain
struct, as the comparison generated for it at `codegen.ts:602` takes it to be) and
`PrototypesAssumption` (projections are finitely many Rust enums, so a tag is there
once, and structs; a test takes no projection), `CaseAssumption` (a tag comes back
when the property made of it is capitalised, as words in Pascal case do and an acronym
would not), `CodecsAssumption` (a codec's parts
name codecs of the table and differ in name and, in an enum, in discriminant, being
properties of an object), `OrderAssumption`, `CodeAssumption` and `DepthAssumption` (places
in an order, and depths, are numbers) and `TasksAssumption` (what is encoded fits its codec, and an id is as its
constructors leave it). TLC evaluates them on every run, and has checked each inductive invariant on the
run's instance before its proof.

* **`EventSocketProofs`.** `TypeCorrect`: `TypeOK` is inductive as it stands, its
  last conjunct ties the fields of one connection together.
  `NodeDeliversInOrder`: `sent = emitted \o downlink` under the adapter for
  Node.js, from the lemmas on queues. `NothingVanishes`: a message that has been
  sent is on the wire, being read or heard, and in no two of those places;
  `Accounted` states it so that every step can be shown to move messages between
  places, which `NoMessageVanishes` by itself, silent after a close, does not.
* **`BlocksStreamProofs`.** `SocketStep` shows that every step is a step of the
  socket or leaves it alone; so `SocketTypeStep`, proved once, is used here and in
  `TxSubmitProofs` through INSTANCE. None of the properties is inductive:
  that a block meets a listener depends on the requests and blocks under way, all
  counted together. `OneForOne` (at most one is under way, and a `next()` waits for
  it), `OneSubscribe`, `InStep` (the peer's next height is that of the consumer's
  next result) and `NextBlock` are that invariant; `AskedAppended` and `AskedPopped`
  count requests in a queue that grows or shrinks. From it: `BlocksTypeCorrect`,
  `OneOutstandingAlways`, `NothingDropped`, `CloseReleases`, and
  `FeedImplemented`, that the generator, socket and peer together implement
  `BlockFeed`: every step is one of the feed's or stutters.
* **`TxSubmitProofs`.** `SubmitTypeCorrect`, `OutcomeIsAlwaysFate`,
  `ClosedMeansNoVerdict`, `SuccessIsAlwaysQuiet`, for any number of calls,
  verifying or not. The invariant says for each call: where it is, its POST and
  its deferred go together (`Paced`); a final status, wherever it is on its way, is
  the one the peer decided (`Truthful`); an outcome repeats the deferred
  (`Settled`); under Node.js a deferred still unsettled, or settled by the
  close, has heard no verdict (`Heard`).
* **`QueryExecutionProofs`.** `TypeCorrect`, `YieldsPrefix`, `EndIsComplete`,
  `CursorKeepsStep` and `SingleIsSingle`. That a batch extends the prefix depends on
  what the answer under way holds, and that on the cursor the request carried:
  `Track` says it all for one iteration, `IInv` for all of them; `TrackStart`,
  `TrackAnswer` and `TrackReceive` are its three interesting steps.
  `TransposeColumns` (the client's transposition undoes the peer's columns) and
  `TuplesConcat` are the lemmas on data.
* **`CodegenProofs`**, first part, on `Arrange`: `ArrangeTypeCorrect`,
  `ArrangeIsTopological` and `ArrangeIsComplete`, for every set of types and every
  graph. The invariant is the classical one of a depth-first search with its
  stack made explicit: the stack is a path of open nodes (`Open`, `Path`), a
  frame's neighbours are still to visit, written, or the next frame (`Visited`),
  and every key is still to visit, written, or at the bottom of the stack
  (`Covered`). `OpenAgainIsKnot`: meeting an open node exhibits a set each of
  whose members refers into it, so the complaint of a cycle is true.
* **`CodegenProofs`**, second part: `CodegenDangles`, `CodegenNevers` and
  `CodegenLoads`, for every schema, every order of its keys and every depth of
  references. None of the three properties is inductive: each speaks of one phase
  and rests on what all the phases before it left behind. `ResolverInv` says what:
  each entry of `#resolved` keeps what the closures and renderers will read of it
  (`EntriesOK`: parameters only where they may be, everything inside a reference
  resolved too, a closure exactly for local types); what has been emitted is
  what the closures of the keys visited so far make, and those found all they
  resolved (`FillOK`); afterwards, that two keys of one type have one definition
  (`MadeOK`); that only never types have been emptied, and those visited have been
  (`EmptiedOK`); and that the graph being searched is the emits' (`PhaseOK`).
  `DefinitionStays` is what makes a closure's result independent of when it
  runs. `BarrenIsNever` is the heart of `CodegenNevers`: where enums do not contain
  themselves, the equation of `enumShortcuts` has one solution, and emptying some
  never types leaves the largest set of uninhabited enums as it was; so the order of
  the pass does not matter. `VisitedCovers` is that of `CodegenLoads`: what
  `renderRef` reads of a type it does not refuse, `visitRefs` has found, though
  they recurse differently; `GroundedReference` that of `CodegenDangles`.
  `SetInduction` (a set of naturals with 0 and every successor is `Nat`) takes the
  place of the library's induction.
* **`PrototypesProofs`.** `QueriesAreValues` and `OutputsAreSelected`, for every
  schema and however deep its projections nest. The invariant ties the three views of
  one expression together: the type the user is at is a position of the tree the
  generator built (`OnTree`), and the properties the proxy has kept lead, as layers
  of a value, from the query's projection to that position's (`Leads`). `OnTreeBuilds`
  says that the generator's assertions hold wherever the user can come, so each
  layer fits (`PropertyFits`, `AtomFits`, `KeyFits`, `DelegateLeads`) and so does the end of the
  value (`SelectorFits`, `PredicateFits`). `OutputOnTree` looks the position up in
  the table. `TreeUnfolds` and `AlongUnfolds` give the two recursive functions their
  equations.
* **`DataModelProofs`.** `DecodesBack`, `EncodedOnce` and `ParsesBack`, for every table
  of codecs, all orders of texts and every value that fits. The argument is an
  induction on `Depth` (`EveryCodecGood`, by `SetInduction`): a codec is good
  (`GoodCodec`) when what it encodes is tokens, decodes to what was meant whatever
  follows it in the stream and leaves that untouched; when values of one meaning have
  one encoding (the converse follows from decoding); and when a value's key is
  numbers and its meaning is told apart by the codecs around it as the value
  itself is (`Tagged`). `GoodStep` says that a codec is good when those it looks up are, by one
  lemma for each combinator and each of the two questions: `LeafReads`, `ListReads`,
  `TupleReads`, `RecordReads`, `EnumReads`, `WrapReads`, and `ListsSame` to
  `WrapSame`. Below them are the lemmas on data. `BeforeTotal` and its companions:
  the comparison of keys is a strict total order. `SortedSetIs`: what `toSortedSet`
  leaves is the last item of each key, in ascending order, whatever the order
  and the repetitions it was given, which is why one value has one encoding.
  `MaskRead`: flags that share no bits are read back from their word.
  `DecodeAllEncoded`: values written one after the other are read one after the
  other. `AssetIdJoined`: the regular expression, whose groups are greedy, has only one
  match on an id's text, because names have no `#` and no `@`; `TwoPartsJoined` is
  the same for the ids of two parts. The state machine adds only `Transit`, that what
  is read is what was written.
* **`ToolProofs`**, first part, on `TestPeer`: `PeerTypeCorrect`, `NothingEscapesAlways`,
  `StartedHasGenesis` and `KilledIsGoneAlways`, for any number of requests. What
  strengthens them is `Agreement` between the server's variable and the handlers
  that hold it, `OneAtATime` (without overlapping starts there is no other start
  beside one, and none beside a peer), and `OwnGenesis`, which carries the answer
  to a status request from the moment it is given to the one it is used.
* **`ToolProofs`**, second part, on `PrepIroha`: `PrepTypeCorrect`, `AcceptedAlwaysOfOneSource` and
  `FreshRunAlwaysDelivers`, for any revisions and any number of interrupted runs.
  `Copying` and `LastIncomplete` say what is on disk in the midst of a copy,
  `Origin` where the repository came from, `OneSource` what survives it all.

Two theorems say that a composition keeps what it is made of: `BlocksKeepsSocket`
and `SubmitKeepsSocket`, that every behaviour of the block stream, or of any
number of submits, is a behaviour of `EventSocket`. What `EventSocketProofs` has
of sockets therefore holds of theirs (`BlocksSocketDelivers`,
`SubmitSocketDelivers`), without another invariant.

`CodegenLoads` has a hypothesis, `BreakPointsUnread`, which the proof found.
References to `InstructionBox`, where the one cycle is cut, have no edge in the
graph, since their codecs are lazy; but the constructor of a unit variant is read
on loading wherever it is nested (`codegen.ts:1181`), and no laziness covers that. A
schema in which an enum had `InstructionBox` as a variant, with a unit somewhere
below it, would give a module that fails to load in some orders: TLC finds one
when the fragments are given such an enum. No enum of Iroha
that the repository uses is such a one (the cycle goes through
`Vec<InstructionBox>`), and neither is any in the fragments of `codegen`.

The theorems of `PrototypesProofs` have one each, `ListMatches` and `IdsDistinct`.
Nothing in the code makes sure of them. The list is written by hand: where the schema
has a payload and the list has not, the constructor fails, and where the list has
one and the schema has not, it takes the parameters for the payload (`Find`). And the
`Map` behind the table (`codegen.ts:1522`) lets the later of two outputs replace the
first, where across queries `generatePrototypes` asserts that they are equal. TLC
evaluates both hypotheses on the instance (`MCPrototypesAssumption`).

Only model-checked: every liveness property (fairness and ENABLED are beyond the
prover), and what the two runs that find a violation show. The recursion of the
codecs over values is a recursive function on depth, `Built`, and every recursion
the proofs reason about is unfolded once, by a lemma of its own (`BuiltUnfolds`,
`FlattenUnfolds`, `ClearUnfolds`, `DecodeUnfolds`).

## 7. Not modelled, and why

* `Json` and `Timestamp` (`JSON.parse`, `Date`) convert between two views of one
  value, by functions of the platform.
* The bytes of SCALE primitives are a third-party library's; cryptographic
  algorithms are `iroha_crypto` compiled to WebAssembly, and the wrappers around
  them keep no state. Building and signing a transaction is one call of those.
* `localeCompare` orders strings by the platform's locale, the peer by bytes
  (`traits.ts:22`): the model has the client's order, whichever it is, and says nothing
  of the peer's being different. Keys it holds equal are one key in the model's
  sets and maps, as they are in the code's.
* The text of generated TypeScript, and the writing of files.
* Build tasks other than the preparation of Iroha run one command after another
  and keep nothing. The browser application only calls what is modelled.
* Singular queries and the HTTP endpoints without state are one request and one
  answer. `status()` has no timeout of its own.
* The socket's `error` event, and a child's `error` event, are listened to by
  nothing in the repository: the first is left out, the second ends the test
  server (`Spawn`).
* A message that does not decode throws in a listener (`api-ws.ts:55`), and each
  `next()` leaves one more `close` listener (`api-ws.ts:119`): a peer that speaks
  the protocol never causes the first, and the second changes no behaviour.
* The `finally` in `server.ts` that kills the peer runs as soon as the server
  listens, when there is no peer yet: it does nothing, and has no action.

`PROJECT.json` lists every component with its status, and every hazard with the
properties that would find it going wrong, or why none does.
