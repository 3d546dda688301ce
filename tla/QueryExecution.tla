--------------------------- MODULE QueryExecution ---------------------------
(***************************************************************************)
(* Iterable queries: `QueryExecutor.execute` and the `QueryBuilder` of     *)
(* @iroha/client (query.ts), with the builder's mutable state and the      *)
(* output transposition of @iroha/core (core/query.ts).                    *)
(*                                                                         *)
(* Several iterations run over ONE builder: filterWith and selectWith      *)
(* change it in place and return it, and build() runs at the first next()  *)
(* of an iteration, not when batches() is called.  The peer (external)     *)
(* evaluates a query when it starts, hands out FetchSize rows per request  *)
(* and a cursor while rows remain, and forgets cursors when it likes.      *)
(***************************************************************************)
EXTENDS Naturals, Sequences

CONSTANTS
  Iterations,  \* calls of batches(), executeAll(), executeSingle[Opt]()
  Row,         \* what a query can find
  Tables,      \* the contents the peer's storage goes through
  ModesOf,     \* what each iteration may run for
  FetchSize,   \* params.fetchSize, the peer's default when it is null
  MaxWidth     \* bound: columns of a selected tuple

Modes == {"batches", "all", "single", "singleOpt"}

ASSUME QueryAssumption ==
  /\ ModesOf \in [Iterations -> SUBSET Modes]
  /\ Tables \subseteq Seq(Row)
  /\ FetchSize \in Nat \ {0}
  /\ MaxWidth \in Nat \ {0}

VARIABLES
  table,       \* the peer: its storage now
  snapshot,    \* the peer: the rows an iteration's query found at its Start
  handedOut,   \* the peer: how many of them it has put in answers
  live,        \* the peer still knows the iteration's cursor
  builder,     \* the builder: predicate and width of the selected tuple
  mode,        \* what each iteration runs for
  state,       \* where its generator is
  query,       \* what build() returned
  request,     \* its POST /query under way; "continue" carries `cursor`
  response,    \* the answer under way
  cursor,      \* continueCursor
  items,       \* what it has yielded, batch after batch
  settled      \* what the promise of executeAll & co. settled with

peerVars   == <<table, snapshot, handedOut, live>>
clientVars == <<builder, mode, state, query, cursor, items, settled>>
wireVars   == <<request, response>>
vars       == <<peerVars, clientVars, wireVars>>

NoCursor == 0      \* cursors are NonZero
Predicates == {"PASS", "FAIL"}
Builders == [predicate : Predicates, width : 1 .. MaxWidth]

-----------------------------------------------------------------------------
(* Output: the peer answers in columns, the client turns them into rows.     *)

Cell(row, column) == <<row, column>>

Columns(rows, width) == [j \in 1 .. width |-> [i \in 1 .. Len(rows) |-> Cell(rows[i], j)]]

\* Faulty variant: the last row of a batch is dropped.
GenerateOutputTuplesShort(columns) ==
  LET len == IF Len(columns[1]) = 0 THEN 0 ELSE Len(columns[1]) - 1
  IN [i \in 1 .. len |-> IF Len(columns) = 1 THEN columns[1][i]
                         ELSE [j \in 1 .. Len(columns) |-> columns[j][i]]]

\* generateOutputTuples: as many tuples as the first column is long; a tuple
\* of one is unwrapped.
GenerateOutputTuples(columns) ==
  [i \in 1 .. Len(columns[1]) |->
     IF Len(columns) = 1 THEN columns[1][i]
     ELSE [j \in 1 .. Len(columns) |-> columns[j][i]]]

\* What a consumer should see of the rows.
Tuple(row, width) ==
  IF width = 1 THEN Cell(row, 1) ELSE [j \in 1 .. width |-> Cell(row, j)]

Tuples(rows, width) == [i \in 1 .. Len(rows) |-> Tuple(rows[i], width)]

\* The predicates PASS and FAIL stand for any two that differ.
Result(rows, predicate) == IF predicate = "PASS" THEN rows ELSE <<>>

-----------------------------------------------------------------------------
NoAnswer == [kind |-> "none", columns |-> <<>>, cursor |-> NoCursor]
Failure  == [kind |-> "error", columns |-> <<>>, cursor |-> NoCursor]
Batch(columns, next) == [kind |-> "batch", columns |-> columns, cursor |-> next]

Outcome(kind, value) == [kind |-> kind, value |-> value]
Pending == Outcome("pending", <<>>)

Init ==
  /\ table \in Tables
  /\ snapshot = [s \in Iterations |-> <<>>]
  /\ handedOut = [s \in Iterations |-> 0]
  /\ live = [s \in Iterations |-> FALSE]
  /\ builder = [predicate |-> "PASS", width |-> 1]
  /\ mode \in [Iterations -> Modes] /\ \A s \in Iterations : mode[s] \in ModesOf[s]
  /\ state = [s \in Iterations |-> "fresh"]
  /\ query = [s \in Iterations |-> builder]
  /\ request = [s \in Iterations |-> "none"]
  /\ response = [s \in Iterations |-> NoAnswer]
  /\ cursor = [s \in Iterations |-> NoCursor]
  /\ items = [s \in Iterations |-> <<>>]
  /\ settled = [s \in Iterations |-> Pending]

-----------------------------------------------------------------------------
(* The client *)

\* Both change the builder itself, so every alias of it.
FilterWith(predicate) ==
  /\ builder' = [builder EXCEPT !.predicate = predicate]
  /\ UNCHANGED <<peerVars, wireVars, mode, state, query, cursor, items, settled>>

SelectWith(width) ==
  /\ builder' = [builder EXCEPT !.width = width]
  /\ UNCHANGED <<peerVars, wireVars, mode, state, query, cursor, items, settled>>

\* The first next(): build() now, then QueryRequest.Start.
Start(s) ==
  /\ state[s] = "fresh"
  /\ query' = [query EXCEPT ![s] = builder]
  /\ request' = [request EXCEPT ![s] = "start"]
  /\ state' = [state EXCEPT ![s] = "fetching"]
  /\ UNCHANGED <<peerVars, response, builder, mode, cursor, items, settled>>

\* next() at the yield, while (continueCursor): QueryRequest.Continue.
Continue(s) ==
  /\ state[s] = "suspended"
  /\ cursor[s] # NoCursor
  /\ request' = [request EXCEPT ![s] = "continue"]
  /\ state' = [state EXCEPT ![s] = "fetching"]
  /\ UNCHANGED <<peerVars, response, builder, mode, query, cursor, items, settled>>

\* Faulty variant: executeSingle tests `items.length <= 1`.
PromisedLax(m, all) ==
  IF m \in {"single", "singleOpt"} /\ Len(all) > 1 THEN Outcome("TypeError", <<>>)
                                                   ELSE Outcome("value", all)

\* What executeAll, executeSingle and executeSingleOpt make of all the items.
Promised(m, all) ==
  IF \/ m = "single" /\ Len(all) # 1
     \/ m = "singleOpt" /\ Len(all) > 1
  THEN Outcome("TypeError", <<>>)
  ELSE Outcome("value", all)

\* next() at the yield of the last batch: the loop and the generator end.
Finish(s) ==
  /\ state[s] = "suspended"
  /\ cursor[s] = NoCursor
  /\ state' = [state EXCEPT ![s] = "returned"]
  /\ settled' = [settled EXCEPT ![s] = Promised(mode[s], items[s])]
  /\ UNCHANGED <<peerVars, wireVars, builder, mode, query, cursor, items>>

\* A consumer of batches() leaves its loop; the peer is not told.
Abandon(s) ==
  /\ mode[s] = "batches" /\ state[s] = "suspended"
  /\ state' = [state EXCEPT ![s] = "abandoned"]
  /\ UNCHANGED <<peerVars, wireVars, builder, mode, query, cursor, items, settled>>

\* Faulty variant: continueCursor is only set once.
ReceiveOldCursor(s) ==
  /\ response[s].kind = "batch"
  /\ items' = [items EXCEPT ![s] = @ \o GenerateOutputTuples(response[s].columns)]
  /\ cursor' = [cursor EXCEPT ![s] = IF @ = NoCursor THEN response[s].cursor ELSE @]
  /\ state' = [state EXCEPT ![s] = "suspended"]
  /\ request' = [request EXCEPT ![s] = "none"]
  /\ response' = [response EXCEPT ![s] = NoAnswer]
  /\ UNCHANGED <<peerVars, builder, mode, query, settled>>

\* 200: the batch is transposed and yielded, its cursor kept.
Receive(s) ==
  /\ response[s].kind = "batch"
  /\ items' = [items EXCEPT ![s] = @ \o GenerateOutputTuples(response[s].columns)]
  /\ cursor' = [cursor EXCEPT ![s] = response[s].cursor]
  /\ state' = [state EXCEPT ![s] = "suspended"]
  /\ request' = [request EXCEPT ![s] = "none"]
  /\ response' = [response EXCEPT ![s] = NoAnswer]
  /\ UNCHANGED <<peerVars, builder, mode, query, settled>>

\* Faulty variants: a failed request ends the loop; its error is swallowed.
ThrowEnds(s) ==
  /\ request[s] # "none"
  /\ state' = [state EXCEPT ![s] = "returned"]
  /\ settled' = [settled EXCEPT ![s] = Promised(mode[s], items[s])]
  /\ request' = [request EXCEPT ![s] = "none"]
  /\ response' = [response EXCEPT ![s] = NoAnswer]
  /\ UNCHANGED <<peerVars, builder, mode, query, cursor, items>>

ThrowSwallowed(s) ==
  /\ request[s] # "none"
  /\ state' = [state EXCEPT ![s] = "failed"]
  /\ request' = [request EXCEPT ![s] = "none"]
  /\ response' = [response EXCEPT ![s] = NoAnswer]
  /\ UNCHANGED <<peerVars, builder, mode, query, cursor, items, settled>>

\* Any other status, or no answer: the generator throws, so does executeAll.
Throw(s) ==
  /\ request[s] # "none"
  /\ state' = [state EXCEPT ![s] = "failed"]
  /\ settled' = [settled EXCEPT ![s] = Outcome("error", <<>>)]
  /\ request' = [request EXCEPT ![s] = "none"]
  /\ response' = [response EXCEPT ![s] = NoAnswer]
  /\ UNCHANGED <<peerVars, builder, mode, query, cursor, items>>

-----------------------------------------------------------------------------
(* The peer (external) *)

Modify(t) ==
  /\ table' = t
  /\ UNCHANGED <<snapshot, handedOut, live, clientVars, wireVars>>

Answer(s, rows, from) ==
  LET to == IF from + FetchSize < Len(rows) THEN from + FetchSize ELSE Len(rows)
  IN /\ response' = [response EXCEPT ![s] =
                       Batch(Columns(SubSeq(rows, from + 1, to), query[s].width),
                             IF to < Len(rows) THEN to ELSE NoCursor)]
     /\ handedOut' = [handedOut EXCEPT ![s] = to]
     /\ live' = [live EXCEPT ![s] = to < Len(rows)]

PeerStarts(s) ==
  /\ request[s] = "start" /\ response[s] = NoAnswer
  /\ LET rows == Result(table, query[s].predicate)
     IN snapshot' = [snapshot EXCEPT ![s] = rows] /\ Answer(s, rows, 0)
  /\ UNCHANGED <<table, clientVars, request>>

PeerContinues(s) ==
  /\ request[s] = "continue" /\ response[s] = NoAnswer
  /\ live[s] /\ cursor[s] = handedOut[s]
  /\ Answer(s, snapshot[s], cursor[s])
  /\ UNCHANGED <<table, snapshot, clientVars, request>>

\* Invalid, over capacity, or the cursor is not the one the peer expects.
PeerRefuses(s) ==
  /\ request[s] # "none" /\ response[s] = NoAnswer
  /\ response' = [response EXCEPT ![s] = Failure]
  /\ UNCHANGED <<peerVars, clientVars, request>>

PeerForgets(s) ==
  /\ live[s]
  /\ live' = [live EXCEPT ![s] = FALSE]
  /\ UNCHANGED <<table, snapshot, handedOut, clientVars, wireVars>>

-----------------------------------------------------------------------------
Next ==
  \/ \E predicate \in Predicates : FilterWith(predicate)
  \/ \E width \in 1 .. MaxWidth : SelectWith(width)
  \/ \E t \in Tables : Modify(t)
  \/ \E s \in Iterations :
       \/ Start(s) \/ Continue(s) \/ Finish(s) \/ Abandon(s) \/ Receive(s) \/ Throw(s)
       \/ PeerStarts(s) \/ PeerContinues(s) \/ PeerRefuses(s) \/ PeerForgets(s)

Spec == Init /\ [][Next]_vars

\* executeAll & co. drive their generator themselves, and a request is
\* answered or fails.
Fairness ==
  \A s \in Iterations :
    /\ WF_vars(mode[s] # "batches" /\ (Start(s) \/ Continue(s) \/ Finish(s)))
    /\ WF_vars(PeerStarts(s) \/ PeerContinues(s) \/ PeerRefuses(s))
    /\ WF_vars(Receive(s) \/ Throw(s))

FairSpec == Spec /\ Fairness

-----------------------------------------------------------------------------
TypeOK ==
  /\ table \in Tables
  /\ snapshot \in [Iterations -> Seq(Row)]
  /\ handedOut \in [Iterations -> Nat]
  /\ live \in [Iterations -> BOOLEAN]
  /\ builder \in Builders
  /\ mode \in [Iterations -> Modes]
  /\ state \in [Iterations -> {"fresh", "fetching", "suspended", "returned", "failed",
                               "abandoned"}]
  /\ query \in [Iterations -> Builders]
  /\ request \in [Iterations -> {"none", "start", "continue"}]
  /\ cursor \in [Iterations -> Nat]
  /\ \A s \in Iterations :
       /\ state[s] = "fetching" <=> request[s] # "none"
       /\ request[s] = "none" => response[s] = NoAnswer
       /\ settled[s] # Pending <=> state[s] \in {"returned", "failed"}

\* What an iteration has yielded is the beginning of the result its own query
\* had when the peer started it: batch after batch, no row lost, repeated or
\* from a later storage, each tuple as wide as selected, whatever is done to
\* the builder, the storage or other iterations meanwhile.
YieldsSnapshotPrefix ==
  \A s \in Iterations :
    /\ Len(items[s]) <= Len(snapshot[s])
    /\ items[s] = Tuples(SubSeq(snapshot[s], 1, Len(items[s])), query[s].width)

\* An iteration that ends without an error has yielded the whole result: a
\* refused, expired or lost request is never taken for the end.
EndMeansComplete ==
  \A s \in Iterations :
    state[s] = "returned" => Len(items[s]) = Len(snapshot[s])

\* A Continue always carries the position up to which the peer has handed out
\* rows, whether the peer still knows the cursor or not.
CursorInStep ==
  \A s \in Iterations :
    request[s] = "continue" /\ response[s] = NoAnswer => cursor[s] = handedOut[s]

\* executeSingle answers only if the query found exactly one row,
\* executeSingleOpt one or none; else they blame the count only when it is so.
SingleMeansSingle ==
  \A s \in Iterations :
    LET found == Len(snapshot[s])
    IN /\ settled[s].kind = "value" =>
            /\ Len(settled[s].value) = found
            /\ mode[s] = "single" => found = 1
            /\ mode[s] = "singleOpt" => found <= 1
       /\ settled[s].kind = "TypeError" =>
            \/ mode[s] = "single" /\ found # 1
            \/ mode[s] = "singleOpt" /\ found > 1

\* executeAll & co. settle, though the storage may change without end.
PromiseSettles ==
  \A s \in Iterations :
    mode[s] # "batches" /\ state[s] # "fresh" ~> settled[s] # Pending
=============================================================================
