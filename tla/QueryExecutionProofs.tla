------------------------ MODULE QueryExecutionProofs ------------------------
(***************************************************************************)
(* Proofs about QueryExecution, for any number of iterations, any storage, *)
(* fetch size and width of tuples.                                         *)
(***************************************************************************)
EXTENDS QueryExecution, SequenceTheorems, TLAPS

LEMMA FunctionIsSeq ==
  ASSUME NEW S, NEW n \in Nat, NEW f \in [1 .. n -> S]
  PROVE  f \in Seq(S) /\ Len(f) = n
<1>1. f \in Seq(S)
  BY SeqDef
<1>2. DOMAIN f = 1 .. Len(f) /\ Len(f) \in Nat
  BY <1>1, LenProperties
<1>3. QED
  BY <1>1, <1>2

TupleSet(w) == {Tuple(r, w) : r \in Row}

LEMMA TuplesAreSeq ==
  ASSUME NEW rows \in Seq(Row), NEW w
  PROVE  /\ Tuples(rows, w) \in Seq(TupleSet(w))
         /\ Len(Tuples(rows, w)) = Len(rows)
         /\ \A i \in 1 .. Len(rows) : Tuples(rows, w)[i] = Tuple(rows[i], w)
<1>1. Len(rows) \in Nat /\ \A i \in 1 .. Len(rows) : rows[i] \in Row
  BY LenProperties
<1>2. Tuples(rows, w) \in [1 .. Len(rows) -> TupleSet(w)]
  BY <1>1 DEF Tuples, TupleSet
<1>3. QED
  BY <1>1, <1>2, FunctionIsSeq DEF Tuples

\* The client's transposition undoes the peer's: the rows come out of the
\* columns, in order, a tuple of one unwrapped.
LEMMA TransposeColumns ==
  ASSUME NEW rows \in Seq(Row), NEW w \in Nat \ {0}
  PROVE  GenerateOutputTuples(Columns(rows, w)) = Tuples(rows, w)
<1> DEFINE cols == Columns(rows, w)
<1>1. Len(rows) \in Nat
  BY LenProperties
<1>2. DOMAIN cols = 1 .. w /\ \A j \in 1 .. w : cols[j] = [i \in 1 .. Len(rows) |-> Cell(rows[i], j)]
  BY DEF Columns
<1>3. Len(cols) = w
  <2>1. cols \in [1 .. w -> {[i \in 1 .. Len(rows) |-> Cell(rows[i], j)] : j \in 1 .. w}]
    BY DEF Columns
  <2>2. QED
    BY <2>1, FunctionIsSeq
<1>4. Len(cols[1]) = Len(rows)
  <2>1. cols[1] \in [1 .. Len(rows) -> {Cell(rows[i], 1) : i \in 1 .. Len(rows)}]
    BY <1>2
  <2>2. QED
    BY <1>1, <2>1, FunctionIsSeq
<1>5. ASSUME NEW i \in 1 .. Len(rows)
      PROVE  (IF Len(cols) = 1 THEN cols[1][i] ELSE [j \in 1 .. Len(cols) |-> cols[j][i]])
               = Tuple(rows[i], w)
  <2>1. \A j \in 1 .. w : cols[j][i] = Cell(rows[i], j)
    BY <1>2
  <2>2. CASE w = 1
    BY <1>3, <2>1, <2>2 DEF Tuple
  <2>3. CASE w # 1
    BY <1>3, <2>1, <2>3 DEF Tuple
  <2>4. QED
    BY <2>2, <2>3
<1> HIDE DEF cols
<1>6. QED
  BY <1>3, <1>4, <1>5 DEF GenerateOutputTuples, Tuples, cols

\* Batches of tuples put end to end are the tuples of the rows put end to end.
LEMMA TuplesConcat ==
  ASSUME NEW r1 \in Seq(Row), NEW r2 \in Seq(Row), NEW w
  PROVE  Tuples(r1, w) \o Tuples(r2, w) = Tuples(r1 \o r2, w)
<1>1. /\ Len(r1) \in Nat /\ Len(r2) \in Nat
      /\ r1 \o r2 \in Seq(Row) /\ Len(r1 \o r2) = Len(r1) + Len(r2)
      /\ \A i \in 1 .. Len(r1) + Len(r2) :
           (r1 \o r2)[i] = IF i <= Len(r1) THEN r1[i] ELSE r2[i - Len(r1)]
  BY ConcatProperties, LenProperties
<1>2. /\ Tuples(r1, w) \in Seq(TupleSet(w)) /\ Len(Tuples(r1, w)) = Len(r1)
      /\ \A i \in 1 .. Len(r1) : Tuples(r1, w)[i] = Tuple(r1[i], w)
  BY TuplesAreSeq
<1>3. /\ Tuples(r2, w) \in Seq(TupleSet(w)) /\ Len(Tuples(r2, w)) = Len(r2)
      /\ \A i \in 1 .. Len(r2) : Tuples(r2, w)[i] = Tuple(r2[i], w)
  BY TuplesAreSeq
<1>4. PICK t1, t2 : t1 = Tuples(r1, w) /\ t2 = Tuples(r2, w)
  OBVIOUS
<1>5. /\ t1 \o t2 \in Seq(TupleSet(w)) /\ Len(t1 \o t2) = Len(r1) + Len(r2)
      /\ \A i \in 1 .. Len(r1) + Len(r2) :
           (t1 \o t2)[i] = IF i <= Len(r1) THEN t1[i] ELSE t2[i - Len(r1)]
  <2>1. t1 \in Seq(TupleSet(w)) /\ Len(t1) = Len(r1)
    BY <1>2, <1>4
  <2>2. t2 \in Seq(TupleSet(w)) /\ Len(t2) = Len(r2)
    BY <1>3, <1>4
  <2>3. /\ t1 \o t2 \in Seq(TupleSet(w)) /\ Len(t1 \o t2) = Len(t1) + Len(t2)
        /\ \A i \in 1 .. Len(t1) + Len(t2) :
             (t1 \o t2)[i] = IF i <= Len(t1) THEN t1[i] ELSE t2[i - Len(t1)]
    BY <2>1, <2>2, ConcatProperties
  <2>4. QED
    BY <2>1, <2>2, <2>3
<1>6. PICK r : r = r1 \o r2
  OBVIOUS
<1>7. /\ Tuples(r, w) \in Seq(TupleSet(w)) /\ Len(Tuples(r, w)) = Len(r1) + Len(r2)
      /\ \A i \in 1 .. Len(r1) + Len(r2) : Tuples(r, w)[i] = Tuple(r[i], w)
  BY <1>1, <1>6, TuplesAreSeq
<1>8. ASSUME NEW i \in 1 .. Len(r1) + Len(r2) PROVE (t1 \o t2)[i] = Tuples(r, w)[i]
  <2>1. CASE i <= Len(r1)
    <3>1. (t1 \o t2)[i] = t1[i] /\ r[i] = r1[i] /\ i \in 1 .. Len(r1)
      BY <1>1, <1>5, <1>6, <2>1
    <3>2. QED
      BY <1>2, <1>4, <1>7, <3>1
  <2>2. CASE i > Len(r1)
    <3>1. i - Len(r1) \in 1 .. Len(r2)
      BY <1>1, <2>2
    <3>2. (t1 \o t2)[i] = t2[i - Len(r1)] /\ r[i] = r2[i - Len(r1)]
      BY <1>1, <1>5, <1>6, <2>2
    <3>3. QED
      BY <1>3, <1>4, <1>7, <3>1, <3>2
  <2>3. Len(r1) \in Nat /\ Len(r2) \in Nat
    BY LenProperties
  <2>4. i \in Nat
    BY <2>3
  <2>5. i <= Len(r1) \/ i > Len(r1)
    BY <2>3, <2>4
  <2>6. QED
    BY <2>1, <2>2, <2>5
<1>9. t1 \o t2 = Tuples(r, w)
  BY <1>1, <1>5, <1>7, <1>8, SeqEqual
<1>10. QED
  BY <1>4, <1>6, <1>9

-----------------------------------------------------------------------------
\* How far one iteration is: what the peer found and handed out, what is under
\* way, and what has been yielded, tied to each other in every state.  The
\* properties about its end and its cursor do not carry over a step by
\* themselves: they need to know what an answer under way holds.
Track(snap, h, w, st, req, resp, cur, its) ==
  /\ h \in 0 .. Len(snap)
  /\ Len(its) \in 0 .. h
  /\ its = Tuples(SubSeq(snap, 1, Len(its)), w)
  /\ st = "fresh" \/ (req = "start" /\ resp = NoAnswer) => h = 0
  /\ resp \in {NoAnswer, Failure,
               Batch(Columns(SubSeq(snap, Len(its) + 1, h), w),
                     IF h < Len(snap) THEN h ELSE NoCursor)}
  /\ resp.kind = "batch" \/ st = "suspended" => h > 0 \/ Len(snap) = 0
  /\ st = "suspended" => Len(its) = h /\ cur = IF h < Len(snap) THEN h ELSE NoCursor
  /\ req = "continue" /\ resp = NoAnswer =>
       Len(its) = h /\ cur = h /\ h > 0 /\ h < Len(snap)
  /\ st = "returned" => Len(its) = Len(snap)

At(s) == Track(snapshot[s], handedOut[s], query[s].width, state[s], request[s],
               response[s], cursor[s], items[s])

IInv ==
  /\ TypeOK
  /\ response = [s \in Iterations |-> response[s]]
  /\ items = [s \in Iterations |-> items[s]]
  /\ settled = [s \in Iterations |-> settled[s]]
  /\ \A s \in Iterations : At(s)

LEMMA TuplesOfNone ==
  ASSUME NEW snap \in Seq(Row), NEW w
  PROVE  Tuples(SubSeq(snap, 1, 0), w) = <<>> /\ Len(<<>>) = 0
<1>1. SubSeq(snap, 1, 0) = <<>>
  BY SubSeqEmpty
<1>2. <<>> \in Seq(Row) /\ Len(<<>>) = 0
  BY EmptySeq
<1>3. Tuples(<<>>, w) \in Seq(TupleSet(w)) /\ Len(Tuples(<<>>, w)) = 0
  BY <1>2, TuplesAreSeq
<1>4. QED
  BY <1>1, <1>2, <1>3, EmptySeq

\* An iteration that has not been answered yet: no rows, whatever its query.
LEMMA TrackStart ==
  ASSUME NEW snap \in Seq(Row), NEW w, NEW v, NEW st, NEW req, NEW cur, NEW its,
         Track(snap, 0, w, st, req, NoAnswer, cur, its)
  PROVE  Track(snap, 0, v, "fetching", "start", NoAnswer, cur, its)
<1>1. Len(its) = 0 /\ its = Tuples(SubSeq(snap, 1, 0), w)
  BY DEF Track
<1>2. its = Tuples(SubSeq(snap, 1, 0), v)
  BY <1>1, TuplesOfNone
<1>3. QED
  BY <1>1, <1>2 DEF Track, NoAnswer

\* An answer under way holds the rows that follow those yielded.
LEMMA TrackAnswer ==
  ASSUME NEW rows \in Seq(Row), NEW from \in 0 .. Len(rows), NEW w, NEW req, NEW cur,
         NEW its, Len(its) = from, its = Tuples(SubSeq(rows, 1, from), w),
         NEW to, to = IF from + FetchSize < Len(rows) THEN from + FetchSize ELSE Len(rows)
  PROVE  /\ to \in Nat
         /\ Track(rows, to, w, "fetching", req,
                  Batch(Columns(SubSeq(rows, from + 1, to), w),
                        IF to < Len(rows) THEN to ELSE NoCursor), cur, its)
<1>1. Len(rows) \in Nat /\ FetchSize \in Nat \ {0}
  BY LenProperties, QueryAssumption
<1>2. to \in 0 .. Len(rows) /\ from \in 0 .. to /\ (to > 0 \/ Len(rows) = 0)
  BY <1>1
<1>3. QED
  BY <1>2 DEF Track, NoAnswer, Batch

\* Receiving the answer yields its rows, and its cursor says where to go on.
LEMMA TrackReceive ==
  ASSUME NEW snap \in Seq(Row), NEW h, NEW w \in Nat \ {0}, NEW st, NEW req, NEW resp,
         NEW cur, NEW its, resp.kind = "batch",
         Track(snap, h, w, st, req, resp, cur, its)
  PROVE  /\ resp.cursor \in Nat
         /\ Track(snap, h, w, "suspended", "none", NoAnswer, resp.cursor,
                  its \o GenerateOutputTuples(resp.columns))
<1>1. Len(snap) \in Nat
  BY LenProperties
<1>2. PICK n : n = Len(its)
  OBVIOUS
<1>3. /\ h \in 0 .. Len(snap) /\ n \in 0 .. h
      /\ its = Tuples(SubSeq(snap, 1, n), w)
      /\ h > 0 \/ Len(snap) = 0
  BY <1>2 DEF Track
<1>4. /\ resp.columns = Columns(SubSeq(snap, n + 1, h), w)
      /\ resp.cursor = IF h < Len(snap) THEN h ELSE NoCursor
  BY <1>2 DEF Track, NoAnswer, Failure, Batch
<1>5. /\ SubSeq(snap, 1, n) \in Seq(Row) /\ SubSeq(snap, n + 1, h) \in Seq(Row)
      /\ SubSeq(snap, 1, h) \in Seq(Row) /\ Len(SubSeq(snap, 1, h)) = h
  <2>1. \A i \in 1 .. Len(snap) : snap[i] \in Row
    OBVIOUS
  <2>2. /\ \A i \in 1 .. n : snap[i] \in Row
        /\ \A i \in n + 1 .. h : snap[i] \in Row
        /\ \A i \in 1 .. h : snap[i] \in Row
        /\ n \in Int /\ h \in Int /\ n + 1 \in Int /\ 1 \in Int
    BY <1>1, <1>3, <2>1
  <2>3. SubSeq(snap, 1, n) \in Seq(Row)
    BY <2>2, SubSeqProperties
  <2>4. SubSeq(snap, n + 1, h) \in Seq(Row)
    BY <2>2, SubSeqProperties
  <2>5. SubSeq(snap, 1, h) \in Seq(Row) /\ Len(SubSeq(snap, 1, h)) = IF 1 <= h THEN h - 1 + 1 ELSE 0
    BY <2>2, SubSeqProperties
  <2>6. QED
    BY <1>3, <2>3, <2>4, <2>5
<1>6. SubSeq(snap, 1, n) \o SubSeq(snap, n + 1, h) = SubSeq(snap, 1, h)
  <2>1. 1 \in 1 .. Len(snap) + 1 /\ n \in 1 - 1 .. Len(snap) /\ h \in n .. Len(snap)
    BY <1>1, <1>3
  <2>2. QED
    BY <2>1, ConcatAdjacentSubSeq
<1>7. its \o GenerateOutputTuples(resp.columns) = Tuples(SubSeq(snap, 1, h), w)
  <2>1. GenerateOutputTuples(resp.columns) = Tuples(SubSeq(snap, n + 1, h), w)
    BY <1>4, <1>5, TransposeColumns
  <2>2. Tuples(SubSeq(snap, 1, n), w) \o Tuples(SubSeq(snap, n + 1, h), w)
          = Tuples(SubSeq(snap, 1, n) \o SubSeq(snap, n + 1, h), w)
    BY <1>5, TuplesConcat
  <2>3. QED
    BY <1>3, <1>6, <2>1, <2>2
<1>8. Len(its \o GenerateOutputTuples(resp.columns)) = h
  BY <1>5, <1>7, TuplesAreSeq
<1>9. QED
  BY <1>1, <1>3, <1>4, <1>7, <1>8 DEF Track, NoAnswer, NoCursor

LEMMA Initially == Init => IInv
<1> SUFFICES ASSUME Init PROVE IInv
  OBVIOUS
<1>1. TypeOK
  <2>1. builder \in Builders
    BY QueryAssumption DEF Init, Builders, Predicates
  <2>2. <<>> \in Seq(Row)
    BY EmptySeq
  <2>3. QED
    BY <2>1, <2>2 DEF Init, TypeOK, NoCursor, NoAnswer, Pending, Outcome
<1>2. ASSUME NEW s \in Iterations PROVE At(s)
  <2>1. Tuples(SubSeq(<<>>, 1, 0), query[s].width) = <<>> /\ Len(<<>>) = 0
    BY EmptySeq, TuplesOfNone
  <2>2. At(s) <=> Track(<<>>, 0, query[s].width, "fresh", "none", NoAnswer, NoCursor, <<>>)
    BY DEF Init, At
  <2>3. QED
    BY <2>1, <2>2 DEF Track, NoAnswer
<1>3. QED
  BY <1>1, <1>2 DEF Init, IInv

\* Every step keeps the invariant; only the iteration that moves needs a look.
LEMMA Inductive == IInv /\ [Next]_vars => IInv'
<1> SUFFICES ASSUME IInv, [Next]_vars PROVE IInv'
  OBVIOUS
<1>t. /\ TypeOK
      /\ response = [s \in Iterations |-> response[s]]
      /\ items = [s \in Iterations |-> items[s]]
      /\ settled = [s \in Iterations |-> settled[s]]
      /\ \A s \in Iterations : At(s)
  BY DEF IInv
<1>w. \A s \in Iterations : snapshot[s] \in Seq(Row) /\ query[s].width \in Nat \ {0}
  BY <1>t, QueryAssumption DEF TypeOK, Builders
<1>1. ASSUME \/ \E predicate \in Predicates : FilterWith(predicate)
             \/ \E width \in 1 .. MaxWidth : SelectWith(width)
      PROVE  IInv'
  <2>1. builder' \in Builders
    BY <1>t, <1>1 DEF TypeOK, Builders, FilterWith, SelectWith
  <2>2. UNCHANGED <<peerVars, wireVars, mode, state, query, cursor, items, settled>>
    BY <1>1 DEF FilterWith, SelectWith
  <2>3. QED
    BY <1>t, <2>1, <2>2 DEF IInv, TypeOK, At, peerVars, wireVars
<1>2. ASSUME NEW t \in Tables, Modify(t) PROVE IInv'
  BY <1>t, <1>2 DEF IInv, TypeOK, At, Modify, clientVars, wireVars
<1>3. ASSUME NEW s \in Iterations, Start(s) PROVE IInv'
  <2> USE DEF Start, peerVars
  <2>1. Track(snapshot[s], 0, builder.width, "fetching", "start", NoAnswer, cursor[s], items[s])
        /\ handedOut[s] = 0 /\ response[s] = NoAnswer
    <3>1. state[s] = "fresh" /\ response[s] = NoAnswer
      BY <1>t, <1>3 DEF TypeOK
    <3>2. handedOut[s] = 0
      BY <1>t, <3>1 DEF At, Track
    <3>3. Track(snapshot[s], 0, query[s].width, "fresh", request[s], NoAnswer, cursor[s], items[s])
      BY <1>t, <3>1, <3>2 DEF At
    <3>4. QED
      BY <1>w, <3>1, <3>2, <3>3, TrackStart
  <2>2. ASSUME NEW t \in Iterations PROVE At(t)'
    BY <1>t, <1>3, <2>1 DEF At, TypeOK
  <2>3. TypeOK'
    BY <1>t, <1>3, <2>1 DEF TypeOK
  <2>4. QED
    BY <1>t, <1>3, <2>2, <2>3 DEF IInv
<1>4. ASSUME NEW s \in Iterations, Continue(s) PROVE IInv'
  <2> USE DEF Continue, peerVars
  <2>1. response[s] = NoAnswer /\ state[s] = "suspended" /\ request[s] = "none"
    BY <1>t, <1>4 DEF TypeOK
  <2>2. Track(snapshot[s], handedOut[s], query[s].width, "fetching", "continue", NoAnswer,
              cursor[s], items[s])
    BY <1>t, <1>4, <2>1 DEF At, Track, NoAnswer
  <2>3. ASSUME NEW t \in Iterations PROVE At(t)'
    BY <1>t, <1>4, <2>1, <2>2 DEF At, TypeOK
  <2>4. TypeOK'
    BY <1>t, <1>4, <2>1 DEF TypeOK
  <2>5. QED
    BY <1>t, <1>4, <2>3, <2>4 DEF IInv
<1>5. ASSUME NEW s \in Iterations, Finish(s) PROVE IInv'
  <2> USE DEF Finish, peerVars, wireVars
  <2>1. response[s] = NoAnswer /\ state[s] = "suspended" /\ request[s] = "none"
    BY <1>t, <1>5 DEF TypeOK
  <2>2. Track(snapshot[s], handedOut[s], query[s].width, "returned", request[s], NoAnswer,
              cursor[s], items[s])
    <3>1. Len(snapshot[s]) \in Nat
      BY <1>w, LenProperties
    <3>2. QED
      BY <1>t, <1>5, <2>1, <3>1 DEF At, Track, NoAnswer, NoCursor
  <2>3. ASSUME NEW t \in Iterations PROVE At(t)'
    BY <1>t, <1>5, <2>1, <2>2 DEF At, TypeOK
  <2>4. TypeOK'
    BY <1>t, <1>5, <2>1 DEF TypeOK, Promised, Outcome, Pending
  <2>5. QED
    BY <1>t, <1>5, <2>3, <2>4 DEF IInv
<1>6. ASSUME NEW s \in Iterations, Abandon(s) PROVE IInv'
  <2> USE DEF Abandon, peerVars, wireVars
  <2>1. response[s] = NoAnswer /\ state[s] = "suspended" /\ request[s] = "none"
    BY <1>t, <1>6 DEF TypeOK
  <2>2. Track(snapshot[s], handedOut[s], query[s].width, "abandoned", request[s], NoAnswer,
              cursor[s], items[s])
    BY <1>t, <2>1 DEF At, Track, NoAnswer
  <2>3. ASSUME NEW t \in Iterations PROVE At(t)'
    BY <1>t, <1>6, <2>1, <2>2 DEF At, TypeOK
  <2>4. TypeOK'
    BY <1>t, <1>6, <2>1 DEF TypeOK
  <2>5. QED
    BY <1>t, <1>6, <2>3, <2>4 DEF IInv
<1>7. ASSUME NEW s \in Iterations, Receive(s) PROVE IInv'
  <2> USE DEF Receive, peerVars
  <2>1. state[s] = "fetching"
    BY <1>t, <1>7 DEF TypeOK, NoAnswer
  <2>2. /\ response[s].cursor \in Nat
        /\ Track(snapshot[s], handedOut[s], query[s].width, "suspended", "none", NoAnswer,
                 response[s].cursor, items[s] \o GenerateOutputTuples(response[s].columns))
    BY <1>t, <1>w, <1>7, TrackReceive DEF At
  <2>3. ASSUME NEW t \in Iterations PROVE At(t)'
    BY <1>t, <1>7, <2>2 DEF At, TypeOK
  <2>4. TypeOK'
    BY <1>t, <1>7, <2>1, <2>2 DEF TypeOK
  <2>5. QED
    BY <1>t, <1>7, <2>3, <2>4 DEF IInv
<1>8. ASSUME NEW s \in Iterations, Throw(s) PROVE IInv'
  <2> USE DEF Throw, peerVars
  <2>1. Track(snapshot[s], handedOut[s], query[s].width, "failed", "none", NoAnswer,
              cursor[s], items[s])
    BY <1>t DEF At, Track, NoAnswer
  <2>2. ASSUME NEW t \in Iterations PROVE At(t)'
    BY <1>t, <1>8, <2>1 DEF At, TypeOK
  <2>3. TypeOK'
    BY <1>t, <1>8 DEF TypeOK, Outcome, Pending
  <2>4. QED
    BY <1>t, <1>8, <2>2, <2>3 DEF IInv
<1>9. ASSUME NEW s \in Iterations, PeerStarts(s) PROVE IInv'
  <2> USE DEF PeerStarts, clientVars
  <2>1. PICK rows : rows = Result(table, query[s].predicate)
    OBVIOUS
  <2>2. PICK to : to = IF 0 + FetchSize < Len(rows) THEN 0 + FetchSize ELSE Len(rows)
    OBVIOUS
  <2>3. PICK answer : answer = Batch(Columns(SubSeq(rows, 0 + 1, to), query[s].width),
                                     IF to < Len(rows) THEN to ELSE NoCursor)
    OBVIOUS
  <2>4. /\ snapshot' = [snapshot EXCEPT ![s] = rows]
        /\ response' = [response EXCEPT ![s] = answer]
        /\ handedOut' = [handedOut EXCEPT ![s] = to]
        /\ live' = [live EXCEPT ![s] = to < Len(rows)]
        /\ UNCHANGED <<table, clientVars, request>>
        /\ request[s] = "start" /\ response[s] = NoAnswer
    BY <1>9, <2>1, <2>2, <2>3 DEF Answer
  <2>5. rows \in Seq(Row)
    <3>1. table \in Seq(Row)
      BY <1>t, QueryAssumption DEF TypeOK
    <3>2. QED
      BY <2>1, <3>1, EmptySeq DEF Result
  <2>6. Len(items[s]) = 0 /\ items[s] = Tuples(SubSeq(rows, 1, 0), query[s].width)
    <3>1. Len(items[s]) = 0 /\ items[s] = Tuples(SubSeq(snapshot[s], 1, 0), query[s].width)
      BY <1>t, <2>4 DEF At, Track
    <3>2. QED
      BY <1>w, <2>5, <3>1, TuplesOfNone
  <2>7. /\ to \in Nat
        /\ Track(rows, to, query[s].width, "fetching", request[s], answer, cursor[s], items[s])
    <3>1. 0 \in 0 .. Len(rows)
      BY <2>5, LenProperties
    <3>2. QED
      BY <2>2, <2>3, <2>5, <2>6, <3>1, TrackAnswer
  <2>8. state[s] = "fetching"
    BY <1>t, <2>4 DEF TypeOK
  <2>9. ASSUME NEW t \in Iterations PROVE At(t)'
    BY <1>t, <2>4, <2>7, <2>8 DEF At, TypeOK
  <2>10. TypeOK'
    BY <1>t, <2>4, <2>5, <2>7 DEF TypeOK
  <2>11. QED
    BY <1>t, <2>4, <2>9, <2>10 DEF IInv
<1>10. ASSUME NEW s \in Iterations, PeerContinues(s) PROVE IInv'
  <2> USE DEF PeerContinues, clientVars
  <2>1. PICK rows : rows = snapshot[s]
    OBVIOUS
  <2>2. PICK to : to = IF cursor[s] + FetchSize < Len(rows) THEN cursor[s] + FetchSize
                                                            ELSE Len(rows)
    OBVIOUS
  <2>3. PICK answer : answer = Batch(Columns(SubSeq(rows, cursor[s] + 1, to), query[s].width),
                                     IF to < Len(rows) THEN to ELSE NoCursor)
    OBVIOUS
  <2>4. /\ response' = [response EXCEPT ![s] = answer]
        /\ handedOut' = [handedOut EXCEPT ![s] = to]
        /\ live' = [live EXCEPT ![s] = to < Len(rows)]
        /\ UNCHANGED <<table, snapshot, clientVars, request>>
        /\ request[s] = "continue" /\ response[s] = NoAnswer
    BY <1>10, <2>1, <2>2, <2>3 DEF Answer
  <2>5. rows \in Seq(Row)
    BY <1>w, <2>1
  <2>6. /\ Len(items[s]) = cursor[s] /\ cursor[s] \in 0 .. Len(rows)
        /\ items[s] = Tuples(SubSeq(rows, 1, cursor[s]), query[s].width)
    BY <1>t, <2>1, <2>4 DEF At, Track
  <2>7. /\ to \in Nat
        /\ Track(rows, to, query[s].width, "fetching", request[s], answer, cursor[s], items[s])
    BY <2>2, <2>3, <2>5, <2>6, TrackAnswer
  <2>8. state[s] = "fetching"
    BY <1>t, <2>4 DEF TypeOK
  <2>9. ASSUME NEW t \in Iterations PROVE At(t)'
    BY <1>t, <2>1, <2>4, <2>7, <2>8 DEF At, TypeOK
  <2>10. TypeOK'
    BY <1>t, <2>4, <2>7 DEF TypeOK
  <2>11. QED
    BY <1>t, <2>4, <2>9, <2>10 DEF IInv
<1>11. ASSUME NEW s \in Iterations, PeerRefuses(s) PROVE IInv'
  <2> USE DEF PeerRefuses, peerVars, clientVars
  <2>1. Track(snapshot[s], handedOut[s], query[s].width, state[s], request[s], Failure,
              cursor[s], items[s])
    BY <1>t, <1>11 DEF At, Track, NoAnswer, Failure
  <2>2. ASSUME NEW t \in Iterations PROVE At(t)'
    BY <1>t, <1>11, <2>1 DEF At, TypeOK
  <2>3. TypeOK'
    BY <1>t, <1>11 DEF TypeOK
  <2>4. QED
    BY <1>t, <1>11, <2>2, <2>3 DEF IInv
<1>12. ASSUME NEW s \in Iterations, PeerForgets(s) PROVE IInv'
  BY <1>t, <1>12 DEF IInv, TypeOK, At, PeerForgets, clientVars, wireVars
<1>13. CASE UNCHANGED vars
  BY <1>t, <1>13 DEF IInv, TypeOK, At, vars, peerVars, clientVars, wireVars
<1>14. QED
  BY <1>1, <1>2, <1>3, <1>4, <1>5, <1>6, <1>7, <1>8, <1>9, <1>10, <1>11, <1>12, <1>13 DEF Next

\* Types, and which parts of an iteration's state go together: a request is
\* out exactly while its generator waits, an answer only for a request, and
\* the promise is settled exactly when the generator has ended.
THEOREM TypeCorrect == Spec => []TypeOK
<1>1. IInv => TypeOK
  BY DEF IInv
<1>2. QED
  BY <1>1, Initially, Inductive, PTL DEF Spec

\* Whatever batches() has yielded is the beginning of the result its query had
\* at its start.
THEOREM YieldsPrefix == Spec => []YieldsSnapshotPrefix
<1>1. IInv => YieldsSnapshotPrefix
  <2> SUFFICES ASSUME IInv, NEW s \in Iterations
               PROVE  /\ Len(items[s]) <= Len(snapshot[s])
                      /\ items[s] = Tuples(SubSeq(snapshot[s], 1, Len(items[s])), query[s].width)
    BY DEF YieldsSnapshotPrefix
  <2>1. Len(snapshot[s]) \in Nat
    BY LenProperties DEF IInv, TypeOK
  <2>2. QED
    BY <2>1 DEF IInv, At, Track
<1>2. QED
  BY <1>1, Initially, Inductive, PTL DEF Spec

\* A generator that returns has yielded everything its query found.
THEOREM EndIsComplete == Spec => []EndMeansComplete
<1>1. IInv => EndMeansComplete
  BY DEF IInv, At, Track, EndMeansComplete
<1>2. QED
  BY <1>1, Initially, Inductive, PTL DEF Spec

\* A Continue asks for what follows the rows handed out so far.
THEOREM CursorKeepsStep == Spec => []CursorInStep
<1>1. IInv => CursorInStep
  BY DEF IInv, At, Track, CursorInStep
<1>2. QED
  BY <1>1, Initially, Inductive, PTL DEF Spec

-----------------------------------------------------------------------------
\* What a promise has settled with, given how its generator ended.
SettledAs(s) ==
  IF state[s] = "returned" THEN settled[s] = Promised(mode[s], items[s])
                           ELSE settled[s].kind \in {"pending", "error"}

Settlement == \A s \in Iterations : SettledAs(s)

LEMMA SettlementKept == IInv /\ Settlement /\ [Next]_vars => Settlement'
<1> SUFFICES ASSUME IInv, Settlement, [Next]_vars, NEW t \in Iterations
             PROVE  SettledAs(t)'
  BY DEF Settlement
<1>t. /\ SettledAs(t)
      /\ settled = [s \in Iterations |-> settled[s]]
      /\ items = [s \in Iterations |-> items[s]]
      /\ state = [s \in Iterations |-> state[s]]
  BY DEF Settlement, IInv, TypeOK
<1>1. ASSUME NEW s \in Iterations, Start(s) \/ Continue(s) \/ Abandon(s)
      PROVE  SettledAs(t)'
  BY <1>t, <1>1 DEF Start, Continue, Abandon, SettledAs
<1>2. ASSUME NEW s \in Iterations, Finish(s) PROVE SettledAs(t)'
  BY <1>t, <1>2 DEF Finish, SettledAs
<1>3. ASSUME NEW s \in Iterations, Receive(s) PROVE SettledAs(t)'
  <2>1. request[s] # "none"
    BY <1>3 DEF Receive, IInv, TypeOK, NoAnswer
  <2>2. state[s] = "fetching"
    BY <2>1 DEF IInv, TypeOK
  <2>3. QED
    BY <1>t, <1>3, <2>2 DEF Receive, SettledAs
<1>4. ASSUME NEW s \in Iterations, Throw(s) PROVE SettledAs(t)'
  BY <1>t, <1>4 DEF Throw, SettledAs, Outcome
<1>5. CASE UNCHANGED <<state, settled, mode, items>>
  BY <1>t, <1>5 DEF SettledAs
<1>6. \/ \E s \in Iterations : Start(s) \/ Continue(s) \/ Abandon(s) \/ Finish(s)
                                 \/ Receive(s) \/ Throw(s)
      \/ UNCHANGED <<state, settled, mode, items>>
  BY DEF Next, vars, peerVars, clientVars, wireVars, FilterWith, SelectWith, Modify, PeerStarts,
         PeerContinues, PeerRefuses, PeerForgets
<1>7. QED
  BY <1>1, <1>2, <1>3, <1>4, <1>5, <1>6

\* executeSingle and executeSingleOpt judge by the number of rows their query
\* found, not by a batch, and blame the count only when it is wrong.
THEOREM SingleIsSingle == Spec => []SingleMeansSingle
<1>1. Init => Settlement
  <2> SUFFICES ASSUME Init, NEW s \in Iterations PROVE SettledAs(s)
    BY DEF Settlement
  <2>1. state[s] = "fresh" /\ settled[s] = Pending
    BY DEF Init
  <2>2. QED
    BY <2>1 DEF SettledAs, Pending, Outcome
<1>2. IInv /\ Settlement => SingleMeansSingle
  <2> SUFFICES ASSUME IInv, Settlement, NEW s \in Iterations
               PROVE  LET found == Len(snapshot[s])
                      IN /\ settled[s].kind = "value" =>
                              /\ Len(settled[s].value) = found
                              /\ mode[s] = "single" => found = 1
                              /\ mode[s] = "singleOpt" => found <= 1
                         /\ settled[s].kind = "TypeError" =>
                              \/ mode[s] = "single" /\ found # 1
                              \/ mode[s] = "singleOpt" /\ found > 1
    BY DEF SingleMeansSingle
  <2>1. CASE state[s] = "returned"
    <3>1. Len(items[s]) = Len(snapshot[s]) /\ Len(snapshot[s]) \in Nat
      <4>1. Len(items[s]) = Len(snapshot[s])
        BY <2>1 DEF IInv, At, Track
      <4>2. Len(snapshot[s]) \in Nat
        BY LenProperties DEF IInv, TypeOK
      <4>3. QED
        BY <4>1, <4>2
    <3>2. settled[s] = Promised(mode[s], items[s])
      BY <2>1 DEF Settlement, SettledAs
    <3>3. QED
      BY <3>1, <3>2 DEF Promised, Outcome
  <2>2. CASE state[s] # "returned"
    BY <2>2 DEF Settlement, SettledAs
  <2>3. QED
    BY <2>1, <2>2
<1>3. QED
  BY <1>1, <1>2, Initially, Inductive, SettlementKept, PTL DEF Spec
=============================================================================
