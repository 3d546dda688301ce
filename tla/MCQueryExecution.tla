--------------------------- MODULE MCQueryExecution ---------------------------
(* Two iterations over one builder, one of batches() and one of the others;    *)
(* the storage holds no row, one, or five others; two rows a batch.           *)
EXTENDS QueryExecution

MCIterations == {"q1", "q2"}
MCRow == 1 .. 6
MCTables == {<<>>, <<1>>, <<2, 3, 4, 5, 6>>}
MCModesOf == [q1 |-> {"all", "single", "singleOpt"}, q2 |-> {"batches"}]
=============================================================================
