----------------------------- MODULE MCTxSubmit -----------------------------
(* Two calls of submit() for one transaction: one verifies, the other only   *)
(* posts, before, between or after the steps of the first.                   *)
EXTENDS TxSubmit

MCCalls == {"s1", "s2"}
MCVerifying == {"s1"}
=============================================================================
