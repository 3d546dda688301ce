------------------------------ MODULE MCArrange ------------------------------
(* Every graph over up to four types, edges to missing types included.       *)
EXTENDS Arrange, TLC

CONSTANTS a, b, c, d

MCIds == {a, b, c, d}
Renamings == Permutations(MCIds)
=============================================================================
