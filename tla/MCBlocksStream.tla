---------------------------- MODULE MCBlocksStream ----------------------------
(* Blocks 2..4 of a chain of 4, four calls of the generator, two of stop(). *)
EXTENDS BlocksStream

MCClosers == {"k1", "k2"}
=============================================================================
