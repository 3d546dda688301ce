------------------------------ MODULE BlockFeed ------------------------------
(***************************************************************************)
(* What `client.blocks()` promises: an AsyncGenerator of the committed     *)
(* blocks, one after the other from the height asked for, that may end at  *)
(* any moment and never restarts.                                          *)
(***************************************************************************)
EXTENDS Naturals, Sequences

CONSTANTS
  FromHeight,  \* params.fromBlockHeight, 1 when it is left out
  MaxHeight    \* bound: the longest chain considered

Done == 0      \* {done: true}; block heights are NonZero

VARIABLES
  chain,       \* height of the last committed block
  results      \* what the calls of next() and return() gave, in order

feedVars == <<chain, results>>

Ended == results # <<>> /\ results[Len(results)] = Done

Init == chain = 0 /\ results = <<>>

Commit ==
  /\ chain < MaxHeight
  /\ chain' = chain + 1
  /\ UNCHANGED results

Deliver ==
  /\ ~Ended
  /\ FromHeight + Len(results) <= chain
  /\ results' = Append(results, FromHeight + Len(results))
  /\ UNCHANGED chain

End ==
  /\ results' = Append(results, Done)
  /\ UNCHANGED chain

Next == Commit \/ Deliver \/ End

Spec == Init /\ [][Next]_feedVars
=============================================================================
