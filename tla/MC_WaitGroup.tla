---------------------------- MODULE MC_WaitGroup ----------------------------
(* One batch of futures.                                                   *)
EXTENDS WaitGroup

CONSTANTS b1

OneBatch == [f \in Futures |-> b1]
=============================================================================
