--------------------------- MODULE MCPoolThreads ----------------------------
(***************************************************************************)
(* Bounded instances of PoolThreads.  No definition singles an address     *)
(* out and no liveness is checked, so the addresses may be permuted.       *)
(***************************************************************************)
EXTENDS PoolThreads, TLC

Symmetric == Permutations(Client)
=============================================================================
