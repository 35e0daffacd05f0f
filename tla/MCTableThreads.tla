--------------------------- MODULE MCTableThreads ---------------------------
(***************************************************************************)
(* Bounded instances of TableThreads.  Threads and addresses may each be   *)
(* permuted: no definition singles one out and no liveness is checked.     *)
(***************************************************************************)
EXTENDS TableThreads, TLC

Symmetric == Permutations(Client) \cup Permutations(Room)
=============================================================================
