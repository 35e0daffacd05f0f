--------------------------- MODULE MCRoomThreads ----------------------------
(***************************************************************************)
(* Bounded instances of RoomThreads.  The owner is singled out; the other  *)
(* clients are not, and may be permuted where no liveness is checked.      *)
(***************************************************************************)
EXTENDS RoomThreads, TLC

Symmetric == Permutations(Client \ {Owner})
=============================================================================
