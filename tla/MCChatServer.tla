---------------------------- MODULE MCChatServer ----------------------------
(***************************************************************************)
(* Bounded instances of ChatServer.  Addresses and users are model values; *)
(* permuting them is sound for invariants and for properties of the form   *)
(* [][A]_v, in which no address or user is singled out.                    *)
(***************************************************************************)
EXTENDS ChatServer, TLC

Symmetric == Permutations(Client) \cup Permutations(User)
=============================================================================
