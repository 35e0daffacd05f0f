----------------------------- MODULE MCDatabase -----------------------------
(***************************************************************************)
(* Bounded instances of Database.  Sessions, plain names and plain         *)
(* passwords may each be permuted: no definition singles one out, and no   *)
(* liveness is checked.                                                    *)
(***************************************************************************)
EXTENDS Database, TLC

Symmetric ==
  Permutations(Session) \cup Permutations(Name \ Odd) \cup Permutations(Password \ Odd)
=============================================================================
