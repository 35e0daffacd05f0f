------------------------------ MODULE OneRoom -------------------------------
(***************************************************************************)
(* What one room promises, without slots, counts, locks or threads: joins  *)
(* and leaves happen at once, never beyond the capacity; once the closing  *)
(* has begun nobody joins, and the room goes when everybody is out.        *)
(***************************************************************************)
EXTENDS Integers, FiniteSets

CONSTANTS Client, Owner, Capacity

VARIABLES
  members,  (* who is in the room                                          *)
  status    (* "open", "closing" or "closed"                               *)

vars == <<members, status>>

Init == members = {Owner} /\ status = "open"

Join(c) ==
  /\ status = "open"
  /\ c \notin members
  /\ Cardinality(members) < Capacity
  /\ members' = members \cup {c}
  /\ UNCHANGED status

\* The owner leaves by closing.
Leave(c) ==
  /\ c \in members \ {Owner}
  /\ members' = members \ {c}
  /\ UNCHANGED status

BeginClosing ==
  /\ status = "open"
  /\ status' = "closing"
  /\ UNCHANGED members

PutOut(c) ==
  /\ status = "closing"
  /\ c \in members
  /\ members' = members \ {c}
  /\ UNCHANGED status

EndClosing ==
  /\ status = "closing"
  /\ members = {}
  /\ status' = "closed"
  /\ UNCHANGED members

Next ==
  \/ \E c \in Client : Join(c) \/ Leave(c) \/ PutOut(c)
  \/ BeginClosing \/ EndClosing

Spec == Init /\ [][Next]_vars
=============================================================================
