----------------------------- MODULE ChatRooms ------------------------------
(***************************************************************************)
(* What the room part of the server promises, without slots, counts, pools *)
(* or pointers: everybody is in at most one room, a room holds at most     *)
(* Capacity clients, its host is inside as long as it exists, and closing  *)
(* it puts everybody out.                                                  *)
(***************************************************************************)
EXTENDS Integers, FiniteSets

CONSTANTS Client, NULL, RoomId, Capacity

VARIABLES
  at,     (* at[c]: the room c is in, or NULL                              *)
  host,   (* host[r]: who created the open room r, NULL if r is not open   *)
  opened  (* how many rooms there have been; rooms open in order of id     *)

vars == <<at, host, opened>>

Inside(r) == {c \in Client : at[c] = r}

Init ==
  /\ at = [c \in Client |-> NULL]
  /\ host = [r \in RoomId |-> NULL]
  /\ opened = 0

Create(c) ==
  /\ opened \in RoomId
  /\ at[c] = NULL
  /\ at' = [at EXCEPT ![c] = opened]
  /\ host' = [host EXCEPT ![opened] = c]
  /\ opened' = opened + 1

Join(c, r) ==
  /\ host[r] # NULL
  /\ at[c] = NULL
  /\ Cardinality(Inside(r)) < Capacity
  /\ at' = [at EXCEPT ![c] = r]
  /\ UNCHANGED <<host, opened>>

Leave(c) ==
  /\ at[c] # NULL
  /\ host[at[c]] # c
  /\ at' = [at EXCEPT ![c] = NULL]
  /\ UNCHANGED <<host, opened>>

Close(r) ==
  /\ host[r] # NULL
  /\ at' = [c \in Client |-> IF at[c] = r THEN NULL ELSE at[c]]
  /\ host' = [host EXCEPT ![r] = NULL]
  /\ UNCHANGED opened

Next ==
  \/ \E c \in Client : Create(c) \/ Leave(c)
  \/ \E c \in Client, r \in RoomId : Join(c, r)
  \/ \E r \in RoomId : Close(r)

Spec == Init /\ [][Next]_vars
=============================================================================
