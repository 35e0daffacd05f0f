------------------------------- MODULE Room --------------------------------
(***************************************************************************)
(* room.c: the table gRooms of chat rooms and the operations on one room.  *)
(*                                                                         *)
(* A room is a record with its array of client slots, the count kept       *)
(* beside the array and its owner.  Because room_create takes the id from  *)
(* a counter and never returns it, a room's id stands for the address of   *)
(* its room_t as well: client->room is modelled by the id, and it is a     *)
(* dangling pointer when gRooms has no room of that id.                    *)
(*                                                                         *)
(* A slot keeps the address of a client_t whether or not that memory has   *)
(* been freed since.                                                       *)
(*                                                                         *)
(* Nothing compares an id with MAX_ROOMS.  From that id on gRooms[r] is    *)
(* the memory behind the array: a room stored there can be used through    *)
(* its id and through pointers, and only the room list does not reach it.  *)
(***************************************************************************)
EXTENDS Integers, ClientMemory

CONSTANTS
  MAX_ROOMS,            (* length of gRooms                                *)
  MAX_CLIENTS_PER_ROOM, (* length of room_t.clients                        *)
  MaxRooms              (* bound: how many rooms are ever created          *)

RoomId == 0 .. MaxRooms - 1
Slot   == 0 .. MAX_CLIENTS_PER_ROOM - 1

VARIABLES
  gRooms,        (* gRooms[r]: the room with id r, or NULL; the array ends *)
                 (* before MAX_ROOMS                                       *)
  counter_room,  (* the id the next room gets                              *)
  room           (* room[c]: the field room of the client_t at address c   *)

roomVars == <<gRooms, counter_room, room>>

RoomRecord ==
  [clients : [Slot -> Client \cup {NULL}],
   clientsCount : Int,
   owner : Client \cup {NULL}]

ASSUME RoomAssumption ==
  /\ MAX_ROOMS \in Nat \ {0}
  /\ MaxRooms \in Nat
  /\ MAX_CLIENTS_PER_ROOM \in Nat \ {0}
  /\ NULL \notin RoomId
  /\ NULL \notin RoomRecord

RoomTypeOK ==
  /\ gRooms \in [RoomId -> RoomRecord \cup {NULL}]
  /\ counter_room \in 0 .. MaxRooms
  /\ room \in [Client -> RoomId \cup {NULL}]

RoomInit ==
  /\ gRooms = [r \in RoomId |-> NULL]
  /\ counter_room = 0
  /\ room = [c \in Client |-> NULL]

-----------------------------------------------------------------------------
(* Reading a room.                                                         *)

\* The rooms whose memory is allocated.
Open == {r \in RoomId : gRooms[r] # NULL}

Occupied(rm) == {i \in Slot : rm.clients[i] # NULL}

\* The addresses a loop over room->clients reaches, as in room_send_message.
Members(rm) == {rm.clients[i] : i \in Occupied(rm)}

room_get(r) == gRooms[r]

\* The comparison is with the count, not with the array.
room_is_full(rm) == rm.clientsCount = MAX_CLIENTS_PER_ROOM

\* The scan of room_add_client runs to the end of the array, so the index it
\* is left with is that of the last empty slot.
IsAddIndex(rm, i) ==
  /\ rm.clients[i] = NULL
  /\ \A j \in Slot : rm.clients[j] = NULL => j <= i

\* room_find_client_index: the first slot that holds the client.  uids are
\* given out once each, so equality of uids is equality of addresses.
IsClientIndex(rm, c, i) ==
  /\ rm.clients[i] = c
  /\ \A j \in Slot : rm.clients[j] = c => i <= j

-----------------------------------------------------------------------------
(* Changing a room.                                                        *)

\* What room_create allocates.  It leaves the owner unset: the caller fills
\* it in before it returns to its client.
NewRoom ==
  [clients |-> [i \in Slot |-> NULL], clientsCount |-> 0, owner |-> NULL]

WithClient(rm, i, c) ==
  [rm EXCEPT !.clients[i] = c, !.clientsCount = @ + 1]

\* Mutant: the count is not kept.
MutantWithoutClient(rm, i) == [rm EXCEPT !.clients[i] = NULL]

WithoutClient(rm, i) ==
  [rm EXCEPT !.clients[i] = NULL, !.clientsCount = @ - 1]

\* Mutant: the id is what the counter is after the increment.
MutantRoomCreateNext(c) ==
  \E i \in Slot :
    /\ IsAddIndex(NewRoom, i)
    /\ gRooms' = [gRooms EXCEPT ![counter_room + 1] =
                    [WithClient(NewRoom, i, c) EXCEPT !.owner = c]]
    /\ room' = [room EXCEPT ![c] = counter_room + 1]
    /\ counter_room' = counter_room + 1

\* Mutant: the first free entry of gRooms gives the id.
MutantRoomCreate(c) ==
  \E r \in RoomId, i \in Slot :
    /\ gRooms[r] = NULL /\ \A q \in RoomId : gRooms[q] = NULL => r <= q
    /\ IsAddIndex(NewRoom, i)
    /\ gRooms' = [gRooms EXCEPT ![r] =
                    [WithClient(NewRoom, i, c) EXCEPT !.owner = c]]
    /\ room' = [room EXCEPT ![c] = r]
    /\ counter_room' = counter_room + 1

\* room_create, room_add_client on the empty room and the assignment of the
\* owner, as handle_create_room_tag calls them.
room_create(c) ==
  \E i \in Slot :
    /\ IsAddIndex(NewRoom, i)
    /\ gRooms' = [gRooms EXCEPT ![counter_room] =
                    [WithClient(NewRoom, i, c) EXCEPT !.owner = c]]
    /\ room' = [room EXCEPT ![c] = counter_room]
    /\ counter_room' = counter_room + 1

\* Mutant: the pointer is set even if no slot was left.
MutantRoomAddClient(r, c) ==
  /\ UNCHANGED counter_room
  /\ room' = [room EXCEPT ![c] = r]
  /\ \/ /\ Occupied(gRooms[r]) = Slot
        /\ UNCHANGED gRooms
     \/ \E i \in Slot :
          /\ IsAddIndex(gRooms[r], i)
          /\ gRooms' = [gRooms EXCEPT ![r] = WithClient(@, i, c)]

\* room_add_client on a room of the table.  It returns without a word when
\* no slot is empty.
room_add_client(r, c) ==
  /\ UNCHANGED counter_room
  /\ \/ /\ Occupied(gRooms[r]) = Slot
        /\ UNCHANGED <<gRooms, room>>
     \/ \E i \in Slot :
          /\ IsAddIndex(gRooms[r], i)
          /\ gRooms' = [gRooms EXCEPT ![r] = WithClient(@, i, c)]
          /\ room' = [room EXCEPT ![c] = r]

\* Mutant: the pointer is cleared and the slot is kept.
MutantRoomRemoveClient(r, c) ==
  /\ UNCHANGED <<gRooms, counter_room>>
  /\ room' = [room EXCEPT ![c] = NULL]

\* room_remove_client: a client that no slot holds only loses its pointer.
room_remove_client(r, c) ==
  /\ UNCHANGED counter_room
  /\ room' = [room EXCEPT ![c] = NULL]
  /\ \/ /\ c \notin Members(gRooms[r])
        /\ UNCHANGED gRooms
     \/ \E i \in Slot :
          /\ IsClientIndex(gRooms[r], c, i)
          /\ gRooms' = [gRooms EXCEPT ![r] = WithoutClient(@, i)]

\* Mutant: only the client that closes the room is put out of it.
MutantRoomClose(r, c) ==
  /\ UNCHANGED counter_room
  /\ room' = [room EXCEPT ![c] = NULL]
  /\ gRooms' = [gRooms EXCEPT ![r] = NULL]

\* The closing branch of handle_leave_room_tag up to room_delete: the loop
\* clears the pointer of every client_t in a slot, whatever room it names,
\* then the pointer of the client that closes the room.
room_close(r, c) ==
  /\ UNCHANGED counter_room
  /\ room' = [d \in Client |->
                IF d \in Members(gRooms[r]) \cup {c} THEN NULL ELSE room[d]]
  /\ gRooms' = [gRooms EXCEPT ![r] = NULL]
=============================================================================
