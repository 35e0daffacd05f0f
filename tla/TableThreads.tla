---------------------------- MODULE TableThreads ----------------------------
(***************************************************************************)
(* The table of rooms between the threads that create, list, ask for and   *)
(* close rooms: room_create, room_get, room_delete, room_serialize and the *)
(* handlers that call them, one step per access to gRooms, counter_room or *)
(* a room.  Nothing of it is locked except the inside of a room.           *)
(*                                                                         *)
(* Room is a set of addresses; a room lives in gRooms under its id only,   *)
(* and malloc may return the address of a room that has been freed.  Rooms *)
(* are not joined here: each thread closes a room it has created.          *)
(*                                                                         *)
(* The memory behind gRooms is, as in Room, where rooms go on being stored *)
(* once there are as many as the table is long.  The variable running may  *)
(* turn FALSE when a thread stores or looks for a room there, and when one *)
(* uses a freed room or the fields owner and mutex before they are set:    *)
(* the memory that malloc returns may hold anything.                       *)
(***************************************************************************)
EXTENDS Integers

CONSTANTS
  Client,     (* the clients; each has its thread                          *)
  Room,       (* addresses at which a room can be allocated                *)
  NULL,       (* the null pointer                                          *)
  MAX_ROOMS,  (* length of gRooms                                          *)
  MaxRooms    (* bound: the ids given out are below                        *)

ASSUME TableAssumption ==
  /\ NULL \notin Client \cup Room
  /\ MAX_ROOMS \in Nat \ {0}
  /\ MaxRooms \in Nat /\ MaxRooms >= MAX_ROOMS

RoomId == 0 .. MaxRooms - 1

PastTheEnd(i) == i >= MAX_ROOMS

VARIABLES
  counter_room,
  gRooms,     (* the array ends before MAX_ROOMS                           *)
  allocated,  (* the rooms that are allocated                              *)
  ready,      (* those whose mutex is initialised                          *)
  id,         (* id[r]: the field id of the room r                         *)
  owner,      (* owner[r]: its field owner, NULL before it is set          *)
  room,       (* room[t]: the field room of the client t                   *)
  pc,         (* pc[t]: where the thread of t is                           *)
  reg,        (* reg[t]: the room it has in hand, or NULL                  *)
  pos,        (* pos[t]: the number it has read from counter_room, the     *)
              (* index in its loop over gRooms or the id it asks for       *)
  overlapped, (* history: two creations have overlapped                    *)
  running     (* the process is alive                                      *)

table == <<counter_room, gRooms>>
rooms == <<allocated, ready, id, owner, room>>
local == <<reg, pos>>
vars  == <<table, rooms, local, pc, overlapped, running>>

Creating == {"count", "publish", "init", "add", "own"}
Label    == {"idle", "reply", "list", "serialize", "ask", "send", "unlist", "free"}
            \cup Creating

\* Among the types: a thread with a room in hand keeps it.
TypeOK ==
  /\ counter_room \in 0 .. MaxRooms
  /\ gRooms \in [RoomId -> Room \cup {NULL}]
  /\ ready \subseteq allocated /\ allocated \subseteq Room
  /\ id \in [Room -> RoomId]
  /\ owner \in [Room -> Client \cup {NULL}]
  /\ room \in [Client -> Room \cup {NULL}]
  /\ pc \in [Client -> Label]
  /\ reg \in [Client -> Room \cup {NULL}]
  /\ pos \in [Client -> Nat]
  /\ overlapped \in BOOLEAN
  /\ running \in BOOLEAN
  /\ \A t \in Client : pc[t] \in Creating \cup {"reply", "unlist", "free"} => reg[t] \in allocated

Init ==
  /\ counter_room = 0
  /\ gRooms = [i \in RoomId |-> NULL]
  /\ allocated = {} /\ ready = {}
  /\ id = [r \in Room |-> 0]
  /\ owner = [r \in Room |-> NULL]
  /\ room = [t \in Client |-> NULL]
  /\ pc = [t \in Client |-> "idle"]
  /\ reg = [t \in Client |-> NULL]
  /\ pos = [t \in Client |-> 0]
  /\ overlapped = FALSE
  /\ running = TRUE

Goto(t, label) == pc' = [pc EXCEPT ![t] = label]

Done(t) ==
  /\ Goto(t, "idle")
  /\ reg' = [reg EXCEPT ![t] = NULL]
  /\ pos' = [pos EXCEPT ![t] = 0]

Crash ==
  /\ running' = FALSE
  /\ UNCHANGED <<table, rooms, local, pc>>

\* The room r can be locked and read.
Usable(r) == r \in ready /\ owner[r] # NULL

-----------------------------------------------------------------------------
(* handle_create_room_tag.                                                 *)

\* malloc, and the load of counter_room++.
Create(t, r) ==
  /\ pc[t] = "idle"
  /\ r \notin allocated
  /\ counter_room < MaxRooms
  /\ allocated' = allocated \cup {r}
  /\ owner' = [owner EXCEPT ![r] = NULL]
  /\ reg' = [reg EXCEPT ![t] = r]
  /\ pos' = [pos EXCEPT ![t] = counter_room]
  /\ Goto(t, "count")
  /\ UNCHANGED <<table, ready, id, room, running>>

\* Mutant: the counter is left as it is.
MutantCount(t) ==
  /\ pc[t] = "count"
  /\ id' = [id EXCEPT ![reg[t]] = pos[t]]
  /\ Goto(t, "publish")
  /\ UNCHANGED <<table, allocated, ready, owner, room, local, running>>

\* The store of counter_room++, and the field id.
Count(t) ==
  /\ pc[t] = "count"
  /\ counter_room' = pos[t] + 1
  /\ id' = [id EXCEPT ![reg[t]] = pos[t]]
  /\ Goto(t, "publish")
  /\ UNCHANGED <<gRooms, allocated, ready, owner, room, local, running>>

Publish(t) ==
  /\ pc[t] = "publish"
  /\ \/ /\ gRooms' = [gRooms EXCEPT ![id[reg[t]]] = reg[t]]
        /\ Goto(t, "init")
        /\ UNCHANGED <<counter_room, rooms, local, running>>
     \/ PastTheEnd(id[reg[t]]) /\ Crash

InitMutex(t) ==
  /\ pc[t] = "init"
  /\ ready' = ready \cup {reg[t]}
  /\ Goto(t, "add")
  /\ UNCHANGED <<table, allocated, id, owner, room, local, running>>

\* room_add_client, into an empty room.
Add(t) ==
  /\ pc[t] = "add"
  /\ room' = [room EXCEPT ![t] = reg[t]]
  /\ Goto(t, "own")
  /\ UNCHANGED <<table, allocated, ready, id, owner, local, running>>

Own(t) ==
  /\ pc[t] = "own"
  /\ owner' = [owner EXCEPT ![reg[t]] = t]
  /\ Goto(t, "reply")
  /\ UNCHANGED <<table, allocated, ready, id, room, local, running>>

\* The answer serialises the room.
Reply(t) ==
  /\ pc[t] = "reply"
  /\ \/ Done(t) /\ UNCHANGED <<table, rooms, running>>
     \/ ~Usable(reg[t]) /\ Crash

-----------------------------------------------------------------------------
(* handle_request_rooms_tag: a loop over gRooms.                           *)

RequestList(t) ==
  /\ pc[t] = "idle"
  /\ pos' = [pos EXCEPT ![t] = 0]
  /\ Goto(t, "list")
  /\ UNCHANGED <<table, rooms, reg, running>>

List(t) ==
  /\ pc[t] = "list"
  /\ \/ pos[t] = MAX_ROOMS /\ Done(t)
     \/ /\ pos[t] \in 0 .. MAX_ROOMS - 1
        /\ IF gRooms[pos[t]] = NULL
             THEN pos' = [pos EXCEPT ![t] = @ + 1] /\ UNCHANGED <<reg, pc>>
             ELSE /\ reg' = [reg EXCEPT ![t] = gRooms[pos[t]]]
                  /\ Goto(t, "serialize")
                  /\ UNCHANGED pos
  /\ UNCHANGED <<table, rooms, running>>

\* room_serialize locks the room, and reads it and its owner.
Serialize(t) ==
  /\ pc[t] = "serialize"
  /\ \/ /\ pos' = [pos EXCEPT ![t] = @ + 1]
        /\ reg' = [reg EXCEPT ![t] = NULL]
        /\ Goto(t, "list")
        /\ UNCHANGED <<table, rooms, running>>
     \/ ~Usable(reg[t]) /\ Crash

-----------------------------------------------------------------------------
(* handle_join_room_requested_tag.                                         *)

\* A room that is not in the table is refused.
RequestJoin(t, i) ==
  /\ pc[t] = "idle"
  /\ \/ /\ gRooms[i] # NULL
        /\ reg' = [reg EXCEPT ![t] = gRooms[i]]
        /\ Goto(t, "ask")
        /\ UNCHANGED <<table, rooms, pos, running>>
     \/ PastTheEnd(i) /\ Crash

\* room_is_full reads the room: the request may be refused.
Ask(t) ==
  /\ pc[t] = "ask"
  /\ \/ Done(t) /\ UNCHANGED <<table, rooms, running>>
     \/ Goto(t, "send") /\ UNCHANGED <<table, rooms, local, running>>
     \/ reg[t] \notin allocated /\ Crash

\* The field owner is read and the client it names is sent the request.
Send(t) ==
  /\ pc[t] = "send"
  /\ \/ Done(t) /\ UNCHANGED <<table, rooms, running>>
     \/ (reg[t] \notin allocated \/ owner[reg[t]] = NULL) /\ Crash

-----------------------------------------------------------------------------
(* handle_leave_room_tag of an owner: nobody else is in the room.          *)

\* Mutant: the client keeps its pointer to the room.
MutantRequestClose(t) ==
  /\ pc[t] = "idle"
  /\ room[t] # NULL
  /\ reg' = [reg EXCEPT ![t] = room[t]]
  /\ Goto(t, "unlist")
  /\ UNCHANGED <<table, rooms, pos, running>>

RequestClose(t) ==
  /\ pc[t] = "idle"
  /\ room[t] # NULL
  /\ reg' = [reg EXCEPT ![t] = room[t]]
  /\ room' = [room EXCEPT ![t] = NULL]
  /\ Goto(t, "unlist")
  /\ UNCHANGED <<table, allocated, ready, id, owner, pos, running>>

\* Mutant: the room is freed and stays in the table.
MutantUnlist(t) ==
  /\ pc[t] = "unlist"
  /\ Goto(t, "free")
  /\ UNCHANGED <<table, rooms, local, running>>

\* room_delete: the entry is cleared, whatever it is by now.
Unlist(t) ==
  /\ pc[t] = "unlist"
  /\ \/ /\ gRooms' = [gRooms EXCEPT ![id[reg[t]]] = NULL]
        /\ Goto(t, "free")
        /\ UNCHANGED <<counter_room, rooms, local, running>>
     \/ PastTheEnd(id[reg[t]]) /\ Crash

Free(t) ==
  /\ pc[t] = "free"
  /\ allocated' = allocated \ {reg[t]}
  /\ ready' = ready \ {reg[t]}
  /\ Done(t)
  /\ UNCHANGED <<table, id, owner, room, running>>

-----------------------------------------------------------------------------
Request(t) ==
  \/ \E r \in Room : Create(t, r)
  \/ \E i \in RoomId : RequestJoin(t, i)
  \/ RequestList(t) \/ RequestClose(t)

Step(t) ==
  \/ Count(t) \/ Publish(t) \/ InitMutex(t) \/ Add(t) \/ Own(t) \/ Reply(t)
  \/ List(t) \/ Serialize(t)
  \/ Ask(t) \/ Send(t)
  \/ Unlist(t) \/ Free(t)

\* Creations of two threads overlap.
TwoCreations ==
  \E t, u \in Client : t # u /\ pc[t] \in Creating /\ pc[u] \in Creating

Stopped == ~running /\ UNCHANGED vars

Next ==
  \/ /\ running
     /\ \E t \in Client : Request(t) \/ Step(t)
     /\ overlapped' = (overlapped \/ TwoCreations')
  \/ Stopped

Spec == Init /\ [][Next]_vars

-----------------------------------------------------------------------------
(* However creations overlap.                                              *)

\* The table, and the memory behind it, names allocated rooms only, each under its
\* own id: a room that is closed leaves no entry behind, though the entry of its
\* id may have become that of another room and its memory may be reused.
EntriesAreRooms ==
  running => \A i \in RoomId : gRooms[i] # NULL =>
               gRooms[i] \in allocated /\ id[gRooms[i]] = i

-----------------------------------------------------------------------------
(* As long as creations have not overlapped.                               *)

\* The rooms whose field id is set.
Numbered == allocated \ {reg[t] : t \in {u \in Client : pc[u] = "count"}}

\* README.md, "gli utenti possono accedere a stanze già create": a client that is
\* in a room it has created finds it under its id, owned by itself, and no id is
\* given to two rooms.
RoomsAreListed ==
  running /\ ~overlapped =>
    /\ \A t \in Client : pc[t] = "idle" /\ room[t] # NULL =>
         owner[room[t]] = t /\ gRooms[id[room[t]]] = room[t]
    /\ \A r, s \in Numbered : id[r] = id[s] => r = s
=============================================================================
