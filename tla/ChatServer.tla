----------------------------- MODULE ChatServer -----------------------------
(***************************************************************************)
(* client.c, messages.c and the loop of main.c over the room table and the *)
(* client pool: one action per request tag, one for accept and one for the *)
(* end of a connection.                                                    *)
(*                                                                         *)
(* Here a handler runs to its end before another starts, so this module is *)
(* the server as its request protocol sees it.  Clients may send any       *)
(* request at any time, with any id; the server keeps no record of which   *)
(* requests it has asked for.                                              *)
(*                                                                         *)
(* The variable sent holds the messages the last step handed to send.  The *)
(* variable running turns FALSE when a handler dereferences a null pointer *)
(* or exits because the database cannot be reached.  Reading a client_t    *)
(* that has been freed either stops the server too or goes on with the     *)
(* contents left in that memory; the send to its closed socket fails.  A   *)
(* store or a read past the end of gRooms either stops it, by what it      *)
(* overwrites or finds, or goes on.                                        *)
(***************************************************************************)
EXTENDS FiniteSets, Room, ClientPool

VARIABLES
  accounts,  (* the rows of the table users                                *)
  sent,      (* what the last step sent                                    *)
  running    (* the process is alive                                       *)

vars == <<clientVars, roomVars, poolVars, accounts, sent, running>>

Tag == {"RequestRoomsAccepted", "JoinRoomRequested", "JoinRoomRefused",
        "JoinRoomNotifyAccepted", "MessageReceived", "LeaveRoom",
        "SignUpAccepted", "SignUpRejected", "SignInAccepted",
        "SignInRejected", "RoomCreateAccepted", "RoomClosed"}

Message == [to : Client, tag : Tag, about : Client \cup RoomId \cup {NULL}]

TypeOK ==
  /\ ClientTypeOK
  /\ RoomTypeOK
  /\ PoolTypeOK
  /\ accounts \subseteq User
  /\ sent \subseteq Message
  /\ running \in BOOLEAN

Init ==
  /\ ClientInit
  /\ RoomInit
  /\ PoolInit
  /\ accounts = {}
  /\ sent = {}
  /\ running = TRUE

\* client_send to each client of S.  On a freed client_t the socket is closed: the
\* message is lost.  That its number may be that of a later connection by then is
\* left out.
Send(S, tag, about) ==
  sent' = {[to |-> d, tag |-> tag, about |-> about] : d \in S \cap live}

Halt ==
  /\ running' = FALSE
  /\ sent' = {}
  /\ UNCHANGED <<clientVars, roomVars, poolVars, accounts>>

\* A request leaves the memory of the clients, the pool and the table alone.
OnlyRooms == UNCHANGED <<clientVars, poolVars, accounts, running>>
OnlySends == OnlyRooms /\ UNCHANGED roomVars

-----------------------------------------------------------------------------
(* Rooms.                                                                  *)

PastTheEnd(r) == r >= MAX_ROOMS

\* The client_t objects room_serialize reads, for every open room of the table.
Listed ==
  UNION {Members(gRooms[r]) \cup {gRooms[r].owner} : r \in {q \in Open : ~PastTheEnd(q)}}

handle_request_rooms_tag(c) ==
  \/ /\ \A d \in Listed : CanSerialize(d)
     /\ Send({c}, "RequestRoomsAccepted", NULL)
     /\ OnlySends
  \/ /\ Freed(Listed) \/ \E d \in Listed : ~CanSerialize(d)
     /\ Halt

\* Nothing asks whether the client is in a room already, or whether the table
\* has an entry left: the next id is taken and the room stored under it.
handle_create_room_tag(c) ==
  /\ counter_room < MaxRooms
  /\ \/ /\ CanSerialize(c)
        /\ room_create(c)
        /\ Send({c}, "RoomCreateAccepted", counter_room)
        /\ OnlyRooms
     \/ /\ PastTheEnd(counter_room) \/ ~CanSerialize(c)
        /\ Halt

handle_join_room_requested_tag(c, r) ==
  \/ /\ room_get(r) = NULL
     /\ Send({c}, "JoinRoomRefused", NULL)
     /\ OnlySends
  \/ /\ r \in Open
     /\ room_is_full(gRooms[r])
     /\ Send({c}, "JoinRoomRefused", NULL)
     /\ OnlySends
  \/ /\ r \in Open
     /\ ~room_is_full(gRooms[r])
     /\ CanSerialize(c)
     /\ Send({gRooms[r].owner}, "JoinRoomRequested", c)
     /\ OnlySends
  \/ /\ r \in Open
     /\ ~room_is_full(gRooms[r])
     /\ ~CanSerialize(c) \/ Freed({gRooms[r].owner})
     /\ Halt
  \/ /\ PastTheEnd(r)
     /\ Halt

\* Mutant: the client is not looked for in the slots.
MutantAlreadyPresent(r, d) == FALSE

\* room_add_client compares user ids, and on a match reads the id of the room
\* the requesting client is in: it is in none.
AlreadyPresent(r, d) ==
  /\ Occupied(gRooms[r]) # Slot
  /\ \E e \in Members(gRooms[r]) : user[e] = user[d]

\* The client_t the answer is about was found and is in no room.
Waiting(d) == d # NULL /\ room[d] = NULL

JoinFaults(r, d) ==
  \/ PastTheEnd(r)
  \/ r \in Open => AlreadyPresent(r, d) \/ Freed(Members(gRooms[r]))

\* c answers for the client logged in as u; nothing asks whether c owns r.
\* The notification goes out whether or not a slot was left.
handle_join_room_accepted_tag(c, u, r) ==
  \E d \in Client \cup {NULL} :
    /\ client_pool_get(u, d)
    /\ \/ /\ ~Waiting(d)
          /\ sent' = {}
          /\ OnlySends
       \/ /\ Waiting(d)
          /\ r \in Open
          /\ ~AlreadyPresent(r, d)
          /\ room_add_client(r, d)
          /\ Send(Members(gRooms'[r]), "JoinRoomNotifyAccepted", d)
          /\ OnlyRooms
       \/ /\ Waiting(d)
          /\ JoinFaults(r, d)
          /\ Halt

handle_join_room_refused_tag(c, u) ==
  \E d \in Client \cup {NULL} :
    /\ client_pool_get(u, d)
    /\ \/ /\ d # NULL
          /\ Send({d}, "JoinRoomRefused", NULL)
          /\ OnlySends
       \/ /\ d = NULL
          /\ Halt

MessageFaults(c) ==
  /\ room[c] # NULL
  /\ room[c] \in Open => ~CanSerialize(c) \/ Freed(Members(gRooms[room[c]]))

handle_message_received_tag(c) ==
  \/ /\ room[c] = NULL
     /\ sent' = {}
     /\ OnlySends
  \/ /\ room[c] \in Open
     /\ CanSerialize(c)
     /\ Send(Members(gRooms[room[c]]), "MessageReceived", c)
     /\ OnlySends
  \/ /\ MessageFaults(c)
     /\ Halt

\* Mutant: nobody is recognised as the owner.
MutantIsOwner(c) == FALSE

\* Ownership is decided by the user id, not by the address.
IsOwner(c) == user[gRooms[room[c]].owner] = user[c]

\* The owner's way out: every client in a slot is told, then the room is freed.
CloseRoom(c) ==
  /\ room[c] \in Open
  /\ IsOwner(c)
  /\ Send(Members(gRooms[room[c]]), "RoomClosed", NULL)
  /\ room_close(room[c], c)

\* Everybody else's: out of the slot, then a notice to those who stay.
QuitRoom(c) ==
  /\ room[c] \in Open
  /\ ~IsOwner(c)
  /\ CanSerialize(c)
  /\ room_remove_client(room[c], c)
  /\ Send(Members(gRooms'[room[c]]), "LeaveRoom", c)

LeaveFaults(c) ==
  /\ room[c] # NULL
  /\ room[c] \in Open =>
       \/ Freed({gRooms[room[c]].owner} \cup Members(gRooms[room[c]]))
       \/ ~IsOwner(c) /\ ~CanSerialize(c)
       \/ IsOwner(c) /\ PastTheEnd(room[c])

NoRoomToLeave(c) ==
  /\ room[c] = NULL
  /\ sent' = {}
  /\ UNCHANGED roomVars

LeaveRoom(c) == NoRoomToLeave(c) \/ CloseRoom(c) \/ QuitRoom(c)

handle_leave_room_tag(c) ==
  \/ LeaveRoom(c) /\ OnlyRooms
  \/ LeaveFaults(c) /\ Halt

-----------------------------------------------------------------------------
(* Accounts.  The table is the database's: its user names are unique.      *)
(* Every request opens a connection, and a failure to open it is an exit.  *)

\* Rejected: the name is taken, or the query failed, at worst with its row stored.
handle_sign_up_tag(c, u) ==
  \/ /\ u \notin accounts
     /\ accounts' = accounts \cup {u}
     /\ Send({c}, "SignUpAccepted", NULL)
     /\ UNCHANGED <<clientVars, roomVars, poolVars, running>>
  \/ /\ accounts' \in {accounts, accounts \cup {u}}
     /\ Send({c}, "SignUpRejected", NULL)
     /\ UNCHANGED <<clientVars, roomVars, poolVars, running>>
  \/ Halt

\* Mutant: a failed sign in logs the client out.
MutantSignIn(c, u) ==
  /\ \/ /\ u \in accounts
        /\ user' = [user EXCEPT ![c] = u]
        /\ Send({c}, "SignInAccepted", NULL)
     \/ /\ user' = [user EXCEPT ![c] = NoUser]
        /\ Send({c}, "SignInRejected", NULL)
  /\ UNCHANGED <<live, roomVars, poolVars, accounts, running>>

\* Rejected: no such row, another password, or a query that failed.  Nothing
\* asks whether the client is logged in or in a room already.
handle_sign_in_tag(c, u) ==
  \/ /\ u \in accounts
     /\ user' = [user EXCEPT ![c] = u]
     /\ Send({c}, "SignInAccepted", NULL)
     /\ UNCHANGED <<live, roomVars, poolVars, accounts, running>>
  \/ /\ Send({c}, "SignInRejected", NULL)
     /\ OnlySends
  \/ Halt

-----------------------------------------------------------------------------
(* Connections.                                                            *)

\* main after accept; a full pool closes the connection and changes nothing.
accept_client(c) ==
  /\ ~client_pool_is_full
  /\ client_create(c)
  /\ client_pool_add(c)
  /\ room' = [room EXCEPT ![c] = NULL]
  /\ sent' = {}
  /\ UNCHANGED <<gRooms, counter_room, accounts, running>>

\* The end of client_handler, once read has returned 0 or an error.
client_exit(c) ==
  \/ /\ LeaveRoom(c)
     /\ client_pool_remove(c)
     /\ client_free(c)
     /\ UNCHANGED <<accounts, running>>
  \/ /\ LeaveFaults(c)
     /\ Halt

\* on_message_received: the dispatch on the tag of a request.
on_message_received(c) ==
  \/ handle_create_room_tag(c)
  \/ handle_request_rooms_tag(c)
  \/ \E r \in RoomId : handle_join_room_requested_tag(c, r)
  \/ \E u \in User, r \in RoomId : handle_join_room_accepted_tag(c, u, r)
  \/ \E u \in User : handle_join_room_refused_tag(c, u)
  \/ handle_message_received_tag(c)
  \/ handle_leave_room_tag(c)
  \/ \E u \in User : handle_sign_up_tag(c, u)
  \/ \E u \in User : handle_sign_in_tag(c, u)

Next ==
  /\ running
  /\ \/ \E c \in Client : accept_client(c)
     \/ \E c \in live : on_message_received(c)
     \/ \E c \in live : client_exit(c)

Spec == Init /\ [][Next]_vars

\* Clients that leave the room they are in before they create another.
LeavesFirst ==
  \A c \in Client : room[c] # NULL /\ room'[c] # NULL => room'[c] = room[c]

PoliteSpec == Init /\ [][Next /\ LeavesFirst]_vars

-----------------------------------------------------------------------------
(* What holds of every behaviour.                                          *)

\* The field room of a client_t never dangles: it names an open room, and
\* that room has the client in a slot, so that closing the room clears it.
RoomPointersValid ==
  \A c \in Client : room[c] # NULL =>
    /\ c \in live
    /\ room[c] \in Open
    /\ c \in Members(gRooms[room[c]])

\* clientsCount, which room_is_full and the room list rely on, is the number
\* of slots in use.
CountIsOccupancy ==
  \A r \in Open : gRooms[r].clientsCount = Cardinality(Occupied(gRooms[r]))

\* No client is in two slots of a room: nobody gets a message twice, and the
\* single slot room_remove_client clears is the only one.
OneSlotPerRoom ==
  \A r \in Open : \A i, j \in Occupied(gRooms[r]) :
    gRooms[r].clients[i] = gRooms[r].clients[j] => i = j

\* As long as a room exists its owner has a slot in it: a room is never empty.
OwnerHasSlot ==
  \A r \in Open : gRooms[r].owner \in Members(gRooms[r])

\* A client inside a room is logged in, so that the messages about it can be
\* serialised.
InsideIsLoggedIn ==
  \A c \in Client : room[c] # NULL => CanSerialize(c)

\* The pool is the set of connected clients, each once, and its size is right.
PoolIsLive ==
  /\ \A c \in live : \E i \in PoolIndex : pool[i] = c
  /\ \A i \in PoolIndex : pool[i] # NULL => pool[i] \in live
  /\ \A i, j \in PoolIndex : pool[i] # NULL /\ pool[i] = pool[j] => i = j
  /\ poolSize = Cardinality({i \in PoolIndex : pool[i] # NULL})

\* A chat message reaches everybody who is in the sender's room.
MessageReachesRoom ==
  \A m \in sent : m.tag = "MessageReceived" =>
    \A d \in Client : room[d] = room[m.about] =>
      [m EXCEPT !.to = d] \in sent

\* When a room closes, everybody in it is told and is in no room afterwards.
CloseReachesEveryone ==
  [][\A r \in Open : gRooms'[r] = NULL =>
       \A c \in Client : room[c] = r =>
         /\ room'[c] = NULL
         /\ [to |-> c, tag |-> "RoomClosed", about |-> NULL] \in sent']_vars

\* A closed room's id is never used again: an id a client still holds names
\* the room it was learnt for or none.
RoomIdsAreFinal ==
  [][\A r \in RoomId : r < counter_room /\ gRooms[r] = NULL => gRooms'[r] = NULL]_vars

-----------------------------------------------------------------------------
(* What holds when clients leave before they create.                       *)

\* A room's slots hold exactly the connected clients whose field room names
\* it: no slot keeps the address of a freed client_t.
SlotsAreTheInside ==
  \A r \in Open : Members(gRooms[r]) = {c \in live : room[c] = r}

\* Clients that leave first see the rooms of the abstract specification.
Rooms == INSTANCE ChatRooms WITH
  at       <- room,
  host     <- [r \in RoomId |-> IF r \in Open THEN gRooms[r].owner ELSE NULL],
  opened   <- counter_room,
  Capacity <- MAX_CLIENTS_PER_ROOM

ImplementsChatRooms == Rooms!Spec

-----------------------------------------------------------------------------
(* What the repository says and the code does not do.                      *)

\* README.md: users chat only with those present in the room.
ChatOnlyWithPresent ==
  \A m \in sent : m.tag = "MessageReceived" => room[m.to] = room[m.about]

\* README.md: a room's creator can accept a user that wants to join.  It does
\* so by the user's id, under which the pool has to find a logged in client.
OwnerCanAccept ==
  \A r \in Open, c \in live :
    /\ room[gRooms[r].owner] = r /\ ~room_is_full(gRooms[r])
    /\ room[c] = NULL /\ CanSerialize(c)
    => ~client_pool_get(user[c], NULL)
=============================================================================
