-------------------------- MODULE ChatServerProofs --------------------------
(***************************************************************************)
(* Theorems about ChatServer for any set of addresses and users and any    *)
(* length of the arrays.                                                   *)
(*                                                                         *)
(* Every step of the server does to the room table one of five things, or  *)
(* nothing; the lemma StepKinds says which, once, and every later proof    *)
(* has one case for each.                                                  *)
(***************************************************************************)
EXTENDS ChatServer, FiniteSetTheorems, TLAPS

-----------------------------------------------------------------------------
(* Steps.                                                                  *)

\* A room is created by c.
CreateStep(c) ==
  /\ counter_room < MaxRooms
  /\ CanSerialize(c)
  /\ room_create(c)
  /\ UNCHANGED clientVars

\* The client d that waits outside is added to the open room r.
JoinStep(r, d) ==
  /\ r \in Open
  /\ room[d] = NULL
  /\ d \in live \/ d \in {pool[i] : i \in PoolIndex}
  /\ CanSerialize(d)
  /\ ~AlreadyPresent(r, d)
  /\ room_add_client(r, d)
  /\ UNCHANGED clientVars

\* c leaves its room and stays connected, or its client_t is freed as well.
StaysOrGoes(c) == UNCHANGED clientVars \/ client_free(c)

QuitStep(c) ==
  /\ room[c] \in Open
  /\ ~IsOwner(c)
  /\ room_remove_client(room[c], c)
  /\ StaysOrGoes(c)

CloseStep(c) ==
  /\ room[c] \in Open
  /\ IsOwner(c)
  /\ Send(Members(gRooms[room[c]]), "RoomClosed", NULL)
  /\ room_close(room[c], c)
  /\ StaysOrGoes(c)

\* A client_t is allocated.
AcceptStep(c) ==
  /\ client_create(c)
  /\ room' = [room EXCEPT ![c] = NULL]
  /\ UNCHANGED <<gRooms, counter_room>>

\* The rooms are left alone: somebody logs in, or leaves the server from
\* outside every room, or nothing happens to a client_t at all.
OtherStep ==
  /\ UNCHANGED roomVars
  /\ \/ UNCHANGED clientVars
     \/ \E c \in live, u \in User :
          /\ user' = [user EXCEPT ![c] = u]
          /\ UNCHANGED live
     \/ \E c \in live : room[c] = NULL /\ client_free(c)

\* The step relation seen from the room table.
LEMMA StepKinds ==
  ASSUME TypeOK, [Next]_vars
  PROVE  \/ \E c \in live : CreateStep(c)
         \/ \E r \in RoomId, d \in Client : JoinStep(r, d)
         \/ \E c \in live : QuitStep(c)
         \/ \E c \in live : CloseStep(c)
         \/ \E c \in Client : AcceptStep(c)
         \/ OtherStep
<1>1. CASE UNCHANGED vars
  BY <1>1 DEF vars, OtherStep
<1>2. ASSUME NEW c \in Client, accept_client(c)
      PROVE  AcceptStep(c)
  BY <1>2 DEF accept_client, AcceptStep
<1>3. ASSUME NEW c \in live, LeaveRoom(c), StaysOrGoes(c)
      PROVE  QuitStep(c) \/ CloseStep(c) \/ OtherStep
  BY <1>3 DEF LeaveRoom, NoRoomToLeave, CloseRoom, QuitRoom, QuitStep, CloseStep, OtherStep, StaysOrGoes
<1>4. ASSUME Halt PROVE OtherStep
  BY <1>4 DEF Halt, OtherStep
<1>5. ASSUME OnlySends PROVE OtherStep
  BY <1>5 DEF OnlySends, OnlyRooms, OtherStep
<1>6. ASSUME NEW c \in live, client_exit(c)
      PROVE  QuitStep(c) \/ CloseStep(c) \/ OtherStep
  BY <1>3, <1>4, <1>6 DEF client_exit, StaysOrGoes
<1>7. ASSUME NEW c \in live, on_message_received(c)
      PROVE  \/ CreateStep(c)
             \/ \E r \in RoomId, d \in Client : JoinStep(r, d)
             \/ QuitStep(c) \/ CloseStep(c) \/ OtherStep
  <2>1. CASE handle_create_room_tag(c)
    BY <2>1, <1>4 DEF handle_create_room_tag, CreateStep, OnlyRooms
  <2>2. CASE handle_request_rooms_tag(c)
    BY <2>2, <1>4, <1>5 DEF handle_request_rooms_tag
  <2>3. CASE \E r \in RoomId : handle_join_room_requested_tag(c, r)
    BY <2>3, <1>4, <1>5 DEF handle_join_room_requested_tag
  <2>4. ASSUME NEW u \in User, NEW r \in RoomId, handle_join_room_accepted_tag(c, u, r)
        PROVE  (\E d \in Client : JoinStep(r, d)) \/ OtherStep
    <3>1. PICK d \in Client \cup {NULL} :
            /\ client_pool_get(u, d)
            /\ \/ OnlySends \/ Halt
               \/ /\ Waiting(d) /\ r \in Open /\ ~AlreadyPresent(r, d)
                  /\ room_add_client(r, d) /\ OnlyRooms
      BY <2>4 DEF handle_join_room_accepted_tag
    <3>2. CASE Waiting(d) /\ r \in Open /\ ~AlreadyPresent(r, d)
               /\ room_add_client(r, d) /\ OnlyRooms
      <4>1. PICK i \in PoolIndex : HasUserId(i, u) /\ d = pool[i]
        BY <3>1, <3>2 DEF client_pool_get, Waiting
      <4>2. d \in Client /\ CanSerialize(d)
        BY <4>1, <3>2, ClientAssumption DEF HasUserId, CanSerialize, Waiting, TypeOK, PoolTypeOK
      <4>3. JoinStep(r, d)
        BY <3>2, <4>1, <4>2 DEF JoinStep, Waiting, OnlyRooms
      <4> QED BY <4>2, <4>3
    <3> QED BY <3>1, <3>2, <1>4, <1>5
  <2>5. CASE \E u \in User : handle_join_room_refused_tag(c, u)
    BY <2>5, <1>4, <1>5 DEF handle_join_room_refused_tag
  <2>6. CASE handle_message_received_tag(c)
    BY <2>6, <1>4, <1>5 DEF handle_message_received_tag
  <2>7. CASE handle_leave_room_tag(c)
    BY <2>7, <1>3, <1>4 DEF handle_leave_room_tag, OnlyRooms, StaysOrGoes
  <2>8. CASE \E u \in User : handle_sign_up_tag(c, u)
    BY <2>8, <1>4, <1>5 DEF handle_sign_up_tag, OtherStep
  <2>9. CASE \E u \in User : handle_sign_in_tag(c, u)
    BY <2>9, <1>4, <1>5 DEF handle_sign_in_tag, OtherStep
  <2> QED
    BY <1>7, <2>1, <2>2, <2>3, <2>4, <2>5, <2>6, <2>7, <2>8, <2>9 DEF on_message_received
<1> QED
  BY <1>1, <1>2, <1>6, <1>7 DEF Next

-----------------------------------------------------------------------------
(* The operators on one room.                                              *)

\* An allocated room is a record without clients.
LEMMA NewRoomFacts ==
  /\ NewRoom \in RoomRecord
  /\ Occupied(NewRoom) = {}
  /\ \A i \in Slot : NewRoom.clients[i] = NULL
BY DEF NewRoom, RoomRecord, Occupied

\* Filling an empty slot adds one client and leaves the owner alone.
LEMMA WithClientFacts ==
  ASSUME NEW rm \in RoomRecord, NEW i \in Slot, NEW c \in Client,
         rm.clients[i] = NULL
  PROVE  /\ WithClient(rm, i, c) \in RoomRecord
         /\ WithClient(rm, i, c).owner = rm.owner
         /\ WithClient(rm, i, c).clientsCount = rm.clientsCount + 1
         /\ WithClient(rm, i, c).clients = [rm.clients EXCEPT ![i] = c]
         /\ Occupied(WithClient(rm, i, c)) = Occupied(rm) \cup {i}
         /\ Members(WithClient(rm, i, c)) = Members(rm) \cup {c}
<1> DEFINE n == WithClient(rm, i, c)
<1>1. /\ n \in RoomRecord /\ n.owner = rm.owner
      /\ n.clientsCount = rm.clientsCount + 1
      /\ n.clients = [rm.clients EXCEPT ![i] = c]
  <2> DEFINE k == [rm.clients EXCEPT ![i] = c]
  <2>1. n = [rm EXCEPT !.clients = k, !.clientsCount = rm.clientsCount + 1]
    BY Zenon DEF WithClient
  <2>2. k \in [Slot -> Client \cup {NULL}]
    BY DEF RoomRecord
  <2>3. rm.clientsCount + 1 \in Int
    BY DEF RoomRecord
  <2> HIDE DEF k, n
  <2>4. n \in RoomRecord /\ n.owner = rm.owner
        /\ n.clientsCount = rm.clientsCount + 1 /\ n.clients = k
    BY <2>1, <2>2, <2>3 DEF RoomRecord
  <2> QED BY <2>4 DEF k
<1>2. rm.clients \in [Slot -> Client \cup {NULL}]
  BY DEF RoomRecord
<1>3. Occupied(n) = Occupied(rm) \cup {i}
  BY <1>1, <1>2, ClientAssumption DEF Occupied
<1>4. Members(n) = Members(rm) \cup {c}
  BY <1>1, <1>2, <1>3, ClientAssumption DEF Members, Occupied
<1> QED
  BY <1>1, <1>3, <1>4

\* Emptying a slot removes at most the client that was in it.
LEMMA WithoutClientFacts ==
  ASSUME NEW rm \in RoomRecord, NEW i \in Occupied(rm)
  PROVE  /\ WithoutClient(rm, i) \in RoomRecord
         /\ WithoutClient(rm, i).owner = rm.owner
         /\ WithoutClient(rm, i).clientsCount = rm.clientsCount - 1
         /\ WithoutClient(rm, i).clients = [rm.clients EXCEPT ![i] = NULL]
         /\ Occupied(WithoutClient(rm, i)) = Occupied(rm) \ {i}
         /\ Members(rm) \ {rm.clients[i]} \subseteq Members(WithoutClient(rm, i))
         /\ Members(WithoutClient(rm, i)) \subseteq Members(rm)
<1> DEFINE n == WithoutClient(rm, i)
<1>1. /\ n \in RoomRecord /\ n.owner = rm.owner
      /\ n.clientsCount = rm.clientsCount - 1
      /\ n.clients = [rm.clients EXCEPT ![i] = NULL]
  <2> DEFINE k == [rm.clients EXCEPT ![i] = NULL]
  <2>1. n = [rm EXCEPT !.clients = k, !.clientsCount = rm.clientsCount - 1]
    BY Zenon DEF WithoutClient
  <2>2. k \in [Slot -> Client \cup {NULL}]
    BY DEF RoomRecord, Occupied
  <2>3. rm.clientsCount - 1 \in Int
    BY DEF RoomRecord
  <2> HIDE DEF k, n
  <2>4. n \in RoomRecord /\ n.owner = rm.owner
        /\ n.clientsCount = rm.clientsCount - 1 /\ n.clients = k
    BY <2>1, <2>2, <2>3 DEF RoomRecord
  <2> QED BY <2>4 DEF k
<1>2. rm.clients \in [Slot -> Client \cup {NULL}] /\ i \in Slot
  BY DEF RoomRecord, Occupied
<1>3. Occupied(n) = Occupied(rm) \ {i}
  BY <1>1, <1>2 DEF Occupied
<1>4. /\ Members(rm) \ {rm.clients[i]} \subseteq Members(n)
      /\ Members(n) \subseteq Members(rm)
  BY <1>1, <1>2, <1>3 DEF Members, Occupied
<1> QED
  BY <1>1, <1>3, <1>4

\* What room_create stores: a room with its creator in one slot, as the owner.
LEMMA CreatedRoomFacts ==
  ASSUME RoomTypeOK, NEW c \in Client, counter_room < MaxRooms, room_create(c)
  PROVE  \E i \in Slot, n \in RoomRecord :
           /\ n # NULL
           /\ n.owner = c
           /\ n.clientsCount = 1
           /\ n.clients[i] = c
           /\ Occupied(n) = {i}
           /\ Members(n) = {c}
           /\ counter_room \in RoomId
           /\ gRooms' = [gRooms EXCEPT ![counter_room] = n]
           /\ room' = [room EXCEPT ![c] = counter_room]
           /\ counter_room' = counter_room + 1
<1>1. PICK i \in Slot :
        /\ gRooms' = [gRooms EXCEPT ![counter_room] =
                        [WithClient(NewRoom, i, c) EXCEPT !.owner = c]]
        /\ room' = [room EXCEPT ![c] = counter_room]
        /\ counter_room' = counter_room + 1
  BY DEF room_create
<1> DEFINE w == WithClient(NewRoom, i, c)
           n == [w EXCEPT !.owner = c]
<1>2. /\ w \in RoomRecord
      /\ w.clientsCount = NewRoom.clientsCount + 1
      /\ w.clients = [NewRoom.clients EXCEPT ![i] = c]
      /\ Occupied(w) = {i}
  BY WithClientFacts, NewRoomFacts
<1>3. n \in RoomRecord /\ n.owner = c /\ n.clients = w.clients /\ n.clientsCount = w.clientsCount
  BY <1>2 DEF RoomRecord
<1>4. n.clientsCount = 1
  BY <1>2, <1>3 DEF NewRoom
<1>5. Occupied(n) = {i}
  BY <1>2, <1>3 DEF Occupied
<1>6. n.clients[i] = c
  BY <1>2, <1>3, NewRoomFacts DEF RoomRecord
<1>7. Members(n) = {c}
  BY <1>5, <1>6 DEF Members
<1>8. n # NULL
  BY <1>3, RoomAssumption
<1>9. counter_room \in RoomId
  BY RoomAssumption DEF RoomTypeOK, RoomId
<1> HIDE DEF n, w
<1> QED
  BY <1>1, <1>3, <1>4, <1>5, <1>6, <1>7, <1>8, <1>9 DEF n, w

-----------------------------------------------------------------------------
(* Type correctness.                                                       *)

\* What a step does to the memory of the clients and to the pool together.
PoolStep ==
  \/ UNCHANGED <<live, poolVars>>
  \/ \E c \in Client : /\ c \notin live
                       /\ ~client_pool_is_full
                       /\ live' = live \cup {c}
                       /\ client_pool_add(c)
  \/ \E c \in live : live' = live \ {c} /\ client_pool_remove(c)

LEMMA PoolSteps ==
  ASSUME [Next]_vars
  PROVE  PoolStep
<1>1. CASE UNCHANGED vars
  BY <1>1 DEF vars, clientVars, PoolStep
<1>2. ASSUME NEW c \in Client, accept_client(c)
      PROVE  PoolStep
  BY <1>2 DEF accept_client, client_create, PoolStep
<1>3. ASSUME NEW c \in live, client_exit(c)
      PROVE  PoolStep
  BY <1>3 DEF client_exit, client_free, Halt, clientVars, PoolStep
<1>4. ASSUME NEW c \in live, on_message_received(c)
      PROVE  UNCHANGED <<live, poolVars>>
  BY <1>4 DEF on_message_received, handle_create_room_tag,
       handle_request_rooms_tag, handle_join_room_requested_tag,
       handle_join_room_accepted_tag, handle_join_room_refused_tag,
       handle_message_received_tag, handle_leave_room_tag, handle_sign_up_tag,
       handle_sign_in_tag, OnlySends, OnlyRooms, Halt, clientVars
<1> QED
  BY <1>1, <1>2, <1>3, <1>4 DEF Next, PoolStep

\* Whatever Send sends is a message.
LEMMA SendType ==
  ASSUME live \subseteq Client, NEW S, NEW tag \in Tag,
         NEW about \in Client \cup RoomId \cup {NULL}, Send(S, tag, about)
  PROVE  sent' \subseteq Message
BY DEF Send, Message

LEMMA SentType ==
  ASSUME TypeOK, [Next]_vars
  PROVE  sent' \subseteq Message
<1> USE DEF Tag
<1>1. live \subseteq Client
  BY DEF TypeOK, ClientTypeOK
<1>2. CASE UNCHANGED vars
  BY <1>2 DEF vars, TypeOK
<1>3. ASSUME NEW c \in Client, accept_client(c)
      PROVE  sent' \subseteq Message
  BY <1>3 DEF accept_client
<1>4. ASSUME Halt PROVE sent' \subseteq Message
  BY <1>4 DEF Halt
<1>5. ASSUME NEW c \in live, LeaveRoom(c)
      PROVE  sent' \subseteq Message
  BY <1>1, <1>5, SendType DEF LeaveRoom, NoRoomToLeave, CloseRoom, QuitRoom
<1>6. ASSUME NEW c \in live, client_exit(c)
      PROVE  sent' \subseteq Message
  BY <1>4, <1>5, <1>6 DEF client_exit
<1>7. ASSUME NEW c \in live, on_message_received(c)
      PROVE  sent' \subseteq Message
  <2>1. CASE handle_create_room_tag(c)
    <3>1. counter_room < MaxRooms => counter_room \in RoomId
      BY RoomAssumption DEF TypeOK, RoomTypeOK, RoomId
    <3> QED BY <1>1, <1>4, <2>1, <3>1, SendType DEF handle_create_room_tag
  <2>2. CASE handle_request_rooms_tag(c)
    BY <1>1, <1>4, <2>2, SendType DEF handle_request_rooms_tag
  <2>3. CASE \E r \in RoomId : handle_join_room_requested_tag(c, r)
    BY <1>1, <1>4, <2>3, SendType DEF handle_join_room_requested_tag
  <2>4. CASE \E u \in User, r \in RoomId : handle_join_room_accepted_tag(c, u, r)
    BY <1>1, <1>4, <2>4, SendType DEF handle_join_room_accepted_tag
  <2>5. CASE \E u \in User : handle_join_room_refused_tag(c, u)
    BY <1>1, <1>4, <2>5, SendType DEF handle_join_room_refused_tag
  <2>6. CASE handle_message_received_tag(c)
    BY <1>1, <1>4, <2>6, SendType DEF handle_message_received_tag
  <2>7. CASE handle_leave_room_tag(c)
    BY <1>4, <1>5, <2>7 DEF handle_leave_room_tag
  <2>8. CASE \E u \in User : handle_sign_up_tag(c, u)
    BY <1>1, <1>4, <2>8, SendType DEF handle_sign_up_tag
  <2>9. CASE \E u \in User : handle_sign_in_tag(c, u)
    BY <1>1, <1>4, <2>9, SendType DEF handle_sign_in_tag
  <2> QED
    BY <1>7, <2>1, <2>2, <2>3, <2>4, <2>5, <2>6, <2>7, <2>8, <2>9 DEF on_message_received
<1> QED
  BY <1>2, <1>3, <1>6, <1>7 DEF Next

-----------------------------------------------------------------------------
(* The operations on the table.                                            *)

\* The client d is put in the slot i of the room r, which becomes n.
FillsSlot(r, d, i, n) ==
  /\ n # NULL
  /\ n.owner = gRooms[r].owner
  /\ n.clientsCount = gRooms[r].clientsCount + 1
  /\ i \notin Occupied(gRooms[r])
  /\ n.clients = [gRooms[r].clients EXCEPT ![i] = d]
  /\ Occupied(n) = Occupied(gRooms[r]) \cup {i}
  /\ Members(n) = Members(gRooms[r]) \cup {d}
  /\ gRooms' = [gRooms EXCEPT ![r] = n]

\* The slot i of c in the room r is emptied; the room becomes n.
EmptiesSlot(r, c, i, n) ==
  /\ n # NULL
  /\ n.owner = gRooms[r].owner
  /\ n.clientsCount = gRooms[r].clientsCount - 1
  /\ i \in Occupied(gRooms[r])
  /\ gRooms[r].clients[i] = c
  /\ n.clients = [gRooms[r].clients EXCEPT ![i] = NULL]
  /\ Occupied(n) = Occupied(gRooms[r]) \ {i}
  /\ Members(gRooms[r]) \ {c} \subseteq Members(n)
  /\ Members(n) \subseteq Members(gRooms[r])
  /\ gRooms' = [gRooms EXCEPT ![r] = n]

\* room_add_client leaves a full array alone, and otherwise puts the client in
\* a slot that was empty.
LEMMA JoinedRoomFacts ==
  ASSUME RoomTypeOK, NEW r \in Open, NEW d \in Client, room_add_client(r, d)
  PROVE  \/ UNCHANGED roomVars
         \/ /\ \E i \in Slot, n \in RoomRecord : FillsSlot(r, d, i, n)
            /\ room' = [room EXCEPT ![d] = r]
            /\ counter_room' = counter_room
            /\ Occupied(gRooms[r]) # Slot
<1>1. CASE UNCHANGED <<counter_room, gRooms, room>>
  BY <1>1 DEF roomVars
<1>2. ASSUME NEW i \in Slot, IsAddIndex(gRooms[r], i),
             gRooms' = [gRooms EXCEPT ![r] = WithClient(gRooms[r], i, d)]
      PROVE  /\ \E n \in RoomRecord : FillsSlot(r, d, i, n)
             /\ Occupied(gRooms[r]) # Slot
  <2>1. gRooms[r] \in RoomRecord /\ gRooms[r].clients[i] = NULL
    BY <1>2 DEF RoomTypeOK, Open, IsAddIndex
  <2>2. i \notin Occupied(gRooms[r]) /\ Occupied(gRooms[r]) # Slot
    BY <2>1 DEF Occupied
  <2>3. WithClient(gRooms[r], i, d) \in RoomRecord
    BY <2>1, WithClientFacts
  <2>4. WithClient(gRooms[r], i, d) # NULL
    BY <2>3, RoomAssumption
  <2>5. FillsSlot(r, d, i, WithClient(gRooms[r], i, d))
    BY <1>2, <2>1, <2>2, <2>4, WithClientFacts DEF FillsSlot
  <2> QED
    BY <2>2, <2>3, <2>5
<1> QED
  BY <1>1, <1>2 DEF room_add_client

\* room_remove_client empties at most one slot, the client's, and clears the
\* client's pointer.
LEMMA LeftRoomFacts ==
  ASSUME RoomTypeOK, NEW r \in Open, NEW c \in Client, room_remove_client(r, c)
  PROVE  /\ room' = [room EXCEPT ![c] = NULL]
         /\ counter_room' = counter_room
         /\ \/ c \notin Members(gRooms[r]) /\ gRooms' = gRooms
            \/ \E i \in Slot, n \in RoomRecord : EmptiesSlot(r, c, i, n)
<1>1. ASSUME NEW i \in Slot, IsClientIndex(gRooms[r], c, i),
             gRooms' = [gRooms EXCEPT ![r] = WithoutClient(gRooms[r], i)]
      PROVE  \E n \in RoomRecord : EmptiesSlot(r, c, i, n)
  <2>1. gRooms[r] \in RoomRecord /\ gRooms[r].clients[i] = c
    BY <1>1 DEF RoomTypeOK, Open, IsClientIndex
  <2>2. i \in Occupied(gRooms[r])
    BY <2>1, ClientAssumption DEF Occupied
  <2>3. WithoutClient(gRooms[r], i) \in RoomRecord
    BY <2>1, <2>2, WithoutClientFacts
  <2>4. WithoutClient(gRooms[r], i) # NULL
    BY <2>3, RoomAssumption
  <2>5. EmptiesSlot(r, c, i, WithoutClient(gRooms[r], i))
    BY <1>1, <2>1, <2>2, <2>4, WithoutClientFacts DEF EmptiesSlot
  <2> QED
    BY <2>3, <2>5
<1> QED
  BY <1>1 DEF room_remove_client

\* Every step keeps the types of the table.
LEMMA RoomTypeStep ==
  ASSUME TypeOK, [Next]_vars
  PROVE  RoomTypeOK'
<1>1. RoomTypeOK /\ live \subseteq Client
  BY DEF TypeOK, ClientTypeOK
<1>2. ASSUME NEW c \in live, CreateStep(c) PROVE RoomTypeOK'
  <2>1. counter_room < MaxRooms /\ room_create(c) /\ c \in Client
    BY <1>1, <1>2 DEF CreateStep
  <2>2. PICK n \in RoomRecord :
          /\ counter_room \in RoomId
          /\ gRooms' = [gRooms EXCEPT ![counter_room] = n]
          /\ room' = [room EXCEPT ![c] = counter_room]
          /\ counter_room' = counter_room + 1
    BY <1>1, <2>1, CreatedRoomFacts
  <2>3. counter_room' \in 0 .. MaxRooms
    BY <1>1, <2>1, <2>2, RoomAssumption DEF RoomTypeOK
  <2> QED
    BY <1>1, <2>2, <2>3 DEF RoomTypeOK
<1>3. ASSUME NEW r \in RoomId, NEW d \in Client, JoinStep(r, d) PROVE RoomTypeOK'
  <2>1. r \in Open /\ room_add_client(r, d)
    BY <1>3 DEF JoinStep
  <2>2. \/ UNCHANGED roomVars
        \/ \E n \in RoomRecord :
             /\ gRooms' = [gRooms EXCEPT ![r] = n]
             /\ room' = [room EXCEPT ![d] = r]
             /\ counter_room' = counter_room
    <3>1. CASE UNCHANGED roomVars
      BY <3>1
    <3>2. ASSUME NEW i \in Slot, NEW n \in RoomRecord, FillsSlot(r, d, i, n),
                 room' = [room EXCEPT ![d] = r], counter_room' = counter_room
          PROVE  \E m \in RoomRecord :
                   /\ gRooms' = [gRooms EXCEPT ![r] = m]
                   /\ room' = [room EXCEPT ![d] = r]
                   /\ counter_room' = counter_room
      BY <3>2 DEF FillsSlot
    <3> QED
      BY <1>1, <2>1, <3>1, <3>2, JoinedRoomFacts
  <2> QED
    BY <1>1, <2>2 DEF RoomTypeOK, roomVars
<1>4. ASSUME NEW c \in live, QuitStep(c) PROVE RoomTypeOK'
  <2>1. room[c] \in Open /\ room_remove_client(room[c], c) /\ c \in Client
    BY <1>1, <1>4 DEF QuitStep
  <2>2. /\ room' = [room EXCEPT ![c] = NULL]
        /\ counter_room' = counter_room
        /\ \/ gRooms' = gRooms
           \/ \E n \in RoomRecord : gRooms' = [gRooms EXCEPT ![room[c]] = n]
    BY <1>1, <2>1, LeftRoomFacts DEF EmptiesSlot
  <2> QED
    BY <1>1, <2>2 DEF RoomTypeOK
<1>5. ASSUME NEW c \in live, CloseStep(c) PROVE RoomTypeOK'
  BY <1>1, <1>5 DEF CloseStep, room_close, RoomTypeOK
<1>6. ASSUME NEW c \in Client, AcceptStep(c) PROVE RoomTypeOK'
  BY <1>1, <1>6 DEF AcceptStep, RoomTypeOK
<1>7. ASSUME OtherStep PROVE RoomTypeOK'
  BY <1>1, <1>7 DEF OtherStep, RoomTypeOK, roomVars
<1> QED
  BY <1>2, <1>3, <1>4, <1>5, <1>6, <1>7, StepKinds

\* Type correctness of the whole server: no handler stores a value of another
\* kind.  Rooms past the end of gRooms are among the values: the code stores them.
THEOREM TypeCorrect == Spec => []TypeOK
<1>1. Init => TypeOK
  BY RoomAssumption DEF Init, TypeOK, ClientInit, ClientTypeOK, RoomInit,
       RoomTypeOK, PoolInit, PoolTypeOK
<1>2. TypeOK /\ [Next]_vars => TypeOK'
  <2> SUFFICES ASSUME TypeOK, [Next]_vars PROVE TypeOK'
    OBVIOUS
  <2>1. ClientTypeOK'
    BY StepKinds DEF TypeOK, ClientTypeOK, CreateStep, JoinStep, QuitStep,
         CloseStep, AcceptStep, OtherStep, StaysOrGoes, client_create,
         client_free, clientVars
  <2>2. RoomTypeOK'
    BY RoomTypeStep
  <2>3. PoolTypeOK'
    BY PoolSteps DEF PoolStep, client_pool_add, client_pool_remove, TypeOK,
         ClientTypeOK, PoolTypeOK, poolVars
  <2>4. sent' \subseteq Message
    BY SentType
  <2>5. accounts' \subseteq User /\ running' \in BOOLEAN
    BY DEF TypeOK, vars, Next, accept_client, client_exit, on_message_received,
         handle_create_room_tag, handle_request_rooms_tag,
         handle_join_room_requested_tag, handle_join_room_accepted_tag,
         handle_join_room_refused_tag, handle_message_received_tag,
         handle_leave_room_tag, handle_sign_up_tag, handle_sign_in_tag,
         OnlySends, OnlyRooms, Halt
  <2> QED
    BY <2>1, <2>2, <2>3, <2>4, <2>5 DEF TypeOK
<1> QED
  BY <1>1, <1>2, PTL DEF Spec

-----------------------------------------------------------------------------
(* The pool.                                                               *)

\* The indices of the pool in use.
InUse == {i \in PoolIndex : pool[i] # NULL}

LEMMA PoolIndexFinite ==
  IsFiniteSet(PoolIndex) /\ Cardinality(PoolIndex) = MAX_CLIENTS
<1>1. 0 <= MAX_CLIENTS - 1 /\ 0 \in Int /\ MAX_CLIENTS - 1 \in Int /\ MAX_CLIENTS \in Int
  BY PoolAssumption
<1> QED
  BY <1>1, FS_Interval DEF PoolIndex

\* client_pool_add, called while the pool is not full, puts the client in an
\* empty entry and counts it.
LEMMA PoolAddStep ==
  ASSUME TypeOK, PoolIsLive, NEW c \in Client, c \notin live, ~client_pool_is_full,
         live' = live \cup {c}, client_pool_add(c)
  PROVE  PoolIsLive'
<1>1. /\ pool \in [PoolIndex -> Client \cup {NULL}] /\ InUse \subseteq PoolIndex
      /\ IsFiniteSet(InUse)
  BY PoolIndexFinite, FS_Subset DEF TypeOK, PoolTypeOK, InUse
<1>2. InUse # PoolIndex
  BY PoolIndexFinite DEF client_pool_is_full, PoolIsLive, InUse
<1>3. PICK i \in PoolIndex : /\ IsEmptyIndex(i)
                             /\ pool' = [pool EXCEPT ![i] = c]
                             /\ poolSize' = poolSize + 1
  BY <1>2 DEF client_pool_add, InUse
<1>4. pool[i] = NULL /\ i \notin InUse
  BY <1>3 DEF IsEmptyIndex, InUse
<1>5. InUse' = InUse \cup {i}
  BY <1>1, <1>3, ClientAssumption DEF InUse
<1>6. Cardinality(InUse') = Cardinality(InUse) + 1
  BY <1>1, <1>4, <1>5, FS_AddElement
<1>7. poolSize' = Cardinality(InUse')
  BY <1>3, <1>6 DEF PoolIsLive, InUse
<1>8. \A d \in live' : \E j \in PoolIndex : pool'[j] = d
  BY <1>1, <1>3, <1>4, ClientAssumption DEF PoolIsLive, TypeOK, ClientTypeOK
<1>9. \A j \in PoolIndex : pool'[j] # NULL => pool'[j] \in live'
  BY <1>1, <1>3 DEF PoolIsLive
<1>10. \A j, k \in PoolIndex : pool'[j] # NULL /\ pool'[j] = pool'[k] => j = k
  BY <1>1, <1>3 DEF PoolIsLive
<1> QED
  BY <1>7, <1>8, <1>9, <1>10 DEF PoolIsLive, InUse

\* client_pool_remove takes a connected client out of its entry.
LEMMA PoolRemoveStep ==
  ASSUME TypeOK, PoolIsLive, NEW c \in live,
         live' = live \ {c}, client_pool_remove(c)
  PROVE  PoolIsLive'
<1>1. /\ pool \in [PoolIndex -> Client \cup {NULL}] /\ InUse \subseteq PoolIndex
      /\ IsFiniteSet(InUse) /\ c \in Client
  BY PoolIndexFinite, FS_Subset DEF TypeOK, PoolTypeOK, ClientTypeOK, InUse
<1>2. PICK i \in PoolIndex : /\ IsPoolIndex(c, i)
                             /\ pool' = [pool EXCEPT ![i] = NULL]
                             /\ poolSize' = poolSize - 1
  BY DEF client_pool_remove, PoolIsLive
<1>3. pool[i] = c /\ i \in InUse
  BY <1>1, <1>2, ClientAssumption DEF IsPoolIndex, InUse
<1>4. InUse' = InUse \ {i}
  BY <1>1, <1>2 DEF InUse
<1>5. Cardinality(InUse') = Cardinality(InUse) - 1
  BY <1>1, <1>3, <1>4, FS_RemoveElement
<1>6. poolSize' = Cardinality(InUse')
  BY <1>2, <1>5 DEF PoolIsLive, InUse
<1>7. \A d \in live' : \E j \in PoolIndex : pool'[j] = d
  BY <1>1, <1>2, <1>3 DEF PoolIsLive
<1>8. \A j \in PoolIndex : pool'[j] # NULL => pool'[j] \in live'
  BY <1>1, <1>2, <1>3 DEF PoolIsLive
<1>9. \A j, k \in PoolIndex : pool'[j] # NULL /\ pool'[j] = pool'[k] => j = k
  BY <1>1, <1>2 DEF PoolIsLive
<1> QED
  BY <1>6, <1>7, <1>8, <1>9 DEF PoolIsLive, InUse

LEMMA PoolInvStep ==
  ASSUME TypeOK, PoolIsLive, [Next]_vars
  PROVE  PoolIsLive'
<1>1. CASE UNCHANGED <<live, poolVars>>
  BY <1>1 DEF PoolIsLive, poolVars
<1> QED
  BY <1>1, PoolSteps, PoolAddStep, PoolRemoveStep DEF PoolStep

LEMMA PoolInvInit == Init => PoolIsLive
BY FS_EmptySet, Zenon DEF Init, ClientInit, PoolInit, PoolIsLive

\* The pool is the set of connected clients: accept never loses a client for
\* want of an entry, and the size client_pool_is_full compares is exact.
THEOREM PoolCorrect == Spec => []PoolIsLive
<1>1. TypeOK /\ PoolIsLive /\ [Next]_vars => PoolIsLive'
  BY PoolInvStep
<1> QED
  BY <1>1, PoolInvInit, TypeCorrect, PTL DEF Spec

-----------------------------------------------------------------------------
(* The rooms.                                                              *)

\* Ids that were never given out have no room: room_create overwrites nothing.
AheadIsEmpty == \A r \in RoomId : r >= counter_room => gRooms[r] = NULL

\* The inductive invariant.  A client that is inside is found by the loop that
\* closes its room (RoomPointersValid); the room it is in is not the one that
\* room_create is about to store (AheadIsEmpty); the slot room_remove_client
\* empties is its only one (OneSlotPerRoom) and never the owner's.
RoomInv ==
  /\ RoomPointersValid
  /\ OneSlotPerRoom
  /\ OwnerHasSlot
  /\ InsideIsLoggedIn
  /\ AheadIsEmpty

IInv == TypeOK /\ PoolIsLive /\ RoomInv

\* A client found in no slot by its user id is in no slot.
LEMMA NotPresentFacts ==
  ASSUME NEW r \in Open, NEW d \in Client, ~AlreadyPresent(r, d),
         Occupied(gRooms[r]) # Slot
  PROVE  d \notin Members(gRooms[r])
BY DEF AlreadyPresent

LEMMA CreateKeepsRoomInv ==
  ASSUME IInv, NEW c \in live, CreateStep(c)
  PROVE  RoomInv'
<1>1. /\ RoomTypeOK /\ live \subseteq Client /\ c \in Client
      /\ counter_room < MaxRooms /\ room_create(c) /\ CanSerialize(c)
      /\ live' = live /\ user' = user
  BY DEF IInv, TypeOK, ClientTypeOK, CreateStep, clientVars
<1>2. PICK i \in Slot, n \in RoomRecord :
        /\ n # NULL /\ n.owner = c /\ n.clients[i] = c
        /\ Occupied(n) = {i} /\ Members(n) = {c}
        /\ counter_room \in RoomId
        /\ gRooms' = [gRooms EXCEPT ![counter_room] = n]
        /\ room' = [room EXCEPT ![c] = counter_room]
        /\ counter_room' = counter_room + 1
  BY <1>1, CreatedRoomFacts
<1>3. gRooms[counter_room] = NULL
  BY <1>1, <1>2 DEF IInv, RoomInv, AheadIsEmpty, RoomTypeOK
<1>4. /\ Open' = Open \cup {counter_room}
      /\ counter_room \notin Open
      /\ gRooms'[counter_room] = n
      /\ \A r \in Open : gRooms'[r] = gRooms[r]
  BY <1>1, <1>2, <1>3 DEF Open, RoomTypeOK
<1>5. RoomPointersValid'
  BY <1>1, <1>2, <1>4 DEF IInv, RoomInv, RoomPointersValid, RoomTypeOK
<1>6. OneSlotPerRoom'
  BY <1>2, <1>4 DEF IInv, RoomInv, OneSlotPerRoom
<1>7. OwnerHasSlot'
  BY <1>2, <1>4 DEF IInv, RoomInv, OwnerHasSlot
<1>8. InsideIsLoggedIn'
  BY <1>1, <1>2 DEF IInv, RoomInv, InsideIsLoggedIn, RoomTypeOK, CanSerialize
<1>9. AheadIsEmpty'
  BY <1>1, <1>2 DEF IInv, RoomInv, AheadIsEmpty, RoomTypeOK, RoomId
<1> QED
  BY <1>5, <1>6, <1>7, <1>8, <1>9 DEF RoomInv

LEMMA JoinKeepsRoomInv ==
  ASSUME IInv, NEW r \in RoomId, NEW d \in Client, JoinStep(r, d)
  PROVE  RoomInv'
<1>1. /\ RoomTypeOK /\ r \in Open /\ room_add_client(r, d) /\ CanSerialize(d)
      /\ ~AlreadyPresent(r, d)
      /\ live' = live /\ user' = user
  BY DEF IInv, TypeOK, JoinStep, clientVars
<1>2. d \in live
  BY ClientAssumption DEF IInv, PoolIsLive, JoinStep
<1>3. CASE UNCHANGED roomVars
  BY <1>1, <1>3 DEF IInv, RoomInv, RoomPointersValid, OneSlotPerRoom, OwnerHasSlot,
       InsideIsLoggedIn, AheadIsEmpty, roomVars, Open, Members, Occupied, CanSerialize
<1>4. ASSUME NEW i \in Slot, NEW n \in RoomRecord, FillsSlot(r, d, i, n),
             room' = [room EXCEPT ![d] = r], counter_room' = counter_room,
             Occupied(gRooms[r]) # Slot
      PROVE  RoomInv'
  <2> USE DEF FillsSlot
  <2>1. /\ Open' = Open /\ gRooms'[r] = n
        /\ \A q \in Open : q # r => gRooms'[q] = gRooms[q]
    BY <1>1, <1>4 DEF Open, RoomTypeOK
  <2>2. RoomPointersValid'
    BY <1>1, <1>2, <1>4, <2>1 DEF IInv, RoomInv, RoomPointersValid, RoomTypeOK
  <2>3. d \notin Members(gRooms[r])
    BY <1>1, <1>4, NotPresentFacts
  <2>4. OneSlotPerRoom'
    <3>1. gRooms[r] \in RoomRecord
      BY <1>1 DEF RoomTypeOK, Open
    <3>2. n.clients[i] = d
      BY <1>4, <3>1 DEF RoomRecord
    <3>3. \A j \in Occupied(gRooms[r]) :
            n.clients[j] = gRooms[r].clients[j] /\ n.clients[j] # d
      BY <1>4, <2>3, <3>1 DEF RoomRecord, Members, Occupied
    <3>4. \A j, k \in Occupied(n) : n.clients[j] = n.clients[k] => j = k
      BY <1>1, <1>4, <3>2, <3>3 DEF IInv, RoomInv, OneSlotPerRoom
    <3> QED
      BY <2>1, <3>4 DEF IInv, RoomInv, OneSlotPerRoom
  <2>5. OwnerHasSlot'
    BY <1>1, <1>4, <2>1 DEF IInv, RoomInv, OwnerHasSlot
  <2>6. InsideIsLoggedIn'
    BY <1>1, <1>4 DEF IInv, RoomInv, InsideIsLoggedIn, RoomTypeOK, CanSerialize
  <2>7. AheadIsEmpty'
    BY <1>1, <1>4 DEF IInv, RoomInv, AheadIsEmpty, RoomTypeOK, Open
  <2> QED
    BY <2>2, <2>4, <2>5, <2>6, <2>7 DEF RoomInv
<1> QED
  BY <1>1, <1>3, <1>4, JoinedRoomFacts

LEMMA QuitKeepsRoomInv ==
  ASSUME IInv, NEW c \in live, QuitStep(c)
  PROVE  RoomInv'
<1> DEFINE r == room[c]
<1>1. /\ RoomTypeOK /\ c \in Client /\ r \in Open /\ room_remove_client(r, c)
      /\ user[gRooms[r].owner] # user[c]
      /\ live' \in {live, live \ {c}} /\ user' = user
  BY DEF IInv, TypeOK, ClientTypeOK, QuitStep, IsOwner, StaysOrGoes, client_free, clientVars
<1>2. c \in Members(gRooms[r])
  BY <1>1, RoomAssumption DEF IInv, RoomInv, RoomPointersValid, Open
<1> HIDE DEF r
<1>3. /\ room' = [room EXCEPT ![c] = NULL]
      /\ counter_room' = counter_room
  BY <1>1, LeftRoomFacts
<1>4. PICK i \in Slot, n \in RoomRecord : EmptiesSlot(r, c, i, n)
  BY <1>1, <1>2, LeftRoomFacts
<1> USE DEF EmptiesSlot
<1>5. /\ Open' = Open /\ gRooms'[r] = n
      /\ \A q \in Open : q # r => gRooms'[q] = gRooms[q]
  BY <1>1, <1>4 DEF Open, RoomTypeOK
<1>6. RoomPointersValid'
  BY <1>1, <1>3, <1>4, <1>5 DEF IInv, RoomInv, RoomPointersValid, RoomTypeOK
<1>7. OneSlotPerRoom'
  <2>1. gRooms[r] \in RoomRecord
    BY <1>1 DEF RoomTypeOK, Open
  <2>2. \A j \in Occupied(n) :
          j \in Occupied(gRooms[r]) /\ n.clients[j] = gRooms[r].clients[j]
    BY <1>4, <2>1 DEF RoomRecord, Occupied
  <2> QED
    BY <1>1, <1>5, <2>2 DEF IInv, RoomInv, OneSlotPerRoom
<1>8. OwnerHasSlot'
  BY <1>1, <1>4, <1>5 DEF IInv, RoomInv, OwnerHasSlot
<1>9. InsideIsLoggedIn'
  BY <1>1, <1>3 DEF IInv, RoomInv, InsideIsLoggedIn, RoomTypeOK, CanSerialize
<1>10. AheadIsEmpty'
  BY <1>1, <1>3, <1>4 DEF IInv, RoomInv, AheadIsEmpty, RoomTypeOK, Open
<1> QED
  BY <1>6, <1>7, <1>8, <1>9, <1>10 DEF RoomInv

LEMMA CloseKeepsRoomInv ==
  ASSUME IInv, NEW c \in live, CloseStep(c)
  PROVE  RoomInv'
<1> DEFINE r == room[c]
<1>1. /\ RoomTypeOK /\ c \in Client /\ r \in Open /\ room_close(r, c)
      /\ live' \in {live, live \ {c}} /\ user' = user
  BY DEF IInv, TypeOK, ClientTypeOK, CloseStep, StaysOrGoes, client_free, clientVars
<1> HIDE DEF r
<1>2. /\ counter_room' = counter_room
      /\ room' = [d \in Client |->
                    IF d \in Members(gRooms[r]) \cup {c} THEN NULL ELSE room[d]]
      /\ gRooms' = [gRooms EXCEPT ![r] = NULL]
  BY <1>1 DEF room_close
<1>3. /\ Open' = Open \ {r}
      /\ \A q \in Open' : gRooms'[q] = gRooms[q]
  BY <1>1, <1>2 DEF Open, RoomTypeOK
<1>4. RoomPointersValid'
  BY <1>1, <1>2, <1>3 DEF IInv, RoomInv, RoomPointersValid, RoomTypeOK
<1>5. OneSlotPerRoom'
  BY <1>3 DEF IInv, RoomInv, OneSlotPerRoom
<1>6. OwnerHasSlot'
  BY <1>3 DEF IInv, RoomInv, OwnerHasSlot
<1>7. InsideIsLoggedIn'
  BY <1>1, <1>2 DEF IInv, RoomInv, InsideIsLoggedIn, CanSerialize
<1>8. AheadIsEmpty'
  BY <1>1, <1>2 DEF IInv, RoomInv, AheadIsEmpty, RoomTypeOK
<1> QED
  BY <1>4, <1>5, <1>6, <1>7, <1>8 DEF RoomInv

LEMMA AcceptKeepsRoomInv ==
  ASSUME IInv, NEW c \in Client, AcceptStep(c)
  PROVE  RoomInv'
<1>1. /\ RoomTypeOK /\ c \notin live /\ live' = live \cup {c}
      /\ \A d \in Client : d # c => user'[d] = user[d]
      /\ room' = [room EXCEPT ![c] = NULL]
      /\ gRooms' = gRooms /\ counter_room' = counter_room
  BY DEF IInv, TypeOK, ClientTypeOK, AcceptStep, client_create
<1>2. RoomPointersValid'
  BY <1>1 DEF IInv, RoomInv, RoomPointersValid, RoomTypeOK, Open
<1>3. OneSlotPerRoom' /\ OwnerHasSlot' /\ AheadIsEmpty'
  BY <1>1 DEF IInv, RoomInv, OneSlotPerRoom, OwnerHasSlot, AheadIsEmpty, Open
<1>4. InsideIsLoggedIn'
  BY <1>1 DEF IInv, RoomInv, InsideIsLoggedIn, RoomTypeOK, CanSerialize
<1> QED
  BY <1>2, <1>3, <1>4 DEF RoomInv

LEMMA OtherKeepsRoomInv ==
  ASSUME IInv, OtherStep
  PROVE  RoomInv'
<1>1. /\ RoomTypeOK /\ live \subseteq Client
      /\ room' = room /\ gRooms' = gRooms /\ counter_room' = counter_room
  BY DEF IInv, TypeOK, ClientTypeOK, OtherStep, roomVars
<1>2. \A c \in Client : room[c] # NULL /\ c \in live => c \in live'
  BY DEF OtherStep, client_free, clientVars
<1>3. \A c \in Client : user[c] # NoUser => user'[c] # NoUser
  BY ClientAssumption DEF IInv, TypeOK, ClientTypeOK, OtherStep, client_free, clientVars
<1>4. RoomPointersValid'
  BY <1>1, <1>2 DEF IInv, RoomInv, RoomPointersValid, Open
<1>5. OneSlotPerRoom' /\ OwnerHasSlot' /\ AheadIsEmpty'
  BY <1>1 DEF IInv, RoomInv, OneSlotPerRoom, OwnerHasSlot, AheadIsEmpty, Open
<1>6. InsideIsLoggedIn'
  BY <1>1, <1>3 DEF IInv, RoomInv, InsideIsLoggedIn, CanSerialize
<1> QED
  BY <1>4, <1>5, <1>6 DEF RoomInv

\* The conjunction of the server's state invariants holds in every reachable
\* state; the theorems below read their parts off it.
THEOREM Invariance == Spec => []IInv
<1>1. Init => RoomInv
  BY RoomAssumption DEF Init, ClientInit, RoomInit, RoomInv, RoomPointersValid, OneSlotPerRoom,
       OwnerHasSlot, InsideIsLoggedIn, AheadIsEmpty, Open
<1>2. IInv /\ [Next]_vars => RoomInv'
  <2> SUFFICES ASSUME IInv, [Next]_vars PROVE RoomInv'
    OBVIOUS
  <2>1. TypeOK
    BY DEF IInv
  <2> QED
    BY <2>1, StepKinds, CreateKeepsRoomInv, JoinKeepsRoomInv, QuitKeepsRoomInv,
       CloseKeepsRoomInv, AcceptKeepsRoomInv, OtherKeepsRoomInv
<1>3. TypeOK /\ PoolIsLive /\ RoomInv /\ [Next]_vars => RoomInv'
  BY <1>2 DEF IInv
<1>4. Spec => []RoomInv
  BY <1>1, <1>3, TypeCorrect, PoolCorrect, PTL DEF Spec
<1> QED
  BY <1>4, TypeCorrect, PoolCorrect, PTL DEF IInv

\* The field room of a client never dangles: whatever rooms are created,
\* left and closed, it names an open room that has the client in a slot.
THEOREM PointersNeverDangle == Spec => []RoomPointersValid
<1>1. IInv => RoomPointersValid
  BY DEF IInv, RoomInv
<1> QED
  BY <1>1, Invariance, PTL

\* No room lists a client twice.
THEOREM NoDuplicateSlots == Spec => []OneSlotPerRoom
<1>1. IInv => OneSlotPerRoom
  BY DEF IInv, RoomInv
<1> QED
  BY <1>1, Invariance, PTL

\* A room that exists has its owner in a slot.
THEOREM RoomsAreOwned == Spec => []OwnerHasSlot
<1>1. IInv => OwnerHasSlot
  BY DEF IInv, RoomInv
<1> QED
  BY <1>1, Invariance, PTL

\* Whoever is in a room has a name to serialise.
THEOREM InsideHaveNames == Spec => []InsideIsLoggedIn
<1>1. IInv => InsideIsLoggedIn
  BY DEF IInv, RoomInv
<1> QED
  BY <1>1, Invariance, PTL

-----------------------------------------------------------------------------
(* The count of a room.                                                    *)

LEMMA OccupiedFinite ==
  ASSUME NEW rm
  PROVE  IsFiniteSet(Occupied(rm)) /\ Cardinality(Occupied(rm)) \in Nat
<1>1. 0 \in Int /\ MAX_CLIENTS_PER_ROOM - 1 \in Int
  BY RoomAssumption
<1>2. IsFiniteSet(Slot)
  BY <1>1, FS_Interval DEF Slot
<1>3. Occupied(rm) \subseteq Slot
  BY DEF Occupied
<1> QED
  BY <1>2, <1>3, FS_Subset, FS_CardinalityType

LEMMA CountStep ==
  ASSUME TypeOK, CountIsOccupancy, [Next]_vars
  PROVE  CountIsOccupancy'
<1>1. RoomTypeOK /\ live \subseteq Client
  BY DEF TypeOK, ClientTypeOK
<1>2. ASSUME NEW c \in live, CreateStep(c) PROVE CountIsOccupancy'
  <2>1. counter_room < MaxRooms /\ room_create(c) /\ c \in Client
    BY <1>1, <1>2 DEF CreateStep
  <2>2. PICK i \in Slot, n \in RoomRecord :
          /\ n.clientsCount = 1 /\ Occupied(n) = {i}
          /\ counter_room \in RoomId
          /\ gRooms' = [gRooms EXCEPT ![counter_room] = n]
    BY <1>1, <2>1, CreatedRoomFacts
  <2>3. n.clientsCount = Cardinality(Occupied(n))
    BY <2>2, FS_Singleton
  <2> QED
    BY <1>1, <2>2, <2>3 DEF CountIsOccupancy, Open, RoomTypeOK
<1>3. ASSUME NEW r \in RoomId, NEW d \in Client, JoinStep(r, d) PROVE CountIsOccupancy'
  <2>1. r \in Open /\ room_add_client(r, d)
    BY <1>3 DEF JoinStep
  <2>2. CASE UNCHANGED roomVars
    BY <2>2 DEF CountIsOccupancy, roomVars, Open
  <2>3. ASSUME NEW i \in Slot, NEW n \in RoomRecord, FillsSlot(r, d, i, n)
        PROVE  CountIsOccupancy'
    <3> USE DEF FillsSlot
    <3>1. Cardinality(Occupied(n)) = Cardinality(Occupied(gRooms[r])) + 1
      <4>1. IsFiniteSet(Occupied(gRooms[r])) /\ i \notin Occupied(gRooms[r])
        BY <2>3, OccupiedFinite
      <4>2. Occupied(n) = Occupied(gRooms[r]) \cup {i}
        BY <2>3
      <4> HIDE DEF FillsSlot
      <4> QED
        BY <4>1, <4>2, FS_AddElement, ZenonT(30)
    <3>2. n.clientsCount = Cardinality(Occupied(n))
      BY <2>1, <2>3, <3>1 DEF CountIsOccupancy
    <3> QED
      BY <1>1, <2>3, <3>2 DEF CountIsOccupancy, Open, RoomTypeOK
  <2> QED
    BY <1>1, <2>1, <2>2, <2>3, JoinedRoomFacts
<1>4. ASSUME NEW c \in live, QuitStep(c) PROVE CountIsOccupancy'
  <2> DEFINE r == room[c]
  <2>1. r \in Open /\ room_remove_client(r, c) /\ c \in Client
    BY <1>1, <1>4 DEF QuitStep
  <2> HIDE DEF r
  <2>2. CASE gRooms' = gRooms
    BY <2>2 DEF CountIsOccupancy, Open
  <2>3. ASSUME NEW i \in Slot, NEW n \in RoomRecord, EmptiesSlot(r, c, i, n)
        PROVE  CountIsOccupancy'
    <3> USE DEF EmptiesSlot
    <3>1. Cardinality(Occupied(n)) = Cardinality(Occupied(gRooms[r])) - 1
      BY <2>3, OccupiedFinite, FS_RemoveElement
    <3>2. n.clientsCount = Cardinality(Occupied(n))
      BY <2>1, <2>3, <3>1 DEF CountIsOccupancy
    <3> QED
      BY <1>1, <2>3, <3>2 DEF CountIsOccupancy, Open, RoomTypeOK
  <2> QED
    BY <1>1, <2>1, <2>2, <2>3, LeftRoomFacts
<1>5. ASSUME NEW c \in live, CloseStep(c) PROVE CountIsOccupancy'
  BY <1>1, <1>5 DEF CloseStep, room_close, CountIsOccupancy, Open, RoomTypeOK
<1>6. ASSUME NEW c \in Client, AcceptStep(c) PROVE CountIsOccupancy'
  BY <1>6 DEF AcceptStep, CountIsOccupancy, Open
<1>7. ASSUME OtherStep PROVE CountIsOccupancy'
  BY <1>7 DEF OtherStep, CountIsOccupancy, Open, roomVars
<1> QED
  BY <1>2, <1>3, <1>4, <1>5, <1>6, <1>7, StepKinds

\* The count room_is_full and the room list read is exact between handlers.
THEOREM CountCorrect == Spec => []CountIsOccupancy
<1>1. Init => CountIsOccupancy
  BY RoomAssumption DEF Init, RoomInit, CountIsOccupancy, Open
<1>2. TypeOK /\ CountIsOccupancy /\ [Next]_vars => CountIsOccupancy'
  BY CountStep
<1> QED
  BY <1>1, <1>2, TypeCorrect, PTL DEF Spec

-----------------------------------------------------------------------------
(* Action properties.                                                      *)

\* A step that is not the closing of a room keeps every open room, and no
\* step fills the entry of an id given out before.
LEMMA RoomFate ==
  ASSUME TypeOK, [Next]_vars
  PROVE  /\ \A r \in RoomId : r < counter_room /\ gRooms[r] = NULL => gRooms'[r] = NULL
         /\ \/ \A r \in Open : gRooms'[r] # NULL
            \/ \E c \in live : CloseStep(c)
<1> DEFINE Final == \A r \in RoomId : r < counter_room /\ gRooms[r] = NULL => gRooms'[r] = NULL
           Kept == \A r \in Open : gRooms'[r] # NULL
<1>1. RoomTypeOK /\ live \subseteq Client
  BY DEF TypeOK, ClientTypeOK
<1>2. ASSUME NEW c \in live, CreateStep(c) PROVE Final /\ Kept
  <2>1. counter_room < MaxRooms /\ room_create(c) /\ c \in Client
    BY <1>1, <1>2 DEF CreateStep
  <2>2. PICK n \in RoomRecord :
          n # NULL /\ gRooms' = [gRooms EXCEPT ![counter_room] = n]
    BY <1>1, <2>1, CreatedRoomFacts
  <2> QED
    BY <1>1, <2>2 DEF Open, RoomTypeOK, RoomId
<1>3. ASSUME NEW r \in RoomId, NEW d \in Client, JoinStep(r, d) PROVE Final /\ Kept
  <2>1. r \in Open /\ room_add_client(r, d)
    BY <1>3 DEF JoinStep
  <2>2. \/ UNCHANGED roomVars
        \/ \E n \in RoomRecord : n # NULL /\ gRooms' = [gRooms EXCEPT ![r] = n]
    <3>1. ASSUME NEW i \in Slot, NEW n \in RoomRecord, FillsSlot(r, d, i, n)
          PROVE  \E m \in RoomRecord : m # NULL /\ gRooms' = [gRooms EXCEPT ![r] = m]
      BY <3>1 DEF FillsSlot
    <3> QED
      BY <1>1, <2>1, <3>1, JoinedRoomFacts
  <2> QED
    BY <1>1, <2>1, <2>2 DEF Open, RoomTypeOK, roomVars
<1>4. ASSUME NEW c \in live, QuitStep(c) PROVE Final /\ Kept
  <2>1. room[c] \in Open /\ room_remove_client(room[c], c) /\ c \in Client
    BY <1>1, <1>4 DEF QuitStep
  <2>2. \/ gRooms' = gRooms
        \/ \E n \in RoomRecord : n # NULL /\ gRooms' = [gRooms EXCEPT ![room[c]] = n]
    BY <1>1, <2>1, LeftRoomFacts DEF EmptiesSlot
  <2> QED
    BY <1>1, <2>1, <2>2 DEF Open, RoomTypeOK
<1>5. ASSUME NEW c \in live, CloseStep(c) PROVE Final
  BY <1>1, <1>5 DEF CloseStep, room_close, RoomTypeOK, Open
<1>6. ASSUME NEW c \in Client, AcceptStep(c) PROVE Final /\ Kept
  BY <1>6 DEF AcceptStep, Open
<1>7. ASSUME OtherStep PROVE Final /\ Kept
  BY <1>7 DEF OtherStep, roomVars, Open
<1> QED
  BY <1>2, <1>3, <1>4, <1>5, <1>6, <1>7, StepKinds

\* Ids of closed rooms stay closed.
THEOREM IdsAreFinal == Spec => RoomIdsAreFinal
<1>1. TypeOK /\ [Next]_vars =>
        [\A r \in RoomId : r < counter_room /\ gRooms[r] = NULL => gRooms'[r] = NULL]_vars
  BY RoomFate
<1> QED
  BY <1>1, TypeCorrect, PTL DEF Spec, RoomIdsAreFinal

\* Closing a room tells everybody in it and puts everybody out of it.
THEOREM ClosingIsComplete == Spec => CloseReachesEveryone
<1> DEFINE A == \A r \in Open : gRooms'[r] = NULL =>
                  \A c \in Client : room[c] = r =>
                    /\ room'[c] = NULL
                    /\ [to |-> c, tag |-> "RoomClosed", about |-> NULL] \in sent'
<1>1. IInv /\ [Next]_vars => A
  <2> SUFFICES ASSUME IInv, [Next]_vars, NEW r \in Open, gRooms'[r] = NULL,
                      NEW c \in Client, room[c] = r
               PROVE  /\ room'[c] = NULL
                      /\ [to |-> c, tag |-> "RoomClosed", about |-> NULL] \in sent'
    OBVIOUS
  <2>1. TypeOK /\ RoomTypeOK /\ r \in RoomId /\ r # NULL
    BY RoomAssumption DEF IInv, TypeOK, Open
  <2>2. c \in live /\ c \in Members(gRooms[r])
    BY <2>1 DEF IInv, RoomInv, RoomPointersValid
  <2>3. PICK d \in live : CloseStep(d)
    BY <2>1, RoomFate
  <2>4. r = room[d]
    BY <2>1, <2>3 DEF CloseStep, room_close, RoomTypeOK, Open
  <2> QED
    BY <2>2, <2>3, <2>4 DEF CloseStep, room_close, Send
<1> HIDE DEF A
<1>2. IInv /\ [Next]_vars => [A]_vars
  BY <1>1
<1>3. Spec => [][A]_vars
  BY <1>2, Invariance, PTL DEF Spec
<1> QED
  BY <1>3 DEF A, CloseReachesEveryone
=============================================================================
