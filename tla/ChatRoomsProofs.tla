-------------------------- MODULE ChatRoomsProofs ---------------------------
(***************************************************************************)
(* What chat reaches, and the implementation of ChatRooms by clients that  *)
(* leave a room before they create another, for any sets of addresses and  *)
(* users and any length of the arrays.                                     *)
(***************************************************************************)
EXTENDS ChatServerProofs

-----------------------------------------------------------------------------
(* Chat.                                                                   *)

LEMMA SendTag ==
  ASSUME NEW S, NEW tag, NEW about, Send(S, tag, about)
  PROVE  \A m \in sent' : m.tag = tag
BY DEF Send

\* Only handle_message_received_tag sends chat.
LEMMA ChatSteps ==
  ASSUME [Next]_vars
  PROVE  \/ UNCHANGED vars
         \/ \E c \in live : handle_message_received_tag(c) /\ room[c] \in Open
                             /\ Send(Members(gRooms[room[c]]), "MessageReceived", c)
                             /\ OnlySends
         \/ \A m \in sent' : m.tag # "MessageReceived"
<1> DEFINE Silent == \A m \in sent' : m.tag # "MessageReceived"
<1>1. ASSUME NEW c \in Client, accept_client(c) PROVE Silent
  BY <1>1 DEF accept_client
<1>2. ASSUME Halt PROVE Silent
  BY <1>2 DEF Halt
<1>3. ASSUME NEW c \in live, LeaveRoom(c) PROVE Silent
  BY <1>3, SendTag DEF LeaveRoom, NoRoomToLeave, CloseRoom, QuitRoom
<1>4. ASSUME NEW c \in live, client_exit(c) PROVE Silent
  BY <1>2, <1>3, <1>4 DEF client_exit
<1>5. ASSUME NEW c \in live, on_message_received(c), ~handle_message_received_tag(c)
      PROVE  Silent
  <2>1. CASE handle_create_room_tag(c)
    BY <1>2, <2>1, SendTag DEF handle_create_room_tag
  <2>2. CASE handle_request_rooms_tag(c)
    BY <1>2, <2>2, SendTag DEF handle_request_rooms_tag
  <2>3. CASE \E r \in RoomId : handle_join_room_requested_tag(c, r)
    BY <1>2, <2>3, SendTag DEF handle_join_room_requested_tag
  <2>4. CASE \E u \in User, r \in RoomId : handle_join_room_accepted_tag(c, u, r)
    BY <1>2, <2>4, SendTag DEF handle_join_room_accepted_tag
  <2>5. CASE \E u \in User : handle_join_room_refused_tag(c, u)
    BY <1>2, <2>5, SendTag DEF handle_join_room_refused_tag
  <2>6. CASE handle_leave_room_tag(c)
    BY <1>2, <1>3, <2>6 DEF handle_leave_room_tag
  <2>7. CASE \E u \in User : handle_sign_up_tag(c, u)
    BY <1>2, <2>7, SendTag DEF handle_sign_up_tag
  <2>8. CASE \E u \in User : handle_sign_in_tag(c, u)
    BY <1>2, <2>8, SendTag DEF handle_sign_in_tag
  <2> QED
    BY <1>5, <2>1, <2>2, <2>3, <2>4, <2>5, <2>6, <2>7, <2>8 DEF on_message_received
<1>6. ASSUME NEW c \in live, handle_message_received_tag(c)
      PROVE  \/ Silent
             \/ /\ room[c] \in Open /\ OnlySends
                /\ Send(Members(gRooms[room[c]]), "MessageReceived", c)
  BY <1>2, <1>6 DEF handle_message_received_tag
<1> QED
  BY <1>1, <1>4, <1>5, <1>6 DEF Next

\* A message said in a room reaches everybody who is in it: the loop over the
\* slots misses nobody, because whoever points to the room has a slot.
THEOREM ChatReachesRoom == Spec => []MessageReachesRoom
<1>1. Init => MessageReachesRoom
  BY DEF Init, MessageReachesRoom
<1>2. IInv /\ MessageReachesRoom /\ [Next]_vars => MessageReachesRoom'
  <2> SUFFICES ASSUME IInv, MessageReachesRoom, [Next]_vars PROVE MessageReachesRoom'
    OBVIOUS
  <2>1. CASE UNCHANGED vars
    BY <2>1 DEF vars, roomVars, MessageReachesRoom
  <2>2. CASE \A m \in sent' : m.tag # "MessageReceived"
    BY <2>2 DEF MessageReachesRoom
  <2>3. ASSUME NEW c \in live, room[c] \in Open, OnlySends,
               Send(Members(gRooms[room[c]]), "MessageReceived", c)
        PROVE  MessageReachesRoom'
    <3>1. room' = room
      BY <2>3 DEF OnlySends, roomVars
    <3>2. \A d \in Client : room[d] = room[c] => d \in Members(gRooms[room[c]]) \cap live
      BY <2>3, RoomAssumption DEF IInv, RoomInv, RoomPointersValid, Open
    <3>3. \A d \in Client : room[d] = room[c] =>
            [to |-> d, tag |-> "MessageReceived", about |-> c] \in sent'
      BY <2>3, <3>2 DEF Send
    <3>4. \A m \in sent' : m = [to |-> m.to, tag |-> "MessageReceived", about |-> c]
      BY <2>3 DEF Send
    <3> SUFFICES ASSUME NEW m \in sent', NEW d \in Client, room[d] = room[m.about]
                 PROVE  [m EXCEPT !.to = d] \in sent'
      BY <3>1 DEF MessageReachesRoom
    <3>5. m.about = c
      BY <3>4
    <3>6. [m EXCEPT !.to = d] = [to |-> d, tag |-> "MessageReceived", about |-> c]
      BY <3>4
    <3> QED
      BY <3>3, <3>5, <3>6
  <2> QED
    BY <2>1, <2>2, <2>3, ChatSteps
<1> QED
  BY <1>1, <1>2, Invariance, PTL DEF Spec

-----------------------------------------------------------------------------
(* Clients that leave first.                                               *)

\* The invariant under PoliteSpec: slots and pointers agree both ways.
PInv == IInv /\ SlotsAreTheInside

LEMMA InsideOnePlace ==
  ASSUME PInv, NEW r \in Open, NEW c \in Client
  PROVE  c \in Members(gRooms[r]) <=> room[c] = r
BY RoomAssumption DEF PInv, IInv, RoomInv, RoomPointersValid, SlotsAreTheInside,
     TypeOK, ClientTypeOK, Open

LEMMA PoliteCreate ==
  ASSUME PInv, LeavesFirst, NEW c \in live, CreateStep(c)
  PROVE  SlotsAreTheInside' /\ room[c] = NULL /\ (\E n \in RoomRecord :
           /\ n # NULL /\ n.owner = c /\ gRooms' = [gRooms EXCEPT ![counter_room] = n]
           /\ counter_room \in RoomId
           /\ room' = [room EXCEPT ![c] = counter_room]
           /\ counter_room' = counter_room + 1)
<1>1. /\ RoomTypeOK /\ live \subseteq Client /\ c \in Client
      /\ counter_room < MaxRooms /\ room_create(c) /\ live' = live
  BY DEF PInv, IInv, TypeOK, ClientTypeOK, CreateStep, clientVars
<1>2. PICK i \in Slot, n \in RoomRecord :
        /\ n # NULL /\ n.owner = c
        /\ Occupied(n) = {i} /\ Members(n) = {c}
        /\ counter_room \in RoomId
        /\ gRooms' = [gRooms EXCEPT ![counter_room] = n]
        /\ room' = [room EXCEPT ![c] = counter_room]
        /\ counter_room' = counter_room + 1
  BY <1>1, CreatedRoomFacts
<1>3. counter_room \notin Open
  BY <1>1, <1>2 DEF PInv, IInv, RoomInv, AheadIsEmpty, RoomTypeOK, Open
<1>4. counter_room # NULL /\ room'[c] = counter_room
  BY <1>1, <1>2, RoomAssumption DEF RoomTypeOK
<1>5. \A d \in Client : room[d] # counter_room
  BY <1>3, <1>4 DEF PInv, IInv, RoomInv, RoomPointersValid
<1>6. room[c] = NULL
  BY <1>1, <1>4, <1>5 DEF LeavesFirst
<1>7. /\ Open' = Open \cup {counter_room}
      /\ gRooms'[counter_room] = n
      /\ \A r \in Open : gRooms'[r] = gRooms[r]
  BY <1>1, <1>2, <1>3 DEF Open, RoomTypeOK
<1>8. SlotsAreTheInside'
  <2> SUFFICES ASSUME NEW r \in Open'
               PROVE  Members(gRooms'[r]) = {d \in live' : room'[d] = r}
    BY DEF SlotsAreTheInside
  <2>1. CASE r = counter_room
    BY <1>1, <1>2, <1>5, <1>7, <2>1 DEF RoomTypeOK
  <2>2. CASE r \in Open
    <3>1. Members(gRooms'[r]) = {d \in live : room[d] = r}
      BY <1>7, <2>2 DEF PInv, SlotsAreTheInside
    <3>2. c \notin {d \in live : room[d] = r} /\ r # counter_room
      BY <1>3, <1>6, <2>2, RoomAssumption DEF Open
    <3> QED
      BY <1>1, <1>2, <3>1, <3>2 DEF RoomTypeOK
  <2> QED
    BY <1>7, <2>1, <2>2
<1> QED
  BY <1>2, <1>6, <1>8

LEMMA PoliteJoin ==
  ASSUME PInv, NEW r \in RoomId, NEW d \in Client, JoinStep(r, d)
  PROVE  /\ SlotsAreTheInside'
         /\ \/ UNCHANGED roomVars
            \/ /\ Occupied(gRooms[r]) # Slot
               /\ room' = [room EXCEPT ![d] = r]
               /\ counter_room' = counter_room
               /\ \E n \in RoomRecord :
                    n # NULL /\ n.owner = gRooms[r].owner /\ gRooms' = [gRooms EXCEPT ![r] = n]
<1>1. /\ RoomTypeOK /\ r \in Open /\ room_add_client(r, d) /\ room[d] = NULL
      /\ live \subseteq Client /\ live' = live
  BY DEF PInv, IInv, TypeOK, ClientTypeOK, JoinStep, clientVars
<1>2. d \in live
  BY ClientAssumption DEF PInv, IInv, PoolIsLive, JoinStep
<1>3. CASE UNCHANGED roomVars
  BY <1>1, <1>3 DEF PInv, SlotsAreTheInside, roomVars, Open
<1>4. ASSUME NEW i \in Slot, NEW n \in RoomRecord, FillsSlot(r, d, i, n),
             room' = [room EXCEPT ![d] = r]
      PROVE  SlotsAreTheInside'
  <2>1. /\ Open' = Open /\ gRooms'[r] = n
        /\ \A q \in Open : q # r => gRooms'[q] = gRooms[q]
    BY <1>1, <1>4 DEF Open, RoomTypeOK, FillsSlot
  <2> SUFFICES ASSUME NEW q \in Open
               PROVE  Members(gRooms'[q]) = {e \in live : room'[e] = q}
    BY <1>1, <2>1 DEF SlotsAreTheInside
  <2>2. Members(gRooms[q]) = {e \in live : room[e] = q}
    BY DEF PInv, SlotsAreTheInside
  <2>3. CASE q = r
    BY <1>1, <1>2, <1>4, <2>1, <2>2, <2>3 DEF FillsSlot, RoomTypeOK
  <2>4. CASE q # r
    <3>1. q # NULL
      BY RoomAssumption DEF Open
    <3> QED
      BY <1>1, <1>4, <2>1, <2>2, <2>4, <3>1 DEF RoomTypeOK
  <2> QED
    BY <2>3, <2>4
<1>5. \/ UNCHANGED roomVars
      \/ /\ \E i \in Slot, n \in RoomRecord : FillsSlot(r, d, i, n)
         /\ room' = [room EXCEPT ![d] = r]
         /\ counter_room' = counter_room
         /\ Occupied(gRooms[r]) # Slot
  BY <1>1, JoinedRoomFacts
<1>6. CASE ~ UNCHANGED roomVars
  <2>1. PICK i \in Slot, n \in RoomRecord : FillsSlot(r, d, i, n)
    BY <1>5, <1>6
  <2>2. SlotsAreTheInside'
    BY <1>4, <1>5, <1>6, <2>1
  <2>3. n # NULL /\ n.owner = gRooms[r].owner /\ gRooms' = [gRooms EXCEPT ![r] = n]
    BY <2>1 DEF FillsSlot
  <2> QED
    BY <1>5, <1>6, <2>2, <2>3
<1> QED
  BY <1>3, <1>6

LEMMA PoliteQuit ==
  ASSUME PInv, NEW c \in live, QuitStep(c)
  PROVE  /\ SlotsAreTheInside'
         /\ room[c] \in Open /\ gRooms[room[c]].owner # c
         /\ room' = [room EXCEPT ![c] = NULL]
         /\ counter_room' = counter_room
         /\ \E n \in RoomRecord :
              /\ n # NULL /\ n.owner = gRooms[room[c]].owner
              /\ gRooms' = [gRooms EXCEPT ![room[c]] = n]
<1> DEFINE r == room[c]
<1>1. /\ RoomTypeOK /\ live \subseteq Client /\ c \in Client
      /\ r \in Open /\ room_remove_client(r, c)
      /\ gRooms[r].owner # c
      /\ live' \in {live, live \ {c}}
  BY DEF PInv, IInv, TypeOK, ClientTypeOK, QuitStep, IsOwner, StaysOrGoes, client_free, clientVars
<1>2. r = room[c] /\ c \in Members(gRooms[r]) /\ r # NULL
  BY <1>1, RoomAssumption, InsideOnePlace DEF Open
<1> HIDE DEF r
<1>3. room' = [room EXCEPT ![c] = NULL] /\ counter_room' = counter_room
  BY <1>1, LeftRoomFacts
<1>4. PICK i \in Slot, n \in RoomRecord : EmptiesSlot(r, c, i, n)
  BY <1>1, <1>2, LeftRoomFacts
<1>5. /\ Open' = Open /\ gRooms'[r] = n
      /\ \A q \in Open : q # r => gRooms'[q] = gRooms[q]
  BY <1>1, <1>4 DEF Open, RoomTypeOK, EmptiesSlot
<1>6. c \notin Members(n)
  <2>1. gRooms[r] \in RoomRecord
    BY <1>1 DEF RoomTypeOK, Open
  <2>2. \A j \in Occupied(n) : j \in Occupied(gRooms[r]) /\ j # i
                                /\ n.clients[j] = gRooms[r].clients[j]
    BY <1>4, <2>1 DEF EmptiesSlot, RoomRecord, Occupied
  <2> QED
    BY <1>1, <1>4, <2>2 DEF EmptiesSlot, Members, PInv, IInv, RoomInv, OneSlotPerRoom
<1>7. SlotsAreTheInside'
  <2> SUFFICES ASSUME NEW q \in Open
               PROVE  Members(gRooms'[q]) = {e \in live' : room'[e] = q}
    BY <1>5 DEF SlotsAreTheInside
  <2>1. Members(gRooms[q]) = {e \in live : room[e] = q} /\ q # NULL
    BY RoomAssumption DEF PInv, SlotsAreTheInside, Open
  <2>2. {e \in live' : room'[e] = q} = {e \in live : room[e] = q} \ {c}
    BY <1>1, <1>3, <2>1 DEF RoomTypeOK
  <2>3. CASE q = r
    BY <1>4, <1>5, <1>6, <2>1, <2>2, <2>3 DEF EmptiesSlot
  <2>4. CASE q # r
    BY <1>2, <1>5, <2>1, <2>2, <2>4
  <2> QED
    BY <2>3, <2>4
<1> QED
  BY <1>1, <1>2, <1>3, <1>4, <1>7 DEF EmptiesSlot

LEMMA PoliteClose ==
  ASSUME PInv, NEW c \in live, CloseStep(c)
  PROVE  /\ SlotsAreTheInside'
         /\ room[c] \in Open
         /\ room' = [d \in Client |-> IF room[d] = room[c] THEN NULL ELSE room[d]]
         /\ counter_room' = counter_room
         /\ gRooms' = [gRooms EXCEPT ![room[c]] = NULL]
<1> DEFINE r == room[c]
<1>1. /\ RoomTypeOK /\ live \subseteq Client /\ c \in Client
      /\ r \in Open /\ room_close(r, c)
      /\ live' \in {live, live \ {c}}
  BY DEF PInv, IInv, TypeOK, ClientTypeOK, CloseStep, StaysOrGoes, client_free, clientVars
<1>2. r = room[c] /\ r # NULL
  BY <1>1, RoomAssumption DEF Open
<1> HIDE DEF r
<1>3. \A d \in Client : d \in Members(gRooms[r]) \cup {c} <=> room[d] = r
  BY <1>1, <1>2, InsideOnePlace
<1>4. /\ counter_room' = counter_room
      /\ room' = [d \in Client |-> IF room[d] = r THEN NULL ELSE room[d]]
      /\ gRooms' = [gRooms EXCEPT ![r] = NULL]
  BY <1>1, <1>3 DEF room_close
<1>5. Open' = Open \ {r} /\ \A q \in Open' : gRooms'[q] = gRooms[q]
  BY <1>1, <1>4 DEF Open, RoomTypeOK
<1>6. SlotsAreTheInside'
  <2> SUFFICES ASSUME NEW q \in Open, q # r
               PROVE  Members(gRooms'[q]) = {e \in live' : room'[e] = q}
    BY <1>5 DEF SlotsAreTheInside
  <2>1. Members(gRooms'[q]) = {e \in live : room[e] = q} /\ q # NULL
    BY <1>5, RoomAssumption DEF PInv, SlotsAreTheInside, Open
  <2> QED
    BY <1>1, <1>2, <1>4, <2>1
<1> QED
  BY <1>1, <1>2, <1>4, <1>6

LEMMA PoliteAccept ==
  ASSUME PInv, NEW c \in Client, AcceptStep(c)
  PROVE  SlotsAreTheInside' /\ UNCHANGED roomVars
<1>1. /\ RoomTypeOK /\ c \notin live /\ live' = live \cup {c}
      /\ room' = [room EXCEPT ![c] = NULL]
      /\ gRooms' = gRooms /\ counter_room' = counter_room
  BY DEF PInv, IInv, TypeOK, AcceptStep, client_create
<1>2. room[c] = NULL
  BY <1>1 DEF PInv, IInv, RoomInv, RoomPointersValid
<1>3. room' = room
  BY <1>1, <1>2 DEF RoomTypeOK
<1>4. \A q \in Open : q # NULL
  BY RoomAssumption DEF Open
<1> QED
  BY <1>1, <1>2, <1>3, <1>4 DEF PInv, SlotsAreTheInside, Open, roomVars

LEMMA PoliteOther ==
  ASSUME PInv, OtherStep
  PROVE  SlotsAreTheInside' /\ UNCHANGED roomVars
<1>1. UNCHANGED roomVars
  BY DEF OtherStep
<1>2. \A c \in Client : room[c] # NULL => (c \in live <=> c \in live')
  BY DEF OtherStep, client_free, clientVars
<1>3. \A q \in Open : q # NULL
  BY RoomAssumption DEF Open
<1>4. live \subseteq Client /\ live' \subseteq Client
  BY DEF PInv, IInv, TypeOK, ClientTypeOK, OtherStep, client_free, clientVars
<1> QED
  BY <1>1, <1>2, <1>3, <1>4 DEF PInv, SlotsAreTheInside, Open, roomVars

LEMMA PoliteStep ==
  ASSUME PInv, [Next /\ LeavesFirst]_vars
  PROVE  SlotsAreTheInside'
<1>1. CASE UNCHANGED vars
  BY <1>1 DEF vars, clientVars, roomVars, PInv, SlotsAreTheInside, Open
<1>2. CASE Next /\ LeavesFirst
  <2>1. TypeOK
    BY DEF PInv, IInv
  <2> QED
    BY <1>2, <2>1, StepKinds, PoliteCreate, PoliteJoin, PoliteQuit, PoliteClose,
       PoliteAccept, PoliteOther
<1> QED
  BY <1>1, <1>2

LEMMA PoliteIsSpec == PoliteSpec => Spec
<1>1. [Next /\ LeavesFirst]_vars => [Next]_vars
  OBVIOUS
<1> QED
  BY <1>1, PTL DEF PoliteSpec, Spec

\* Under PoliteSpec a room's slots hold exactly the connected clients that point
\* to it: no slot is left with the address of a freed client_t.
THEOREM SlotsMatch == PoliteSpec => []SlotsAreTheInside
<1>1. Init => SlotsAreTheInside
  BY RoomAssumption DEF Init, RoomInit, SlotsAreTheInside, Open
<1>2. IInv /\ SlotsAreTheInside /\ [Next /\ LeavesFirst]_vars => SlotsAreTheInside'
  BY PoliteStep DEF PInv
<1> QED
  BY <1>1, <1>2, PoliteIsSpec, Invariance, PTL DEF PoliteSpec

\* Under PoliteSpec chat goes to those in the sender's room only.
THEOREM ChatStaysInside == PoliteSpec => []ChatOnlyWithPresent
<1>1. Init => ChatOnlyWithPresent
  BY DEF Init, ChatOnlyWithPresent
<1>2. IInv /\ SlotsAreTheInside /\ ChatOnlyWithPresent /\ [Next]_vars => ChatOnlyWithPresent'
  <2> SUFFICES ASSUME PInv, ChatOnlyWithPresent, [Next]_vars PROVE ChatOnlyWithPresent'
    BY DEF PInv
  <2>1. CASE UNCHANGED vars
    BY <2>1 DEF vars, roomVars, ChatOnlyWithPresent
  <2>2. CASE \A m \in sent' : m.tag # "MessageReceived"
    BY <2>2 DEF ChatOnlyWithPresent
  <2>3. ASSUME NEW c \in live, room[c] \in Open, OnlySends,
               Send(Members(gRooms[room[c]]), "MessageReceived", c)
        PROVE  ChatOnlyWithPresent'
    <3>1. room' = room
      BY <2>3 DEF OnlySends, roomVars
    <3>2. \A m \in sent' : m.about = c /\ m.to \in Members(gRooms[room[c]])
      BY <2>3 DEF Send
    <3>3. \A d \in Members(gRooms[room[c]]) : room[d] = room[c]
      BY <2>3 DEF PInv, SlotsAreTheInside
    <3> QED
      BY <3>1, <3>2, <3>3 DEF ChatOnlyWithPresent
  <2> QED
    BY <2>1, <2>2, <2>3, ChatSteps
<1> QED
  BY <1>1, <1>2, SlotsMatch, PoliteIsSpec, Invariance, PTL DEF Spec

-----------------------------------------------------------------------------
(* The implementation of ChatRooms.                                        *)

\* The abstract host of each room.
Host == [r \in RoomId |-> IF r \in Open THEN gRooms[r].owner ELSE NULL]

\* A room with an empty slot is not at its capacity in the abstract.
LEMMA RoomLeft ==
  ASSUME PInv, NEW r \in Open, Occupied(gRooms[r]) # Slot
  PROVE  Cardinality({c \in Client : room[c] = r}) < MAX_CLIENTS_PER_ROOM
<1> DEFINE In == {c \in Client : room[c] = r}
           Occ == Occupied(gRooms[r])
<1>1. 0 \in Int /\ MAX_CLIENTS_PER_ROOM - 1 \in Int /\ 0 <= MAX_CLIENTS_PER_ROOM - 1
      /\ MAX_CLIENTS_PER_ROOM \in Int
  BY RoomAssumption
<1>2. IsFiniteSet(Slot) /\ Cardinality(Slot) = MAX_CLIENTS_PER_ROOM
  BY <1>1, FS_Interval DEF Slot
<1>3. Occ \subseteq Slot /\ Occ # Slot
  BY DEF Occupied
<1>4. IsFiniteSet(Occ) /\ Cardinality(Occ) < Cardinality(Slot)
  <2>1. IsFiniteSet(Occ) /\ Cardinality(Occ) <= Cardinality(Slot) /\ Cardinality(Occ) # Cardinality(Slot)
    BY <1>2, <1>3, FS_Subset
  <2>2. Cardinality(Occ) \in Nat
    BY <2>1, FS_CardinalityType
  <2> QED
    BY <1>1, <1>2, <2>1, <2>2
<1>5. In = Members(gRooms[r])
  <2>1. Members(gRooms[r]) \subseteq Client
    BY DEF PInv, IInv, TypeOK, ClientTypeOK, SlotsAreTheInside
  <2> QED
    BY <2>1, InsideOnePlace
<1>6. In = {gRooms[r].clients[i] : i \in Occ}
  BY <1>5 DEF Members
<1>7. IsFiniteSet(In) /\ Cardinality(In) <= Cardinality(Occ)
  <2> DEFINE f == [i \in Occ |-> gRooms[r].clients[i]]
  <2>1. f \in Surjection(Occ, In)
    BY <1>6 DEF Surjection
  <2> QED
    BY <1>4, <2>1, FS_Surjection
<1>8. Cardinality(In) \in Nat /\ Cardinality(Occ) \in Nat
  BY <1>4, <1>7, FS_CardinalityType
<1> QED
  BY <1>1, <1>2, <1>4, <1>7, <1>8

LEMMA HostFacts ==
  ASSUME PInv
  PROVE  \A r \in Open : r \in RoomId /\ Host[r] = gRooms[r].owner /\ Host[r] # NULL
                          /\ Host[r] \in Client
<1> SUFFICES ASSUME NEW r \in Open
             PROVE  r \in RoomId /\ Host[r] = gRooms[r].owner /\ Host[r] # NULL /\ Host[r] \in Client
  OBVIOUS
<1>1. gRooms[r].owner \in Client
  BY DEF PInv, IInv, RoomInv, OwnerHasSlot, SlotsAreTheInside, TypeOK, ClientTypeOK
<1> QED
  BY <1>1, ClientAssumption DEF Host, Open

\* Every step of a polite execution is a step of the abstract rooms or none.
LEMMA RefinementStep ==
  ASSUME PInv, [Next /\ LeavesFirst]_vars
  PROVE  [Rooms!Next]_(Rooms!vars)
<1> USE DEF Host
<1>1. TypeOK /\ RoomTypeOK
  BY DEF PInv, IInv, TypeOK
<1>2. CASE UNCHANGED roomVars
  BY <1>2 DEF roomVars, Rooms!vars, Open
<1>3. ASSUME NEW c \in live, CreateStep(c), LeavesFirst
      PROVE  Rooms!Next
  <2>1. c \in Client
    BY <1>1 DEF TypeOK, ClientTypeOK
  <2>2. PICK n \in RoomRecord :
           /\ room[c] = NULL
           /\ n # NULL /\ n.owner = c /\ gRooms' = [gRooms EXCEPT ![counter_room] = n]
           /\ counter_room \in RoomId
           /\ room' = [room EXCEPT ![c] = counter_room]
           /\ counter_room' = counter_room + 1
    BY <1>3, PoliteCreate
  <2>3. Host' = [Host EXCEPT ![counter_room] = c]
    BY <1>1, <2>2 DEF Open, RoomTypeOK
  <2>4. Rooms!Create(c)
    BY <2>2, <2>3 DEF Rooms!Create
  <2> QED
    BY <2>1, <2>4 DEF Rooms!Next
<1>4. ASSUME NEW r \in RoomId, NEW d \in Client, JoinStep(r, d)
      PROVE  UNCHANGED roomVars \/ Rooms!Next
  <2>1. r \in Open /\ room[d] = NULL
    BY <1>4 DEF JoinStep
  <2>2. SUFFICES ASSUME ~UNCHANGED roomVars PROVE Rooms!Next
    OBVIOUS
  <2>3. PICK n \in RoomRecord :
          /\ Occupied(gRooms[r]) # Slot
          /\ room' = [room EXCEPT ![d] = r]
          /\ counter_room' = counter_room
          /\ n # NULL /\ n.owner = gRooms[r].owner /\ gRooms' = [gRooms EXCEPT ![r] = n]
    BY <1>4, <2>2, PoliteJoin
  <2>4. Host' = Host
    BY <1>1, <2>1, <2>3 DEF Open, RoomTypeOK
  <2>5. Cardinality({e \in Client : room[e] = r}) < MAX_CLIENTS_PER_ROOM
    BY <2>1, <2>3, RoomLeft
  <2>6. Host[r] # NULL
    BY <2>1, HostFacts
  <2>7. Rooms!Join(d, r)
    <3>1. Rooms!Inside(r) = {e \in Client : room[e] = r}
      BY DEF Rooms!Inside
    <3>2. Rooms!Cardinality(Rooms!Inside(r)) < MAX_CLIENTS_PER_ROOM
      BY <2>5, <3>1 DEF Cardinality, Rooms!Cardinality
    <3> QED
      BY <2>1, <2>3, <2>4, <2>6, <3>2 DEF Rooms!Join
  <2> QED
    BY <2>7 DEF Rooms!Next
<1>5. ASSUME NEW c \in live, QuitStep(c)
      PROVE  Rooms!Next
  <2>1. c \in Client
    BY <1>1 DEF TypeOK, ClientTypeOK
  <2>2. PICK n \in RoomRecord :
         /\ room[c] \in Open /\ gRooms[room[c]].owner # c
         /\ room' = [room EXCEPT ![c] = NULL]
         /\ counter_room' = counter_room
         /\ n # NULL /\ n.owner = gRooms[room[c]].owner
         /\ gRooms' = [gRooms EXCEPT ![room[c]] = n]
    BY <1>5, PoliteQuit
  <2>3. Host' = Host
    BY <1>1, <2>2 DEF Open, RoomTypeOK
  <2>4. Host[room[c]] # c /\ room[c] # NULL
    BY <2>2, HostFacts, RoomAssumption
  <2> QED
    BY <2>1, <2>2, <2>3, <2>4 DEF Rooms!Next, Rooms!Leave
<1>6. ASSUME NEW c \in live, CloseStep(c)
      PROVE  Rooms!Next
  <2>1. /\ room[c] \in Open
        /\ room' = [d \in Client |-> IF room[d] = room[c] THEN NULL ELSE room[d]]
        /\ counter_room' = counter_room
        /\ gRooms' = [gRooms EXCEPT ![room[c]] = NULL]
    BY <1>6, PoliteClose
  <2>2. Host' = [Host EXCEPT ![room[c]] = NULL]
    BY <1>1, <2>1 DEF Open, RoomTypeOK
  <2>3. Host[room[c]] # NULL /\ room[c] \in RoomId
    BY <2>1, HostFacts
  <2> QED
    BY <2>1, <2>2, <2>3 DEF Rooms!Next, Rooms!Close
<1>7. CASE UNCHANGED vars
  BY <1>2, <1>7 DEF vars
<1>8. CASE Next /\ LeavesFirst
  BY <1>1, <1>2, <1>3, <1>4, <1>5, <1>6, <1>8, StepKinds, PoliteAccept, PoliteOther
<1> QED
  BY <1>7, <1>8

\* Clients that leave a room before they create another see the abstract rooms:
\* one room each, at most Capacity in a room, a host that is inside, and a
\* closing that empties the room at once.
THEOREM Refinement == PoliteSpec => ImplementsChatRooms
<1>1. Init => Rooms!Init
  BY RoomAssumption DEF Init, RoomInit, Rooms!Init, Open
<1>2. IInv /\ SlotsAreTheInside /\ [Next /\ LeavesFirst]_vars => [Rooms!Next]_(Rooms!vars)
  BY RefinementStep DEF PInv
<1> QED
  BY <1>1, <1>2, SlotsMatch, PoliteIsSpec, Invariance, PTL
     DEF PoliteSpec, ImplementsChatRooms, Rooms!Spec
=============================================================================
