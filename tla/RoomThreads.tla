---------------------------- MODULE RoomThreads -----------------------------
(***************************************************************************)
(* room.c and the handlers of client.c as the threads of the server run    *)
(* them: one room, one thread per client, one step per access to what the  *)
(* threads share.                                                          *)
(*                                                                         *)
(* A client that is added has its slot looked for without the room's       *)
(* mutex; one that leaves has its slot looked for in one critical section  *)
(* and emptied in another; the closing of the room takes no lock at all.   *)
(* What no other thread can tell apart is one step: a short critical       *)
(* section, since the slots and the count are written in critical sections *)
(* only and no handler here reads both; and a write of client->room with   *)
(* the client's own mutex around it.  The mutex is held over several steps *)
(* by room_send_message, whose calls of send can block.                    *)
(*                                                                         *)
(* Each client is logged in as a user of its own, so that comparing user   *)
(* ids is comparing clients.  The variable running turns FALSE when a      *)
(* thread goes through a null pointer or uses the memory of the room after *)
(* it is freed; a use of a freed client_t may stop the server or pass.     *)
(***************************************************************************)
EXTENDS Integers, FiniteSets

CONSTANTS
  Client,                (* the clients; each has its thread               *)
  Owner,                 (* the client that created the room               *)
  NULL,                  (* the null pointer                               *)
  MAX_CLIENTS_PER_ROOM,  (* length of room_t.clients                       *)
  MaxRequests            (* bound: how many requests the clients send      *)

ASSUME ThreadsAssumption ==
  /\ IsFiniteSet(Client)
  /\ Owner \in Client
  /\ NULL \notin Client
  /\ MAX_CLIENTS_PER_ROOM \in Nat \ {0}
  /\ MaxRequests \in Nat

Slot    == 0 .. MAX_CLIENTS_PER_ROOM - 1
NoIndex == -1

VARIABLES
  clients,       (* room->clients                                          *)
  clientsCount,  (* room->clientsCount                                     *)
  mutex,         (* whose thread holds room->mutex, or NULL                *)
  allocated,     (* the room is in gRooms and its memory is not freed      *)
  inside,        (* the clients whose field room points to the room        *)
  gone,          (* the clients whose client_t has been freed              *)
  pc,            (* pc[t]: where the thread of t is                        *)
  subject,       (* subject[t]: the client it adds                         *)
  pos,           (* pos[t]: the variable of its loop over the slots        *)
  index,         (* index[t]: the slot its search has found                *)
  present,       (* present[t]: its search has met the subject             *)
  leaving,       (* the threads that end after the request they are in     *)
  requests,      (* how many requests have been sent                       *)
  running        (* the process is alive                                   *)

shared == <<clients, clientsCount, mutex, allocated, inside>>
local  == <<subject, pos, index, present, leaving>>
life   == <<gone, requests, running>>
vars   == <<shared, local, life, pc>>

Label == {"idle", "scan", "check", "store", "point", "send", "sending",
          "leave", "find", "clear", "unpoint",
          "close", "kick", "tell", "delete", "end"}

\* Among the types: no thread reads or writes outside the array of slots.
TypeOK ==
  /\ clients \in [Slot -> Client \cup {NULL}]
  /\ clientsCount \in Int
  /\ mutex \in Client \cup {NULL}
  /\ allocated \in BOOLEAN
  /\ inside \subseteq Client
  /\ gone \subseteq Client
  /\ pc \in [Client -> Label]
  /\ subject \in [Client -> Client]
  /\ pos \in [Client -> 0 .. MAX_CLIENTS_PER_ROOM]
  /\ index \in [Client -> Slot \cup {NoIndex}]
  /\ present \in [Client -> BOOLEAN]
  /\ leaving \subseteq Client
  /\ requests \in 0 .. MaxRequests
  /\ running \in BOOLEAN
  /\ \A t \in Client :
       /\ pc[t] \in {"scan", "close", "kick", "tell"} => pos[t] \in Slot
       /\ pc[t] \in {"store", "clear"} => index[t] \in Slot

Occupied == {i \in Slot : clients[i] # NULL}
Members  == {clients[i] : i \in Occupied}

\* The room that handle_create_room_tag leaves: its owner is in the last slot.
Init ==
  /\ clients = [i \in Slot |-> IF i = MAX_CLIENTS_PER_ROOM - 1 THEN Owner ELSE NULL]
  /\ clientsCount = 1
  /\ mutex = NULL
  /\ allocated = TRUE
  /\ inside = {Owner}
  /\ gone = {}
  /\ pc = [t \in Client |-> "idle"]
  /\ subject = [t \in Client |-> t]
  /\ pos = [t \in Client |-> 0]
  /\ index = [t \in Client |-> NoIndex]
  /\ present = [t \in Client |-> FALSE]
  /\ leaving = {}
  /\ requests = 0
  /\ running = TRUE

Goto(t, label) == pc' = [pc EXCEPT ![t] = label]

Crash ==
  /\ running' = FALSE
  /\ UNCHANGED <<shared, local, gone, requests, pc>>

\* Steps that use one of the clients of S may be the last.
Touch(S) == S \cap gone # {} /\ Crash

-----------------------------------------------------------------------------
(* Requests.  A thread is idle while it waits in read.                     *)

Request(t) ==
  /\ pc[t] = "idle"
  /\ t \notin gone
  /\ requests < MaxRequests
  /\ requests' = requests + 1
  /\ UNCHANGED <<shared, gone, running>>

\* handle_join_room_accepted_tag: d is connected and in no room, and the room
\* is still in gRooms.
RequestAccept(t, d) ==
  /\ Request(t)
  /\ d \notin gone \cup inside
  /\ allocated
  /\ subject' = [subject EXCEPT ![t] = d]
  /\ pos' = [pos EXCEPT ![t] = 0]
  /\ index' = [index EXCEPT ![t] = NoIndex]
  /\ present' = [present EXCEPT ![t] = FALSE]
  /\ Goto(t, "scan")
  /\ UNCHANGED leaving

\* handle_message_received_tag.
RequestMessage(t) ==
  /\ Request(t)
  /\ t \in inside
  /\ Goto(t, "send")
  /\ UNCHANGED local

\* handle_leave_room_tag; at the end of a connection the thread ends after it.
RequestLeave(t) ==
  /\ Request(t)
  /\ \/ t \in inside /\ Goto(t, "leave")
     \/ t \notin inside /\ Goto(t, "end")
  /\ leaving' \in {leaving, leaving \cup {t}}
  /\ UNCHANGED <<subject, pos, index, present>>

-----------------------------------------------------------------------------
(* room_add_client and room_send_message.                                  *)

\* Every slot is read by itself; the last empty one is kept.
Scan(t) ==
  /\ pc[t] = "scan"
  /\ index' = [index EXCEPT ![t] = IF clients[pos[t]] = NULL THEN pos[t] ELSE @]
  /\ present' = [present EXCEPT ![t] = @ \/ clients[pos[t]] = subject[t]]
  /\ pos' = [pos EXCEPT ![t] = @ + 1]
  /\ Goto(t, IF pos'[t] = MAX_CLIENTS_PER_ROOM THEN "check" ELSE "scan")
  /\ UNCHANGED <<shared, subject, leaving, life>>

\* Without a slot, or with the client in the room, the function returns and the
\* handler sends its notice all the same.  The client's field room is read
\* through only if the client was met.
Check(t) ==
  /\ pc[t] = "check"
  /\ \/ /\ index[t] = NoIndex \/ (present[t] /\ subject[t] \in inside)
        /\ Goto(t, "send")
        /\ UNCHANGED <<shared, local, life>>
     \/ /\ index[t] # NoIndex /\ ~present[t]
        /\ Goto(t, "store")
        /\ UNCHANGED <<shared, local, life>>
     \/ /\ index[t] # NoIndex /\ present[t] /\ subject[t] \notin inside
        /\ Crash

\* Mutant: the slot is filled and the count is not raised.
MutantStore(t) ==
  /\ pc[t] = "store"
  /\ mutex = NULL
  /\ clients' = [clients EXCEPT ![index[t]] = subject[t]]
  /\ Goto(t, "point")
  /\ UNCHANGED <<clientsCount, mutex, allocated, inside, local, life>>

\* The slot may have been filled by another thread since it was read.
Store(t) ==
  /\ pc[t] = "store"
  /\ mutex = NULL
  /\ clients' = [clients EXCEPT ![index[t]] = subject[t]]
  /\ clientsCount' = clientsCount + 1
  /\ Goto(t, "point")
  /\ UNCHANGED <<mutex, allocated, inside, local, life>>

\* client->room = room; the room itself is not used.
Point(t) ==
  /\ pc[t] = "point"
  /\ inside' = inside \cup {subject[t]}
  /\ Goto(t, "send")
  /\ UNCHANGED <<clients, clientsCount, mutex, allocated, local, life>>

Send(t) ==
  /\ pc[t] = "send"
  /\ mutex = NULL
  /\ mutex' = t
  /\ Goto(t, "sending")
  /\ UNCHANGED <<clients, clientsCount, allocated, inside, local, life>>

\* Mutant: the mutex is kept when the thread ends after the message.
MutantSending(t) ==
  /\ pc[t] = "sending"
  /\ mutex' = IF t \in leaving THEN mutex ELSE NULL
  /\ Goto(t, "end")
  /\ UNCHANGED <<clients, clientsCount, allocated, inside, local, life>>

\* The loop over the slots, which nobody else changes meanwhile, and unlock.
Sending(t) ==
  /\ pc[t] = "sending"
  /\ mutex' = NULL
  /\ Goto(t, "end")
  /\ UNCHANGED <<clients, clientsCount, allocated, inside, local, life>>

-----------------------------------------------------------------------------
(* handle_leave_room_tag and room_remove_client.                           *)

\* Mutant: whoever leaves, the room goes on.
MutantLeave(t) ==
  /\ pc[t] = "leave"
  /\ Goto(t, "find")
  /\ pos' = [pos EXCEPT ![t] = 0]
  /\ UNCHANGED <<shared, subject, index, present, leaving, life>>

Leave(t) ==
  /\ pc[t] = "leave"
  /\ Goto(t, IF t = Owner THEN "close" ELSE "find")
  /\ pos' = [pos EXCEPT ![t] = 0]
  /\ UNCHANGED <<shared, subject, index, present, leaving, life>>

\* client->room is read again: a closing may have cleared it.
FindNoRoom(t) ==
  /\ pc[t] = "find"
  /\ t \notin inside
  /\ Goto(t, "send")
  /\ UNCHANGED <<shared, local, life>>

\* A client that no slot holds only loses its pointer.
FindNoSlot(t) ==
  /\ pc[t] = "find"
  /\ t \in inside \ Members
  /\ mutex = NULL
  /\ inside' = inside \ {t}
  /\ Goto(t, "send")
  /\ UNCHANGED <<clients, clientsCount, mutex, allocated, local, life>>

Find(t) ==
  /\ pc[t] = "find"
  /\ t \in inside
  /\ mutex = NULL
  /\ \E i \in Slot :
       /\ clients[i] = t
       /\ \A j \in Slot : clients[j] = t => i <= j
       /\ index' = [index EXCEPT ![t] = i]
  /\ Goto(t, "clear")
  /\ UNCHANGED <<shared, subject, pos, present, leaving, life>>

\* Mutant: the slot found is emptied and the count is kept.
MutantClear(t) ==
  /\ pc[t] = "clear"
  /\ mutex = NULL
  /\ clients' = [clients EXCEPT ![index[t]] = NULL]
  /\ clientsCount' = clientsCount
  /\ Goto(t, "unpoint")
  /\ UNCHANGED <<mutex, allocated, inside, local, life>>

\* The slot may hold another client by now.
Clear(t) ==
  /\ pc[t] = "clear"
  /\ mutex = NULL
  /\ clients' = [clients EXCEPT ![index[t]] = NULL]
  /\ clientsCount' = clientsCount - 1
  /\ Goto(t, "unpoint")
  /\ UNCHANGED <<mutex, allocated, inside, local, life>>

\* Mutant: the pointer is not cleared.
MutantUnpoint(t) ==
  /\ pc[t] = "unpoint"
  /\ Goto(t, "send")
  /\ UNCHANGED <<shared, local, life>>

Unpoint(t) ==
  /\ pc[t] = "unpoint"
  /\ inside' = inside \ {t}
  /\ Goto(t, "send")
  /\ UNCHANGED <<clients, clientsCount, mutex, allocated, local, life>>

-----------------------------------------------------------------------------
(* The closing branch: room->clients[i] is read three times.               *)

\* Mutant: the loop runs one slot too far.
MutantNextSlot(t) ==
  /\ pos' = [pos EXCEPT ![t] = @ + 1]
  /\ Goto(t, IF pos[t] = MAX_CLIENTS_PER_ROOM THEN "delete" ELSE "close")
  /\ UNCHANGED <<subject, index, present, leaving>>

NextSlot(t) ==
  /\ pos' = [pos EXCEPT ![t] = @ + 1]
  /\ Goto(t, IF pos'[t] = MAX_CLIENTS_PER_ROOM THEN "delete" ELSE "close")
  /\ UNCHANGED <<subject, index, present, leaving>>

Close(t) ==
  /\ pc[t] = "close"
  /\ \/ clients[pos[t]] = NULL /\ NextSlot(t)
     \/ clients[pos[t]] # NULL /\ Goto(t, "kick") /\ UNCHANGED local
  /\ UNCHANGED <<shared, life>>

\* Mutant: the client is told and keeps its pointer.
MutantKick(t) ==
  /\ pc[t] = "kick"
  /\ Goto(t, "tell")
  /\ UNCHANGED <<shared, local, life>>

Kick(t) ==
  /\ pc[t] = "kick"
  /\ \/ /\ clients[pos[t]] # NULL
        /\ inside' = inside \ {clients[pos[t]]}
        /\ Goto(t, "tell")
        /\ UNCHANGED <<clients, clientsCount, mutex, allocated, local, life>>
     \/ clients[pos[t]] = NULL /\ Crash
     \/ Touch({clients[pos[t]]})

Tell(t) ==
  /\ pc[t] = "tell"
  /\ \/ clients[pos[t]] # NULL /\ NextSlot(t) /\ UNCHANGED <<shared, life>>
     \/ clients[pos[t]] = NULL /\ Crash
     \/ Touch({clients[pos[t]]})

\* client->room = NULL and room_delete.
Delete(t) ==
  /\ pc[t] = "delete"
  /\ inside' = inside \ {t}
  /\ allocated' = FALSE
  /\ Goto(t, "end")
  /\ UNCHANGED <<clients, clientsCount, mutex, local, life>>

\* Back to read, or, at the end of the connection, free(client).
End(t) ==
  /\ pc[t] = "end"
  /\ Goto(t, "idle")
  /\ gone' = IF t \in leaving THEN gone \cup {t} ELSE gone
  /\ UNCHANGED <<shared, local, requests, running>>

-----------------------------------------------------------------------------
UsesRoom == Label \ {"idle", "point", "unpoint", "end"}

\* The clients whose client_t a step reads or writes beside those named above.
Touched(t) ==
  CASE pc[t] = "scan"                -> {subject[t], clients[pos[t]]}
    [] pc[t] \in {"check", "point"}  -> {subject[t]}
    [] pc[t] = "sending"             -> Members
    [] OTHER                         -> {}

RoomStep(t) ==
  \/ Scan(t) \/ Check(t) \/ Store(t) \/ Send(t) \/ Sending(t)
  \/ Leave(t) \/ FindNoRoom(t) \/ FindNoSlot(t) \/ Find(t) \/ Clear(t)
  \/ Close(t) \/ Kick(t) \/ Tell(t) \/ Delete(t)

Step(t) ==
  /\ running
  /\ \/ allocated /\ RoomStep(t)
     \/ Point(t) \/ Unpoint(t) \/ End(t)
     \/ Touch(Touched(t))
     \/ pc[t] \in UsesRoom /\ ~allocated /\ Crash

\* The clients of Accepters answer join requests.
RequestsFrom(Accepters) ==
  /\ running
  /\ \/ \E t \in Accepters, d \in Client : RequestAccept(t, d)
     \/ \E t \in Client : RequestMessage(t) \/ RequestLeave(t)

\* No request is under way, or the server has stopped.
Rest ==
  /\ ~running \/ \A t \in Client : pc[t] = "idle"
  /\ UNCHANGED vars

NextWith(Accepters) ==
  \/ RequestsFrom(Accepters)
  \/ \E t \in Client : Step(t)
  \/ Rest

\* The operating system runs every thread that can go on, and a call of send
\* returns: clients read what they are sent.
Fairness == \A t \in Client : WF_vars(Step(t))

\* The server asks nobody whether it owns the room.
Next == NextWith(Client)
Spec == Init /\ [][Next]_vars /\ Fairness

\* Only the owner answers join requests.
OwnerNext == NextWith({Owner})
OwnerSpec == Init /\ [][OwnerNext]_vars /\ Fairness

-----------------------------------------------------------------------------
(* What holds whoever answers.                                             *)

\* Two threads that fill one slot make the count too high, never too low: a
\* room with an empty slot may look full, but the count of a room whose slots
\* are all taken is at its limit or past it.
CountCoversSlots ==
  running /\ allocated => Cardinality(Occupied) <= clientsCount

\* Every request comes to an end, unless the server stops: no thread waits for
\* ever for the room's mutex.
RequestsEnd ==
  \A t \in Client : pc[t] # "idle" ~> pc[t] = "idle" \/ ~running

-----------------------------------------------------------------------------
(* What holds when only the owner answers.                                 *)

\* The count is that of the slots in use at every moment, also while another
\* thread is between the search for its slot and the change of it.
CountIsExact ==
  running /\ allocated => clientsCount = Cardinality(Occupied)

Quiet == running /\ \A t \in Client : pc[t] = "idle"

\* Once the handlers have ended, a connected client points to the room exactly
\* if it has a slot, and a single one.
SlotsMatchPointers ==
  Quiet /\ allocated =>
    /\ Members \ gone = inside \ gone
    /\ \A i, j \in Occupied : clients[i] = clients[j] => i = j

\* client.c, "Close room and kick everyone": after the room is freed a client
\* that still points to it is about to leave.
ClosedIsEmpty ==
  running /\ ~allocated => \A c \in inside \ gone : pc[c] # "idle"

\* With only the owner answering, the handlers take effect one at a time: a
\* client joins when its field room is set, leaves when its slot is emptied, and
\* is put out by the loop; for want of a lock none of them is lost or done twice.
Staying == {c \in inside : pc[c] # "unpoint"}

Status ==
  IF ~allocated THEN "closed"
  ELSE IF pc[Owner] \in {"close", "kick", "tell", "delete"} THEN "closing" ELSE "open"

R == INSTANCE OneRoom WITH
       members <- Staying, status <- Status, Capacity <- MAX_CLIENTS_PER_ROOM

ImplementsOneRoom == R!Spec
=============================================================================
