------------------------- MODULE RoomThreadsProofs --------------------------
(***************************************************************************)
(* Theorems about the threads of a room, for any number of clients and of  *)
(* slots.  Whoever answers join requests: no access outside the array and  *)
(* no count that is too low.  If only the owner does: an exact count, slots *)
(* that agree with the pointers of the clients, a closing that puts        *)
(* everybody out, and the implementation of OneRoom.                       *)
(***************************************************************************)
EXTENDS RoomThreads, FiniteSetTheorems, TLAPS

\* The actions in which a thread leaves the shared state other than it was.
LEMMA Steps ==
  ASSUME [Next]_vars
  PROVE  \/ UNCHANGED vars
         \/ Crash
         \/ \E t \in Client : \/ \E d \in Client : RequestAccept(t, d)
                              \/ RequestMessage(t) \/ RequestLeave(t)
         \/ \E t \in Client : RoomStep(t) \/ Point(t) \/ Unpoint(t) \/ End(t)
BY DEF Next, NextWith, RequestsFrom, Step, Touch, Rest

-----------------------------------------------------------------------------
(* Types.                                                                  *)

LEMMA TypeOfRequests ==
  ASSUME TypeOK, NEW t \in Client, NEW d \in Client,
         RequestAccept(t, d) \/ RequestMessage(t) \/ RequestLeave(t)
  PROVE  TypeOK'
<1> USE ThreadsAssumption DEF Request, Goto, Label, Slot, NoIndex
<1>1. requests' \in 0 .. MaxRequests
  BY DEF RequestAccept, RequestMessage, RequestLeave, TypeOK
<1>2. CASE RequestAccept(t, d)
  BY <1>1, <1>2 DEF RequestAccept, TypeOK, shared
<1>3. CASE RequestMessage(t)
  BY <1>1, <1>3 DEF RequestMessage, TypeOK, shared, local
<1>4. CASE RequestLeave(t)
  <2>1. pc' \in [Client -> Label]
    BY <1>4 DEF RequestLeave, TypeOK
  <2>2. \A u \in Client : pc'[u] \in {"scan", "close", "kick", "tell", "store", "clear"} => pc'[u] = pc[u]
    BY <1>4 DEF RequestLeave, TypeOK
  <2>3. leaving' \subseteq Client
    BY <1>4 DEF RequestLeave, TypeOK
  <2> QED
    BY <1>1, <1>4, <2>1, <2>2, <2>3 DEF RequestLeave, TypeOK, shared
<1> QED
  BY <1>2, <1>3, <1>4

LEMMA TypeOfNextSlot ==
  ASSUME TypeOK, NEW t \in Client, NextSlot(t), pos[t] \in Slot,
         UNCHANGED <<shared, life>>
  PROVE  TypeOK'
<1> USE ThreadsAssumption DEF Slot, NoIndex, NextSlot
<1>1. /\ pos' \in [Client -> 0 .. MAX_CLIENTS_PER_ROOM]
      /\ pos'[t] = MAX_CLIENTS_PER_ROOM \/ pos'[t] \in Slot
      /\ \A u \in Client \ {t} : pos'[u] = pos[u]
  BY DEF TypeOK
<1>2. /\ pc' \in [Client -> Label]
      /\ pc'[t] = IF pos'[t] = MAX_CLIENTS_PER_ROOM THEN "delete" ELSE "close"
      /\ \A u \in Client \ {t} : pc'[u] = pc[u]
  BY DEF TypeOK, Goto, Label
<1>3. \A u \in Client :
        /\ pc'[u] \in {"scan", "close", "kick", "tell"} => pos'[u] \in Slot
        /\ pc'[u] \in {"store", "clear"} => index'[u] \in Slot
  BY <1>1, <1>2 DEF TypeOK
<1> QED
  BY <1>1, <1>2, <1>3 DEF TypeOK, shared, life

LEMMA TypeOfSteps ==
  ASSUME TypeOK, NEW t \in Client,
         RoomStep(t) \/ Point(t) \/ Unpoint(t) \/ End(t)
  PROVE  TypeOK'
<1> USE ThreadsAssumption DEF Goto, Label, Slot, NoIndex
<1>0. ASSUME Crash PROVE TypeOK'
  BY <1>0 DEF Crash, TypeOK, shared, local
<1>1. CASE Scan(t)
  BY <1>1 DEF Scan, TypeOK, shared, life
<1>2. CASE Check(t)
  <2>1. ASSUME Goto(t, "send") \/ (index[t] # NoIndex /\ Goto(t, "store")),
               UNCHANGED <<shared, local, life>>
        PROVE  TypeOK'
    <3>1. pc' \in [Client -> Label]
      BY <2>1 DEF TypeOK
    <3>2. /\ \A u \in Client \ {t} : pc'[u] = pc[u]
          /\ pc'[t] = "send" \/ (pc'[t] = "store" /\ index[t] \in Slot)
      BY <2>1 DEF TypeOK
    <3> QED
      BY <2>1, <3>1, <3>2 DEF TypeOK, shared, local, life
  <2> QED
    BY <1>0, <1>2, <2>1 DEF Check
<1>3. CASE Store(t)
  BY <1>3 DEF Store, TypeOK, local, life
<1>4. CASE Send(t) \/ Sending(t)
  BY <1>4 DEF Send, Sending, TypeOK, local, life
<1>5. CASE Leave(t)
  <2>1. /\ pc' \in [Client -> Label]
        /\ pc'[t] \in {"close", "find"}
        /\ \A u \in Client \ {t} : pc'[u] = pc[u]
    BY <1>5 DEF Leave, TypeOK
  <2>2. /\ pos' \in [Client -> 0 .. MAX_CLIENTS_PER_ROOM]
        /\ pos'[t] = 0 /\ 0 \in Slot
        /\ \A u \in Client \ {t} : pos'[u] = pos[u]
    BY <1>5 DEF Leave, TypeOK
  <2> QED
    BY <1>5, <2>1, <2>2 DEF Leave, TypeOK, shared, life
<1>6. CASE FindNoRoom(t) \/ FindNoSlot(t)
  <2>1. /\ pc' \in [Client -> Label]
        /\ pc'[t] = "send"
        /\ \A u \in Client \ {t} : pc'[u] = pc[u]
    BY <1>6 DEF FindNoRoom, FindNoSlot, TypeOK
  <2>2. /\ inside' \subseteq Client
        /\ UNCHANGED <<clients, clientsCount, mutex, allocated, local, life>>
    BY <1>6 DEF FindNoRoom, FindNoSlot, TypeOK, shared
  <2> QED
    BY <2>1, <2>2 DEF TypeOK, local, life
<1>7. CASE Find(t)
  <2>1. PICK i \in Slot : index' = [index EXCEPT ![t] = i]
    BY <1>7 DEF Find
  <2>2. /\ pc[t] = "find" /\ pc' = [pc EXCEPT ![t] = "clear"]
        /\ UNCHANGED <<shared, subject, pos, present, leaving, life>>
    BY <1>7 DEF Find
  <2>3. /\ pc' \in [Client -> Label] /\ pc'[t] = "clear" /\ index'[t] = i
        /\ \A u \in Client \ {t} : pc'[u] = pc[u] /\ index'[u] = index[u]
    BY <2>1, <2>2 DEF TypeOK
  <2>4. index' \in [Client -> Slot \cup {NoIndex}]
    BY <2>1 DEF TypeOK
  <2> QED
    BY <2>2, <2>3, <2>4 DEF TypeOK, shared, life
<1>8. CASE Clear(t)
  BY <1>8 DEF Clear, TypeOK, local, life
<1>9. CASE Close(t)
  <2>1. pos[t] \in Slot
    BY <1>9 DEF Close, TypeOK
  <2>2. CASE NextSlot(t)
    BY <1>9, <2>1, <2>2, TypeOfNextSlot DEF Close
  <2>3. CASE Goto(t, "kick") /\ UNCHANGED local
    BY <1>9, <2>1, <2>3 DEF Close, TypeOK, shared, local, life
  <2> QED
    BY <1>9, <2>2, <2>3 DEF Close
<1>10. CASE Kick(t)
  <2>1. ASSUME inside' = inside \ {clients[pos[t]]}, Goto(t, "tell"),
               UNCHANGED <<clients, clientsCount, mutex, allocated, local, life>>
        PROVE  TypeOK'
    <3>1. pos[t] \in Slot
      BY <1>10 DEF Kick, TypeOK
    <3>2. /\ pc' \in [Client -> Label]
          /\ pc'[t] = "tell"
          /\ \A u \in Client \ {t} : pc'[u] = pc[u]
      BY <2>1 DEF TypeOK
    <3>3. inside' \subseteq Client
      BY <2>1 DEF TypeOK
    <3> QED
      BY <2>1, <3>1, <3>2, <3>3 DEF TypeOK, local, life
  <2> QED
    BY <1>0, <1>10, <2>1 DEF Kick, Touch
<1>11. CASE Tell(t)
  <2>1. pos[t] \in Slot
    BY <1>11 DEF Tell, TypeOK
  <2> QED
    BY <1>0, <1>11, <2>1, TypeOfNextSlot DEF Tell, Touch
<1>12. CASE Delete(t)
  BY <1>12 DEF Delete, TypeOK, local, life
<1>13. CASE Point(t) \/ Unpoint(t)
  <2>1. inside' \subseteq Client
    BY <1>13 DEF Point, Unpoint, TypeOK
  <2>2. /\ pc' \in [Client -> Label]
        /\ pc'[t] = "send"
        /\ \A u \in Client \ {t} : pc'[u] = pc[u]
    BY <1>13 DEF Point, Unpoint, TypeOK
  <2> QED
    BY <1>13, <2>1, <2>2 DEF Point, Unpoint, TypeOK, local, life
<1>14. CASE End(t)
  BY <1>14 DEF End, TypeOK, shared, local
<1> QED
  BY <1>1, <1>2, <1>3, <1>4, <1>5, <1>6, <1>7, <1>8, <1>9, <1>10, <1>11, <1>12,
     <1>13, <1>14 DEF RoomStep

LEMMA TypeInit == Init => TypeOK
BY ThreadsAssumption DEF Init, TypeOK, Slot, Label, NoIndex

LEMMA TypeStep == TypeOK /\ [Next]_vars => TypeOK'
<1> SUFFICES ASSUME TypeOK, [Next]_vars PROVE TypeOK'
  OBVIOUS
<1>1. CASE UNCHANGED vars
  BY <1>1 DEF vars, shared, local, life, TypeOK
<1>2. CASE Crash
  BY <1>2 DEF Crash, shared, local, TypeOK
<1> QED
  BY <1>1, <1>2, Steps, TypeOfRequests, TypeOfSteps

\* No thread reads or writes outside the array of slots, whoever answers join
\* requests: every search ends inside it and every store goes to a slot.
THEOREM TypeCorrect == Spec => []TypeOK
BY TypeInit, TypeStep, PTL DEF Spec

-----------------------------------------------------------------------------
(* The count.                                                              *)

\* A step that is not a store or a clear changes no slot, and sends a thread to
\* clear the slot it has found itself in only.
LEMMA OtherSteps ==
  ASSUME TypeOK, [Next]_vars
  PROVE  \/ \E t \in Client : Store(t) \/ Clear(t)
         \/ /\ UNCHANGED <<clients, clientsCount>>
            /\ \A u \in Client : pc'[u] = "clear" =>
                 \/ pc[u] = "clear" /\ index'[u] = index[u]
                 \/ index'[u] \in Slot /\ clients[index'[u]] = u
<1> DEFINE Keeps == /\ UNCHANGED <<clients, clientsCount>>
                    /\ \A u \in Client : pc'[u] = "clear" =>
                         \/ pc[u] = "clear" /\ index'[u] = index[u]
                         \/ index'[u] \in Slot /\ clients[index'[u]] = u
<1> USE DEF Goto, TypeOK
<1>1. CASE UNCHANGED vars
  BY <1>1 DEF vars, shared, local
<1>2. ASSUME Crash PROVE Keeps
  BY <1>2 DEF Crash, shared, local
<1>3. ASSUME NEW t \in Client, NEW d \in Client,
             RequestAccept(t, d) \/ RequestMessage(t) \/ RequestLeave(t)
      PROVE  Keeps
  BY <1>3 DEF RequestAccept, RequestMessage, RequestLeave, Request, shared, local
<1>4. ASSUME NEW t \in Client, RoomStep(t), ~Store(t), ~Clear(t), ~Find(t) PROVE Keeps
  BY <1>2, <1>4 DEF RoomStep, Scan, Check, Send, Sending, Leave, FindNoRoom, FindNoSlot,
       Close, Kick, Tell, Delete, NextSlot, Touch, shared, local
<1>5. ASSUME NEW t \in Client, Find(t) PROVE Keeps
  BY <1>5 DEF Find, shared
<1>6. ASSUME NEW t \in Client, Point(t) \/ Unpoint(t) \/ End(t) PROVE Keeps
  BY <1>6 DEF Point, Unpoint, End, shared, local
<1> QED
  BY <1>1, <1>2, <1>3, <1>4, <1>5, <1>6, Steps

LEMMA OneMore ==
  ASSUME NEW S, NEW x, IsFiniteSet(S), NEW T, T \subseteq S \cup {x}
  PROVE  Cardinality(T) <= Cardinality(S) + 1
<1>1. Cardinality(S) \in Nat
  BY FS_CardinalityType
<1>2. IsFiniteSet(S \cup {x}) /\ Cardinality(S \cup {x}) <= Cardinality(S) + 1
  <2>1. /\ IsFiniteSet(S \cup {x})
        /\ Cardinality(S \cup {x}) = IF x \in S THEN Cardinality(S) ELSE Cardinality(S) + 1
    BY FS_AddElement, ZenonT(20)
  <2> QED
    BY <1>1, <2>1
<1>3. IsFiniteSet(T) /\ Cardinality(T) <= Cardinality(S \cup {x})
  BY <1>2, FS_Subset
<1>4. Cardinality(S \cup {x}) \in Nat
  BY <1>2, FS_CardinalityType
<1>5. Cardinality(T) \in Nat
  BY <1>3, FS_CardinalityType
<1> QED
  BY <1>1, <1>2, <1>3, <1>4, <1>5

LEMMA OccupiedIsFinite == IsFiniteSet(Occupied) /\ Cardinality(Occupied) \in Nat
<1>1. IsFiniteSet(Slot)
  BY ThreadsAssumption, FS_Interval DEF Slot
<1> QED
  BY <1>1, FS_Subset, FS_CardinalityType DEF Occupied

\* What a store and a clear do to the number of occupied slots.
LEMMA OccupiedAfterStore ==
  ASSUME TypeOK, NEW t \in Client, Store(t)
  PROVE  /\ Cardinality(Occupied') =
              IF clients[index[t]] = NULL THEN Cardinality(Occupied) + 1
              ELSE Cardinality(Occupied)
         /\ clientsCount' = clientsCount + 1
<1>1. index[t] \in Slot /\ subject[t] # NULL
  BY ThreadsAssumption DEF TypeOK, Store
<1>2. Occupied' = Occupied \cup {index[t]}
  BY <1>1 DEF TypeOK, Store, Occupied
<1>3. index[t] \in Occupied <=> clients[index[t]] # NULL
  BY <1>1 DEF Occupied
<1> QED
  BY <1>2, <1>3, OccupiedIsFinite, FS_AddElement DEF Store

LEMMA OccupiedAfterClear ==
  ASSUME TypeOK, NEW t \in Client, Clear(t)
  PROVE  /\ Cardinality(Occupied') =
              IF clients[index[t]] = NULL THEN Cardinality(Occupied)
              ELSE Cardinality(Occupied) - 1
         /\ clientsCount' = clientsCount - 1
<1>1. index[t] \in Slot
  BY DEF TypeOK, Clear
<1>2. Occupied' = Occupied \ {index[t]}
  BY <1>1 DEF TypeOK, Clear, Occupied
<1>3. index[t] \in Occupied <=> clients[index[t]] # NULL
  BY <1>1 DEF Occupied
<1> QED
  BY <1>2, <1>3, OccupiedIsFinite, FS_RemoveElement DEF Clear

-----------------------------------------------------------------------------
(* Whoever answers: the count may be too high, but is not too low.         *)

\* The threads that are about to clear a slot that another client has taken:
\* each of them was overwritten by a store that has raised the count and no
\* slot, so the count stays ahead when the clear lowers it.
Robbed == {t \in Client : pc[t] = "clear" /\ clients[index[t]] # t}

Ahead == Cardinality(Occupied) + Cardinality(Robbed) <= clientsCount

CInv == TypeOK /\ Ahead

LEMMA RobbedIsFinite == IsFiniteSet(Robbed) /\ Cardinality(Robbed) \in Nat
BY ThreadsAssumption, FS_Subset, FS_CardinalityType DEF Robbed

LEMMA RobbedAfterStore ==
  ASSUME TypeOK, NEW t \in Client, Store(t)
  PROVE  Robbed' \subseteq
           IF clients[index[t]] = NULL THEN Robbed ELSE Robbed \cup {clients[index[t]]}
BY ThreadsAssumption DEF TypeOK, Store, Robbed, Goto, local

LEMMA RobbedAfterClear ==
  ASSUME TypeOK, NEW t \in Client, Clear(t)
  PROVE  /\ t \in Robbed \/ clients[index[t]] = t
         /\ t \notin Robbed'
         /\ Robbed' \subseteq
              IF clients[index[t]] = NULL THEN Robbed \ {t}
              ELSE (Robbed \ {t}) \cup {clients[index[t]]}
BY ThreadsAssumption DEF TypeOK, Clear, Robbed, Goto, local

LEMMA AheadInit == Init => Ahead
<1> SUFFICES ASSUME Init PROVE Ahead
  OBVIOUS
<1>1. Occupied = {MAX_CLIENTS_PER_ROOM - 1}
  BY ThreadsAssumption DEF Init, Occupied, Slot
<1>2. Robbed = {}
  BY DEF Init, Robbed
<1>3. Cardinality(Occupied) = 1 /\ clientsCount = 1
  BY <1>1, FS_Singleton DEF Init
<1>4. Cardinality(Robbed) = 0
  BY <1>2, FS_EmptySet
<1> QED
  BY <1>3, <1>4 DEF Ahead

LEMMA AheadStep == CInv /\ [Next]_vars => Ahead'
<1> SUFFICES ASSUME CInv, [Next]_vars PROVE Ahead'
  OBVIOUS
<1> USE DEF CInv
<1>1. IsFiniteSet(Robbed) /\ Cardinality(Robbed) \in Nat
      /\ IsFiniteSet(Occupied) /\ Cardinality(Occupied) \in Nat /\ clientsCount \in Int
  BY RobbedIsFinite, OccupiedIsFinite DEF TypeOK
<1>2. IsFiniteSet(Robbed') /\ Cardinality(Robbed') \in Nat
  <2>1. Robbed' \subseteq Client
    BY DEF Robbed
  <2> QED
    BY <2>1, ThreadsAssumption, FS_Subset, FS_CardinalityType
<1>3. ASSUME NEW t \in Client, Store(t) PROVE Ahead'
  <2>1. CASE clients[index[t]] = NULL
    <3>1. Cardinality(Robbed') <= Cardinality(Robbed)
      BY <1>1, <1>3, <2>1, RobbedAfterStore, FS_Subset
    <3> QED
      BY <1>1, <1>2, <1>3, <2>1, <3>1, OccupiedAfterStore DEF Ahead
  <2>2. CASE clients[index[t]] # NULL
    <3>3. Cardinality(Robbed') <= Cardinality(Robbed) + 1
      BY <1>1, <1>3, <2>2, RobbedAfterStore, OneMore
    <3> QED
      BY <1>1, <1>2, <1>3, <2>2, <3>3, OccupiedAfterStore DEF Ahead
  <2> QED
    BY <2>1, <2>2
<1>4. ASSUME NEW t \in Client, Clear(t) PROVE Ahead'
  <2> DEFINE d == clients[index[t]]
  <2>1. CASE d = t
    <3>1. Robbed' \subseteq Robbed
      BY <1>4, <2>1, RobbedAfterClear
    <3>2. Cardinality(Robbed') <= Cardinality(Robbed)
      BY <1>1, <3>1, FS_Subset
    <3> QED
      BY <1>1, <1>2, <1>4, <2>1, <3>2, ThreadsAssumption, OccupiedAfterClear DEF Ahead
  <2>2. CASE d = NULL
    <3>1. t \in Robbed /\ Robbed' \subseteq Robbed \ {t}
      BY <1>4, <2>2, ThreadsAssumption, RobbedAfterClear
    <3>3. IsFiniteSet(Robbed \ {t}) /\ Cardinality(Robbed \ {t}) = Cardinality(Robbed) - 1
      BY <1>1, <3>1, FS_RemoveElement
    <3>2. Cardinality(Robbed') <= Cardinality(Robbed) - 1
      BY <3>1, <3>3, FS_Subset
    <3> QED
      BY <1>1, <1>2, <1>4, <2>2, <3>2, OccupiedAfterClear DEF Ahead
  <2>3. CASE d # t /\ d # NULL
    <3>1. t \in Robbed /\ Robbed' \subseteq (Robbed \ {t}) \cup {d}
      BY <1>4, <2>3, RobbedAfterClear
    <3>2. IsFiniteSet(Robbed \ {t}) /\ Cardinality(Robbed \ {t}) = Cardinality(Robbed) - 1
      BY <1>1, <3>1, FS_RemoveElement
    <3>3. Cardinality(Robbed') <= Cardinality(Robbed \ {t}) + 1
      BY <3>1, <3>2, OneMore
    <3>4. Cardinality(Robbed') <= Cardinality(Robbed)
      BY <1>1, <3>2, <3>3
    <3> QED
      BY <1>1, <1>2, <1>4, <2>3, <3>4, OccupiedAfterClear DEF Ahead
  <2> QED
    BY <2>1, <2>2, <2>3
<1>5. ASSUME UNCHANGED <<clients, clientsCount>>,
             \A u \in Client : pc'[u] = "clear" =>
               \/ pc[u] = "clear" /\ index'[u] = index[u]
               \/ index'[u] \in Slot /\ clients[index'[u]] = u
      PROVE  Ahead'
  <2>1. Robbed' \subseteq Robbed
    BY <1>5 DEF Robbed
  <2>2. Cardinality(Robbed') <= Cardinality(Robbed)
    BY <1>1, <2>1, FS_Subset
  <2>3. Occupied' = Occupied
    BY <1>5 DEF Occupied
  <2> QED
    BY <1>1, <1>2, <1>5, <2>2, <2>3 DEF Ahead
<1> QED
  BY <1>3, <1>4, <1>5, OtherSteps

\* However the threads interleave, the count of a room is at least the number of
\* its occupied slots: a room whose slots are all taken never has a count below
\* its limit.
THEOREM CountNeverTooLow == Spec => []CountCoversSlots
<1>1. CInv => CountCoversSlots
  BY OccupiedIsFinite, RobbedIsFinite DEF CInv, Ahead, CountCoversSlots, TypeOK
<1> QED
  BY <1>1, TypeInit, TypeStep, AheadInit, AheadStep, PTL DEF Spec, CInv

-----------------------------------------------------------------------------
(* When only the owner answers, the count is exact.                        *)

Adding == {"scan", "check", "store", "point"}

\* Only the thread of the owner fills slots, so the empty slot it has found stays
\* empty until it fills it; and the slot that another thread has found itself in
\* stays its own until it empties it, since nobody fills a slot that is taken.
Alone ==
  /\ \A t \in Client : pc[t] \in Adding => t = Owner
  /\ pc[Owner] \in Adding \ {"point"} /\ index[Owner] \in Slot =>
       clients[index[Owner]] = NULL
  /\ \A t \in Client : pc[t] = "clear" => clients[index[t]] = t

Exact == clientsCount = Cardinality(Occupied)

EInv == TypeOK /\ Alone /\ Exact

LEMMA OwnerStep == [OwnerNext]_vars => [Next]_vars
BY ThreadsAssumption DEF OwnerNext, Next, NextWith, RequestsFrom

LEMMA OwnerSteps ==
  ASSUME [OwnerNext]_vars
  PROVE  \/ UNCHANGED vars
         \/ Crash
         \/ \E d \in Client : RequestAccept(Owner, d)
         \/ \E t \in Client : RequestMessage(t) \/ RequestLeave(t)
         \/ \E t \in Client : \/ allocated /\ RoomStep(t)
                              \/ Point(t) \/ Unpoint(t) \/ End(t)
BY DEF OwnerNext, NextWith, RequestsFrom, Step, Touch, Rest

\* A thread that does not start an addition or find its slot disturbs nothing.
LEMMA AloneStays ==
  ASSUME TypeOK, Alone, UNCHANGED <<clients, index>>,
         \A u \in Client :
           /\ pc'[u] \in Adding => pc[u] \in Adding
           /\ pc'[u] \in Adding \ {"point"} => pc[u] \in Adding \ {"point"}
           /\ pc'[u] = "clear" => pc[u] = "clear"
  PROVE  Alone'
BY ThreadsAssumption DEF Alone, Slot

LEMMA AloneAfterRequests ==
  ASSUME TypeOK, Alone, NEW t \in Client,
         \/ \E d \in Client : RequestAccept(Owner, d)
         \/ RequestMessage(t) \/ RequestLeave(t)
  PROVE  Alone'
<1> USE ThreadsAssumption DEF Alone, Adding, Request, Goto, TypeOK, Slot, NoIndex
<1>1. ASSUME NEW d \in Client, RequestAccept(Owner, d) PROVE Alone'
  BY <1>1 DEF RequestAccept, shared
<1>2. CASE RequestMessage(t)
  BY <1>2 DEF RequestMessage, shared, local
<1>3. CASE RequestLeave(t)
  BY <1>3 DEF RequestLeave, shared
<1> QED
  BY <1>1, <1>2, <1>3

LEMMA AloneAfterSteps ==
  ASSUME TypeOK, Alone, NEW t \in Client,
         RoomStep(t) \/ Point(t) \/ Unpoint(t) \/ End(t)
  PROVE  Alone'
<1>1. CASE Scan(t)
  BY <1>1, ThreadsAssumption DEF Scan, Alone, Adding, Goto, TypeOK, Slot, NoIndex, shared
<1>2. CASE Store(t)
  BY <1>2, ThreadsAssumption DEF Store, Alone, Adding, Goto, TypeOK, Slot, local
<1>3. CASE Find(t)
  BY <1>3, ThreadsAssumption DEF Find, Alone, Adding, Goto, TypeOK, Slot, shared
<1>4. CASE Clear(t)
  BY <1>4, ThreadsAssumption DEF Clear, Alone, Adding, Goto, TypeOK, Slot, local
<1>5. ASSUME Crash PROVE Alone'
  BY <1>5, AloneStays DEF Crash, shared, local
<1>6. CASE Check(t)
  BY <1>5, <1>6, AloneStays DEF Check, Adding, Goto, TypeOK, shared, local
<1>7. CASE Send(t) \/ Sending(t)
  BY <1>7, AloneStays DEF Send, Sending, Adding, Goto, TypeOK, local
<1>8. CASE Leave(t)
  BY <1>8, AloneStays DEF Leave, Adding, Goto, TypeOK, shared
<1>9. CASE FindNoRoom(t) \/ FindNoSlot(t)
  BY <1>9, AloneStays DEF FindNoRoom, FindNoSlot, Adding, Goto, TypeOK, shared, local
<1>10. CASE Close(t)
  BY <1>10, AloneStays DEF Close, NextSlot, Adding, Goto, TypeOK, shared, local
<1>11. CASE Kick(t)
  BY <1>5, <1>11, AloneStays DEF Kick, Touch, Adding, Goto, TypeOK, local
<1>12. CASE Tell(t)
  BY <1>5, <1>12, AloneStays DEF Tell, Touch, NextSlot, Adding, Goto, TypeOK, shared
<1>13. CASE Delete(t)
  BY <1>13, AloneStays DEF Delete, Adding, Goto, TypeOK, local
<1>14. CASE Point(t)
  BY <1>14, AloneStays DEF Point, Adding, Goto, TypeOK, local
<1>15. CASE Unpoint(t)
  BY <1>15, AloneStays DEF Unpoint, Adding, Goto, TypeOK, local
<1>16. CASE End(t)
  BY <1>16, AloneStays DEF End, Adding, Goto, TypeOK, shared, local
<1> QED
  BY <1>1, <1>2, <1>3, <1>4, <1>6, <1>7, <1>8, <1>9, <1>10, <1>11, <1>12, <1>13,
     <1>14, <1>15, <1>16 DEF RoomStep

LEMMA AloneInit == Init => Alone
BY ThreadsAssumption DEF Init, Alone, Adding

LEMMA AloneStep == TypeOK /\ Alone /\ [OwnerNext]_vars => Alone'
<1> SUFFICES ASSUME TypeOK, Alone, [OwnerNext]_vars PROVE Alone'
  OBVIOUS
<1>1. CASE UNCHANGED vars
  BY <1>1 DEF vars, shared, local, Alone, Slot
<1>2. CASE Crash
  BY <1>2 DEF Crash, shared, local, Alone, Slot
<1> QED
  BY <1>1, <1>2, OwnerSteps, ThreadsAssumption, AloneAfterRequests, AloneAfterSteps

LEMMA ExactInit == Init => Exact
<1> SUFFICES ASSUME Init PROVE Exact
  OBVIOUS
<1>1. Occupied = {MAX_CLIENTS_PER_ROOM - 1}
  BY ThreadsAssumption DEF Init, Occupied, Slot
<1> QED
  BY <1>1, FS_Singleton DEF Init, Exact

LEMMA ExactStep == EInv /\ [OwnerNext]_vars => Exact'
<1> SUFFICES ASSUME EInv, [OwnerNext]_vars PROVE Exact'
  OBVIOUS
<1> USE DEF EInv
<1>1. ASSUME NEW t \in Client, Store(t) PROVE Exact'
  <2>1. t = Owner /\ index[t] \in Slot
    BY <1>1 DEF Store, Alone, Adding, TypeOK
  <2>2. clients[index[t]] = NULL
    BY <1>1, <2>1 DEF Store, Alone, Adding
  <2> QED
    BY <1>1, <2>2, OccupiedAfterStore DEF Exact
<1>2. ASSUME NEW t \in Client, Clear(t) PROVE Exact'
  <2>1. clients[index[t]] # NULL
    BY <1>2, ThreadsAssumption DEF Clear, Alone
  <2> QED
    BY <1>2, <2>1, OccupiedAfterClear DEF Exact
<1>3. ASSUME UNCHANGED <<clients, clientsCount>> PROVE Exact'
  BY <1>3 DEF Exact, Occupied
<1> QED
  BY <1>1, <1>2, <1>3, OwnerStep, OtherSteps

\* If only the owner answers join requests, the count is the number of occupied
\* slots at every moment, whatever the other threads are in the middle of.
THEOREM CountExact == OwnerSpec => []CountIsExact
<1>1. EInv => CountIsExact
  BY DEF EInv, Exact, CountIsExact
<1>2. EInv /\ [OwnerNext]_vars => EInv'
  BY OwnerStep, TypeStep, AloneStep, ExactStep DEF EInv
<1> QED
  BY <1>1, <1>2, TypeInit, AloneInit, ExactInit, PTL DEF OwnerSpec, EInv

-----------------------------------------------------------------------------
(* When only the owner answers, pointers and slots agree.                  *)

Closing == {"close", "kick", "tell", "delete"}

\* The loop of a closing still has the slot i before it.
ToVisit(i) ==
  /\ pc[Owner] \in Closing => pos[Owner] <= i
  /\ pc[Owner] = "tell" => pos[Owner] # i

Open == allocated /\ pc[Owner] \notin Closing

\* The owner alone closes the room, after its loop over all the slots, and it
\* does not leave it otherwise; while it adds a client or closes, the room is there.
Roles ==
  /\ \A t \in Client : pc[t] \in Closing => t = Owner
  /\ \A t \in Client : pc[t] \in {"find", "clear", "unpoint"} => t # Owner
  /\ pc[Owner] \in Adding \cup Closing => allocated
  /\ pc[Owner] = "delete" => pos[Owner] = MAX_CLIENTS_PER_ROOM

\* Who points to the room is in a slot that a closing would still reach, or has
\* emptied its slot and clears the pointer next.
Pointed ==
  \A c \in inside :
    \/ pc[c] = "unpoint"
    \/ allocated /\ \E i \in Slot : clients[i] = c /\ ToVisit(i)

\* Nobody is in two slots.
Single == \A i, j \in Slot : clients[i] # NULL /\ clients[i] = clients[j] => i = j

\* Who is in a slot points to the room, unless it is being added.
Listed ==
  Open => \A i \in Slot :
            \/ clients[i] = NULL
            \/ clients[i] \in inside
            \/ pc[Owner] = "point" /\ subject[Owner] = clients[i]

\* Who is leaving still points to the room, so that it cannot be added meanwhile.
Leavers ==
  Open => \A t \in Client : pc[t] \in {"leave", "find", "clear", "unpoint"} => t \in inside

Emptied == \A t \in Client : pc[t] = "unpoint" => \A i \in Slot : clients[i] # t

\* Who is being added does not point to the room yet, and is in a slot before it does.
Newcomer ==
  pc[Owner] \in Adding =>
    /\ subject[Owner] \notin inside
    /\ pc[Owner] = "point" => \E i \in Slot : clients[i] = subject[Owner]

Matched == Roles /\ Pointed /\ Single /\ Listed /\ Leavers /\ Emptied /\ Newcomer

\* A step of the thread t that is not part of a closing, and changes neither the
\* slots nor a pointer.
LEMMA MatchedStays ==
  ASSUME TypeOK, Matched, NEW t \in Client,
         UNCHANGED <<clients, allocated, inside, subject>>,
         \A u \in Client \ {t} : pc'[u] = pc[u] /\ pos'[u] = pos[u],
         pc[t] \notin Closing \cup {"unpoint", "point"},
         pc'[t] \notin Closing \cup {"unpoint", "point"},
         pc'[t] \in Adding => pc[t] \in Adding,
         pc'[t] = "leave" => t \in inside,
         pc'[t] \in {"find", "clear"} => t # Owner /\ pc[t] \in {"leave", "find"}
  PROVE  Matched'
<1> USE ThreadsAssumption DEF Matched
<1>1. Roles'
  BY DEF Roles, Closing, Adding
<1>2. Open' = Open /\ \A i \in Slot : ToVisit(i)' = ToVisit(i)
  BY DEF Open, ToVisit, Closing, Slot
<1>3. Pointed'
  <2>1. \A c \in inside : c \in Client /\ (pc[c] = "unpoint" => pc'[c] = "unpoint")
    BY DEF TypeOK
  <2> QED
    BY <1>2, <2>1 DEF Pointed, Slot
<1>4. Single' /\ Emptied'
  BY DEF Single, Emptied, Slot
<1>5. Listed'
  BY <1>2 DEF Listed, Slot
<1>6. Leavers'
  BY <1>2 DEF Leavers
<1>7. Newcomer'
  BY DEF Newcomer, Slot, Adding
<1> QED
  BY <1>1, <1>3, <1>4, <1>5, <1>6, <1>7

LEMMA MatchedAfterRequests ==
  ASSUME TypeOK, Matched, NEW t \in Client,
         \/ \E d \in Client : RequestAccept(Owner, d)
         \/ RequestMessage(t) \/ RequestLeave(t)
  PROVE  Matched'
<1> USE ThreadsAssumption DEF Request, Goto
<1>1. ASSUME NEW d \in Client, RequestAccept(Owner, d) PROVE Matched'
  <2>1. /\ pc[Owner] = "idle" /\ pc'[Owner] = "scan" /\ subject'[Owner] = d
        /\ d \notin inside /\ allocated
        /\ \A u \in Client \ {Owner} : pc'[u] = pc[u]
        /\ UNCHANGED <<clients, allocated, inside>>
    BY <1>1 DEF RequestAccept, shared, TypeOK
  <2>2. \A i \in Slot : ToVisit(i) /\ ToVisit(i)'
    BY <2>1 DEF ToVisit, Closing
  <2>3. \A c \in inside : c \in Client /\ (pc[c] = "unpoint" => pc'[c] = "unpoint")
    BY <2>1 DEF TypeOK
  <2>4. Open /\ Open'
    BY <2>1 DEF Open, Closing
  <2>5. Roles' /\ Newcomer'
    BY <2>1 DEF Matched, Roles, Newcomer, Closing, Adding
  <2>6. Pointed' /\ Single' /\ Emptied'
    BY <2>1, <2>2, <2>3 DEF Matched, Pointed, Single, Emptied, Slot
  <2>7. Listed' /\ Leavers'
    BY <2>1, <2>4 DEF Matched, Listed, Leavers, Slot
  <2> QED
    BY <2>5, <2>6, <2>7 DEF Matched
<1>2. CASE RequestMessage(t)
  <2>1. /\ pc[t] = "idle" /\ pc'[t] = "send"
        /\ \A u \in Client \ {t} : pc'[u] = pc[u] /\ pos'[u] = pos[u]
        /\ UNCHANGED <<clients, allocated, inside, subject>>
    BY <1>2 DEF RequestMessage, shared, local, TypeOK
  <2> QED
    BY <2>1, MatchedStays DEF Closing, Adding
<1>3. CASE RequestLeave(t)
  <2>1. /\ pc[t] = "idle"
        /\ pc'[t] = "end" \/ (pc'[t] = "leave" /\ t \in inside)
        /\ \A u \in Client \ {t} : pc'[u] = pc[u] /\ pos'[u] = pos[u]
        /\ UNCHANGED <<clients, allocated, inside, subject>>
    BY <1>3 DEF RequestLeave, shared, TypeOK
  <2> QED
    BY <2>1, MatchedStays DEF Closing, Adding
<1> QED
  BY <1>1, <1>2, <1>3

\* The steps that neither belong to a closing nor change a slot or a pointer.
LEMMA MatchedAfterReads ==
  ASSUME TypeOK, Matched, NEW t \in Client,
         \/ Scan(t) \/ (Check(t) /\ ~Crash) \/ Send(t) \/ Sending(t)
         \/ (Leave(t) /\ t # Owner) \/ FindNoRoom(t) \/ Find(t) \/ End(t)
  PROVE  Matched'
<1> USE ThreadsAssumption DEF Goto
<1>1. pc[t] = "find" => t # Owner
  BY DEF Matched, Roles
<1>2. /\ \A u \in Client \ {t} : pc'[u] = pc[u] /\ pos'[u] = pos[u]
      /\ UNCHANGED <<clients, allocated, inside, subject>>
  <2>1. CASE Scan(t) \/ Leave(t) \/ Find(t)
    BY <2>1 DEF Scan, Leave, Find, shared, local, TypeOK
  <2>2. CASE Check(t) /\ ~Crash
    BY <2>2 DEF Check, shared, local, TypeOK
  <2>3. CASE Send(t) \/ Sending(t) \/ FindNoRoom(t) \/ End(t)
    BY <2>3 DEF Send, Sending, FindNoRoom, End, shared, local, TypeOK
  <2> QED
    BY <2>1, <2>2, <2>3
<1>3. \/ pc[t] \in {"scan", "check", "send", "sending", "end", "find"}
            /\ pc'[t] \in {"send", "sending", "end", "idle"}
      \/ pc[t] \in {"scan", "check"} /\ pc'[t] \in {"scan", "check", "store"}
      \/ pc[t] = "leave" /\ pc'[t] = "find" /\ t # Owner
      \/ pc[t] = "find" /\ pc'[t] = "clear" /\ t # Owner
  BY <1>1 DEF Scan, Check, Send, Sending, Leave, FindNoRoom, Find, End, TypeOK
<1> QED
  BY <1>2, <1>3, MatchedStays DEF Closing, Adding

LEMMA MatchedAfterAdding ==
  ASSUME TypeOK, Alone, Matched, NEW t \in Client, Store(t) \/ Point(t)
  PROVE  Matched'
<1> USE ThreadsAssumption DEF Goto
<1>1. t = Owner /\ allocated /\ subject[Owner] \in Client /\ subject[Owner] \notin inside
  BY DEF Store, Point, Alone, Adding, Matched, Roles, Newcomer, TypeOK
<1>2. CASE Store(t)
  <2> DEFINE s == subject[Owner]
             k == index[Owner]
  <2>1. /\ pc[Owner] = "store" /\ pc'[Owner] = "point"
        /\ \A u \in Client \ {Owner} : pc'[u] = pc[u]
        /\ UNCHANGED <<allocated, inside, subject>>
    BY <1>1, <1>2 DEF Store, local, TypeOK
  <2>2. k \in Slot /\ clients[k] = NULL /\ s # NULL
    BY <1>1, <2>1 DEF Alone, Adding, TypeOK
  <2>3. clients'[k] = s /\ \A i \in Slot \ {k} : clients'[i] = clients[i]
    BY <1>1, <1>2, <2>2 DEF Store, TypeOK
  <2>4. Open /\ Open'
    BY <1>1, <2>1 DEF Open, Closing
  <2>5. \A i \in Slot : clients[i] = NULL \/ clients[i] \in inside
    BY <2>1, <2>4 DEF Matched, Listed
  <2>6. \A i \in Slot \ {k} : clients'[i] # s
    BY <1>1, <2>2, <2>3, <2>5
  <2> HIDE DEF s, k
  <2>7. Roles'
    BY <1>1, <2>1 DEF Matched, Roles, Closing, Adding
  <2>8. Pointed'
    <3>1. \A c \in inside : c \in Client /\ c # Owner => pc'[c] = pc[c]
      BY <2>1
    <3>2. \A i \in Slot : ToVisit(i)'
      BY <2>1 DEF ToVisit, Closing
    <3>3. ASSUME NEW c \in inside, NEW i \in Slot, clients[i] = c PROVE clients'[i] = c
      BY <2>2, <2>3, <3>3, <1>1 DEF TypeOK
    <3>4. ASSUME NEW c \in inside
          PROVE  pc'[c] = "unpoint" \/ \E i \in Slot : clients'[i] = c
      <4>1. c \in Client
        BY DEF TypeOK
      <4>2. pc[c] = "unpoint" \/ \E i \in Slot : clients[i] = c
        BY DEF Matched, Pointed
      <4> QED
        BY <2>1, <3>3, <4>1, <4>2
    <3> QED
      BY <1>1, <2>1, <3>2, <3>4 DEF Pointed, Slot
  <2>9. Single'
    BY <2>2, <2>3, <2>6 DEF Matched, Single, Slot
  <2>10. Listed'
    BY <2>1, <2>3, <2>5 DEF Listed, Slot, s
  <2>11. Leavers'
    BY <2>1, <2>4 DEF Matched, Leavers
  <2>12. Emptied'
    <3>1. \A u \in Client : pc'[u] = "unpoint" => pc[u] = "unpoint" /\ u # s
      BY <1>1, <2>1, <2>4 DEF Matched, Leavers, s
    <3> QED
      BY <2>2, <2>3, <3>1 DEF Matched, Emptied, Slot
  <2>13. Newcomer'
    BY <1>1, <2>1, <2>2, <2>3 DEF Newcomer, Slot, s
  <2> QED
    BY <2>7, <2>8, <2>9, <2>10, <2>11, <2>12, <2>13 DEF Matched
<1>3. CASE Point(t)
  <2>1. /\ pc[Owner] = "point" /\ pc'[Owner] = "send"
        /\ \A u \in Client \ {Owner} : pc'[u] = pc[u]
        /\ UNCHANGED <<clients, allocated, subject>>
        /\ inside' = inside \cup {subject[Owner]}
    BY <1>1, <1>3 DEF Point, local, TypeOK
  <2>2. Open /\ Open' /\ \A i \in Slot : ToVisit(i)'
    BY <1>1, <2>1 DEF Open, ToVisit, Closing
  <2>3. \E i \in Slot : clients[i] = subject[Owner]
    BY <2>1 DEF Matched, Newcomer, Adding
  <2>4. Roles' /\ Newcomer' /\ Single'
    BY <2>1 DEF Matched, Roles, Newcomer, Single, Closing, Adding, Slot
  <2>5. Pointed'
    <3>1. \A c \in inside : c \in Client /\ (pc[c] = "unpoint" => pc'[c] = "unpoint")
      BY <2>1 DEF TypeOK
    <3> QED
      BY <1>1, <2>1, <2>2, <2>3, <3>1 DEF Matched, Pointed, Slot
  <2>6. Listed' /\ Leavers'
    BY <2>1, <2>2 DEF Matched, Listed, Leavers, Slot
  <2>7. Emptied'
    BY <2>1 DEF Matched, Emptied, Slot
  <2> QED
    BY <2>4, <2>5, <2>6, <2>7 DEF Matched
<1> QED
  BY <1>2, <1>3

LEMMA MatchedAfterLeaving ==
  ASSUME TypeOK, Alone, Matched, NEW t \in Client,
         FindNoSlot(t) \/ Clear(t) \/ Unpoint(t)
  PROVE  Matched'
<1> USE ThreadsAssumption DEF Goto
<1>1. t # Owner /\ pc[t] \in {"find", "clear", "unpoint"}
  BY DEF FindNoSlot, Clear, Unpoint, Matched, Roles
<1>2. /\ \A u \in Client \ {t} : pc'[u] = pc[u]
      /\ pc'[Owner] = pc[Owner]
      /\ UNCHANGED <<allocated, subject, pos>>
      /\ pc'[t] = IF pc[t] = "clear" THEN "unpoint" ELSE "send"
  BY <1>1 DEF FindNoSlot, Clear, Unpoint, local, TypeOK
<1>3. Open' = Open /\ \A i \in Slot : ToVisit(i)' = ToVisit(i)
  BY <1>2 DEF Open, ToVisit, Slot
<1>4. Roles'
  BY <1>1, <1>2 DEF Matched, Roles, Closing, Adding
<1>5. CASE Clear(t)
  <2> DEFINE k == index[t]
  <2>1. pc[t] = "clear" /\ pc'[t] = "unpoint" /\ inside' = inside
    BY <1>2, <1>5 DEF Clear
  <2>2. k \in Slot /\ clients[k] = t /\ t # NULL
    BY <2>1 DEF Alone, TypeOK
  <2>3. clients'[k] = NULL /\ \A i \in Slot \ {k} : clients'[i] = clients[i]
    BY <1>5, <2>2 DEF Clear, TypeOK
  <2>4. \A i \in Slot \ {k} : clients[i] # t
    BY <2>2 DEF Matched, Single
  <2> HIDE DEF k
  <2>5. Pointed'
    <3>1. ASSUME NEW c \in inside, c # t
          PROVE  \/ pc'[c] = "unpoint"
                 \/ allocated /\ \E i \in Slot : clients'[i] = c /\ ToVisit(i)
      <4>1. c \in Client
        BY DEF TypeOK
      <4> QED
        BY <1>2, <2>2, <2>3, <3>1, <4>1 DEF Matched, Pointed
    <3> QED
      BY <1>2, <1>3, <2>1, <3>1 DEF Pointed, Slot
  <2>6. Single' /\ Listed'
    BY <1>2, <1>3, <2>1, <2>2, <2>3 DEF Matched, Single, Listed, Slot
  <2>7. Leavers'
    BY <1>2, <1>3, <2>1 DEF Matched, Leavers
  <2>8. Emptied'
    BY <1>2, <2>2, <2>3, <2>4 DEF Matched, Emptied, Slot
  <2>9. Newcomer'
    <3>1. pc[Owner] \in Adding => subject[Owner] # t
      <4>1. pc[Owner] \in Adding => Open
        BY DEF Matched, Roles, Open, Adding, Closing
      <4> QED
        BY <2>1, <4>1 DEF Matched, Leavers, Newcomer
    <3> QED
      BY <1>2, <2>1, <2>2, <2>3, <3>1 DEF Matched, Newcomer, Slot, Adding
  <2> QED
    BY <1>4, <2>5, <2>6, <2>7, <2>8, <2>9 DEF Matched
<1>6. CASE FindNoSlot(t) \/ Unpoint(t)
  <2>1. clients' = clients /\ inside' = inside \ {t} /\ pc'[t] = "send"
    BY <1>2, <1>6 DEF FindNoSlot, Unpoint
  <2>2. \A i \in Slot : clients[i] # t
    <3>1. CASE FindNoSlot(t)
      BY <3>1 DEF FindNoSlot, Members, Occupied
    <3>2. CASE Unpoint(t)
      BY <3>2 DEF Unpoint, Matched, Emptied
    <3> QED
      BY <1>6, <3>1, <3>2
  <2>3. Pointed'
    <3>1. \A c \in inside' : c \in inside /\ c \in Client /\ c # t
      BY <2>1 DEF TypeOK
    <3> QED
      BY <1>2, <1>3, <2>1, <3>1 DEF Matched, Pointed, Slot
  <2>4. Single' /\ Emptied' /\ Newcomer'
    BY <1>2, <2>1 DEF Matched, Single, Emptied, Newcomer, Slot, Adding
  <2>5. Listed' /\ Leavers'
    BY <1>2, <1>3, <2>1, <2>2 DEF Matched, Listed, Leavers, Slot
  <2> QED
    BY <1>4, <2>3, <2>4, <2>5 DEF Matched
<1> QED
  BY <1>5, <1>6

\* The owner's thread goes on to another slot, or to the end of the loop; who
\* still points to the room is in a slot that it has not gone past.
LEMMA MatchedAfterSlot ==
  ASSUME TypeOK, Matched, allocated, UNCHANGED <<clients, allocated>>,
         inside' \subseteq inside,
         \A u \in Client \ {Owner} : pc'[u] = pc[u],
         pc'[Owner] \in Closing,
         pc'[Owner] = "delete" => pos'[Owner] = MAX_CLIENTS_PER_ROOM,
         \A i \in Slot : clients[i] \in inside' /\ ToVisit(i) => ToVisit(i)'
  PROVE  Matched'
<1> USE ThreadsAssumption
<1>1. Roles'
  BY DEF Matched, Roles, Closing, Adding
<1>2. Pointed'
  <2>1. \A c \in inside' : c \in inside /\ c \in Client
    BY DEF TypeOK
  <2>2. pc[Owner] # "unpoint"
    BY DEF Matched, Roles
  <2> QED
    BY <2>1, <2>2 DEF Matched, Pointed, Slot
<1>3. Single' /\ Newcomer'
  BY DEF Matched, Single, Newcomer, Slot, Adding, Closing
<1>4. Emptied'
  BY DEF Matched, Emptied, Slot, Closing
<1>5. ~Open'
  BY DEF Open
<1> QED
  BY <1>1, <1>2, <1>3, <1>4, <1>5 DEF Matched, Listed, Leavers

LEMMA MatchedAfterClosing ==
  ASSUME TypeOK, Matched, NEW t \in Client, allocated,
         \/ Leave(t) /\ t = Owner
         \/ (Close(t) \/ Kick(t) \/ Tell(t)) /\ ~Crash
         \/ Delete(t)
  PROVE  Matched'
<1> USE ThreadsAssumption DEF Goto
<1>1. t = Owner
  BY DEF Close, Kick, Tell, Delete, Matched, Roles, Closing
<1>2. CASE Leave(t)
  <2>1. /\ UNCHANGED <<clients, allocated, inside>>
        /\ \A u \in Client \ {Owner} : pc'[u] = pc[u]
        /\ pc'[Owner] = "close" /\ pos'[Owner] = 0
    BY <1>1, <1>2 DEF Leave, shared, TypeOK
  <2>2. \A i \in Slot : ToVisit(i)'
    BY <2>1 DEF ToVisit, Closing, Slot
  <2> QED
    BY <2>1, <2>2, MatchedAfterSlot DEF Closing
<1>3. ASSUME NextSlot(t), UNCHANGED <<shared, life>>, pc[Owner] \in {"close", "tell"},
             pos[Owner] \in Slot,
             pc[Owner] = "close" => clients[pos[Owner]] \notin inside
      PROVE  Matched'
  <2>1. /\ UNCHANGED <<clients, allocated, inside>>
        /\ \A u \in Client \ {Owner} : pc'[u] = pc[u]
        /\ pos'[Owner] = pos[Owner] + 1
        /\ pc'[Owner] = IF pos'[Owner] = MAX_CLIENTS_PER_ROOM THEN "delete" ELSE "close"
    BY <1>1, <1>3 DEF NextSlot, shared, TypeOK
  <2>2. \A i \in Slot : clients[i] \in inside' /\ ToVisit(i) => ToVisit(i)'
    BY <1>3, <2>1 DEF ToVisit, Closing, Slot
  <2> QED
    BY <2>1, <2>2, MatchedAfterSlot DEF Closing
<1>4. CASE Close(t) /\ ~Crash
  <2>1. pc[Owner] = "close" /\ pos[Owner] \in Slot
    BY <1>1, <1>4 DEF Close, TypeOK
  <2>2. CASE clients[pos[t]] = NULL /\ NextSlot(t)
    BY <1>1, <1>3, <1>4, <2>1, <2>2, ThreadsAssumption DEF Close, TypeOK
  <2>3. CASE Goto(t, "kick") /\ UNCHANGED local
    <3>1. /\ UNCHANGED <<clients, allocated, inside, pos>>
          /\ \A u \in Client \ {Owner} : pc'[u] = pc[u]
          /\ pc'[Owner] = "kick"
      BY <1>1, <1>4, <2>3 DEF Close, shared, local, TypeOK
    <3>2. \A i \in Slot : ToVisit(i) => ToVisit(i)'
      BY <2>1, <3>1 DEF ToVisit, Closing
    <3> QED
      BY <3>1, <3>2, MatchedAfterSlot DEF Closing
  <2> QED
    BY <1>4, <2>2, <2>3 DEF Close
<1>5. CASE Kick(t) /\ ~Crash
  <2>1. /\ UNCHANGED <<clients, allocated, pos>>
        /\ \A u \in Client \ {Owner} : pc'[u] = pc[u]
        /\ pc[Owner] = "kick" /\ pc'[Owner] = "tell"
        /\ inside' = inside \ {clients[pos[Owner]]}
    <3>1. /\ pc[t] = "kick" /\ Goto(t, "tell")
          /\ inside' = inside \ {clients[pos[t]]}
          /\ UNCHANGED <<clients, clientsCount, mutex, allocated, local, life>>
      BY <1>5 DEF Kick, Touch
    <3> QED
      BY <1>1, <3>1 DEF local, TypeOK
  <2>2. \A i \in Slot : clients[i] \in inside' /\ ToVisit(i) => ToVisit(i)'
    BY <2>1 DEF ToVisit, Closing
  <2>3. allocated' = allocated /\ clients' = clients /\ inside' \subseteq inside
    BY <2>1
  <2> QED
    BY <2>1, <2>2, <2>3, MatchedAfterSlot DEF Closing
<1>6. CASE Tell(t) /\ ~Crash
  <2>1. pc[Owner] = "tell" /\ pos[Owner] \in Slot
    BY <1>1, <1>6 DEF Tell, TypeOK
  <2> QED
    BY <1>1, <1>3, <1>6, <2>1 DEF Tell, Touch
<1>7. CASE Delete(t)
  <2>1. /\ UNCHANGED <<clients, subject>>
        /\ ~allocated'
        /\ \A u \in Client \ {Owner} : pc'[u] = pc[u]
        /\ pc[Owner] = "delete" /\ pc'[Owner] = "end"
        /\ inside' = inside \ {Owner}
    BY <1>1, <1>7 DEF Delete, local, TypeOK
  <2>2. Roles' /\ Newcomer' /\ Single' /\ Emptied'
    BY <2>1 DEF Matched, Roles, Newcomer, Single, Emptied, Slot, Closing, Adding
  <2>3. pos[Owner] = MAX_CLIENTS_PER_ROOM
    BY <2>1 DEF Matched, Roles
  <2>4. \A i \in Slot : ~ToVisit(i)
    BY <2>1, <2>3 DEF ToVisit, Slot, Closing
  <2>5. Pointed'
    <3>1. \A c \in inside' : c \in inside /\ c \in Client \ {Owner}
      BY <2>1 DEF TypeOK
    <3> QED
      BY <2>1, <2>4, <3>1 DEF Matched, Pointed
  <2> QED
    BY <2>1, <2>2, <2>5 DEF Matched, Listed, Leavers, Open
<1> QED
  BY <1>2, <1>4, <1>5, <1>6, <1>7

LEMMA MatchedInit == Init => Matched
<1> SUFFICES ASSUME Init PROVE Matched
  OBVIOUS
<1> USE ThreadsAssumption DEF Init
<1>1. \A t \in Client : pc[t] = "idle"
  OBVIOUS
<1>2. Roles /\ Newcomer /\ Leavers /\ Emptied
  BY <1>1 DEF Roles, Newcomer, Leavers, Emptied, Closing, Adding
<1>3. MAX_CLIENTS_PER_ROOM - 1 \in Slot /\ \A i \in Slot : ToVisit(i)
  BY <1>1 DEF Slot, ToVisit, Closing
<1>4. Pointed /\ Single /\ Listed
  BY <1>3 DEF Pointed, Single, Listed
<1> QED
  BY <1>2, <1>4 DEF Matched

LEMMA MatchedStep == TypeOK /\ Alone /\ Matched /\ [OwnerNext]_vars => Matched'
<1> SUFFICES ASSUME TypeOK, Alone, Matched, [OwnerNext]_vars PROVE Matched'
  OBVIOUS
<1>1. ASSUME UNCHANGED <<shared, local, pc>> PROVE Matched'
  BY <1>1 DEF shared, local, Matched, Roles, Pointed, Single, Listed, Leavers, Emptied,
       Newcomer, Open, ToVisit
<1>2. CASE UNCHANGED vars
  BY <1>1, <1>2 DEF vars
<1>3. CASE Crash
  BY <1>1, <1>3 DEF Crash
<1>4. ASSUME NEW t \in Client, allocated, RoomStep(t), ~Crash PROVE Matched'
  BY <1>4, MatchedAfterReads, MatchedAfterAdding, MatchedAfterLeaving, MatchedAfterClosing
     DEF RoomStep
<1>5. ASSUME NEW t \in Client, Point(t) \/ Unpoint(t) \/ End(t) PROVE Matched'
  BY <1>5, MatchedAfterReads, MatchedAfterAdding, MatchedAfterLeaving
<1>6. ASSUME NEW t \in Client, RequestMessage(t) \/ RequestLeave(t) PROVE Matched'
  BY <1>6, MatchedAfterRequests
<1>7. ASSUME NEW d \in Client, RequestAccept(Owner, d) PROVE Matched'
  BY <1>7, ThreadsAssumption, MatchedAfterRequests
<1> QED
  BY <1>2, <1>3, <1>4, <1>5, <1>6, <1>7, OwnerSteps

LEMMA OwnerMatches == OwnerSpec => [](TypeOK /\ Matched)
<1> DEFINE I == TypeOK /\ Alone /\ Matched
<1>1. Init => I
  BY TypeInit, AloneInit, MatchedInit
<1>2. I /\ [OwnerNext]_vars => I'
  BY OwnerStep, TypeStep, AloneStep, MatchedStep
<1> QED
  BY <1>1, <1>2, PTL DEF OwnerSpec

\* If only the owner answers join requests, then once the handlers have ended
\* the clients in the slots of an open room are those that point to it, each in
\* a slot of its own.
THEOREM SlotsMatch == OwnerSpec => []SlotsMatchPointers
<1>1. TypeOK /\ Matched => SlotsMatchPointers
  <2> SUFFICES ASSUME TypeOK, Matched, Quiet, allocated
               PROVE  /\ Members \ gone = inside \ gone
                      /\ \A i, j \in Occupied : clients[i] = clients[j] => i = j
    BY DEF SlotsMatchPointers
  <2>1. Open /\ \A t \in Client : pc[t] = "idle"
    BY ThreadsAssumption DEF Quiet, Open, Closing
  <2>2. Members \subseteq inside
    BY <2>1, ThreadsAssumption DEF Members, Occupied, Matched, Listed
  <2>3. inside \subseteq Members
    BY <2>1, ThreadsAssumption DEF Members, Occupied, Matched, Pointed, TypeOK
  <2> QED
    BY <2>2, <2>3 DEF Matched, Single, Occupied
<1> QED
  BY <1>1, OwnerMatches, PTL

\* If only the owner answers join requests, a closing puts everybody out: a
\* client that still points to the room after its memory is freed is in the
\* middle of leaving it.
THEOREM ClosingEmpties == OwnerSpec => []ClosedIsEmpty
<1>1. TypeOK /\ Matched => ClosedIsEmpty
  BY DEF Matched, Pointed, ClosedIsEmpty
<1> QED
  BY <1>1, OwnerMatches, PTL

-----------------------------------------------------------------------------
(* When only the owner answers, the threads implement the one room.        *)

LEMMA StatusIs ==
  Status = IF ~allocated THEN "closed"
           ELSE IF pc[Owner] \in Closing THEN "closing" ELSE "open"
BY DEF Status, Closing

\* A step that changes no pointer, and no label to or from "unpoint".
LEMMA StayingSame ==
  ASSUME TypeOK, NEW t \in Client, inside' = inside,
         \A u \in Client \ {t} : pc'[u] = pc[u],
         pc[t] # "unpoint", pc'[t] # "unpoint"
  PROVE  Staying' = Staying
<1>1. \A c \in inside : c \in Client
  BY DEF TypeOK
<1> QED
  BY <1>1 DEF Staying

LEMMA SameRoom ==
  ASSUME TypeOK, NEW t \in Client, UNCHANGED <<allocated, inside>>,
         \A u \in Client \ {t} : pc'[u] = pc[u],
         pc[t] # "unpoint", pc'[t] # "unpoint",
         pc'[t] \in Closing <=> pc[t] \in Closing
  PROVE  Staying' = Staying /\ Status' = Status
<1>1. Staying' = Staying
  BY StayingSame
<1>2. Status' = Status
  BY ThreadsAssumption, StatusIs DEF Status, Closing
<1> QED
  BY <1>1, <1>2

\* A slot that holds nobody who is staying leaves room for one: all who stay are
\* in the other slots.
LEMMA RoomForOne ==
  ASSUME TypeOK, Matched, NEW i \in Slot, clients[i] \notin Staying
  PROVE  Cardinality(Staying) < MAX_CLIENTS_PER_ROOM
<1> DEFINE J == Slot \ {i}
           F == {clients[j] : j \in J}
<1>1. IsFiniteSet(Slot) /\ Cardinality(Slot) = MAX_CLIENTS_PER_ROOM
  <2>1. /\ 0 \in Int /\ MAX_CLIENTS_PER_ROOM - 1 \in Int /\ 0 <= MAX_CLIENTS_PER_ROOM - 1
        /\ MAX_CLIENTS_PER_ROOM \in Int
    BY ThreadsAssumption
  <2> QED
    BY <2>1, FS_Interval DEF Slot
<1>2. IsFiniteSet(J) /\ Cardinality(J) = MAX_CLIENTS_PER_ROOM - 1
  BY <1>1, FS_RemoveElement
<1>3. IsFiniteSet(F) /\ Cardinality(F) <= Cardinality(J)
  <2> DEFINE f == [j \in J |-> clients[j]]
  <2>1. f \in Surjection(J, F)
    BY DEF Surjection
  <2> HIDE DEF f, F, J
  <2> QED
    BY <1>2, <2>1, FS_Surjection
<1>4. Staying \subseteq F
  <2> SUFFICES ASSUME NEW c \in Staying PROVE c \in F
    OBVIOUS
  <2>1. c \in inside /\ pc[c] # "unpoint"
    BY DEF Staying
  <2>2. PICK j \in Slot : clients[j] = c
    BY <2>1 DEF Matched, Pointed
  <2> QED
    BY <2>2
<1> HIDE DEF F, J
<1>5. Cardinality(Staying) <= Cardinality(F) /\ IsFiniteSet(Staying)
  BY <1>3, <1>4, FS_Subset
<1>6. Cardinality(Staying) \in Nat /\ Cardinality(F) \in Nat
  BY <1>3, <1>5, FS_CardinalityType
<1> QED
  BY <1>2, <1>3, <1>5, <1>6, ThreadsAssumption

\* An accepted client joins when its field room is set.
LEMMA JoinsAtPoint ==
  ASSUME TypeOK, Alone, Matched, NEW t \in Client, Point(t)
  PROVE  R!Next
<1> DEFINE d == subject[Owner]
<1>1. t = Owner /\ allocated /\ d \in Client /\ d \notin inside
  BY DEF Point, Alone, Adding, Matched, Roles, Newcomer, TypeOK
<1>2. /\ pc[Owner] = "point" /\ pc'[Owner] = "send" /\ inside' = inside \cup {d}
      /\ \A u \in Client \ {Owner} : pc'[u] = pc[u]
      /\ allocated' = allocated
  BY <1>1 DEF Point, Goto, TypeOK
<1>3. Open
  BY <1>1, <1>2 DEF Open, Closing
<1>4. pc'[d] # "unpoint"
  BY <1>1, <1>2, <1>3 DEF Matched, Leavers
<1>5. Staying' = Staying \cup {d} /\ d \notin Staying
  <2>1. \A c \in inside : c \in Client /\ (pc'[c] = "unpoint" <=> pc[c] = "unpoint")
    BY <1>2 DEF TypeOK
  <2> HIDE DEF d
  <2> QED
    BY <1>1, <1>2, <1>4, <2>1 DEF Staying
<1>6. Status = "open" /\ Status' = "open"
  BY <1>1, <1>2, StatusIs DEF Status, Closing
<1>7. Cardinality(Staying) < MAX_CLIENTS_PER_ROOM
  <2>1. PICK i \in Slot : clients[i] = d
    BY <1>2 DEF Matched, Newcomer, Adding
  <2> QED
    BY <1>5, <2>1, RoomForOne
<1>8. R!Cardinality(Staying) = Cardinality(Staying)
  BY DEF Cardinality, R!Cardinality
<1>9. R!Join(d)
  BY <1>5, <1>6, <1>7, <1>8 DEF R!Join
<1> QED
  BY <1>1, <1>9 DEF R!Next

\* Who empties its slot has left, unless the closing has put it out before.
LEMMA LeavesAtClear ==
  ASSUME TypeOK, Matched, NEW t \in Client, allocated, Clear(t)
  PROVE  R!Next \/ UNCHANGED R!vars
<1>1. t # Owner /\ pc[t] = "clear"
  BY DEF Clear, Matched, Roles
<1>2. /\ pc'[t] = "unpoint" /\ inside' = inside /\ allocated' = allocated
      /\ \A u \in Client \ {t} : pc'[u] = pc[u]
  BY DEF Clear, Goto, TypeOK
<1>3. Status' = Status
  BY <1>1, <1>2, ThreadsAssumption DEF Status
<1>4. Staying' = Staying \ {t}
  <2>1. \A c \in inside : c \in Client
    BY DEF TypeOK
  <2> QED
    BY <1>1, <1>2, <2>1 DEF Staying
<1>5. CASE t \in Staying
  BY <1>1, <1>3, <1>4, <1>5 DEF R!Next, R!Leave
<1>6. CASE t \notin Staying
  BY <1>3, <1>4, <1>6 DEF R!vars
<1> QED
  BY <1>5, <1>6

\* To clear the pointer afterwards is no step of the room.
LEMMA SameAtUnpoint ==
  ASSUME TypeOK, Matched, NEW t \in Client, Unpoint(t)
  PROVE  UNCHANGED R!vars
<1>1. t # Owner /\ pc[t] = "unpoint"
  BY DEF Unpoint, Matched, Roles
<1>2. /\ pc'[t] = "send" /\ inside' = inside \ {t} /\ allocated' = allocated
      /\ \A u \in Client \ {t} : pc'[u] = pc[u]
  BY DEF Unpoint, Goto, TypeOK
<1>3. Status' = Status
  BY <1>1, <1>2, ThreadsAssumption DEF Status
<1>4. Staying' = Staying
  <2>1. \A c \in inside : c \in Client
    BY DEF TypeOK
  <2> QED
    BY <1>1, <1>2, <2>1 DEF Staying
<1> QED
  BY <1>3, <1>4 DEF R!vars

\* Who points to the room and looks for its slot has one.
LEMMA NoLeaveWithoutSlot ==
  ASSUME TypeOK, Matched, NEW t \in Client, FindNoSlot(t)
  PROVE  FALSE
<1>1. t \in inside /\ t \notin Members /\ pc[t] = "find"
  BY DEF FindNoSlot
<1>2. PICK i \in Slot : clients[i] = t
  BY <1>1 DEF Matched, Pointed
<1> QED
  BY <1>1, <1>2, ThreadsAssumption DEF Members, Occupied

\* The closing: it begins, puts clients out one at a time, and ends with nobody.
LEMMA RoomAtClosing ==
  ASSUME TypeOK, Matched, NEW t \in Client, allocated,
         Leave(t) \/ ((Close(t) \/ Kick(t) \/ Tell(t)) /\ ~Crash) \/ Delete(t)
  PROVE  R!Next \/ UNCHANGED R!vars
<1> USE DEF Goto
<1>1. pc[t] \in Closing => t = Owner
  BY DEF Matched, Roles
<1>2. CASE Leave(t) /\ t # Owner
  <2>1. /\ pc[t] = "leave" /\ pc'[t] = "find" /\ UNCHANGED <<allocated, inside>>
        /\ \A u \in Client \ {t} : pc'[u] = pc[u]
    BY <1>2 DEF Leave, shared, TypeOK
  <2> QED
    BY <2>1, SameRoom DEF R!vars, Closing
<1>3. CASE Leave(t) /\ t = Owner
  <2>1. /\ pc[t] = "leave" /\ pc'[t] = "close" /\ UNCHANGED <<allocated, inside>>
        /\ \A u \in Client \ {t} : pc'[u] = pc[u]
    BY <1>3 DEF Leave, shared, TypeOK
  <2>2. Staying' = Staying
    BY <2>1, StayingSame
  <2>3. Status = "open" /\ Status' = "closing"
    BY <1>3, <2>1 DEF Status
  <2> QED
    BY <2>2, <2>3 DEF R!Next, R!BeginClosing
<1>4. CASE (Close(t) \/ Tell(t)) /\ ~Crash
  <2>1. /\ pc[t] \in Closing /\ pc'[t] \in Closing /\ UNCHANGED <<allocated, inside>>
        /\ \A u \in Client \ {t} : pc'[u] = pc[u]
    <3>1. CASE Close(t)
      BY <1>4, <3>1 DEF Close, NextSlot, shared, Closing, TypeOK
    <3>2. CASE Tell(t)
      <4>1. pc[t] = "tell" /\ NextSlot(t) /\ UNCHANGED shared
        BY <1>4, <3>2 DEF Tell, Touch
      <4> QED
        BY <4>1 DEF NextSlot, shared, Closing, TypeOK
    <3> QED
      BY <1>4, <3>1, <3>2
  <2> QED
    BY <2>1, SameRoom DEF R!vars, Closing
<1>5. CASE Kick(t) /\ ~Crash
  <2> DEFINE d == clients[pos[Owner]]
  <2>1. t = Owner /\ pc[Owner] = "kick" /\ pos[Owner] \in Slot
    BY <1>1, <1>5 DEF Kick, Closing, TypeOK
  <2>2. d \in Client
    BY <1>5, <2>1 DEF Kick, Touch, TypeOK
  <2>3. /\ pc'[Owner] = "tell" /\ inside' = inside \ {d} /\ allocated' = allocated
        /\ \A u \in Client \ {Owner} : pc'[u] = pc[u]
    <3>1. /\ Goto(t, "tell") /\ inside' = inside \ {clients[pos[t]]}
          /\ UNCHANGED <<clients, clientsCount, mutex, allocated, local, life>>
      BY <1>5 DEF Kick, Touch
    <3> QED
      BY <2>1, <3>1 DEF TypeOK
  <2> HIDE DEF d
  <2>4. Staying' = Staying \ {d}
    <3>1. \A c \in inside : c \in Client
      BY DEF TypeOK
    <3> QED
      BY <2>1, <2>3, <3>1 DEF Staying
  <2>5. Status = "closing" /\ Status' = "closing"
    BY <2>1, <2>3 DEF Status
  <2>6. CASE d \in Staying
    BY <2>2, <2>4, <2>5, <2>6 DEF R!Next, R!PutOut
  <2>7. CASE d \notin Staying
    BY <2>4, <2>5, <2>7 DEF R!vars
  <2> QED
    BY <2>6, <2>7
<1>6. CASE Delete(t)
  <2>1. t = Owner /\ pc[Owner] = "delete" /\ pos[Owner] = MAX_CLIENTS_PER_ROOM
    BY <1>1, <1>6 DEF Delete, Closing, Matched, Roles
  <2>2. /\ pc'[Owner] = "end" /\ inside' = inside \ {Owner} /\ ~allocated'
        /\ \A u \in Client \ {Owner} : pc'[u] = pc[u]
    BY <1>6, <2>1 DEF Delete, TypeOK
  <2>3. \A i \in Slot : ~ToVisit(i)
    BY <2>1, ThreadsAssumption DEF ToVisit, Slot, Closing
  <2>4. \A c \in inside : c \in Client /\ pc[c] = "unpoint"
    BY <2>3 DEF Matched, Pointed, TypeOK
  <2>5. Staying = {} /\ Staying' = {}
    BY <2>1, <2>2, <2>4 DEF Staying
  <2>6. Status = "closing" /\ Status' = "closed"
    BY <2>1, <2>2 DEF Status
  <2> QED
    BY <2>5, <2>6 DEF R!Next, R!EndClosing
<1> QED
  BY <1>2, <1>3, <1>4, <1>5, <1>6

\* What neither adds, removes nor closes.
LEMMA SameOtherwise ==
  ASSUME TypeOK, Alone, Matched, NEW t \in Client,
         \/ \E d \in Client : RequestAccept(t, d)
         \/ RequestMessage(t) \/ RequestLeave(t)
         \/ Scan(t) \/ (Check(t) /\ ~Crash) \/ Store(t) \/ Send(t) \/ Sending(t)
         \/ FindNoRoom(t) \/ Find(t) \/ End(t)
  PROVE  UNCHANGED R!vars
<1> USE DEF Goto, Request, shared
<1>1. /\ UNCHANGED <<allocated, inside>>
      /\ \A u \in Client \ {t} : pc'[u] = pc[u]
  <2>1. CASE (\E d \in Client : RequestAccept(t, d)) \/ RequestMessage(t) \/ RequestLeave(t)
    BY <2>1 DEF RequestAccept, RequestMessage, RequestLeave, TypeOK
  <2>2. CASE Scan(t) \/ (Check(t) /\ ~Crash) \/ Store(t)
    BY <2>2 DEF Scan, Check, Store, TypeOK
  <2>3. CASE Send(t) \/ Sending(t) \/ FindNoRoom(t) \/ Find(t) \/ End(t)
    BY <2>3 DEF Send, Sending, FindNoRoom, Find, End, TypeOK
  <2> QED
    BY <2>1, <2>2, <2>3
<1>2. pc[t] \notin Closing \cup {"unpoint"} /\ pc'[t] \notin Closing \cup {"unpoint"}
  <2> USE DEF Closing
  <2>1. CASE (\E d \in Client : RequestAccept(t, d)) \/ RequestMessage(t) \/ RequestLeave(t)
    BY <2>1 DEF RequestAccept, RequestMessage, RequestLeave, TypeOK
  <2>2. CASE Scan(t) \/ (Check(t) /\ ~Crash) \/ Store(t)
    BY <2>2 DEF Scan, Check, Store, TypeOK
  <2>3. CASE Send(t) \/ Sending(t) \/ FindNoRoom(t) \/ Find(t) \/ End(t)
    BY <2>3 DEF Send, Sending, FindNoRoom, Find, End, TypeOK
  <2> QED
    BY <2>1, <2>2, <2>3
<1> QED
  BY <1>1, <1>2, SameRoom DEF R!vars, Closing

LEMMA OneRoomStep ==
  ASSUME TypeOK, Alone, Matched, [OwnerNext]_vars
  PROVE  [R!Next]_(R!vars)
<1>1. ASSUME UNCHANGED <<shared, pc>> PROVE UNCHANGED R!vars
  BY <1>1 DEF shared, R!vars, Staying, Status
<1>2. CASE UNCHANGED vars
  BY <1>1, <1>2 DEF vars
<1>3. CASE Crash
  BY <1>1, <1>3 DEF Crash
<1>4. ASSUME NEW t \in Client, allocated, RoomStep(t), ~Crash PROVE R!Next \/ UNCHANGED R!vars
  BY <1>4, SameOtherwise, LeavesAtClear, NoLeaveWithoutSlot, RoomAtClosing DEF RoomStep
<1>5. ASSUME NEW t \in Client, Point(t) \/ Unpoint(t) \/ End(t)
      PROVE  R!Next \/ UNCHANGED R!vars
  BY <1>5, JoinsAtPoint, SameAtUnpoint, SameOtherwise
<1>6. ASSUME NEW t \in Client, RequestMessage(t) \/ RequestLeave(t) PROVE UNCHANGED R!vars
  BY <1>6, SameOtherwise
<1>7. ASSUME NEW d \in Client, RequestAccept(Owner, d) PROVE UNCHANGED R!vars
  BY <1>7, SameOtherwise, ThreadsAssumption
<1> QED
  BY <1>2, <1>3, <1>4, <1>5, <1>6, <1>7, OwnerSteps

LEMMA OneRoomInit == Init => R!Init
<1> SUFFICES ASSUME Init PROVE R!Init
  OBVIOUS
<1>1. Staying = {Owner}
  BY ThreadsAssumption DEF Init, Staying
<1>2. Status = "open"
  BY ThreadsAssumption DEF Init, Status
<1> QED
  BY <1>1, <1>2 DEF R!Init

\* If only the owner answers join requests, the threads of a room, which search
\* and fill slots without the mutex and close without any, do what the one room
\* does in single steps: joins within the capacity and none once the closing has
\* begun, leaves, and an end with nobody inside.
THEOREM Refinement == OwnerSpec => ImplementsOneRoom
<1> DEFINE I == TypeOK /\ Alone /\ Matched
<1>1. Init => I
  BY TypeInit, AloneInit, MatchedInit
<1>2. I /\ [OwnerNext]_vars => I'
  BY OwnerStep, TypeStep, AloneStep, MatchedStep
<1>3. I /\ [OwnerNext]_vars => [R!Next]_(R!vars)
  BY OneRoomStep
<1> QED
  BY <1>1, <1>2, <1>3, OneRoomInit, PTL DEF OwnerSpec, ImplementsOneRoom, R!Spec
=============================================================================
