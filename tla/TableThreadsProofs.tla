------------------------- MODULE TableThreadsProofs -------------------------
(***************************************************************************)
(* Theorems about the table of rooms between the threads, for any number   *)
(* of clients, of addresses and of ids: the table never names a freed room *)
(* nor a room under another id than its own; and as long as creations do   *)
(* not overlap, whoever is in a room it has created finds it in the table  *)
(* under an id of its own.                                                 *)
(***************************************************************************)
EXTENDS TableThreads, TLAPS

\* Where a thread has a room in hand that is its own to change or to free.
Holding == Creating \cup {"reply", "unlist", "free"}

\* A room that a thread has in hand is no other thread's, neither in hand nor in
\* client->room, and nobody is in two clients' fields at once.
Private ==
  /\ \A t \in Client : room[t] # NULL => room[t] \in allocated
  /\ \A t \in Client : pc[t] \in Holding \ {"own", "reply"} => reg[t] # room[t]
  /\ \A t, u \in Client : t # u /\ pc[t] \in Holding =>
       reg[t] # room[u] /\ (pc[u] \in Holding => reg[t] # reg[u])
  /\ \A t, u \in Client : t # u /\ room[t] # NULL => room[t] # room[u]

\* A room whose id is about to be set, or whose memory is about to be freed, is
\* not in the table.
Tabled ==
  /\ \A i \in RoomId : gRooms[i] # NULL => gRooms[i] \in allocated /\ id[gRooms[i]] = i
  /\ \A t \in Client : pc[t] \in {"count", "publish", "free"} =>
       \A i \in RoomId : gRooms[i] # reg[t]

\* The types but for the history variable.
Types ==
  /\ counter_room \in 0 .. MaxRooms
  /\ gRooms \in [RoomId -> Room \cup {NULL}]
  /\ ready \subseteq allocated /\ allocated \subseteq Room
  /\ id \in [Room -> RoomId]
  /\ owner \in [Room -> Client \cup {NULL}]
  /\ room \in [Client -> Room \cup {NULL}]
  /\ pc \in [Client -> Label]
  /\ reg \in [Client -> Room \cup {NULL}]
  /\ pos \in [Client -> Nat]
  /\ running \in BOOLEAN
  /\ \A t \in Client : pc[t] \in Holding => reg[t] \in allocated
  /\ \A t \in Client : pc[t] = "count" => pos[t] \in RoomId

Inv == Types /\ Private /\ Tabled

\* The kinds of step, without the history variable.
LEMMA Steps ==
  ASSUME [Next]_vars
  PROVE  \/ UNCHANGED <<table, rooms, local, pc, running>>
         \/ \E t \in Client : Request(t) \/ Step(t)
BY DEF Next, Stopped, vars

LEMMA InvInit == Init => Inv
<1> SUFFICES ASSUME Init PROVE Inv
  OBVIOUS
<1>1. 0 \in RoomId /\ 0 \in 0 .. MaxRooms
  BY TableAssumption DEF RoomId
<1> QED
  BY <1>1, TableAssumption DEF Init, Inv, Types, Private, Tabled, Holding, Creating, Label

-----------------------------------------------------------------------------
(* Reading.                                                                *)

\* A step that changes neither the table nor a room, after which its thread has
\* no room in hand or the one it had.
LEMMA Reading ==
  ASSUME Inv, NEW t \in Client, UNCHANGED <<table, rooms>>,
         pc' \in [Client -> Label], reg' \in [Client -> Room \cup {NULL}],
         pos' \in [Client -> Nat], running' \in BOOLEAN,
         \A u \in Client \ {t} : pc'[u] = pc[u] /\ reg'[u] = reg[u],
         pc'[t] \notin Holding \/ (pc'[t] = pc[t] /\ reg'[t] = reg[t]),
         \A u \in Client : pc'[u] = "count" => pos'[u] = pos[u]
  PROVE  Inv'
<1> USE DEF Inv, table, rooms
<1>c. \A u \in Client : pc'[u] = "count" => pc[u] = "count"
  BY DEF Holding, Creating
<1>0. \A u \in Client : pc'[u] \in Holding => pc'[u] = pc[u] /\ reg'[u] = reg[u]
  OBVIOUS
<1>1. Types'
  BY <1>0, <1>c DEF Types
<1>2. Private'
  BY <1>0 DEF Private
<1>3. Tabled'
  BY <1>0 DEF Tabled, Holding, Creating
<1> QED
  BY <1>1, <1>2, <1>3

LEMMA ReadingSteps ==
  ASSUME Inv, NEW t \in Client,
         \/ Reply(t) \/ List(t) \/ Serialize(t) \/ Ask(t) \/ Send(t)
         \/ RequestList(t) \/ \E i \in RoomId : RequestJoin(t, i)
  PROVE  Inv'
<1> USE DEF Inv, Types, Goto, Done, Label
<1>0. ASSUME Crash PROVE Inv'
  BY <1>0, Reading DEF Crash, local
<1>1. ASSUME Done(t), UNCHANGED <<table, rooms, running>> PROVE Inv'
  BY <1>1, Reading DEF Holding, Creating
<1>2. CASE Reply(t)
  BY <1>0, <1>1, <1>2 DEF Reply
<1>3. CASE List(t)
  <2>1. CASE Done(t)
    BY <1>1, <1>3, <2>1 DEF List
  <2>2. CASE pos' = [pos EXCEPT ![t] = @ + 1] /\ UNCHANGED <<reg, pc>>
    <3>1. pos' \in [Client -> Nat] /\ \A u \in Client \ {t} : pos'[u] = pos[u]
      BY <2>2
    <3>2. pc'[t] = "list"
      BY <1>3, <2>2 DEF List
    <3> QED
      BY <1>3, <2>2, <3>1, <3>2, Reading DEF List
  <2>3. CASE pos[t] \in 0 .. MAX_ROOMS - 1 /\ reg' = [reg EXCEPT ![t] = gRooms[pos[t]]]
             /\ Goto(t, "serialize") /\ UNCHANGED pos
    <3>0. pos[t] \in RoomId
      BY <2>3, TableAssumption DEF RoomId
    <3>1. reg' \in [Client -> Room \cup {NULL}] /\ \A u \in Client \ {t} : reg'[u] = reg[u]
      BY <2>3, <3>0
    <3>2. pc' \in [Client -> Label] /\ pc'[t] = "serialize"
          /\ \A u \in Client \ {t} : pc'[u] = pc[u]
      BY <2>3
    <3>3. UNCHANGED <<table, rooms, pos, running>>
      BY <1>3, <2>3 DEF List
    <3> QED
      BY <3>1, <3>2, <3>3, Reading DEF Holding, Creating
  <2> QED
    BY <1>3, <2>1, <2>2, <2>3 DEF List
<1>4. CASE Serialize(t)
  BY <1>0, <1>4, Reading DEF Serialize, Holding, Creating
<1>5. CASE Ask(t)
  <2>1. CASE Goto(t, "send") /\ UNCHANGED <<table, rooms, local, running>>
    BY <1>5, <2>1, Reading DEF Holding, Creating, local
  <2> QED
    BY <1>0, <1>1, <1>5, <2>1 DEF Ask
<1>6. CASE Send(t)
  BY <1>0, <1>1, <1>6 DEF Send
<1>7. CASE RequestList(t)
  BY <1>7, Reading DEF RequestList, Holding, Creating
<1>8. ASSUME NEW i \in RoomId, RequestJoin(t, i) PROVE Inv'
  <2>1. CASE Crash
    BY <1>0, <2>1
  <2>2. CASE ~Crash
    <3>1. /\ gRooms[i] # NULL
          /\ reg' = [reg EXCEPT ![t] = gRooms[i]]
          /\ pc[t] = "idle" /\ Goto(t, "ask")
          /\ UNCHANGED <<table, rooms, pos, running>>
      BY <1>8, <2>2 DEF RequestJoin
    <3> QED
      BY <3>1, Reading DEF Holding, Creating
  <2> QED
    BY <2>1, <2>2
<1> QED
  BY <1>2, <1>3, <1>4, <1>5, <1>6, <1>7, <1>8

-----------------------------------------------------------------------------
(* Creating.                                                               *)

LEMMA InvCreate ==
  ASSUME Inv, NEW t \in Client, NEW r \in Room, Create(t, r)
  PROVE  Inv'
<1> USE TableAssumption DEF Inv, Goto
<1>1. /\ allocated' = allocated \cup {r} /\ r \notin allocated
      /\ pc[t] = "idle" /\ pc'[t] = "count" /\ reg'[t] = r
      /\ \A u \in Client \ {t} : pc'[u] = pc[u] /\ reg'[u] = reg[u]
      /\ UNCHANGED <<table, ready, id, room>>
  BY DEF Create, Types
<1>2. Types'
  <2>1. counter_room \in RoomId
    BY DEF Create, Types, RoomId
  <2>2. pos' \in [Client -> Nat] /\ pos'[t] = counter_room
        /\ \A u \in Client \ {t} : pos'[u] = pos[u]
    <3>1. counter_room \in Nat
      BY DEF Types
    <3> QED
      BY <3>1 DEF Create, Types
  <2>3. pc' \in [Client -> Label]
    BY DEF Create, Types, Label, Creating
  <2>4. owner' \in [Room -> Client \cup {NULL}] /\ reg' \in [Client -> Room \cup {NULL}]
    BY DEF Create, Types
  <2> QED
    BY <1>1, <2>1, <2>2, <2>3, <2>4 DEF Create, Types, table
<1>3. Private'
  BY <1>1 DEF Types, Private, Holding, Creating
<1>4. Tabled'
  BY <1>1 DEF Types, Tabled, Holding, Creating, table
<1> QED
  BY <1>2, <1>3, <1>4

LEMMA InvCount ==
  ASSUME Inv, NEW t \in Client, Count(t)
  PROVE  Inv'
<1> USE TableAssumption DEF Inv, Goto
<1>1. /\ pc[t] = "count" /\ pc'[t] = "publish"
      /\ \A u \in Client \ {t} : pc'[u] = pc[u]
      /\ \A s \in Room \ {reg[t]} : id'[s] = id[s]
      /\ UNCHANGED <<gRooms, allocated, ready, owner, room, local>>
  BY DEF Count, Types
<1>2. \A u \in Client : pc'[u] \in Holding <=> pc[u] \in Holding
  BY <1>1 DEF Holding, Creating
<1>3. Types'
  <2>0. pos[t] \in RoomId
    BY <1>1 DEF Types
  <2>1. id' \in [Room -> RoomId]
    <3>1. id \in [Room -> RoomId] /\ id' = [id EXCEPT ![reg[t]] = pos[t]]
      BY DEF Count, Types
    <3> QED
      BY <2>0, <3>1, Zenon
  <2>4. counter_room' \in 0 .. MaxRooms
    BY <2>0 DEF Count, RoomId
  <2>2. pc' \in [Client -> Label]
    BY DEF Count, Types, Label, Creating
  <2>3. running' \in BOOLEAN
    BY DEF Count, Types
  <2> QED
    BY <1>1, <1>2, <2>1, <2>2, <2>3, <2>4 DEF Types, local
<1>4. Private'
  BY <1>1, <1>2 DEF Private, local
<1>5. Tabled'
  BY <1>1 DEF Types, Tabled, local
<1> QED
  BY <1>3, <1>4, <1>5

LEMMA InvPublish ==
  ASSUME Inv, NEW t \in Client, Publish(t)
  PROVE  Inv'
<1> USE TableAssumption DEF Inv, Goto
<1>0. CASE Crash
  BY <1>0, Reading DEF Crash, local, Types
<1>1. CASE ~Crash
  <2>0. reg[t] \in Room /\ id[reg[t]] \in RoomId
    BY DEF Publish, Types, Holding, Creating
  <2>1. /\ pc[t] = "publish" /\ pc'[t] = "init"
        /\ id[reg[t]] \in RoomId
        /\ gRooms' = [gRooms EXCEPT ![id[reg[t]]] = reg[t]]
        /\ \A u \in Client \ {t} : pc'[u] = pc[u]
        /\ UNCHANGED <<counter_room, rooms, local, running>>
    BY <1>1, <2>0 DEF Publish, Types
  <2>2. \A u \in Client : pc'[u] \in Holding <=> pc[u] \in Holding
    BY <2>1 DEF Holding, Creating
  <2>3. Types'
    BY <1>1, <2>1, <2>2 DEF Publish, Types, Label, Creating, local, rooms
  <2>4. Private'
    BY <2>1, <2>2 DEF Private, local, rooms
  <2>5. reg[t] \in allocated
    BY <2>1 DEF Types, Holding, Creating
  <2>6. \A i \in RoomId : gRooms'[i] = gRooms[i] \/ (i = id[reg[t]] /\ gRooms'[i] = reg[t])
    BY <2>1 DEF Types
  <2>7. \A u \in Client \ {t} : pc[u] \in {"count", "publish", "free"} => reg[u] # reg[t]
    BY <2>1 DEF Private, Holding, Creating
  <2>8. Tabled'
    BY <2>1, <2>5, <2>6, <2>7 DEF Tabled, local, rooms
  <2> QED
    BY <2>3, <2>4, <2>8
<1> QED
  BY <1>0, <1>1

LEMMA InvRest ==
  ASSUME Inv, NEW t \in Client, InitMutex(t) \/ Add(t) \/ Own(t)
  PROVE  Inv'
<1> USE TableAssumption DEF Inv, Goto
<1>1. /\ pc[t] \in {"init", "add", "own"} /\ pc'[t] \in {"add", "own", "reply"}
      /\ \A u \in Client \ {t} : pc'[u] = pc[u]
      /\ UNCHANGED <<table, allocated, id, local, running>>
      /\ reg[t] \in allocated
  BY DEF InitMutex, Add, Own, Types, Holding, Creating
<1>2. \A u \in Client : pc'[u] \in Holding <=> pc[u] \in Holding
  BY <1>1 DEF Holding, Creating
<1>3. Types'
  BY <1>1, <1>2 DEF InitMutex, Add, Own, Types, Label, Creating, table, local
<1>4. Private'
  <2>1. CASE InitMutex(t) \/ Own(t)
    BY <1>1, <1>2, <2>1 DEF InitMutex, Own, Types, Private, local
  <2>2. CASE Add(t)
    <3>1. /\ pc[t] = "add" /\ pc'[t] = "own" /\ room'[t] = reg[t]
          /\ \A u \in Client \ {t} : room'[u] = room[u]
      BY <2>2 DEF Add, Types
    <3> QED
      BY <1>1, <1>2, <3>1 DEF Private, Holding, Creating, local
  <2> QED
    BY <2>1, <2>2
<1>5. Tabled'
  BY <1>1 DEF Types, Tabled, table, local
<1> QED
  BY <1>3, <1>4, <1>5

-----------------------------------------------------------------------------
(* Closing.                                                                *)

LEMMA InvRequestClose ==
  ASSUME Inv, NEW t \in Client, RequestClose(t)
  PROVE  Inv'
<1> USE TableAssumption DEF Inv, Goto
<1>1. /\ pc[t] = "idle" /\ pc'[t] = "unlist" /\ room[t] # NULL
      /\ reg'[t] = room[t] /\ room'[t] = NULL
      /\ \A u \in Client \ {t} : pc'[u] = pc[u] /\ reg'[u] = reg[u] /\ room'[u] = room[u]
      /\ UNCHANGED <<table, allocated, ready, id, owner, pos, running>>
  BY DEF RequestClose, Types
<1>2. room[t] \in allocated
  BY <1>1 DEF Private
<1>3. Types'
  BY <1>1, <1>2 DEF RequestClose, Types, Label, Creating, table
<1>4. Private'
  <2>1. \A u \in Client : room'[u] # NULL => u # t /\ room'[u] = room[u]
    BY <1>1
  <2>2. \A u \in Client \ {t} :
          room[u] # room[t] /\ (pc[u] \in Holding => reg[u] # room[t] /\ reg[u] # NULL)
    BY <1>1 DEF Private, Types
  <2>3. /\ \A u \in Client : room'[u] # NULL => room'[u] \in allocated'
        /\ \A u, v \in Client : u # v /\ room'[u] # NULL => room'[u] # room'[v]
    BY <1>1, <2>1 DEF Private
  <2>4. \A u \in Client : pc'[u] \in Holding \ {"own", "reply"} => reg'[u] # room'[u]
    BY <1>1 DEF Private
  <2>5. \A u, v \in Client : u # v /\ pc'[u] \in Holding =>
          reg'[u] # room'[v] /\ (pc'[v] \in Holding => reg'[u] # reg'[v])
    BY <1>1, <2>2 DEF Private
  <2> QED
    BY <2>3, <2>4, <2>5 DEF Private
<1>5. Tabled'
  BY <1>1 DEF Tabled, table
<1> QED
  BY <1>3, <1>4, <1>5

LEMMA InvUnlist ==
  ASSUME Inv, NEW t \in Client, Unlist(t)
  PROVE  Inv'
<1> USE TableAssumption DEF Inv, Goto
<1>0. CASE Crash
  BY <1>0, Reading DEF Crash, local, Types
<1>1. CASE ~Crash
  <2>0. reg[t] \in Room /\ id[reg[t]] \in RoomId
    BY DEF Unlist, Types, Holding, Creating
  <2>1. /\ pc[t] = "unlist" /\ pc'[t] = "free"
        /\ \A u \in Client \ {t} : pc'[u] = pc[u]
        /\ gRooms' = [gRooms EXCEPT ![id[reg[t]]] = NULL]
        /\ UNCHANGED <<counter_room, rooms, local, running>>
    BY <1>1, <2>0 DEF Unlist, Types
  <2>2. \A u \in Client : pc'[u] \in Holding <=> pc[u] \in Holding
    BY <2>1 DEF Holding, Creating
  <2>3. Types'
    <3>1. pc' \in [Client -> Label]
      BY <1>1 DEF Unlist, Types, Label
    <3>2. gRooms' \in [RoomId -> Room \cup {NULL}]
      BY <2>0, <2>1 DEF Types
    <3> QED
      BY <2>1, <2>2, <3>1, <3>2 DEF Types, rooms, local
  <2>4. Private'
    BY <2>1, <2>2 DEF Private, rooms, local
  <2>5. reg[t] \in allocated
    BY <2>1 DEF Types, Holding, Creating
  <2>6. \A i \in RoomId : gRooms'[i] = NULL \/ (gRooms'[i] = gRooms[i] /\ i # id[reg[t]])
    BY <2>1 DEF Types
  <2>7. \A i \in RoomId : gRooms'[i] # reg[t]
    BY <2>5, <2>6 DEF Types, Tabled
  <2>8. \A u \in Client \ {t} : pc[u] \in {"count", "publish", "free"} => reg[u] # NULL
    BY DEF Types, Holding, Creating
  <2>9. Tabled'
    BY <2>1, <2>6, <2>7, <2>8 DEF Tabled, rooms, local
  <2> QED
    BY <2>3, <2>4, <2>9
<1> QED
  BY <1>0, <1>1

LEMMA InvFree ==
  ASSUME Inv, NEW t \in Client, Free(t)
  PROVE  Inv'
<1> USE TableAssumption DEF Inv, Goto
<1>1. /\ pc[t] = "free" /\ pc'[t] = "idle"
      /\ \A u \in Client \ {t} : pc'[u] = pc[u] /\ reg'[u] = reg[u]
      /\ allocated' = allocated \ {reg[t]} /\ ready' = ready \ {reg[t]}
      /\ UNCHANGED <<table, id, owner, room, running>>
  BY DEF Free, Done, Types
<1>2. \A u \in Client \ {t} : pc[u] \in Holding => reg[u] # reg[t]
  BY <1>1 DEF Private, Holding
<1>3. \A u \in Client : room[u] # reg[t]
  BY <1>1 DEF Private, Holding, Creating
<1>4. Types'
  BY <1>1, <1>2 DEF Free, Done, Types, Label, Holding, Creating, table
<1>5. Private'
  BY <1>1, <1>3 DEF Private, Holding, Creating
<1>6. Tabled'
  BY <1>1 DEF Tabled, table
<1> QED
  BY <1>4, <1>5, <1>6

-----------------------------------------------------------------------------
LEMMA InvStep == Inv /\ [Next]_vars => Inv'
<1> SUFFICES ASSUME Inv, [Next]_vars PROVE Inv'
  OBVIOUS
<1>1. CASE UNCHANGED <<table, rooms, local, pc, running>>
  BY <1>1 DEF Inv, Types, Private, Tabled, table, rooms, local
<1> QED
  BY <1>1, Steps, ReadingSteps, InvCreate, InvCount, InvPublish, InvRest,
     InvRequestClose, InvUnlist, InvFree DEF Request, Step

History == overlapped \in BOOLEAN

LEMMA HistoryStep == History /\ [Next]_vars => History'
BY DEF Next, Stopped, vars, History

\* Types, with a room in hand wherever the code uses one, however creations and
\* closings interleave.
THEOREM TypeCorrect == Spec => []TypeOK
<1>1. Init => History
  BY DEF Init, History
<1>2. Inv /\ History => TypeOK
  BY DEF History, Inv, Types, TypeOK, Holding
<1> QED
  BY <1>1, <1>2, InvInit, InvStep, HistoryStep, PTL DEF Spec

\* room_delete clears the entry of its id, whoever has it by now, and two rooms
\* may have been given one id: the table still names allocated rooms only, each
\* under its own id.
THEOREM EntriesStayRooms == Spec => []EntriesAreRooms
<1>1. Inv => EntriesAreRooms
  BY DEF Inv, Tabled, EntriesAreRooms
<1> QED
  BY <1>1, InvInit, InvStep, PTL DEF Spec

-----------------------------------------------------------------------------
(* As long as creations have not overlapped.                               *)

OneCreator ==
  \A t, u \in Client : pc[t] \in Creating /\ pc[u] \in Creating => t = u

HasId(r) == r \in allocated /\ \A u \in Client : pc[u] = "count" => reg[u] # r

\* The ids given out are below the counter, and the creation that is about to
\* store it has read it as it is.
Counted ==
  /\ \A t \in Client : pc[t] = "count" => pos[t] = counter_room
  /\ \A r \in Room : HasId(r) => id[r] < counter_room

Single == \A r, s \in Room : HasId(r) /\ HasId(s) /\ id[r] = id[s] => r = s

\* A room that has an id is in the table, unless it is about to be put in it or
\* to be freed.
Found ==
  \A r \in Room : HasId(r) =>
    \/ \E i \in RoomId : gRooms[i] = r
    \/ \E t \in Client : reg[t] = r /\ pc[t] \in {"publish", "free"}

Listed == OneCreator /\ Counted /\ Single /\ Found

\* Whether or not creations overlap, a client owns the room its field points to.
Owned ==
  \A t \in Client :
    /\ pc[t] = "own" => room[t] = reg[t]
    /\ room[t] # NULL /\ pc[t] # "own" => owner[room[t]] = t

Outside == {"count", "publish", "free"}

\* A step of a thread that changes no id and no entry.
LEMMA ListedStays ==
  ASSUME Inv, Listed, OneCreator', NEW t \in Client,
         UNCHANGED <<table, allocated, id>>,
         \A u \in Client \ {t} : pc'[u] = pc[u] /\ reg'[u] = reg[u] /\ pos'[u] = pos[u],
         \/ pc[t] \notin Outside /\ pc'[t] \notin Outside
         \/ UNCHANGED <<local, pc>>
  PROVE  Listed'
<1> USE DEF Listed, table, local, Outside
<1>1. \A r \in Room : HasId(r)' <=> HasId(r)
  BY DEF HasId
<1>2. Counted' /\ Single'
  BY <1>1 DEF Counted, Single
<1>3. Found'
  BY <1>1 DEF Found, RoomId
<1> QED
  BY <1>2, <1>3

LEMMA ListedAfterReads ==
  ASSUME Inv, Listed, OneCreator', NEW t \in Client,
         \/ Reply(t) \/ List(t) \/ Serialize(t) \/ Ask(t) \/ Send(t)
         \/ RequestList(t) \/ RequestClose(t) \/ \E i \in RoomId : RequestJoin(t, i)
         \/ InitMutex(t) \/ Add(t) \/ Own(t)
  PROVE  Listed'
<1> USE DEF Inv, Types, Goto, Done, Outside
<1>0. ASSUME Crash PROVE Listed'
  BY <1>0, ListedStays DEF Crash, local, rooms
<1>1. ASSUME Done(t), UNCHANGED <<table, rooms, running>>, pc[t] \notin Outside PROVE Listed'
  <2>1. /\ pc'[t] = "idle"
        /\ \A u \in Client \ {t} : pc'[u] = pc[u] /\ reg'[u] = reg[u] /\ pos'[u] = pos[u]
    BY <1>1
  <2> QED
    BY <1>1, <2>1, ListedStays DEF rooms
<1>2. ASSUME NEW l \in Label \ Outside, Goto(t, l), UNCHANGED <<table, allocated, id>>,
             \A u \in Client \ {t} : reg'[u] = reg[u] /\ pos'[u] = pos[u],
             pc[t] \notin Outside
      PROVE  Listed'
  <2>1. pc'[t] = l /\ \A u \in Client \ {t} : pc'[u] = pc[u]
    BY <1>2
  <2> QED
    BY <1>2, <2>1, ListedStays
<1>3. {"list", "serialize", "ask", "send", "unlist", "add", "own", "reply"}
        \subseteq Label \ Outside
  BY DEF Label, Creating
<1>4. CASE Reply(t)
  BY <1>0, <1>1, <1>4 DEF Reply
<1>5. CASE List(t)
  <2>1. pc[t] = "list" /\ UNCHANGED <<table, rooms, running>>
    BY <1>5 DEF List
  <2>2. CASE Done(t)
    BY <1>1, <2>1, <2>2
  <2>3. CASE pos' = [pos EXCEPT ![t] = @ + 1] /\ UNCHANGED <<reg, pc>>
    <3>1. \A u \in Client \ {t} : pos'[u] = pos[u]
      BY <2>3
    <3> QED
      BY <2>1, <2>3, <3>1, ListedStays DEF rooms
  <2>4. CASE reg' = [reg EXCEPT ![t] = gRooms[pos[t]]] /\ Goto(t, "serialize") /\ UNCHANGED pos
    <3>1. \A u \in Client \ {t} : reg'[u] = reg[u]
      BY <2>4
    <3> QED
      BY <1>2, <1>3, <2>1, <2>4, <3>1 DEF rooms
  <2> QED
    BY <1>5, <2>2, <2>3, <2>4 DEF List
<1>6. CASE Serialize(t)
  <2>1. CASE Crash
    BY <1>0, <2>1
  <2>2. CASE ~Crash
    <3>1. /\ pc[t] = "serialize" /\ Goto(t, "list") /\ UNCHANGED <<table, rooms, running>>
          /\ \A u \in Client \ {t} : reg'[u] = reg[u] /\ pos'[u] = pos[u]
      BY <1>6, <2>2 DEF Serialize
    <3> QED
      BY <1>2, <1>3, <3>1 DEF rooms
  <2> QED
    BY <2>1, <2>2
<1>7. CASE Ask(t)
  <2>1. pc[t] = "ask"
    BY <1>7 DEF Ask
  <2>2. CASE Goto(t, "send") /\ UNCHANGED <<table, rooms, local, running>>
    BY <1>2, <1>3, <2>1, <2>2 DEF rooms, local
  <2> QED
    BY <1>0, <1>1, <1>7, <2>1, <2>2 DEF Ask
<1>8. CASE Send(t)
  BY <1>0, <1>1, <1>8 DEF Send
<1>9. CASE RequestList(t)
  BY <1>2, <1>3, <1>9 DEF RequestList, rooms
<1>10. CASE RequestClose(t)
  BY <1>2, <1>3, <1>10 DEF RequestClose
<1>11. ASSUME NEW i \in RoomId, RequestJoin(t, i) PROVE Listed'
  <2>1. CASE Crash
    BY <1>0, <2>1
  <2>2. CASE ~Crash
    BY <1>2, <1>3, <1>11, <2>2 DEF RequestJoin, rooms
  <2> QED
    BY <2>1, <2>2
<1>12. CASE InitMutex(t) \/ Add(t) \/ Own(t)
  <2>1. /\ pc[t] \in {"init", "add", "own"}
        /\ Goto(t, "add") \/ Goto(t, "own") \/ Goto(t, "reply")
        /\ UNCHANGED <<table, allocated, id, local>>
    BY <1>12 DEF InitMutex, Add, Own
  <2> QED
    BY <1>2, <1>3, <2>1 DEF local
<1> QED
  BY <1>4, <1>5, <1>6, <1>7, <1>8, <1>9, <1>10, <1>11, <1>12

LEMMA ListedAfterCreation ==
  ASSUME Inv, Listed, OneCreator', NEW t \in Client,
         (\E r \in Room : Create(t, r)) \/ Count(t) \/ Publish(t)
  PROVE  Listed'
<1> USE TableAssumption DEF Inv, Listed, Goto
<1>1. ASSUME NEW r \in Room, Create(t, r) PROVE Listed'
  <2>1. /\ r \notin allocated /\ allocated' = allocated \cup {r}
        /\ pc[t] = "idle" /\ pc'[t] = "count" /\ reg'[t] = r /\ pos'[t] = counter_room
        /\ \A u \in Client \ {t} : pc'[u] = pc[u] /\ reg'[u] = reg[u] /\ pos'[u] = pos[u]
        /\ UNCHANGED <<counter_room, gRooms, id>>
    BY <1>1 DEF Create, Types, table
  <2>2. \A u \in Client : pc'[u] = "count" => u = t
    BY <2>1 DEF OneCreator, Creating
  <2>3. \A s \in Room : HasId(s)' => HasId(s)
    BY <2>1, <2>2 DEF HasId, OneCreator, Creating
  <2>4. Counted' /\ Single'
    BY <2>1, <2>2, <2>3 DEF Counted, Single
  <2>5. Found'
    BY <2>1, <2>3 DEF Found, RoomId
  <2> QED
    BY <2>4, <2>5
<1>2. CASE Count(t)
  <2> DEFINE k == reg[t]
  <2>1. /\ pc[t] = "count" /\ pc'[t] = "publish"
        /\ \A u \in Client \ {t} : pc'[u] = pc[u]
        /\ counter_room' = pos[t] + 1
        /\ UNCHANGED <<gRooms, allocated, local>>
    BY <1>2 DEF Count, Types
  <2>2. k \in Room /\ k \in allocated /\ pos[t] = counter_room
    BY <2>1 DEF Types, Holding, Creating, Counted
  <2>3. id'[k] = pos[t] /\ \A s \in Room \ {k} : id'[s] = id[s]
    BY <1>2, <2>2 DEF Count, Types
  <2>4. \A u \in Client \ {t} : pc[u] # "count"
    BY <2>1 DEF OneCreator, Creating
  <2>5. \A s \in Room : HasId(s)' => s = k \/ HasId(s)
    BY <2>1, <2>4 DEF HasId
  <2>6. \A s \in Room : HasId(s) => id[s] < counter_room /\ id[s] \in Nat /\ s # k
    BY <2>1 DEF Counted, Types, HasId, RoomId
  <2>7. counter_room \in Nat
    BY DEF Types
  <2> HIDE DEF k
  <2>8. Counted'
    BY <2>1, <2>2, <2>3, <2>4, <2>5, <2>6, <2>7 DEF Counted, local
  <2>9. Single'
    BY <2>2, <2>3, <2>5, <2>6, <2>7 DEF Single
  <2>10. Found'
    BY <2>1, <2>5 DEF Found, RoomId, k, local
  <2> QED
    BY <2>8, <2>9, <2>10
<1>3. CASE Publish(t)
  <2>0. CASE Crash
    <3>1. UNCHANGED <<table, allocated, id>> /\ UNCHANGED <<local, pc>>
      BY <2>0 DEF Crash, rooms
    <3>2. \A u \in Client \ {t} : pc'[u] = pc[u] /\ reg'[u] = reg[u] /\ pos'[u] = pos[u]
      BY <3>1 DEF local
    <3> HIDE DEF Inv, Listed, Goto
    <3> QED
      BY <3>1, <3>2, ListedStays
  <2>1. CASE ~Crash
    <3> DEFINE k == reg[t]
    <3>0. id[k] \in RoomId
      BY <1>3 DEF Publish, Types, Holding, Creating
    <3>1. /\ pc[t] = "publish" /\ pc'[t] = "init"
          /\ \A u \in Client \ {t} : pc'[u] = pc[u]
          /\ id[k] \in RoomId
          /\ gRooms' = [gRooms EXCEPT ![id[k]] = k]
          /\ UNCHANGED <<counter_room, rooms, local>>
      BY <1>3, <2>1, <3>0 DEF Publish, Types
    <3>2. k \in Room /\ HasId(k)
      BY <3>1 DEF Types, Holding, Creating, HasId, Private
    <3>3. gRooms'[id[k]] = k /\ \A i \in RoomId \ {id[k]} : gRooms'[i] = gRooms[i]
      BY <3>1 DEF Types
    <3>4. \A s \in Room : HasId(s)' <=> HasId(s)
      BY <3>1 DEF HasId, rooms, local
    <3>5. Counted' /\ Single'
      BY <3>1, <3>4 DEF Counted, Single, rooms, local
    <3>6. Found'
      <4>1. ASSUME NEW s \in Room, HasId(s), s # k
            PROVE  \/ \E i \in RoomId : gRooms'[i] = s
                   \/ \E u \in Client : reg'[u] = s /\ pc'[u] \in {"publish", "free"}
        <5>1. CASE \E i \in RoomId : gRooms[i] = s
          <6>1. PICK i \in RoomId : gRooms[i] = s
            BY <5>1
          <6>2. id[s] = i
            BY <6>1 DEF Tabled
          <6>3. i # id[k]
            BY <3>2, <4>1, <6>2 DEF Single
          <6> QED
            BY <3>3, <6>1, <6>3
        <5>2. CASE \E u \in Client : reg[u] = s /\ pc[u] \in {"publish", "free"}
          BY <3>1, <4>1, <5>2 DEF local
        <5> QED
          BY <4>1, <5>1, <5>2 DEF Found
      <4>2. \E i \in RoomId : gRooms'[i] = k
        BY <3>1, <3>3
      <4> QED
        BY <3>4, <4>1, <4>2 DEF Found, RoomId
    <3> QED
      BY <3>5, <3>6
  <2> QED
    BY <2>0, <2>1
<1> QED
  BY <1>1, <1>2, <1>3

LEMMA ListedAfterClosing ==
  ASSUME Inv, Listed, OneCreator', NEW t \in Client, Unlist(t) \/ Free(t)
  PROVE  Listed'
<1> USE TableAssumption DEF Inv, Listed, Goto
<1> DEFINE k == reg[t]
<1>0. CASE Crash
  <2>1. UNCHANGED <<table, allocated, id>> /\ UNCHANGED <<local, pc>>
    BY <1>0 DEF Crash, rooms
  <2>2. \A u \in Client \ {t} : pc'[u] = pc[u] /\ reg'[u] = reg[u] /\ pos'[u] = pos[u]
    BY <2>1 DEF local
  <2> HIDE DEF Inv, Listed, Goto
  <2> QED
    BY <2>1, <2>2, ListedStays
<1>1. CASE Unlist(t) /\ ~Crash
  <2>1. /\ pc[t] = "unlist" /\ pc'[t] = "free"
        /\ \A u \in Client \ {t} : pc'[u] = pc[u]
        /\ gRooms' = [gRooms EXCEPT ![id[k]] = NULL]
        /\ UNCHANGED <<counter_room, rooms, local>>
    <3>1. k \in Room /\ id[k] \in RoomId
      BY <1>1 DEF Unlist, Types, Holding, Creating
    <3> QED
      BY <1>1, <3>1 DEF Unlist, Types
  <2>2. k \in Room /\ HasId(k)
    BY <2>1 DEF Types, Holding, Creating, HasId, Private
  <2>3. \A i \in RoomId \ {id[k]} : gRooms'[i] = gRooms[i]
    BY <2>1 DEF Types
  <2>4. \A s \in Room : HasId(s)' <=> HasId(s)
    BY <2>1 DEF HasId, rooms, local
  <2>5. Counted' /\ Single'
    BY <2>1, <2>4 DEF Counted, Single, rooms, local
  <2>6. Found'
    <3>1. ASSUME NEW s \in Room, HasId(s), s # k
          PROVE  \/ \E i \in RoomId : gRooms'[i] = s
                 \/ \E u \in Client : reg'[u] = s /\ pc'[u] \in {"publish", "free"}
      <4>1. CASE \E i \in RoomId : gRooms[i] = s
        <5>1. PICK i \in RoomId : gRooms[i] = s
          BY <4>1
        <5>2. id[s] = i
          BY <5>1 DEF Tabled
        <5>3. i # id[k]
          BY <2>2, <3>1, <5>2 DEF Single
        <5> QED
          BY <2>3, <5>1, <5>3
      <4>2. CASE \E u \in Client : reg[u] = s /\ pc[u] \in {"publish", "free"}
        BY <2>1, <3>1, <4>2 DEF local
      <4> QED
        BY <3>1, <4>1, <4>2 DEF Found
    <3>2. reg'[t] = k /\ pc'[t] = "free"
      BY <2>1 DEF local
    <3> QED
      BY <2>4, <3>1, <3>2 DEF Found, RoomId
  <2> QED
    BY <2>5, <2>6
<1>2. CASE Free(t)
  <2>1. /\ pc[t] = "free" /\ pc'[t] = "idle"
        /\ \A u \in Client \ {t} : pc'[u] = pc[u] /\ reg'[u] = reg[u] /\ pos'[u] = pos[u]
        /\ allocated' = allocated \ {k}
        /\ UNCHANGED <<counter_room, gRooms, id>>
    BY <1>2 DEF Free, Done, Types, table
  <2>2. \A s \in Room : HasId(s)' => HasId(s) /\ s # k
    BY <2>1 DEF HasId
  <2>3. Counted' /\ Single'
    BY <2>1, <2>2 DEF Counted, Single
  <2>4. Found'
    BY <2>1, <2>2 DEF Found, RoomId
  <2> QED
    BY <2>3, <2>4
<1> QED
  BY <1>0, <1>1, <1>2

LEMMA OwnedStep ==
  ASSUME Inv, Owned, NEW t \in Client, Request(t) \/ Step(t)
  PROVE  Owned'
<1> USE TableAssumption DEF Inv, Types, Goto, Done
<1>1. ASSUME UNCHANGED <<owner, room>>,
             \A u \in Client \ {t} : pc'[u] = pc[u] /\ reg'[u] = reg[u],
             \/ pc[t] # "own" /\ pc'[t] # "own"
             \/ UNCHANGED <<reg, pc>>
      PROVE  Owned'
  BY <1>1 DEF Owned
<1>2. ASSUME NEW r \in Room, Create(t, r) PROVE Owned'
  <2>1. /\ r \notin allocated /\ owner' = [owner EXCEPT ![r] = NULL] /\ room' = room
        /\ pc[t] = "idle" /\ pc'[t] = "count"
        /\ \A u \in Client \ {t} : pc'[u] = pc[u] /\ reg'[u] = reg[u]
    BY <1>2 DEF Create
  <2>2. \A u \in Client : room[u] # NULL => room[u] # r /\ owner'[room[u]] = owner[room[u]]
    BY <2>1 DEF Private
  <2> QED
    BY <2>1, <2>2 DEF Owned
<1>3. CASE Add(t)
  <2>1. /\ room'[t] = reg[t] /\ pc'[t] = "own" /\ UNCHANGED <<owner, reg>>
        /\ \A u \in Client \ {t} : pc'[u] = pc[u] /\ room'[u] = room[u]
    BY <1>3 DEF Add, local
  <2> QED
    BY <2>1 DEF Owned
<1>4. CASE Own(t)
  <2>1. /\ pc[t] = "own" /\ pc'[t] = "reply" /\ UNCHANGED <<room, reg>>
        /\ owner' = [owner EXCEPT ![reg[t]] = t]
        /\ \A u \in Client \ {t} : pc'[u] = pc[u]
    BY <1>4 DEF Own, local
  <2>2. reg[t] \in Room /\ room[t] = reg[t]
    BY <2>1 DEF Holding, Creating, Owned
  <2>3. owner'[reg[t]] = t /\ \A r \in Room \ {reg[t]} : owner'[r] = owner[r]
    BY <2>1, <2>2
  <2>4. \A u \in Client \ {t} : room[u] # reg[t]
    BY <2>1 DEF Private, Holding, Creating
  <2> QED
    BY <2>1, <2>2, <2>3, <2>4 DEF Owned
<1>5. CASE RequestClose(t)
  <2>1. /\ room'[t] = NULL /\ pc'[t] = "unlist" /\ UNCHANGED owner
        /\ \A u \in Client \ {t} : pc'[u] = pc[u] /\ reg'[u] = reg[u] /\ room'[u] = room[u]
    BY <1>5 DEF RequestClose
  <2> QED
    BY <2>1 DEF Owned
<1>6. CASE Count(t) \/ Publish(t) \/ InitMutex(t) \/ Unlist(t)
  BY <1>1, <1>6 DEF Count, Publish, InitMutex, Unlist, Crash, local, rooms
<1>7. CASE Reply(t) \/ Free(t)
  BY <1>1, <1>7 DEF Reply, Free, Crash, local, rooms
<1>8. CASE List(t) \/ Serialize(t)
  BY <1>1, <1>8 DEF List, Serialize, Crash, local, rooms
<1>9. CASE Ask(t) \/ Send(t)
  BY <1>1, <1>9 DEF Ask, Send, Crash, local, rooms
<1>10. CASE RequestList(t) \/ \E i \in RoomId : RequestJoin(t, i)
  <2>1. CASE Crash
    BY <1>1, <2>1 DEF Crash, local, rooms
  <2>2. CASE ~Crash
    BY <1>1, <1>10, <2>2 DEF RequestList, RequestJoin, rooms
  <2> QED
    BY <2>1, <2>2
<1> QED
  BY <1>2, <1>3, <1>4, <1>5, <1>6, <1>7, <1>8, <1>9, <1>10 DEF Request, Step

LInv == Inv /\ Owned /\ (~overlapped => Listed)

LEMMA LInvInit == Init => LInv
<1> SUFFICES ASSUME Init PROVE Owned /\ Listed
  BY InvInit DEF LInv
<1> QED
  BY TableAssumption DEF Init, Owned, Listed, OneCreator, Counted, Single, Found, HasId, Creating

LEMMA LInvStep == LInv /\ [Next]_vars => LInv'
<1> SUFFICES ASSUME LInv, [Next]_vars PROVE LInv'
  OBVIOUS
<1>1. Inv' /\ Inv
  BY InvStep DEF LInv
<1>2. CASE UNCHANGED vars
  BY <1>1, <1>2 DEF vars, table, rooms, local, LInv, Owned, Listed, OneCreator, Counted, Single,
     Found, HasId
<1>3. ASSUME NEW t \in Client, Request(t) \/ Step(t), overlapped' = (overlapped \/ TwoCreations')
      PROVE  LInv'
  <2>1. Owned'
    BY <1>1, <1>3, OwnedStep DEF LInv
  <2>2. ASSUME ~overlapped' PROVE Listed'
    <3>1. Listed /\ OneCreator'
      BY <1>3, <2>2 DEF LInv, TwoCreations, OneCreator
    <3> QED
      BY <1>1, <1>3, <3>1, ListedAfterReads, ListedAfterCreation, ListedAfterClosing
         DEF Request, Step
  <2> QED
    BY <1>1, <2>1, <2>2 DEF LInv
<1> QED
  BY <1>2, <1>3 DEF Next, Stopped

\* As long as no two creations have overlapped, a client that is in the room it
\* has created finds it in the table and owns it, and no id has been given twice,
\* however lists, requests and closings interleave with the creations.
THEOREM RoomsStayListed == Spec => []RoomsAreListed
<1>1. LInv => RoomsAreListed
  <2> SUFFICES ASSUME LInv, ~overlapped
               PROVE  /\ \A t \in Client : pc[t] = "idle" /\ room[t] # NULL =>
                           owner[room[t]] = t /\ gRooms[id[room[t]]] = room[t]
                      /\ \A r, s \in Numbered : id[r] = id[s] => r = s
    BY DEF RoomsAreListed
  <2> USE DEF LInv, Inv, Listed
  <2>1. \A r \in Numbered : r \in Room /\ HasId(r)
    BY DEF Numbered, HasId, Types
  <2>2. ASSUME NEW t \in Client, pc[t] = "idle", room[t] # NULL
        PROVE  owner[room[t]] = t /\ gRooms[id[room[t]]] = room[t]
    <3>1. room[t] \in Room /\ room[t] \in allocated
      BY <2>2 DEF Types, Private
    <3>2. \A u \in Client : pc[u] \in Holding => reg[u] # room[t]
      BY <2>2 DEF Private, Holding, Creating
    <3>3. HasId(room[t])
      BY <3>1, <3>2 DEF HasId, Holding, Creating
    <3>4. PICK i \in RoomId : gRooms[i] = room[t]
      BY <3>1, <3>2, <3>3 DEF Found, Holding, Creating
    <3>5. id[room[t]] = i
      BY <2>2, <3>4 DEF Tabled
    <3> QED
      BY <2>2, <3>4, <3>5 DEF Owned
  <2> QED
    BY <2>1, <2>2 DEF Single
<1> QED
  BY <1>1, LInvInit, LInvStep, PTL DEF Spec
=============================================================================
