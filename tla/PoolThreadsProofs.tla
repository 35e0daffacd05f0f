------------------------- MODULE PoolThreadsProofs --------------------------
(***************************************************************************)
(* Theorems about the client pool between the threads, for any number of   *)
(* clients and of slots.  Whatever connections do: stores inside the array, *)
(* a size within the limit, added clients that stay.  While connections    *)
(* last until they are added: no freed client in a slot.  While they also  *)
(* come and go one at a time: an exact size, and searches that end inside  *)
(* the array.                                                              *)
(***************************************************************************)
EXTENDS PoolThreads, FiniteSetTheorems, TLAPS

\* The kinds of step, without the history variable.
LEMMA Steps ==
  ASSUME [Next]_vars
  PROVE  \/ UNCHANGED <<pool, local, people, pc, running>>
         \/ AcceptStep
         \/ \E t \in Client : ConnectionStep(t)
BY DEF Next, Step, Rest, vars

-----------------------------------------------------------------------------
(* Types.                                                                  *)

\* The types but for the history variable.  A loop that looks at an entry looks
\* inside the array, and the accepting thread has a client in hand.
Types ==
  /\ clients \in [Slot -> Client \cup {NULL}]
  /\ size \in Int
  /\ added \subseteq live /\ live \subseteq Client
  /\ pc \in [Thread -> Label]
  /\ pos \in [Thread -> 0 .. MAX_CLIENTS]
  /\ temp \in [Thread -> Client \cup {NULL}]
  /\ loaded \in [Thread -> Int]
  /\ connections \in 0 .. MaxConnections
  /\ running \in BOOLEAN
  /\ \A t \in Thread : pc[t] \in {"store", "clear", "compare", "use"} => pos[t] \in Slot
  /\ \A c \in Client : c \in live <=> pc[c] # "none"
  /\ pc[Main] \in Adding \ {"create"} => temp[Main] \in Client

LEMMA TypesAfterAccept == Types /\ AcceptStep => Types'
<1> SUFFICES ASSUME Types, AcceptStep PROVE Types'
  OBVIOUS
<1> USE ThreadsAssumption
    DEF Types, Goto, Label, Adding, Removing, Slot, Thread, pool, local, people
<1>1. CASE Accept
  BY <1>1 DEF Accept
<1>2. ASSUME NEW c \in Client, Create(c) PROVE Types'
  BY <1>2 DEF Create
<1>3. CASE Scan
  BY <1>3 DEF Scan
<1>4. CASE Store
  BY <1>4 DEF Store
<1>5. CASE LoadToGrow
  BY <1>5 DEF LoadToGrow, Load
<1>6. CASE Grow
  BY <1>6 DEF Grow
<1> QED
  BY <1>1, <1>2, <1>3, <1>4, <1>5, <1>6 DEF AcceptStep

LEMMA TypesAfterConnection ==
  ASSUME Types, NEW t \in Client, ConnectionStep(t)
  PROVE  Types'
<1> USE ThreadsAssumption
    DEF Types, Goto, Label, Adding, Removing, Slot, Thread, pool, local, people
<1>0. ASSUME Crash PROVE Types'
  BY <1>0 DEF Crash
<1>1. CASE Disconnect(t)
  BY <1>1 DEF Disconnect
<1>2. CASE Find(t)
  <2>1. CASE pos[t] \in Slot
    <3>1. temp' \in [Thread -> Client \cup {NULL}] /\ temp'[Main] = temp[Main]
      <4>1. clients[pos[t]] \in Client \cup {NULL} /\ t # Main /\ t \in Thread
        BY <2>1
      <4>2. temp' = [temp EXCEPT ![t] = clients[pos[t]]]
        BY <1>2, <2>1 DEF Find
      <4> QED
        BY <4>1, <4>2
    <3>2. /\ pc' \in [Thread -> Label]
          /\ pc[t] = "find" /\ pc'[t] = "compare"
          /\ \A u \in Thread \ {t} : pc'[u] = pc[u]
      BY <1>2, <2>1 DEF Find
    <3>3. UNCHANGED <<pool, pos, loaded, people, running>>
      BY <1>2 DEF Find
    <3>4. \A u \in Thread : pc'[u] \in {"store", "clear", "compare", "use"} => pos'[u] \in Slot
      BY <2>1, <3>2, <3>3
    <3>5. \A c \in Client : c \in live' <=> pc'[c] # "none"
      BY <3>2, <3>3
    <3> QED
      BY <3>1, <3>2, <3>3, <3>4, <3>5
  <2>2. CASE pos[t] \notin Slot
    BY <1>2, <2>2 DEF Find
  <2> QED
    BY <2>1, <2>2
<1>3. CASE Compare(t)
  <2>1. CASE temp[t] = t /\ Goto(t, "clear") /\ UNCHANGED <<pool, local, people, running>>
    BY <1>3, <2>1 DEF Compare
  <2>2. CASE pos' = [pos EXCEPT ![t] = @ + 1] /\ Goto(t, "find")
             /\ UNCHANGED <<pool, temp, loaded, people, running>>
    BY <1>3, <2>2 DEF Compare
  <2> QED
    BY <1>0, <1>3, <2>1, <2>2 DEF Compare
<1>4. CASE Clear(t)
  BY <1>4 DEF Clear
<1>5. CASE LoadToShrink(t)
  BY <1>5 DEF LoadToShrink, Load
<1>6. CASE Shrink(t)
  BY <1>6 DEF Shrink
<1>7. CASE Free(t)
  BY <1>7 DEF Free
<1>8. CASE Get(t)
  <2>1. CASE Goto(t, "serve") /\ UNCHANGED <<pool, local, people, running>>
    BY <1>8, <2>1 DEF Get
  <2>2. CASE pos[t] \in Slot /\ temp' = [temp EXCEPT ![t] = clients[pos[t]]] /\ Goto(t, "use")
             /\ UNCHANGED <<pool, pos, loaded, people, running>>
    BY <1>8, <2>2 DEF Get
  <2> QED
    BY <1>0, <1>8, <2>1, <2>2 DEF Get
<1>9. CASE Use(t)
  <2>1. CASE Goto(t, "serve") /\ UNCHANGED <<pool, local, people, running>>
    BY <1>9, <2>1 DEF Use
  <2>2. CASE pos' = [pos EXCEPT ![t] = @ + 1] /\ Goto(t, "get")
             /\ UNCHANGED <<pool, temp, loaded, people, running>>
    BY <1>9, <2>2 DEF Use
  <2> QED
    BY <1>0, <1>9, <2>1, <2>2 DEF Use
<1>10. CASE Request(t)
  BY <1>10 DEF Request
<1> QED
  BY <1>1, <1>2, <1>3, <1>4, <1>5, <1>6, <1>7, <1>8, <1>9, <1>10 DEF ConnectionStep

TypesInv == Types /\ conduct \in {"calm", "patient", "any"}

LEMMA TypesInit == Init => TypesInv
BY ThreadsAssumption DEF Init, Types, TypesInv, Label, Adding, Slot, Thread

LEMMA TypesStep == TypesInv /\ [Next]_vars => TypesInv'
<1> SUFFICES ASSUME TypesInv, [Next]_vars PROVE TypesInv'
  OBVIOUS
<1>1. conduct' \in {"calm", "patient", "any"}
  BY DEF Next, Step, Rest, Conduct, vars, TypesInv
<1>2. Types'
  <2>1. CASE UNCHANGED <<pool, local, people, pc, running>>
    BY <2>1 DEF TypesInv, Types, pool, local, people
  <2> QED
    BY <2>1, Steps, TypesAfterAccept, TypesAfterConnection DEF TypesInv
<1> QED
  BY <1>1, <1>2 DEF TypesInv

\* Whatever connections do, client_pool_add and client_pool_remove store inside
\* the array, and only a connected client is ever added.
THEOREM TypeCorrect == Spec => []TypeOK
<1>1. TypesInv => TypeOK
  BY DEF TypesInv, Types, TypeOK
<1> QED
  BY <1>1, TypesInit, TypesStep, PTL DEF Spec

-----------------------------------------------------------------------------
(* The size.                                                               *)

\* Between its check of the limit and its store of the size, the accepting
\* thread is the only one that can raise it, and the others lower what was
\* within the limit when they read it.
Limit ==
  /\ size <= MAX_CLIENTS
  /\ pc[Main] \in Adding => size <= MAX_CLIENTS - 1
  /\ pc[Main] = "grow" => loaded[Main] <= MAX_CLIENTS - 1
  /\ \A t \in Client : pc[t] = "shrink" => loaded[t] <= MAX_CLIENTS

LEMMA LimitAfterAccept == Types /\ Limit /\ AcceptStep => Limit'
<1> SUFFICES ASSUME Types, Limit, AcceptStep PROVE Limit'
  OBVIOUS
<1> USE ThreadsAssumption DEF Types, Limit, Adding, Goto, Thread, pool, local
<1>1. CASE Accept
  BY <1>1 DEF Accept, client_pool_is_full
<1>2. ASSUME NEW c \in Client, Create(c) PROVE Limit'
  BY <1>2 DEF Create
<1>3. CASE Scan
  BY <1>3 DEF Scan
<1>4. CASE Store
  BY <1>4 DEF Store
<1>5. CASE LoadToGrow
  BY <1>5 DEF LoadToGrow, Load
<1>6. CASE Grow
  BY <1>6 DEF Grow
<1> QED
  BY <1>1, <1>2, <1>3, <1>4, <1>5, <1>6 DEF AcceptStep

LEMMA LimitAfterConnection ==
  ASSUME Types, Limit, NEW t \in Client, ConnectionStep(t)
  PROVE  Limit'
<1> USE ThreadsAssumption DEF Types, Limit, Goto, Thread, pool, local
<1>1. ASSUME UNCHANGED <<size, loaded>>, NEW l \in Label \ {"shrink"}, Goto(t, l)
      PROVE  Limit'
  BY <1>1
<1>2. ASSUME UNCHANGED <<size, loaded, pc>> PROVE Limit'
  BY <1>2
<1>3. CASE LoadToShrink(t)
  BY <1>3 DEF LoadToShrink, Load
<1>4. CASE Shrink(t)
  BY <1>4 DEF Shrink
<1>5. CASE Free(t)
  BY <1>5 DEF Free
<1>6. CASE Disconnect(t) \/ Find(t) \/ Clear(t) \/ Request(t)
  BY <1>1, <1>6 DEF Disconnect, Find, Clear, Request, Label, Adding, Removing
<1>7. CASE Compare(t)
  BY <1>1, <1>2, <1>7 DEF Compare, Crash, Label, Adding, Removing
<1>8. CASE Get(t)
  BY <1>1, <1>2, <1>8 DEF Get, Crash, Label, Adding, Removing
<1>9. CASE Use(t)
  BY <1>1, <1>2, <1>9 DEF Use, Crash, Label, Adding, Removing
<1> QED
  BY <1>3, <1>4, <1>5, <1>6, <1>7, <1>8, <1>9 DEF ConnectionStep

LEMMA LimitStep == Types /\ Limit /\ [Next]_vars => Limit'
<1> SUFFICES ASSUME Types, Limit, [Next]_vars PROVE Limit'
  OBVIOUS
<1>1. CASE UNCHANGED <<pool, local, people, pc, running>>
  BY <1>1 DEF Limit, pool, local
<1> QED
  BY <1>1, Steps, LimitAfterAccept, LimitAfterConnection

\* The size never passes the limit that client_pool_is_full compares it with by
\* ==, however many updates of it are lost.
THEOREM SizeStaysWithinLimit == Spec => []SizeWithinLimit
<1>1. Init => Limit
  BY ThreadsAssumption DEF Init, Limit, Adding, Thread
<1>2. Limit => SizeWithinLimit
  BY DEF Limit, SizeWithinLimit
<1> QED
  BY <1>1, <1>2, TypesInit, TypesStep, LimitStep, PTL DEF Spec, TypesInv

-----------------------------------------------------------------------------
(* Who has been added.                                                     *)

\* The accepting thread fills empty slots only, since nobody else fills any; a
\* thread that has found itself in a slot still is there, since nobody else
\* empties it.
Entries ==
  /\ \A c \in added : \E i \in Slot : clients[i] = c
  /\ pc[Main] = "store" => clients[pos[Main]] = NULL
  /\ \A t \in Client :
       /\ pc[t] = "compare" /\ temp[t] = t => clients[pos[t]] = t
       /\ pc[t] = "clear" => clients[pos[t]] = t

LEMMA EntriesAfterAccept == Types /\ Entries /\ AcceptStep => Entries'
<1> SUFFICES ASSUME Types, Entries, AcceptStep PROVE Entries'
  OBVIOUS
<1> USE ThreadsAssumption DEF Types, Entries, Goto, Thread, pool, local, people
<1>1. CASE Accept
  BY <1>1 DEF Accept
<1>2. ASSUME NEW c \in Client, Create(c) PROVE Entries'
  BY <1>2 DEF Create
<1>3. CASE Scan
  BY <1>3 DEF Scan
<1>4. CASE Store
  <2>1. /\ pos[Main] \in Slot /\ clients[pos[Main]] = NULL
        /\ clients' = [clients EXCEPT ![pos[Main]] = temp[Main]]
    BY <1>4 DEF Store
  <2>2. \A i \in Slot \ {pos[Main]} : clients'[i] = clients[i]
    BY <2>1
  <2>3. \A c \in added' : \E i \in Slot : clients'[i] = c
    BY <1>4, <2>1, <2>2 DEF Store
  <2>4. \A t \in Client :
          /\ pc'[t] = "compare" /\ temp'[t] = t => clients'[pos'[t]] = t
          /\ pc'[t] = "clear" => clients'[pos'[t]] = t
    BY <1>4, <2>1, <2>2 DEF Store
  <2> QED
    BY <1>4, <2>3, <2>4 DEF Store
<1>5. CASE LoadToGrow
  BY <1>5 DEF LoadToGrow, Load
<1>6. CASE Grow
  BY <1>6 DEF Grow
<1> QED
  BY <1>1, <1>2, <1>3, <1>4, <1>5, <1>6 DEF AcceptStep

LEMMA EntriesAfterConnection ==
  ASSUME Types, Entries, NEW t \in Client, ConnectionStep(t)
  PROVE  Entries'
<1> USE ThreadsAssumption DEF Types, Entries, Goto, Thread, pool, local, people
<1>0. ASSUME Crash PROVE Entries'
  BY <1>0 DEF Crash
<1>1. CASE Disconnect(t) \/ Request(t)
  BY <1>1 DEF Disconnect, Request
<1>2. CASE Find(t)
  BY <1>2 DEF Find
<1>3. CASE Compare(t)
  BY <1>0, <1>3 DEF Compare
<1>4. CASE Clear(t)
  <2>1. /\ pos[t] \in Slot /\ clients[pos[t]] = t
        /\ clients' = [clients EXCEPT ![pos[t]] = NULL]
    BY <1>4 DEF Clear
  <2>2. \A i \in Slot \ {pos[t]} : clients'[i] = clients[i]
    BY <2>1
  <2>3. \A c \in added' : \E i \in Slot : clients'[i] = c
    BY <1>4, <2>1, <2>2 DEF Clear
  <2>4. \A u \in Client :
          /\ pc'[u] = "compare" /\ temp'[u] = u => clients'[pos'[u]] = u
          /\ pc'[u] = "clear" => clients'[pos'[u]] = u
    BY <1>4, <2>1, <2>2 DEF Clear
  <2>5. pc'[Main] = "store" => clients'[pos'[Main]] = NULL
    BY <1>4, <2>1, <2>2 DEF Clear
  <2> QED
    BY <2>3, <2>4, <2>5
<1>5. CASE LoadToShrink(t) \/ Shrink(t)
  BY <1>5 DEF LoadToShrink, Shrink, Load
<1>6. CASE Free(t)
  BY <1>6 DEF Free
<1>7. CASE Get(t)
  BY <1>0, <1>7 DEF Get
<1>8. CASE Use(t)
  BY <1>0, <1>8 DEF Use
<1> QED
  BY <1>1, <1>2, <1>3, <1>4, <1>5, <1>6, <1>7, <1>8 DEF ConnectionStep

LEMMA EntriesStep == Types /\ Entries /\ [Next]_vars => Entries'
<1> SUFFICES ASSUME Types, Entries, [Next]_vars PROVE Entries'
  OBVIOUS
<1>1. CASE UNCHANGED <<pool, local, people, pc, running>>
  BY <1>1 DEF Entries, pool, local, people
<1> QED
  BY <1>1, Steps, EntriesAfterAccept, EntriesAfterConnection

\* A client that has been added has a slot until its own thread empties it,
\* although slots are filled and emptied without a common lock.
THEOREM AddedStays == Spec => []AddedStaysIn
<1>1. Init => Entries
  BY ThreadsAssumption DEF Init, Entries, Thread
<1>2. Entries => AddedStaysIn
  BY DEF Entries, AddedStaysIn
<1> QED
  BY <1>1, <1>2, TypesInit, TypesStep, EntriesStep, PTL DEF Spec, TypesInv

-----------------------------------------------------------------------------
(* While connections have been patient.                                    *)

Unslotted(c) == \A i \in Slot : clients[i] # c

\* No freed client in a slot.
Alive == \A i \in Slot : clients[i] # NULL => clients[i] \in live

Single == \A i, j \in Slot : clients[i] # NULL /\ clients[i] = clients[j] => i = j

\* The client the accepting thread is adding has not gone, and has no slot before
\* it gets one.
Newcomer ==
  pc[Main] \in {"scan", "store"} => temp[Main] \in live /\ Unslotted(temp[Main])

\* A thread that removes itself is in no slot that it has passed, and in none at
\* all when it has emptied its own or has found none.
Passed ==
  \A t \in Client :
    /\ pc[t] \in {"find", "compare"} => \A i \in Slot : i < pos[t] => clients[i] # t
    /\ pc[t] = "compare" /\ temp[t] # t => clients[pos[t]] # t
    /\ pc[t] \in {"load", "shrink", "free"} => Unslotted(t)

Names == Alive /\ Single /\ Newcomer /\ Passed

LEMMA NamesAfterAccept ==
  ASSUME Types, Entries, Patient, Names, AcceptStep
  PROVE  Names'
<1> USE ThreadsAssumption DEF Goto
<1>1. ASSUME UNCHANGED <<clients, live>>,
             UNCHANGED temp \/ pc'[Main] \notin {"scan", "store"},
             \A t \in Client : pc'[t] = pc[t] /\ pos'[t] = pos[t] /\ temp'[t] = temp[t],
             pc'[Main] \in {"scan", "store"} => pc[Main] \in {"scan", "store"}
      PROVE  Names'
  BY <1>1 DEF Names, Alive, Single, Newcomer, Passed, Unslotted, Slot
<1>2. CASE Accept
  BY <1>1, <1>2 DEF Accept, pool, local, Types, Thread
<1>3. ASSUME NEW c \in Client, Create(c) PROVE Names'
  <2>1. /\ c \notin live /\ live' = live \cup {c} /\ clients' = clients
        /\ pc'[c] = "serve" /\ pc'[Main] = "scan" /\ temp'[Main] = c
        /\ \A t \in Client \ {c} : pc'[t] = pc[t]
        /\ \A t \in Client : pos'[t] = pos[t] /\ temp'[t] = temp[t]
    BY <1>3 DEF Create, pool, Types, Thread
  <2>2. Alive' /\ Single'
    BY <2>1 DEF Names, Alive, Single, Slot
  <2>3. Newcomer'
    BY <2>1 DEF Names, Alive, Newcomer, Unslotted, Slot
  <2>4. Passed'
    BY <2>1 DEF Names, Passed, Unslotted, Slot
  <2> QED
    BY <2>2, <2>3, <2>4 DEF Names
<1>4. CASE Scan
  BY <1>1, <1>4 DEF Scan, pool, people, Types, Thread
<1>5. CASE Store
  <2> DEFINE k == pos[Main]
             c == temp[Main]
  <2>1. k \in Slot /\ c \in Client /\ c \in live /\ Unslotted(c) /\ clients[k] = NULL
    BY <1>5 DEF Store, Types, Thread, Entries, Names, Newcomer
  <2>2. clients'[k] = c /\ \A i \in Slot \ {k} : clients'[i] = clients[i]
    BY <1>5, <2>1 DEF Store, Types
  <2>3. /\ UNCHANGED <<live, pos, temp>>
        /\ pc[Main] = "store" /\ pc'[Main] = "load"
        /\ \A t \in Client : pc'[t] = pc[t]
    BY <1>5 DEF Store, local, Types, Thread
  <2>4. pc[c] \notin Removing
    BY <2>3 DEF Patient, Adding
  <2> HIDE DEF k, c
  <2>5. Alive' /\ Single'
    BY <2>1, <2>2, <2>3 DEF Names, Alive, Single, Unslotted, Slot
  <2>6. Newcomer'
    BY <2>3 DEF Newcomer
  <2>7. Passed'
    <3>1. ASSUME NEW u \in Client \ {c}, NEW i \in Slot, clients[i] # u PROVE clients'[i] # u
      BY <2>2, <3>1
    <3>2. \A u \in Client : pc[u] = "compare" => pos[u] \in Slot
      BY DEF Types, Thread
    <3>3. ASSUME NEW u \in Client, pc[u] \in {"find", "compare", "load", "shrink", "free"}
          PROVE  /\ pc'[u] \in {"find", "compare"} => \A i \in Slot : i < pos'[u] => clients'[i] # u
                 /\ pc'[u] = "compare" /\ temp'[u] # u => clients'[pos'[u]] # u
                 /\ pc'[u] \in {"load", "shrink", "free"} => \A i \in Slot : clients'[i] # u
      <4>1. u # c
        BY <2>4, <3>3 DEF Removing
      <4> QED
        BY <2>3, <3>1, <3>2, <4>1 DEF Names, Passed, Unslotted
    <3> QED
      BY <2>3, <3>3 DEF Passed, Unslotted, Slot
  <2> QED
    BY <2>5, <2>6, <2>7 DEF Names
<1>6. CASE LoadToGrow \/ Grow
  BY <1>1, <1>6 DEF LoadToGrow, Grow, Load, pool, local, people, Types, Thread
<1> QED
  BY <1>2, <1>3, <1>4, <1>5, <1>6 DEF AcceptStep

LEMMA NamesAfterConnection ==
  ASSUME Types, Entries, Patient, Names, NEW t \in Client, ConnectionStep(t)
  PROVE  Names'
<1> USE ThreadsAssumption DEF Goto
<1>0. t # Main /\ t \in Thread /\ Main \in Thread
  BY DEF Thread
<1>1. ASSUME UNCHANGED <<clients, live>>,
             pc'[Main] = pc[Main] /\ temp'[Main] = temp[Main],
             \A u \in Client \ {t} : pc'[u] = pc[u] /\ pos'[u] = pos[u] /\ temp'[u] = temp[u],
             Passed => /\ pc'[t] \in {"find", "compare"} =>
                            \A i \in Slot : i < pos'[t] => clients[i] # t
                       /\ pc'[t] = "compare" /\ temp'[t] # t => clients[pos'[t]] # t
                       /\ pc'[t] \in {"load", "shrink", "free"} => Unslotted(t)
      PROVE  Names'
  BY <1>1 DEF Names, Alive, Single, Newcomer, Passed, Unslotted, Slot
<1>2. ASSUME Crash PROVE Names'
  BY <1>2 DEF Crash, pool, local, people, Names, Alive, Single, Newcomer, Passed, Unslotted
<1>3. CASE Disconnect(t) \/ Request(t)
  <2>1. /\ UNCHANGED <<clients, live, temp>>
        /\ pos'[t] = 0
        /\ pc'[t] \in {"find", "get"} /\ pc'[Main] = pc[Main]
        /\ \A u \in Client \ {t} : pc'[u] = pc[u] /\ pos'[u] = pos[u]
    BY <1>0, <1>3 DEF Disconnect, Request, pool, people, Types, Thread
  <2>2. \A i \in Slot : ~(i < 0)
    BY DEF Slot
  <2> QED
    BY <1>1, <2>1, <2>2
<1>4. CASE Find(t)
  <2>1. /\ UNCHANGED <<clients, live, pos>>
        /\ pc[t] = "find" /\ pc'[Main] = pc[Main]
        /\ \A u \in Thread \ {t} : pc'[u] = pc[u] /\ temp'[u] = temp[u]
        /\ temp'[Main] = temp[Main]
    BY <1>0, <1>4 DEF Find, pool, people, Types, Thread
  <2>2. \/ pos[t] \in Slot /\ pc'[t] = "compare" /\ temp'[t] = clients[pos[t]]
        \/ pos[t] \notin Slot /\ pc'[t] = "free"
    BY <1>0, <1>4 DEF Find, Types, Thread
  <2>3. pos[t] \notin Slot => \A i \in Slot : i < pos[t]
    BY <1>0 DEF Types, Slot
  <2> QED
    BY <1>1, <2>1, <2>2, <2>3 DEF Passed, Unslotted, Thread
<1>5. CASE Compare(t) /\ ~Crash
  <2>1. /\ UNCHANGED <<clients, live, temp>>
        /\ pc[t] = "compare" /\ pc'[Main] = pc[Main]
        /\ \A u \in Client \ {t} : pc'[u] = pc[u] /\ pos'[u] = pos[u]
    BY <1>0, <1>5 DEF Compare, pool, local, people, Types, Thread
  <2>2. \/ pc'[t] = "clear"
        \/ pc'[t] = "find" /\ temp[t] # t /\ pos'[t] = pos[t] + 1
    BY <1>0, <1>5 DEF Compare, Types, Thread
  <2>3. \A i \in Slot : i < pos[t] + 1 => i < pos[t] \/ i = pos[t]
    BY <1>0 DEF Types, Slot
  <2> QED
    BY <1>1, <2>1, <2>2, <2>3 DEF Passed
<1>6. CASE Clear(t)
  <2> DEFINE k == pos[t]
  <2>1. k \in Slot /\ clients[k] = t /\ t # NULL
    BY <1>0, <1>6 DEF Clear, Types, Entries
  <2>2. clients'[k] = NULL /\ \A i \in Slot \ {k} : clients'[i] = clients[i]
    BY <1>6, <2>1 DEF Clear, Types
  <2>3. /\ UNCHANGED <<live, pos, temp>>
        /\ pc'[t] = "load" /\ pc'[Main] = pc[Main]
        /\ \A u \in Client \ {t} : pc'[u] = pc[u]
    BY <1>0, <1>6 DEF Clear, local, Types, Thread
  <2>4. \A i \in Slot \ {k} : clients[i] # t
    BY <2>1 DEF Names, Single
  <2>5. \A u \in Client : u # NULL
    OBVIOUS
  <2>6. live \subseteq Client
    BY DEF Types
  <2> HIDE DEF k
  <2>7. Alive' /\ Single'
    BY <2>1, <2>2, <2>3 DEF Names, Alive, Single, Slot
  <2>8. Newcomer'
    BY <2>2, <2>3, <2>5, <2>6 DEF Names, Newcomer, Unslotted, Slot
  <2>9. Passed'
    <3>1. ASSUME NEW u \in Client, NEW i \in Slot, clients[i] # u PROVE clients'[i] # u
      BY <2>2, <2>5, <3>1
    <3>2. \A u \in Client : pc[u] = "compare" => pos[u] \in Slot
      BY DEF Types, Thread
    <3>3. Unslotted(t)'
      BY <2>1, <2>2, <2>4 DEF Unslotted, Slot
    <3>4. ASSUME NEW u \in Client \ {t}
          PROVE  /\ pc'[u] \in {"find", "compare"} => \A i \in Slot : i < pos'[u] => clients'[i] # u
                 /\ pc'[u] = "compare" /\ temp'[u] # u => clients'[pos'[u]] # u
                 /\ pc'[u] \in {"load", "shrink", "free"} => \A i \in Slot : clients'[i] # u
      BY <2>3, <3>1, <3>2 DEF Names, Passed, Unslotted
    <3> QED
      BY <2>3, <3>3, <3>4 DEF Passed, Unslotted, Slot
  <2> QED
    BY <2>7, <2>8, <2>9 DEF Names
<1>7. CASE LoadToShrink(t) \/ Shrink(t)
  <2>1. /\ UNCHANGED <<clients, live, pos, temp>>
        /\ pc[t] \in {"load", "shrink"} /\ pc'[t] \in {"shrink", "free"} /\ pc'[Main] = pc[Main]
        /\ \A u \in Client \ {t} : pc'[u] = pc[u]
    BY <1>0, <1>7 DEF LoadToShrink, Shrink, Load, pool, local, people, Types, Thread
  <2> QED
    BY <1>1, <2>1 DEF Passed
<1>8. CASE Free(t)
  <2>1. /\ UNCHANGED clients
        /\ live' = live \ {t}
        /\ pc[t] = "free" /\ pc'[t] = "none" /\ pc'[Main] = pc[Main] /\ temp'[Main] = temp[Main]
        /\ \A u \in Client \ {t} : pc'[u] = pc[u] /\ pos'[u] = pos[u] /\ temp'[u] = temp[u]
    BY <1>0, <1>8 DEF Free, pool, Types, Thread
  <2>2. Unslotted(t)
    BY <2>1 DEF Names, Passed
  <2>3. pc[Main] \in {"scan", "store"} => temp[Main] # t
    BY <2>1 DEF Patient, Adding, Removing
  <2>4. Alive' /\ Single' /\ Newcomer'
    BY <2>1, <2>2, <2>3 DEF Names, Alive, Single, Newcomer, Unslotted, Slot
  <2>5. Passed'
    BY <2>1 DEF Names, Passed, Unslotted, Slot
  <2> QED
    BY <2>4, <2>5 DEF Names
<1>9. CASE Get(t) /\ ~Crash
  <2>1. /\ UNCHANGED <<clients, live, pos>>
        /\ pc'[t] \in {"serve", "use"} /\ pc'[Main] = pc[Main] /\ temp'[Main] = temp[Main]
        /\ \A u \in Client \ {t} : pc'[u] = pc[u] /\ temp'[u] = temp[u]
    BY <1>0, <1>9 DEF Get, pool, local, people, Types, Thread
  <2> QED
    BY <1>1, <2>1
<1>10. CASE Use(t) /\ ~Crash
  <2>1. /\ UNCHANGED <<clients, live, temp>>
        /\ pc'[t] \in {"serve", "get"} /\ pc'[Main] = pc[Main]
        /\ \A u \in Client \ {t} : pc'[u] = pc[u] /\ pos'[u] = pos[u]
    BY <1>0, <1>10 DEF Use, pool, local, people, Types, Thread
  <2> QED
    BY <1>1, <2>1
<1> QED
  BY <1>2, <1>3, <1>4, <1>5, <1>6, <1>7, <1>8, <1>9, <1>10 DEF ConnectionStep

LEMMA AtMostOne ==
  ASSUME NEW S, IsFiniteSet(S), Cardinality(S) <= 1, NEW x \in S, NEW y \in S
  PROVE  x = y
<1> SUFFICES ASSUME x # y PROVE FALSE
  OBVIOUS
<1>1. IsFiniteSet({x}) /\ Cardinality({x}) = 1
  BY FS_Singleton
<1>2. IsFiniteSet({x} \cup {y}) /\ Cardinality({x} \cup {y}) = 2
  <2>1. /\ IsFiniteSet({x} \cup {y})
        /\ Cardinality({x} \cup {y}) = IF y \in {x} THEN Cardinality({x}) ELSE Cardinality({x}) + 1
    BY <1>1, FS_AddElement, ZenonT(30)
  <2> QED
    BY <1>1, <2>1
<1>3. {x} \cup {y} \subseteq S
  OBVIOUS
<1>4. Cardinality({x} \cup {y}) <= Cardinality(S)
  BY <1>3, FS_Subset
<1>5. Cardinality(S) \in Nat
  BY FS_CardinalityType
<1> QED
  BY <1>2, <1>4, <1>5

LEMMA LiveStaysFinite == Types /\ IsFiniteSet(live) /\ [Next]_vars => IsFiniteSet(live)'
<1> SUFFICES ASSUME Types, IsFiniteSet(live), [Next]_vars PROVE IsFiniteSet(live)'
  OBVIOUS
<1>1. ASSUME UNCHANGED live PROVE IsFiniteSet(live)'
  BY <1>1
<1>2. ASSUME NEW c \in Client, Create(c) PROVE IsFiniteSet(live)'
  BY <1>2, FS_AddElement DEF Create
<1>3. ASSUME NEW t \in Client, Free(t) PROVE IsFiniteSet(live)'
  BY <1>3, FS_RemoveElement DEF Free
<1>4. CASE UNCHANGED <<pool, local, people, pc, running>>
  BY <1>1, <1>4 DEF people
<1>5. CASE AcceptStep
  BY <1>1, <1>2, <1>5 DEF AcceptStep, Accept, Scan, Store, LoadToGrow, Grow, Load, people
<1>6. ASSUME NEW t \in Client, ConnectionStep(t) PROVE IsFiniteSet(live)'
  BY <1>1, <1>3, <1>6 DEF ConnectionStep, Disconnect, Find, Compare, Clear, LoadToShrink,
     Shrink, Request, Get, Use, Load, Crash, people
<1> QED
  BY <1>4, <1>5, <1>6, Steps

OneAtATime ==
  /\ \A t, u \in Client : pc[t] \in Removing /\ pc[u] \in Removing => t = u
  /\ pc[Main] \in Adding => \A t \in Client : pc[t] \notin Removing

\* What Calm says with a cardinality; the threads that remove themselves are live.
LEMMA CalmMeans ==
  ASSUME Types, IsFiniteSet(live), Calm
  PROVE  OneAtATime /\ Patient
<1> DEFINE S == {t \in Client : pc[t] \in Removing} \cup {t \in {Main} : pc[t] \in Adding}
<1>1. S \subseteq live \cup {Main}
  BY DEF Types, Removing
<1>2. IsFiniteSet(live \cup {Main})
  BY FS_AddElement
<1>3. IsFiniteSet(S) /\ Cardinality(S) <= 1
  BY <1>1, <1>2, FS_Subset DEF Calm
<1>4. \A x, y \in S : x = y
  BY <1>3, AtMostOne
<1> QED
  BY <1>4, ThreadsAssumption DEF OneAtATime, Patient, Types

\* The same at the end of a step: what the history says has been so far.
LEMMA ConductKept ==
  ASSUME Types, IsFiniteSet(live), [Next]_vars, conduct' # "any", conduct # "any" => Patient
  PROVE  /\ conduct # "any" /\ Patient'
         /\ conduct' = "calm" /\ ~UNCHANGED vars => conduct = "calm" /\ Calm'
<1>1. CASE UNCHANGED vars
  BY <1>1 DEF vars, local, Patient
<1>2. CASE Step
  <2>1. Types' /\ IsFiniteSet(live)'
    <3>1. Types'
      BY <1>2, TypesAfterAccept, TypesAfterConnection DEF Step
    <3> QED
      BY <3>1, LiveStaysFinite
  <2>2. Calm' => Patient'
    BY <2>1, CalmMeans, PTL
  <2> QED
    BY <1>2, <2>2 DEF Step, Conduct
<1> QED
  BY <1>1, <1>2 DEF Next, Rest

Named == conduct # "any" => Patient /\ Names

PInv == TypesInv /\ IsFiniteSet(live) /\ Entries /\ Named

LEMMA NamedStep == PInv /\ [Next]_vars => Named'
<1> SUFFICES ASSUME PInv, [Next]_vars, conduct' # "any" PROVE Patient' /\ Names'
  BY DEF Named
<1>1. conduct # "any" /\ Patient'
  BY ConductKept DEF PInv, TypesInv, Named
<1>2. Patient /\ Names /\ Types /\ Entries
  BY <1>1 DEF PInv, TypesInv, Named
<1>3. CASE UNCHANGED <<pool, local, people, pc, running>>
  BY <1>1, <1>2, <1>3 DEF pool, local, people, Names, Alive, Single, Newcomer, Passed, Unslotted
<1> QED
  BY <1>1, <1>2, <1>3, Steps, NamesAfterAccept, NamesAfterConnection

LEMMA PatientNames == Spec => []PInv
<1>1. Init => PInv
  <2> SUFFICES ASSUME Init PROVE PInv
    OBVIOUS
  <2>1. Entries /\ Patient /\ Names
    BY ThreadsAssumption DEF Init, Entries, Patient, Names, Alive, Single, Newcomer, Passed,
       Adding, Thread
  <2>2. IsFiniteSet(live)
    BY FS_EmptySet DEF Init
  <2> QED
    BY <2>1, <2>2, TypesInit DEF PInv, Named
<1>2. PInv /\ [Next]_vars => PInv'
  BY TypesStep, EntriesStep, LiveStaysFinite, NamedStep DEF PInv, TypesInv
<1> QED
  BY <1>1, <1>2, PTL DEF Spec

\* While every connection has lasted until it was added, no slot names a freed
\* client_t, so that client_pool_get and the search of another thread read live
\* memory only, and no client has two slots.
THEOREM SlotsStayConnections == Spec => []SlotsAreConnections
<1>1. PInv => SlotsAreConnections
  BY DEF PInv, Named, Names, Alive, Single, SlotsAreConnections
<1> QED
  BY <1>1, PatientNames, PTL

-----------------------------------------------------------------------------
(* While connections have been calm.                                       *)

\* A client is live and not counted while it is being added, and once it has
\* taken itself out of the pool.
Uncounted == pc[Main] \in Adding \ {"create"} \/ \E t \in Client : pc[t] = "free"

SizeKept == size = Cardinality(live) - (IF Uncounted THEN 1 ELSE 0)

\* Who is live has a slot, unless it is about to get one or has given it back.
Slotted ==
  \A c \in live :
    \/ \E i \in Slot : clients[i] = c
    \/ pc[Main] \in {"scan", "store"} /\ temp[Main] = c
    \/ pc[c] \in {"load", "shrink", "free"}

\* No update of the size is lost.
Loads ==
  /\ pc[Main] = "grow" => loaded[Main] = size
  /\ \A t \in Client : pc[t] = "shrink" => loaded[t] = size

\* The slots behind the search are taken, so it ends at an empty one.
Search ==
  /\ pc[Main] = "scan" => \A i \in Slot : i < pos[Main] => clients[i] # NULL
  /\ pc[Main] \in Adding \ {"create"} => temp[Main] \in live

Counts == OneAtATime /\ SizeKept /\ Slotted /\ Loads /\ Search

\* A step that is neither an update of the pool or of the size nor one of the
\* accepting thread.
LEMMA CountsStay ==
  ASSUME Types, Counts, OneAtATime', NEW t \in Client,
         UNCHANGED <<clients, size, live, loaded>>,
         pc'[Main] = pc[Main], pos'[Main] = pos[Main], temp'[Main] = temp[Main],
         \A u \in Client \ {t} : pc'[u] = pc[u],
         pc[t] \notin {"load", "shrink", "free"}, pc'[t] \notin {"shrink", "free"}
  PROVE  Counts'
<1> USE ThreadsAssumption DEF Counts
<1>1. Uncounted' = Uncounted
  BY DEF Uncounted
<1>2. SizeKept'
  BY <1>1 DEF SizeKept
<1>3. Slotted'
  BY DEF Slotted, Slot, Types
<1>4. Loads' /\ Search'
  BY DEF Loads, Search, Slot
<1> QED
  BY <1>2, <1>3, <1>4

\* While a client is being added and the size is below the limit, some slot is
\* empty: each of the others belongs to a client of its own.
LEMMA SlotLeft ==
  ASSUME Types, IsFiniteSet(live), Names, Limit, SizeKept, Search, pc[Main] = "scan"
  PROVE  \E i \in Slot : clients[i] = NULL
<1> SUFFICES ASSUME \A i \in Slot : clients[i] # NULL PROVE FALSE
  OBVIOUS
<1> DEFINE T == live \ {temp[Main]}
<1>1. temp[Main] \in live /\ size <= MAX_CLIENTS - 1 /\ Uncounted
  BY DEF Search, Limit, Adding, Uncounted
<1>2. IsFiniteSet(T) /\ Cardinality(T) = Cardinality(live) - 1 /\ Cardinality(T) \in Nat
  BY <1>1, FS_RemoveElement, FS_CardinalityType
<1>3. Cardinality(T) <= MAX_CLIENTS - 1
  BY <1>1, <1>2 DEF SizeKept
<1>4. IsFiniteSet(Slot) /\ Cardinality(Slot) = MAX_CLIENTS
  BY ThreadsAssumption, FS_Interval DEF Slot
<1>5. clients \in [Slot -> T]
  BY DEF Types, Names, Alive, Newcomer, Unslotted
<1>6. Cardinality(T) < Cardinality(Slot)
  BY <1>2, <1>3, <1>4, ThreadsAssumption
<1>7. \E i, j \in Slot : i # j /\ clients[i] = clients[j]
  BY <1>2, <1>4, <1>5, <1>6, FS_PigeonHole
<1> QED
  BY <1>7 DEF Names, Single

LEMMA CountsAfterAccept ==
  ASSUME Types, IsFiniteSet(live), Entries, Names, Limit, Counts, OneAtATime', AcceptStep
  PROVE  Counts'
<1> USE ThreadsAssumption DEF Goto, Counts
<1>0. /\ Main \in Thread /\ Client \subseteq Thread /\ Main \notin Client
      /\ Cardinality(live) \in Nat
  BY FS_CardinalityType DEF Thread
<1>1. CASE Accept
  <2>1. /\ UNCHANGED <<clients, size, live, loaded, pos, temp>>
        /\ pc[Main] = "accept" /\ pc'[Main] \in {"accept", "create"}
        /\ \A t \in Client : pc'[t] = pc[t]
    BY <1>0, <1>1 DEF Accept, pool, local, Types
  <2>2. Uncounted' = Uncounted
    BY <2>1 DEF Uncounted, Adding
  <2>3. SizeKept'
    BY <2>1, <2>2 DEF SizeKept
  <2>4. Slotted'
    BY <2>1 DEF Slotted, Types
  <2>5. Loads' /\ Search'
    BY <2>1 DEF Loads, Search, Adding
  <2> QED
    BY <2>3, <2>4, <2>5
<1>2. ASSUME NEW c \in Client, Create(c) PROVE Counts'
  <2>1. /\ UNCHANGED <<clients, size, loaded>>
        /\ c \notin live /\ live' = live \cup {c}
        /\ pos'[Main] = 0 /\ temp'[Main] = c
        /\ pc[Main] = "create" /\ pc'[Main] = "scan" /\ pc'[c] = "serve" /\ pc[c] = "none"
        /\ \A t \in Client \ {c} : pc'[t] = pc[t]
    BY <1>0, <1>2 DEF Create, pool, Types
  <2>2. ~Uncounted /\ Uncounted'
    BY <2>1 DEF Uncounted, OneAtATime, Adding, Removing
  <2>3. Cardinality(live') = Cardinality(live) + 1
    BY <2>1, FS_AddElement, ZenonT(30)
  <2>4. SizeKept'
    BY <1>0, <2>1, <2>2, <2>3 DEF SizeKept
  <2>5. Slotted'
    BY <2>1 DEF Slotted, Slot, Types
  <2>6. Loads' /\ Search'
    BY <2>1 DEF Loads, Search, Slot
  <2> QED
    BY <2>4, <2>5, <2>6
<1>3. CASE Scan
  <2>1. pc[Main] = "scan" /\ pos[Main] # MAX_CLIENTS
    <3>1. pc[Main] = "scan"
      BY <1>3 DEF Scan
    <3>2. PICK i \in Slot : clients[i] = NULL
      BY <3>1, SlotLeft
    <3>3. pos[Main] <= i
      BY <1>0, <3>1, <3>2 DEF Search, Types, Slot
    <3> QED
      BY <1>0, <3>1, <3>3 DEF Types, Slot
  <2>2. /\ UNCHANGED <<clients, size, live, loaded, temp>>
        /\ pc[Main] = "scan"
        /\ \A t \in Client : pc'[t] = pc[t]
    BY <1>0, <1>3 DEF Scan, pool, people, Types
  <2>3. \/ pc'[Main] = "store"
        \/ pc'[Main] = "scan" /\ pos'[Main] = pos[Main] + 1 /\ clients[pos[Main]] # NULL
    BY <1>0, <1>3, <2>1 DEF Scan, Types
  <2>4. Uncounted /\ Uncounted'
    BY <2>2, <2>3 DEF Uncounted, Adding
  <2>5. SizeKept'
    BY <2>2, <2>4 DEF SizeKept
  <2>6. Slotted'
    BY <2>2, <2>3 DEF Slotted, Slot, Types
  <2>7. Loads'
    BY <2>2, <2>3 DEF Loads
  <2>8. Search'
    <3>1. \A i \in Slot : i < pos[Main] + 1 => i < pos[Main] \/ i = pos[Main]
      BY <1>0 DEF Types, Slot
    <3> QED
      BY <2>2, <2>3, <3>1 DEF Search, Slot, Adding
  <2> QED
    BY <2>5, <2>6, <2>7, <2>8
<1>4. CASE Store
  <2>1. /\ UNCHANGED <<size, live, loaded, temp>>
        /\ pc[Main] = "store" /\ pc'[Main] = "load"
        /\ \A t \in Client : pc'[t] = pc[t]
    BY <1>0, <1>4 DEF Store, local, Types
  <2>2. /\ pos[Main] \in Slot /\ clients[pos[Main]] = NULL
        /\ clients'[pos[Main]] = temp[Main]
        /\ \A i \in Slot \ {pos[Main]} : clients'[i] = clients[i]
    BY <1>0, <1>4 DEF Store, Types, Entries
  <2>3. Uncounted /\ Uncounted'
    BY <2>1 DEF Uncounted, Adding
  <2>4. SizeKept'
    BY <2>1, <2>3 DEF SizeKept
  <2>5. Slotted'
    <3>1. \A c \in live : c # NULL /\ c \in Client
      BY DEF Types
    <3> QED
      BY <2>1, <2>2, <3>1 DEF Slotted, Slot
  <2>6. Loads' /\ Search'
    BY <2>1 DEF Loads, Search, Adding
  <2> QED
    BY <2>4, <2>5, <2>6
<1>5. CASE LoadToGrow
  <2>1. /\ UNCHANGED <<clients, size, live, pos, temp>>
        /\ pc[Main] = "load" /\ pc'[Main] = "grow" /\ loaded'[Main] = size
        /\ \A t \in Client : pc'[t] = pc[t] /\ loaded'[t] = loaded[t]
    BY <1>0, <1>5 DEF LoadToGrow, Load, pool, people, Types
  <2>2. Uncounted /\ Uncounted'
    BY <2>1 DEF Uncounted, Adding
  <2>3. SizeKept'
    BY <2>1, <2>2 DEF SizeKept
  <2>4. Slotted'
    BY <2>1 DEF Slotted, Types
  <2>5. Loads' /\ Search'
    BY <2>1 DEF Loads, Search, Adding
  <2> QED
    BY <2>3, <2>4, <2>5
<1>6. CASE Grow
  <2>1. /\ UNCHANGED <<clients, live, loaded, pos, temp>>
        /\ pc[Main] = "grow" /\ pc'[Main] = "accept" /\ size' = loaded[Main] + 1
        /\ \A t \in Client : pc'[t] = pc[t]
    BY <1>0, <1>6 DEF Grow, local, people, Types
  <2>2. \A t \in Client : pc[t] \notin Removing
    BY <2>1 DEF OneAtATime, Adding
  <2>3. Uncounted /\ ~Uncounted'
    BY <2>1, <2>2 DEF Uncounted, Adding, Removing
  <2>4. size' = size + 1
    BY <2>1 DEF Loads
  <2>5. SizeKept'
    BY <1>0, <2>1, <2>3, <2>4 DEF SizeKept
  <2>6. Slotted'
    BY <2>1 DEF Slotted, Types
  <2>7. Loads' /\ Search'
    BY <2>1, <2>2 DEF Loads, Search, Adding, Removing
  <2> QED
    BY <2>5, <2>6, <2>7
<1> QED
  BY <1>1, <1>2, <1>3, <1>4, <1>5, <1>6 DEF AcceptStep

LEMMA CountsAfterRemoval ==
  ASSUME Types, IsFiniteSet(live), Entries, Names, Counts, OneAtATime', NEW t \in Client,
         Clear(t) \/ LoadToShrink(t) \/ Shrink(t) \/ Free(t)
  PROVE  Counts'
<1> USE ThreadsAssumption DEF Goto, Counts
<1>0. /\ t \in Thread /\ Main \in Thread /\ Client \subseteq Thread /\ t # Main
      /\ Cardinality(live) \in Nat
  BY FS_CardinalityType DEF Thread
<1>1. pc[t] \in {"clear", "load", "shrink", "free"} /\ pc[t] \in Removing
  BY DEF Clear, LoadToShrink, Shrink, Free, Removing
<1>2. pc[Main] \notin Adding /\ \A u \in Client \ {t} : pc[u] \notin Removing
  BY <1>1 DEF OneAtATime
<1>3. /\ \A u \in Thread \ {t} : pc'[u] = pc[u]
      /\ pc'[Main] = pc[Main] /\ pc'[Main] \notin Adding
  BY <1>0, <1>2 DEF Clear, LoadToShrink, Shrink, Free, Types
<1>4. Search' /\ (pc'[Main] = "grow" => loaded'[Main] = size')
  BY <1>3 DEF Search, Adding
<1>5. /\ Uncounted <=> pc[t] = "free"
      /\ Uncounted' <=> pc'[t] = "free"
  BY <1>0, <1>2, <1>3 DEF Uncounted, Adding, Removing
<1>6. t \in live
  BY <1>1 DEF Types
<1>7. CASE Clear(t)
  <2>1. /\ UNCHANGED <<size, live, loaded>>
        /\ pc[t] = "clear" /\ pc'[t] = "load"
    BY <1>0, <1>7 DEF Clear, local, Types
  <2>2. /\ pos[t] \in Slot /\ clients[pos[t]] = t
        /\ \A i \in Slot \ {pos[t]} : clients'[i] = clients[i]
    BY <1>0, <1>7 DEF Clear, Types, Entries
  <2>3. SizeKept'
    BY <1>5, <2>1 DEF SizeKept
  <2>4. Slotted'
    <3>1. ASSUME NEW c \in live, c # t
          PROVE  \E i \in Slot : clients'[i] = c
      <4>1. c \in Client /\ pc[c] \notin Removing
        BY <1>2, <3>1 DEF Types
      <4>2. PICK i \in Slot : clients[i] = c
        BY <1>2, <3>1, <4>1 DEF Slotted, Adding, Removing
      <4> QED
        BY <2>2, <3>1, <4>2
    <3> QED
      BY <2>1, <3>1 DEF Slotted, Slot
  <2>5. Loads'
    BY <1>0, <1>3, <1>4, <2>1 DEF Loads
  <2> QED
    BY <1>4, <2>3, <2>4, <2>5
<1>8. CASE LoadToShrink(t)
  <2>1. /\ UNCHANGED <<clients, size, live>>
        /\ pc[t] = "load" /\ pc'[t] = "shrink" /\ loaded'[t] = size
        /\ \A u \in Thread \ {t} : loaded'[u] = loaded[u]
    BY <1>0, <1>8 DEF LoadToShrink, Load, pool, people, Types
  <2>2. SizeKept'
    BY <1>5, <2>1 DEF SizeKept
  <2>3. Slotted'
    BY <1>0, <1>3, <2>1 DEF Slotted, Slot, Types, Adding
  <2>4. Loads'
    BY <1>0, <1>3, <1>4, <2>1 DEF Loads
  <2> QED
    BY <1>4, <2>2, <2>3, <2>4
<1>9. CASE Shrink(t)
  <2>1. /\ UNCHANGED <<clients, live, loaded, temp>>
        /\ pc[t] = "shrink" /\ pc'[t] = "free" /\ size' = loaded[t] - 1
    BY <1>0, <1>9 DEF Shrink, local, people, Types
  <2>2. size' = size - 1
    BY <2>1 DEF Loads
  <2>3. SizeKept'
    BY <1>0, <1>5, <2>1, <2>2 DEF SizeKept
  <2>4. Slotted'
    BY <1>0, <1>3, <2>1 DEF Slotted, Slot, Types
  <2>5. Loads'
    BY <1>0, <1>2, <1>3, <1>4, <2>1 DEF Loads, Removing
  <2> QED
    BY <1>4, <2>3, <2>4, <2>5
<1>10. CASE Free(t)
  <2>1. /\ UNCHANGED <<clients, size>>
        /\ live' = live \ {t}
        /\ pc[t] = "free" /\ pc'[t] = "none" /\ temp'[Main] = temp[Main]
    BY <1>0, <1>10 DEF Free, pool, Types
  <2>2. Cardinality(live') = Cardinality(live) - 1
    BY <1>6, <2>1, FS_RemoveElement, ZenonT(30)
  <2>3. SizeKept'
    BY <1>0, <1>5, <2>1, <2>2 DEF SizeKept
  <2>4. Slotted'
    BY <1>0, <1>3, <2>1 DEF Slotted, Slot, Types
  <2>5. Loads'
    BY <1>0, <1>2, <1>3, <1>4, <2>1 DEF Loads, Removing
  <2> QED
    BY <1>4, <2>3, <2>4, <2>5
<1> QED
  BY <1>7, <1>8, <1>9, <1>10

LEMMA CountsAfterConnection ==
  ASSUME Types, IsFiniteSet(live), Entries, Names, Counts, OneAtATime', NEW t \in Client,
         ConnectionStep(t)
  PROVE  Counts'
<1> USE ThreadsAssumption DEF Goto
<1>0. t \in Thread /\ Main \in Thread /\ Client \subseteq Thread /\ t # Main
  BY DEF Thread
<1>1. CASE Clear(t) \/ LoadToShrink(t) \/ Shrink(t) \/ Free(t)
  BY <1>1, CountsAfterRemoval
<1>2. CASE Crash
  BY <1>2 DEF Crash, pool, local, people, Counts, SizeKept, Slotted, Loads, Search, Uncounted
<1>3. CASE Disconnect(t) \/ Request(t)
  <2>1. /\ UNCHANGED <<clients, size, live, loaded>>
        /\ pc'[Main] = pc[Main] /\ pos'[Main] = pos[Main] /\ temp'[Main] = temp[Main]
        /\ \A u \in Client \ {t} : pc'[u] = pc[u]
        /\ pc[t] = "serve" /\ pc'[t] \in {"find", "get"}
    BY <1>0, <1>3 DEF Disconnect, Request, pool, people, Types
  <2> QED
    BY <2>1, CountsStay
<1>4. CASE Find(t)
  <2>1. /\ UNCHANGED <<clients, size, live, loaded>>
        /\ pc'[Main] = pc[Main] /\ pos'[Main] = pos[Main] /\ temp'[Main] = temp[Main]
        /\ \A u \in Client \ {t} : pc'[u] = pc[u]
        /\ pc[t] = "find"
    BY <1>0, <1>4 DEF Find, pool, people, Types
  <2>2. pos[t] \in Slot
    <3>1. pc[Main] \notin Adding /\ t \in live
      BY <2>1 DEF Counts, OneAtATime, Removing, Types
    <3>2. PICK i \in Slot : clients[i] = t
      BY <2>1, <3>1 DEF Counts, Slotted, Adding
    <3>3. pos[t] <= i
      BY <1>0, <2>1, <3>2 DEF Names, Passed, Types, Slot
    <3> QED
      BY <1>0, <3>3 DEF Types, Slot
  <2>3. pc'[t] = "compare"
    BY <1>0, <1>4, <2>2 DEF Find, Types
  <2> QED
    BY <2>1, <2>3, CountsStay
<1>5. CASE Compare(t) /\ ~Crash
  <2>1. /\ UNCHANGED <<clients, size, live, loaded>>
        /\ pc'[Main] = pc[Main] /\ pos'[Main] = pos[Main] /\ temp'[Main] = temp[Main]
        /\ \A u \in Client \ {t} : pc'[u] = pc[u]
        /\ pc[t] = "compare" /\ pc'[t] \in {"clear", "find"}
    BY <1>0, <1>5 DEF Compare, pool, local, people, Types
  <2> QED
    BY <2>1, CountsStay
<1>6. CASE Get(t) /\ ~Crash
  <2>1. /\ UNCHANGED <<clients, size, live, loaded>>
        /\ pc'[Main] = pc[Main] /\ pos'[Main] = pos[Main] /\ temp'[Main] = temp[Main]
        /\ \A u \in Client \ {t} : pc'[u] = pc[u]
        /\ pc[t] = "get" /\ pc'[t] \in {"serve", "use"}
    BY <1>0, <1>6 DEF Get, pool, local, people, Types
  <2> QED
    BY <2>1, CountsStay
<1>7. CASE Use(t) /\ ~Crash
  <2>1. /\ UNCHANGED <<clients, size, live, loaded>>
        /\ pc'[Main] = pc[Main] /\ pos'[Main] = pos[Main] /\ temp'[Main] = temp[Main]
        /\ \A u \in Client \ {t} : pc'[u] = pc[u]
        /\ pc[t] = "use" /\ pc'[t] \in {"serve", "get"}
    BY <1>0, <1>7 DEF Use, pool, local, people, Types
  <2> QED
    BY <2>1, CountsStay
<1> QED
  BY <1>1, <1>2, <1>3, <1>4, <1>5, <1>6, <1>7 DEF ConnectionStep

Counted == conduct = "calm" => Counts

CInv == PInv /\ Limit /\ Counted

LEMMA CountedInit == Init => CInv
<1> SUFFICES ASSUME Init PROVE CInv
  OBVIOUS
<1> USE ThreadsAssumption DEF Init
<1>1. /\ pc[Main] = "accept" /\ live = {} /\ size = 0
      /\ \A t \in Client : pc[t] = "none"
  BY DEF Thread
<1>2. Cardinality(live) = 0 /\ IsFiniteSet(live)
  BY <1>1, FS_EmptySet
<1>3. ~Uncounted
  BY <1>1 DEF Uncounted, Adding
<1>4. Counts
  BY <1>1, <1>2, <1>3 DEF Counts, OneAtATime, SizeKept, Slotted, Loads, Search, Adding, Removing
<1>5. Limit
  BY <1>1 DEF Limit, Adding
<1>6. Entries /\ Patient /\ Names
  BY <1>1 DEF Entries, Patient, Names, Alive, Single, Newcomer, Passed, Adding
<1> QED
  BY <1>2, <1>4, <1>5, <1>6, TypesInit DEF CInv, PInv, Named, Counted

LEMMA CountedStep == CInv /\ [Next]_vars => CInv'
<1> SUFFICES ASSUME CInv, [Next]_vars PROVE CInv'
  OBVIOUS
<1>1. Types /\ IsFiniteSet(live) /\ Entries /\ Limit
  BY DEF CInv, PInv, TypesInv
<1>2. PInv'
  BY <1>1, TypesStep, EntriesStep, LiveStaysFinite, NamedStep DEF CInv, PInv, TypesInv
<1>3. Limit'
  BY <1>1, LimitStep
<1>4. ASSUME conduct' = "calm" PROVE Counts'
  <2>1. CASE UNCHANGED vars
    BY <1>4, <2>1 DEF vars, pool, local, people, CInv, Counted, Counts, OneAtATime, SizeKept,
       Slotted, Loads, Search, Uncounted
  <2>2. CASE ~UNCHANGED vars
    <3>1. conduct = "calm" /\ Calm'
      BY <1>1, <1>4, <2>2, ConductKept DEF CInv, PInv, Named
    <3>2. Counts /\ Names
      BY <3>1 DEF CInv, PInv, Named, Counted
    <3>3. OneAtATime'
      <4>1. Types' /\ IsFiniteSet(live)' /\ Calm' => OneAtATime'
        BY CalmMeans, PTL
      <4> QED
        BY <1>2, <3>1, <4>1 DEF PInv, TypesInv
    <3>4. CASE UNCHANGED <<pool, local, people, pc, running>>
      BY <3>2, <3>4 DEF pool, local, people, Counts, OneAtATime, SizeKept, Slotted, Loads,
         Search, Uncounted
    <3> QED
      BY <1>1, <3>2, <3>3, <3>4, Steps, CountsAfterAccept, CountsAfterConnection
  <2> QED
    BY <2>1, <2>2
<1> QED
  BY <1>2, <1>3, <1>4 DEF CInv, Counted

\* While connections have come and gone one at a time, the size is exact between
\* them and everybody who is connected has a slot, however the loads and stores
\* of the size and of the slots are scheduled.
THEOREM SizeStaysExact == Spec => []SizeIsExact
<1>1. CInv => SizeIsExact
  <2> SUFFICES ASSUME CInv, Quiet, conduct = "calm"
               PROVE  /\ size = Cardinality(live)
                      /\ \A c \in live : \E i \in Slot : clients[i] = c
    BY DEF SizeIsExact
  <2>1. Counts /\ live \subseteq Client /\ IsFiniteSet(live)
    BY DEF CInv, Counted, PInv, TypesInv, Types
  <2>2. ~Uncounted
    BY DEF Quiet, Uncounted, Adding, Removing
  <2>3. size = Cardinality(live)
    BY <2>1, <2>2, FS_CardinalityType DEF Counts, SizeKept
  <2> QED
    BY <2>1, <2>3 DEF Counts, Slotted, Quiet, Removing
<1> QED
  BY <1>1, CountedInit, CountedStep, PTL DEF Spec

\* Then client_pool_get, whose index is unsigned, ends inside the array: the size
\* is neither below zero nor past the limit.
THEOREM GetStays == Spec => []GetStaysInside
<1>1. CInv => GetStaysInside
  <2> SUFFICES ASSUME CInv, conduct = "calm", NEW t \in Client, pc[t] = "get", InLoop(pos[t])
               PROVE  pos[t] \in Slot
    BY DEF GetStaysInside
  <2>1. Counts /\ Types /\ IsFiniteSet(live) /\ size <= MAX_CLIENTS
    BY DEF CInv, Counted, PInv, TypesInv, Limit
  <2>2. Cardinality(live) \in Nat /\ (live # {} => Cardinality(live) >= 1)
    <3>1. Cardinality(live) \in Nat /\ (Cardinality(live) = 0 <=> live = {})
      BY <2>1, FS_CardinalityType, FS_EmptySet
    <3> QED
      BY <3>1
  <2>3. Uncounted => live # {}
    BY <2>1 DEF Uncounted, Counts, Search, Types
  <2>4. size >= 0
    BY <2>1, <2>2, <2>3 DEF Counts, SizeKept
  <2>5. pos[t] \in 0 .. MAX_CLIENTS /\ size \in Int
    BY <2>1 DEF Types, Thread
  <2> QED
    BY <2>1, <2>4, <2>5, ThreadsAssumption DEF InLoop, Slot
<1> QED
  BY <1>1, CountedInit, CountedStep, PTL DEF Spec
=============================================================================
