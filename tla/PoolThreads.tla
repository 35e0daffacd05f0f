---------------------------- MODULE PoolThreads -----------------------------
(***************************************************************************)
(* client_pool.c between the thread that accepts connections and the       *)
(* threads of the connections, one step per access to what they share.     *)
(*                                                                         *)
(* The accepting thread is the only one that takes the pool's mutex, so    *)
(* the mutex keeps nobody out and is left out.  size++ and size-- are a    *)
(* load and a store.  Uids are not reused, so comparing the uids of two    *)
(* allocated client_t is comparing their addresses.                        *)
(*                                                                         *)
(* The variable running turns FALSE when a thread reads past the end of    *)
(* the array, and may do so when it reads a freed client_t: what happens   *)
(* after that is not modelled.  Freed memory is otherwise found to be no   *)
(* match.                                                                  *)
(***************************************************************************)
EXTENDS Integers, FiniteSets

CONSTANTS
  Client,         (* addresses at which a client_t can be allocated        *)
  Main,           (* the accepting thread                                  *)
  NULL,           (* the null pointer                                      *)
  MAX_CLIENTS,    (* length of client_pool.clients                         *)
  MaxConnections  (* bound: how many connections are accepted              *)

ASSUME ThreadsAssumption ==
  /\ NULL \notin Client
  /\ Main \notin Client
  /\ MAX_CLIENTS \in Nat \ {0}
  /\ MaxConnections \in Nat

Thread  == Client \cup {Main}
Slot    == 0 .. MAX_CLIENTS - 1
NoIndex == -1

VARIABLES
  clients,      (* client_pool.clients                                     *)
  size,         (* client_pool.size                                        *)
  live,         (* the client_t that are allocated, each with its thread   *)
  added,        (* those client_pool_add has returned true for             *)
  pc,           (* pc[t]: where the thread t is                            *)
  pos,          (* pos[t]: the variable of its loop                        *)
  temp,         (* temp[t]: the entry it has read; for Main the new client *)
  loaded,       (* loaded[t]: the size it has read to change               *)
  connections,  (* how many connections have been accepted                 *)
  conduct,      (* history: how connections have come and gone so far      *)
  running       (* the process is alive                                    *)

pool   == <<clients, size>>
local  == <<pos, temp, loaded>>
people == <<live, added, connections>>
vars   == <<pool, local, people, pc, conduct, running>>

Adding   == {"create", "scan", "store", "load", "grow"}
Removing == {"find", "compare", "clear", "load", "shrink", "free"}
Label    == {"accept", "none", "serve", "get", "use"} \cup Adding \cup Removing

\* Among the types: every store is inside the array.
TypeOK ==
  /\ clients \in [Slot -> Client \cup {NULL}]
  /\ size \in Int
  /\ added \subseteq live /\ live \subseteq Client
  /\ pc \in [Thread -> Label]
  /\ pos \in [Thread -> 0 .. MAX_CLIENTS]
  /\ temp \in [Thread -> Client \cup {NULL}]
  /\ loaded \in [Thread -> Int]
  /\ connections \in 0 .. MaxConnections
  /\ conduct \in {"calm", "patient", "any"}
  /\ running \in BOOLEAN
  /\ \A t \in Thread : pc[t] \in {"store", "clear"} => pos[t] \in Slot
  /\ \A c \in Client : c \in live <=> pc[c] # "none"

Init ==
  /\ clients = [i \in Slot |-> NULL]
  /\ size = 0
  /\ live = {} /\ added = {}
  /\ pc = [t \in Thread |-> IF t = Main THEN "accept" ELSE "none"]
  /\ pos = [t \in Thread |-> 0]
  /\ temp = [t \in Thread |-> NULL]
  /\ loaded = [t \in Thread |-> 0]
  /\ connections = 0
  /\ conduct = "calm"
  /\ running = TRUE

Goto(t, label) == pc' = [pc EXCEPT ![t] = label]

Crash ==
  /\ running' = FALSE
  /\ UNCHANGED <<pool, local, people, pc>>

Load(t) ==
  /\ loaded' = [loaded EXCEPT ![t] = size]
  /\ UNCHANGED <<pool, pos, temp, people, running>>

-----------------------------------------------------------------------------
(* The accepting thread: main and client_pool_add.                         *)

\* Mutant: the limit is met one client too late.
MutantIsFull == size > MAX_CLIENTS

client_pool_is_full == size = MAX_CLIENTS

\* A connection is closed at once if the pool is full.
Accept ==
  /\ pc[Main] = "accept"
  /\ connections < MaxConnections
  /\ connections' = connections + 1
  /\ Goto(Main, IF client_pool_is_full THEN "accept" ELSE "create")
  /\ UNCHANGED <<pool, local, live, added, running>>

\* client_create: from here the thread of c runs.
Create(c) ==
  /\ pc[Main] = "create"
  /\ c \notin live
  /\ live' = live \cup {c}
  /\ temp' = [temp EXCEPT ![Main] = c]
  /\ pos' = [pos EXCEPT ![Main] = 0]
  /\ pc' = [pc EXCEPT ![Main] = "scan", ![c] = "serve"]
  /\ UNCHANGED <<pool, loaded, added, connections, running>>

\* Mutant: the first slot is taken without a look at it.
MutantScan ==
  /\ pc[Main] = "scan"
  /\ Goto(Main, "store")
  /\ UNCHANGED <<pool, local, people, running>>

\* Mutant: client_pool_add does not ask whether an empty slot was found.
MutantScanUnchecked ==
  /\ pc[Main] = "scan"
  /\ IF pos[Main] \in Slot /\ clients[pos[Main]] # NULL
       THEN pos' = [pos EXCEPT ![Main] = @ + 1] /\ UNCHANGED pc
       ELSE Goto(Main, "store") /\ UNCHANGED pos
  /\ UNCHANGED <<pool, temp, loaded, people, running>>

\* The first empty slot; without one client_pool_add returns false.
Scan ==
  /\ pc[Main] = "scan"
  /\ \/ pos[Main] = MAX_CLIENTS /\ Goto(Main, "accept") /\ UNCHANGED pos
     \/ /\ pos[Main] \in Slot
        /\ IF clients[pos[Main]] = NULL
             THEN Goto(Main, "store") /\ UNCHANGED pos
             ELSE pos' = [pos EXCEPT ![Main] = @ + 1] /\ UNCHANGED pc
  /\ UNCHANGED <<pool, temp, loaded, people, running>>

Store ==
  /\ pc[Main] = "store"
  /\ clients' = [clients EXCEPT ![pos[Main]] = temp[Main]]
  /\ added' = added \cup ({temp[Main]} \cap live)
  /\ Goto(Main, "load")
  /\ UNCHANGED <<size, local, live, connections, running>>

LoadToGrow == pc[Main] = "load" /\ Goto(Main, "grow") /\ Load(Main)

Grow ==
  /\ pc[Main] = "grow"
  /\ size' = loaded[Main] + 1
  /\ Goto(Main, "accept")
  /\ UNCHANGED <<clients, local, people, running>>

-----------------------------------------------------------------------------
(* The thread of a connection: the end of client_handler and               *)
(* client_pool_remove.                                                     *)

Disconnect(t) ==
  /\ pc[t] = "serve"
  /\ Goto(t, "find")
  /\ pos' = [pos EXCEPT ![t] = 0]
  /\ UNCHANGED <<pool, temp, loaded, people, running>>

\* Mutant: the loop leaves out the last slot.
MutantFind(t) ==
  /\ pc[t] = "find"
  /\ IF pos[t] < MAX_CLIENTS - 1
       THEN temp' = [temp EXCEPT ![t] = clients[pos[t]]] /\ Goto(t, "compare")
       ELSE Goto(t, "free") /\ UNCHANGED temp
  /\ UNCHANGED <<pool, pos, loaded, people, running>>

Find(t) ==
  /\ pc[t] = "find"
  /\ IF pos[t] \in Slot
       THEN temp' = [temp EXCEPT ![t] = clients[pos[t]]] /\ Goto(t, "compare")
       ELSE Goto(t, "free") /\ UNCHANGED temp
  /\ UNCHANGED <<pool, pos, loaded, people, running>>

\* The entry may have been freed since it was read.
Compare(t) ==
  /\ pc[t] = "compare"
  /\ \/ temp[t] = t /\ Goto(t, "clear") /\ UNCHANGED <<pool, local, people, running>>
     \/ /\ temp[t] # t
        /\ pos' = [pos EXCEPT ![t] = @ + 1]
        /\ Goto(t, "find")
        /\ UNCHANGED <<pool, temp, loaded, people, running>>
     \/ temp[t] \in Client \ live /\ Crash

\* Mutant: the slot is emptied and the size is kept.
MutantClear(t) ==
  /\ pc[t] = "clear"
  /\ clients' = [clients EXCEPT ![pos[t]] = NULL]
  /\ added' = added \ {t}
  /\ Goto(t, "free")
  /\ UNCHANGED <<size, local, live, connections, running>>

Clear(t) ==
  /\ pc[t] = "clear"
  /\ clients' = [clients EXCEPT ![pos[t]] = NULL]
  /\ added' = added \ {t}
  /\ Goto(t, "load")
  /\ UNCHANGED <<size, local, live, connections, running>>

LoadToShrink(t) == pc[t] = "load" /\ Goto(t, "shrink") /\ Load(t)

Shrink(t) ==
  /\ pc[t] = "shrink"
  /\ size' = loaded[t] - 1
  /\ Goto(t, "free")
  /\ UNCHANGED <<clients, local, people, running>>

\* The variables of the thread go with it.
Free(t) ==
  /\ pc[t] = "free"
  /\ live' = live \ {t}
  /\ added' = added \ {t}
  /\ pos' = [pos EXCEPT ![t] = 0]
  /\ temp' = [temp EXCEPT ![t] = NULL]
  /\ loaded' = [loaded EXCEPT ![t] = 0]
  /\ Goto(t, "none")
  /\ UNCHANGED <<pool, connections, running>>

-----------------------------------------------------------------------------
(* client_pool_get, in the handlers of the answers to a join request.      *)

Request(t) ==
  /\ pc[t] = "serve"
  /\ Goto(t, "get")
  /\ pos' = [pos EXCEPT ![t] = 0]
  /\ UNCHANGED <<pool, temp, loaded, people, running>>

\* Mutant: the loop runs one entry too far.
MutantInLoop(i) == size < 0 \/ i <= size

\* i is unsigned, so a size below zero is a large number.
InLoop(i) == size < 0 \/ i < size

Get(t) ==
  /\ pc[t] = "get"
  /\ \/ ~InLoop(pos[t]) /\ Goto(t, "serve") /\ UNCHANGED <<pool, local, people, running>>
     \/ /\ InLoop(pos[t]) /\ pos[t] \in Slot
        /\ temp' = [temp EXCEPT ![t] = clients[pos[t]]]
        /\ Goto(t, "use")
        /\ UNCHANGED <<pool, pos, loaded, people, running>>
     \/ InLoop(pos[t]) /\ pos[t] \notin Slot /\ Crash

\* The user of the entry may be the one looked for or another.
Use(t) ==
  /\ pc[t] = "use"
  /\ \/ temp[t] \in live /\ Goto(t, "serve") /\ UNCHANGED <<pool, local, people, running>>
     \/ /\ pos' = [pos EXCEPT ![t] = @ + 1]
        /\ Goto(t, "get")
        /\ UNCHANGED <<pool, temp, loaded, people, running>>
     \/ temp[t] \in Client \ live /\ Crash

-----------------------------------------------------------------------------
AcceptStep ==
  \/ Accept \/ Scan \/ Store \/ LoadToGrow \/ Grow
  \/ \E c \in Client : Create(c)

ConnectionStep(t) ==
  \/ Disconnect(t) \/ Find(t) \/ Compare(t) \/ Clear(t)
  \/ LoadToShrink(t) \/ Shrink(t) \/ Free(t)
  \/ Request(t) \/ Get(t) \/ Use(t)

\* Patient connections last until the server has added them; calm ones also come
\* and go one at a time.
Patient ==
  pc[Main] \in Adding \ {"create"} => pc[temp[Main]] \notin Removing

Calm ==
  Cardinality({t \in Client : pc[t] \in Removing}
              \cup {t \in {Main} : pc[t] \in Adding}) <= 1

Conduct ==
  conduct' = IF conduct = "calm" /\ Calm' THEN "calm"
             ELSE IF conduct # "any" /\ Patient' THEN "patient" ELSE "any"

Step ==
  /\ running
  /\ AcceptStep \/ \E t \in Client : ConnectionStep(t)
  /\ Conduct

\* Nobody is connected, or nothing is known any more.
Rest ==
  /\ ~running \/ (live = {} /\ connections = MaxConnections)
  /\ UNCHANGED vars

Next == Step \/ Rest

Spec == Init /\ [][Next]_vars

-----------------------------------------------------------------------------
(* Whatever connections do.                                                *)

\* client_pool_is_full compares with ==, and a lost update can make the size
\* too high; all the same it never passes the limit, after which no connection
\* would be turned away any more and client_pool_get would leave the array.
SizeWithinLimit == running => size <= MAX_CLIENTS

\* A client that has been added stays in the pool until its own thread takes
\* it out: no other thread fills its slot or empties it.
AddedStaysIn ==
  running => \A c \in added : \E i \in Slot : clients[i] = c

-----------------------------------------------------------------------------
(* While connections have been patient, and while they have been calm.     *)

\* No slot names a freed client_t, and no client has two slots.
SlotsAreConnections ==
  running /\ conduct # "any" =>
    \A i \in Slot : clients[i] # NULL =>
      /\ clients[i] \in live
      /\ \A j \in Slot : clients[j] = clients[i] => i = j

Quiet ==
  running /\ pc[Main] = "accept" /\ \A c \in Client : pc[c] \notin Removing

\* The size is the number of connections, none of which is left out: as main.c
\* has it, "Check if max clients is reached".
SizeIsExact ==
  Quiet /\ conduct = "calm" =>
    /\ size = Cardinality(live)
    /\ \A c \in live : \E i \in Slot : clients[i] = c

\* client_pool_get ends inside the array.
GetStaysInside ==
  running /\ conduct = "calm" =>
    \A t \in Client : pc[t] = "get" /\ InLoop(pos[t]) => pos[t] \in Slot
=============================================================================
