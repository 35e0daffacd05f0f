----------------------------- MODULE ClientPool -----------------------------
(***************************************************************************)
(* client_pool.c: the array of connected clients and the size kept beside  *)
(* it.                                                                     *)
(***************************************************************************)
EXTENDS Integers, ClientMemory

CONSTANT MAX_CLIENTS  (* length of client_pool.clients                     *)

PoolIndex == 0 .. MAX_CLIENTS - 1

ASSUME PoolAssumption == MAX_CLIENTS \in Nat \ {0}

VARIABLES
  pool,      (* client_pool.clients                                        *)
  poolSize   (* client_pool.size                                           *)

poolVars == <<pool, poolSize>>

PoolTypeOK ==
  /\ pool \in [PoolIndex -> Client \cup {NULL}]
  /\ poolSize \in Int

PoolInit ==
  /\ pool = [i \in PoolIndex |-> NULL]
  /\ poolSize = 0

client_pool_is_full == poolSize = MAX_CLIENTS

\* get_client_pool_empty_index: the first empty index.
IsEmptyIndex(i) ==
  /\ pool[i] = NULL
  /\ \A j \in PoolIndex : pool[j] = NULL => i <= j

\* find_index_in_client_pool: the first index that holds the client.
IsPoolIndex(c, i) ==
  /\ pool[i] = c
  /\ \A j \in PoolIndex : pool[j] = c => i <= j

\* client_pool_get looks at the first client_pool.size indices only.
HasUserId(i, u) == i < poolSize /\ pool[i] # NULL /\ user[pool[i]] = u

\* The client_t client_pool_get(u) returns is c.
client_pool_get(u, c) ==
  \/ /\ c = NULL
     /\ \A i \in PoolIndex : ~HasUserId(i, u)
  \/ \E i \in PoolIndex :
       /\ HasUserId(i, u)
       /\ \A j \in PoolIndex : HasUserId(j, u) => i <= j
       /\ c = pool[i]

client_pool_add(c) ==
  \/ /\ \A i \in PoolIndex : pool[i] # NULL
     /\ UNCHANGED poolVars
  \/ \E i \in PoolIndex :
       /\ IsEmptyIndex(i)
       /\ pool' = [pool EXCEPT ![i] = c]
       /\ poolSize' = poolSize + 1

\* Mutant: the size only grows.
MutantPoolRemove(c) ==
  \/ /\ \A i \in PoolIndex : pool[i] # c
     /\ UNCHANGED poolVars
  \/ \E i \in PoolIndex :
       /\ IsPoolIndex(c, i)
       /\ pool' = [pool EXCEPT ![i] = NULL]
       /\ UNCHANGED poolSize

client_pool_remove(c) ==
  \/ /\ \A i \in PoolIndex : pool[i] # c
     /\ UNCHANGED poolVars
  \/ \E i \in PoolIndex :
       /\ IsPoolIndex(c, i)
       /\ pool' = [pool EXCEPT ![i] = NULL]
       /\ poolSize' = poolSize - 1
=============================================================================
