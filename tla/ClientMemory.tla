---------------------------- MODULE ClientMemory ----------------------------
(***************************************************************************)
(* client.h, client_create and the end of client_handler: the memory the   *)
(* client_t objects live in.                                               *)
(*                                                                         *)
(* An address is live from the malloc of client_create to the free at the  *)
(* end of client_handler, and can then be allocated again for another      *)
(* connection.  free leaves the contents alone, and client_create does not *)
(* initialise the field user, so a new client_t has either zeros there or  *)
(* what the previous client_t at that address left.  Memory that has held  *)
(* anything else since is left out.                                        *)
(***************************************************************************)
CONSTANTS
  Client,   (* the addresses a client_t can be allocated at                *)
  User,     (* the rows of the table users; a row is its id and its name   *)
  NoUser,   (* the field user with a NULL name                             *)
  NULL      (* the null pointer                                            *)

ASSUME ClientAssumption ==
  /\ NULL \notin Client
  /\ NULL \notin User
  /\ NoUser \notin User

VARIABLES
  live,   (* the addresses that hold an allocated client_t                 *)
  user    (* user[c]: the field user of the client_t at c                  *)

clientVars == <<live, user>>

ClientTypeOK ==
  /\ live \subseteq Client
  /\ user \in [Client -> User \cup {NoUser}]

ClientInit ==
  /\ live = {}
  /\ user = [c \in Client |-> NoUser]

client_create(c) ==
  /\ c \notin live
  /\ live' = live \cup {c}
  /\ \E u \in {user[c], NoUser} : user' = [user EXCEPT ![c] = u]

client_free(c) ==
  /\ live' = live \ {c}
  /\ UNCHANGED user

\* client_serialize reads the name with strlen.
CanSerialize(c) == user[c] # NoUser

\* Reading one of these client_t is undefined: the memory has been freed.
Freed(S) == S \ live # {}
=============================================================================
