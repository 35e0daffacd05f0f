------------------------------ MODULE Accounts ------------------------------
(***************************************************************************)
(* What signing up and signing in promise: one account for each name, and  *)
(* a session that is logged in as the account it has given the name and    *)
(* the password of.  A text with a quote or a backslash is promised        *)
(* nothing: once somebody has signed in with one any session may become    *)
(* logged in as anybody, but the accounts are still what they were; once   *)
(* somebody has signed up with one they need not be either.                *)
(***************************************************************************)
CONSTANTS Session, Name, Password, NULL

VARIABLES
  password,  (* password[n]: that of the account n, NULL without one       *)
  login,     (* login[s]: the account the session s is logged in as        *)
  odd        (* what has been done with an odd text: "up", "in"            *)

vars == <<password, login, odd>>

Init ==
  /\ password = [n \in Name |-> NULL]
  /\ login = [s \in Session |-> NULL]
  /\ odd = {}

SignUp(n, p) ==
  /\ password[n] = NULL
  /\ password' = [password EXCEPT ![n] = p]
  /\ UNCHANGED <<login, odd>>

SignIn(s, n, p) ==
  /\ password[n] = p
  /\ login' = [login EXCEPT ![s] = n]
  /\ UNCHANGED <<password, odd>>

\* What an odd text has done stays possible.
OddSignIn ==
  /\ odd' = odd \cup {"in"}
  /\ \E s \in Session : \E n \in Name \cup {login[s]} : login' = [login EXCEPT ![s] = n]
  /\ UNCHANGED password

OddSignUp ==
  /\ odd' \in SUBSET {"up", "in"} /\ odd \cup {"up"} \subseteq odd'
  /\ password' \in [Name -> Password \cup {NULL}]
  /\ \E s \in Session : \E n \in Name \cup {login[s]} : login' = [login EXCEPT ![s] = n]

Next ==
  \/ \E n \in Name, p \in Password :
       SignUp(n, p) \/ \E s \in Session : SignIn(s, n, p)
  \/ OddSignIn \/ OddSignUp

Spec == Init /\ [][Next]_vars
=============================================================================
