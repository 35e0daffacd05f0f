------------------------------ MODULE Database ------------------------------
(***************************************************************************)
(* database.c between the threads of the server: every request connects    *)
(* anew through the one global pointer conn, which every call reads again, *)
(* and no connection is closed.                                            *)
(*                                                                         *)
(* A Session is a connected client and its thread.  The handles that       *)
(* mysql_init returns and what the calls of the library do with them are   *)
(* modelled from how database.c uses them: a handle that is connected      *)
(* already may refuse to connect again, a result that nobody has fetched   *)
(* makes the next query on its handle fail, any query may fail because the *)
(* database does, and without a result mysql_store_result returns null.    *)
(* The table of users holds a name once.                                   *)
(*                                                                         *)
(* A statement is made with sprintf, and nothing is escaped.  A text that  *)
(* ends or changes the string it is put between, by a quote or a           *)
(* backslash, is in Odd, and the statement made with it is another than    *)
(* was meant: it may fail, find any row and, if it is an INSERT, leave any *)
(* table.  It stays a single statement.  With a plain text the statement   *)
(* does what it says; texts that the table compares as equal are one text. *)
(*                                                                         *)
(* The variable running turns FALSE when the server exits because it       *)
(* cannot connect, reads a null result, or may be inside the library with  *)
(* one handle in two threads.                                              *)
(***************************************************************************)
EXTENDS Integers

CONSTANTS
  Session,     (* connected clients                                        *)
  Name,        (* user names                                               *)
  Password,
  Odd,         (* the names and passwords with a quote or a backslash      *)
  NULL,        (* the null pointer; no account, no login                   *)
  MaxHandles   (* how many connections the database server accepts         *)

Handle  == 1 .. MaxHandles
Request == [kind : {"up", "in"}, name : Name, pass : Password]

ASSUME DatabaseAssumption ==
  /\ NULL \notin Session \cup Name \cup Password \cup Handle \cup Request
  /\ NULL \notin {"accepted", "rejected"}
  /\ MaxHandles \in Nat \ {0}

VARIABLES
  conn,      (* the global pointer: a handle, or NULL                      *)
  handles,   (* how many handles there are; they are never closed          *)
  linked,    (* the handles that are connected                             *)
  pending,   (* the handles on which rows wait that nobody has fetched     *)
  result,    (* result[h]: the rows of the last query on the handle h      *)
  password,  (* the table of users: password[n], NULL without an account   *)
  login,     (* login[s]: client->user, the name found for the session s   *)
  asked,     (* asked[s]: the request the session s has made               *)
  pc,        (* pc[s]: where the thread of s is                            *)
  answer,    (* answer[s]: the last answer it has been sent                *)
  disturbed, (* history: the sessions whose last request met another, or   *)
             (* whose query failed                                         *)
  odd,       (* history: the kinds of requests of which one was made with  *)
             (* an odd text                                                *)
  running    (* the process is alive                                       *)

client == <<conn, handles, linked, pending, result>>
thread == <<login, asked, answer>>
past   == <<disturbed, odd>>
vars   == <<client, password, thread, past, pc, running>>

Calling == {"connect", "query", "fetch"}

Plain(q) == q.name \notin Odd /\ q.pass \notin Odd

TypeOK ==
  /\ conn \in Handle \cup {NULL}
  /\ handles \in 0 .. MaxHandles
  /\ linked \subseteq 1 .. handles
  /\ pending \subseteq linked
  /\ result \in [Handle -> SUBSET Name]
  /\ password \in [Name -> Password \cup {NULL}]
  /\ login \in [Session -> Name \cup {NULL}]
  /\ asked \in [Session -> Request \cup {NULL}]
  /\ pc \in [Session -> {"idle", "init", "connect", "query", "fetch"}]
  /\ answer \in [Session -> {NULL, "accepted", "rejected"}]
  /\ disturbed \subseteq Session
  /\ odd \subseteq {"up", "in"}
  /\ running \in BOOLEAN

Init ==
  /\ conn = NULL
  /\ handles = 0
  /\ linked = {}
  /\ pending = {}
  /\ result = [h \in Handle |-> {}]
  /\ password = [n \in Name |-> NULL]
  /\ login = [s \in Session |-> NULL]
  /\ asked = [s \in Session |-> NULL]
  /\ pc = [s \in Session |-> "idle"]
  /\ answer = [s \in Session |-> NULL]
  /\ disturbed = {}
  /\ odd = {}
  /\ running = TRUE

Goto(s, label) == pc' = [pc EXCEPT ![s] = label]

Crash ==
  /\ running' = FALSE
  /\ UNCHANGED <<client, password, thread, past, pc>>

Answer(s, what) ==
  /\ answer' = [answer EXCEPT ![s] = what]
  /\ Goto(s, "idle")
  /\ UNCHANGED <<asked, running>>

-----------------------------------------------------------------------------
\* handle_sign_up_tag and handle_sign_in_tag: the names come off the message.
Ask(s, q) ==
  /\ pc[s] = "idle"
  /\ asked' = [asked EXCEPT ![s] = q]
  /\ answer' = [answer EXCEPT ![s] = NULL]
  /\ LET others == {u \in Session : pc[u] # "idle"}
     IN  disturbed' = IF others = {} THEN disturbed \ {s}
                      ELSE disturbed \cup others \cup {s}
  /\ Goto(s, "init")
  /\ UNCHANGED <<client, password, login, odd, running>>

\* conn = mysql_init(NULL)
ConnectInit(s) ==
  /\ pc[s] = "init"
  /\ handles < MaxHandles
  /\ handles' = handles + 1
  /\ conn' = handles'
  /\ Goto(s, "connect")
  /\ UNCHANGED <<linked, pending, result, password, thread, past, running>>

\* mysql_real_connect(conn, ...), on whatever handle conn names by now.
Connect(s) ==
  /\ pc[s] = "connect"
  /\ \/ /\ linked' = linked \cup {conn}
        /\ pending' = pending \ {conn}
        /\ Goto(s, "query")
        /\ UNCHANGED <<conn, handles, result, password, thread, past, running>>
     \/ Crash

\* The database server turns the connection down, and the server exits.
TooManyConnections(s) ==
  /\ pc[s] = "init"
  /\ handles = MaxHandles
  /\ Crash

\* Mutant: a query does not need its handle to be connected.
MutantFree == conn \notin pending

\* A handle that another thread is about to connect is not ready.
Free == conn \in linked \ pending

Asks(s, kind) == pc[s] = "query" /\ asked[s].kind = kind

\* The statement of s is run, or begun.
Run(s) == odd' = IF Plain(asked[s]) THEN odd ELSE odd \cup {asked[s].kind}

-----------------------------------------------------------------------------
(* database_new_user.                                                      *)

\* Mutant: a name that is taken gets the password of the request.
MutantInserted(q) == {[password EXCEPT ![q.name] = q.pass]}

\* The tables an INSERT that succeeds can leave.
Inserted(q) ==
  IF Plain(q)
    THEN {t \in {[password EXCEPT ![q.name] = q.pass]} : password[q.name] = NULL}
    ELSE [Name -> Password \cup {NULL}]

InsertSucceeds(s) ==
  /\ Asks(s, "up")
  /\ Free
  /\ password' \in Inserted(asked[s])
  /\ Answer(s, "accepted")
  /\ Run(s)
  /\ UNCHANGED <<client, login, disturbed>>

NameIsTaken(s) ==
  /\ Asks(s, "up")
  /\ Free
  /\ Plain(asked[s]) /\ password[asked[s].name] # NULL
  /\ Answer(s, "rejected")
  /\ UNCHANGED <<client, password, login, past>>

\* mysql_query returns an error for another reason: the handle is busy, the
\* statement is none, or the database is lost, before or after it has stored
\* the row.
InsertFails(s) ==
  /\ Asks(s, "up")
  /\ password' \in {password} \cup (IF Free THEN Inserted(asked[s]) ELSE {})
  /\ Answer(s, "rejected")
  /\ Run(s)
  /\ disturbed' = disturbed \cup {s}
  /\ UNCHANGED <<client, login>>

QueryUp(s) == InsertSucceeds(s) \/ NameIsTaken(s) \/ InsertFails(s)

-----------------------------------------------------------------------------
(* database_user_login.                                                    *)

\* Mutant: the row is the one asked for, whatever is stored.
MutantRows(q) == {{q.name}}

\* The rows a SELECT can find; LIMIT 1 or not, only the first is looked at.
Rows(q) ==
  IF Plain(q)
    THEN {IF password[q.name] = q.pass THEN {q.name} ELSE {}}
    ELSE {{}} \cup {{n} : n \in Name}

\* The rows wait on the handle.
Select(s) ==
  /\ Asks(s, "in")
  /\ Free
  /\ \E rows \in Rows(asked[s]) : result' = [result EXCEPT ![conn] = rows]
  /\ pending' = pending \cup {conn}
  /\ Goto(s, "fetch")
  /\ Run(s)
  /\ UNCHANGED <<conn, handles, linked, password, thread, disturbed, running>>

\* mysql_query returns an error, whatever the handle is.
SelectFails(s) ==
  /\ Asks(s, "in")
  /\ Answer(s, "rejected")
  /\ disturbed' = disturbed \cup {s}
  /\ UNCHANGED <<client, password, login, odd>>

QueryIn(s) == Select(s) \/ SelectFails(s)

\* Mutant: the user is taken from the request.
MutantFetch(s) ==
  /\ pc[s] = "fetch"
  /\ login' = [login EXCEPT ![s] = asked[s].name]
  /\ pending' = pending \ {conn}
  /\ Answer(s, "accepted")
  /\ UNCHANGED <<conn, handles, linked, result, password, past>>

\* mysql_store_result(conn): the rows of the handle conn names by now.  It is
\* null if there are none or they cannot be read, and a null result is handed to
\* mysql_num_rows all the same.
Fetch(s) ==
  /\ pc[s] = "fetch"
  /\ \/ /\ conn \in pending
        /\ pending' = pending \ {conn}
        /\ \/ /\ \E n \in result[conn] : login' = [login EXCEPT ![s] = n]
              /\ Answer(s, "accepted")
           \/ /\ result[conn] = {}
              /\ UNCHANGED login
              /\ Answer(s, "rejected")
        /\ UNCHANGED <<conn, handles, linked, result, password, past>>
     \/ Crash

\* Another thread is inside the library, maybe with the same handle.
Clash(s) ==
  /\ pc[s] \in Calling
  /\ \E u \in Session \ {s} : pc[u] \in Calling
  /\ Crash

-----------------------------------------------------------------------------
Step(s) ==
  \/ ConnectInit(s) \/ TooManyConnections(s) \/ Connect(s)
  \/ QueryUp(s) \/ QueryIn(s) \/ Fetch(s) \/ Clash(s)

Stopped == ~running /\ UNCHANGED vars

Next ==
  \/ running /\ \E s \in Session : Step(s) \/ \E q \in Request : Ask(s, q)
  \/ Stopped

Spec == Init /\ [][Next]_vars

-----------------------------------------------------------------------------
(* However requests overlap and queries fail.                              *)

\* Who has been told that the account is created has it, with the password it
\* has given, whichever connection the query has gone through, and keeps it:
\* until somebody signs up with an odd text.
AcceptedIsRegistered ==
  "up" \notin odd =>
    \A s \in Session :
      answer[s] = "accepted" /\ asked[s].kind = "up" =>
        password[asked[s].name] = asked[s].pass

\* No session becomes logged in as an account whose name and password nobody
\* has given in a request that is under way, not even with the rows of another
\* session: unless a request with an odd text is under way, which may have found
\* any row, or somebody has signed up with one.
Gives(u, n) == pc[u] = "fetch" /\ asked[u].name = n /\ asked[u].pass = password[n]
AsksOddly(u) == pc[u] = "fetch" /\ ~Plain(asked[u])

LoginWasGiven ==
  [][\A s \in Session : login'[s] # login[s] =>
       "up" \in odd \/ \E u \in Session : Gives(u, login'[s]) \/ AsksOddly(u)]_vars

\* README.md, "gli utenti devono potersi registrare e loggare al server": a
\* plain request that meets no other and whose query does not fail is accepted
\* exactly if it asks for a new name or gives the password of an account,
\* whatever the requests before it, odd or failed, have left behind; a login is
\* the one that was asked for.
Deserves(q) ==
  IF q.kind = "up" THEN password[q.name] = NULL ELSE password[q.name] = q.pass

AnswersAreRight ==
  [][\A s \in Session \ disturbed' :
       pc[s] # "idle" /\ pc'[s] = "idle" /\ Plain(asked[s]) =>
         /\ answer'[s] = "accepted" <=> Deserves(asked[s])
         /\ login'[s] # login[s] => login'[s] = asked[s].name]_vars

\* With every overlap the accounts are those of the abstract specification.
A == INSTANCE Accounts

ImplementsAccounts == A!Spec
=============================================================================
