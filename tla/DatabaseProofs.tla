--------------------------- MODULE DatabaseProofs ---------------------------
(***************************************************************************)
(* Theorems about the accounts between the threads, for any number of      *)
(* sessions, names, passwords and connections.  The one connection pointer *)
(* costs answers, and never an account or a login; and it costs nothing to *)
(* a request that meets no other.  What a quote in a name or a password    *)
(* costs is in every statement: nothing is claimed of the accounts once    *)
(* somebody has signed up with one, of a login while a request with one is *)
(* under way, or of the answer to a request with one.                      *)
(***************************************************************************)
EXTENDS Database, TLAPS

\* A thread that calls the library has a connection to call it with, and one that
\* has been connected knows what it was asked.
Ready ==
  /\ conn = NULL \/ conn \in 1 .. handles
  /\ \A s \in Session :
       /\ pc[s] \in Calling => conn # NULL
       /\ pc[s] # "idle" \/ answer[s] # NULL => asked[s] \in Request
       /\ pc[s] = "fetch" => asked[s].kind = "in"

\* A statement with an odd text that has been run is on record.
OddIsSeen == \A u \in Session : AsksOddly(u) => "in" \in odd

\* Rows that wait on the connection of the moment belong to a thread that is
\* about to fetch: whoever fetches first takes them, and a connection that is no
\* longer that of the moment never is again.
RowsWereGiven ==
  "up" \notin odd /\ conn \in pending =>
    \A n \in result[conn] : \E u \in Session : Gives(u, n) \/ AsksOddly(u)

Inv == TypeOK /\ Ready /\ OddIsSeen /\ RowsWereGiven /\ AcceptedIsRegistered

LEMMA InvInit == Init => Inv
BY DatabaseAssumption
   DEF Init, Inv, TypeOK, Ready, OddIsSeen, AsksOddly, RowsWereGiven, AcceptedIsRegistered,
       Handle, Calling

\* The steps of a thread that change something.
LEMMA Steps ==
  ASSUME [Next]_vars
  PROVE  \/ UNCHANGED vars
         \/ Crash
         \/ \E s \in Session : \/ \E q \in Request : Ask(s, q)
                               \/ ConnectInit(s) \/ Connect(s)
                               \/ QueryUp(s) \/ QueryIn(s) \/ Fetch(s)
BY DEF Next, Step, Stopped, TooManyConnections, Clash

-----------------------------------------------------------------------------
(* What the statements do.                                                 *)

\* The row a plain SELECT finds is the account asked for.
LEMMA RowsAre ==
  ASSUME NEW q \in Request, NEW rows \in Rows(q)
  PROVE  /\ rows \subseteq Name
         /\ \A n \in rows : Plain(q) => n = q.name /\ password[n] = q.pass
BY DEF Rows, Request

\* A plain INSERT adds the account asked for and leaves the others.
LEMMA InsertedAre ==
  ASSUME TypeOK, NEW q \in Request, NEW t \in Inserted(q)
  PROVE  /\ t \in [Name -> Password \cup {NULL}]
         /\ Plain(q) => /\ password[q.name] = NULL
                        /\ t = [password EXCEPT ![q.name] = q.pass]
                        /\ t[q.name] = q.pass
                        /\ \A n \in Name : password[n] # NULL => t[n] = password[n]
<1>1. q.name \in Name /\ q.pass \in Password
  BY DEF Request
<1>2. password \in [Name -> Password \cup {NULL}]
  BY DEF TypeOK
<1>3. CASE Plain(q)
  <2>1. t = [password EXCEPT ![q.name] = q.pass] /\ password[q.name] = NULL
    BY <1>3 DEF Inserted
  <2> QED
    BY <1>1, <1>2, <2>1
<1>4. CASE ~Plain(q)
  BY <1>4 DEF Inserted
<1> QED
  BY <1>3, <1>4

\* However the INSERT of s ends.
LEMMA QueryUpSteps ==
  ASSUME Inv, NEW s \in Session, QueryUp(s)
  PROVE  /\ pc[s] = "query" /\ asked[s] \in Request /\ asked[s].kind = "up"
         /\ \E what \in {"accepted", "rejected"} :
              /\ answer' = [answer EXCEPT ![s] = what]
              /\ what = "accepted" => password' \in Inserted(asked[s])
         /\ pc' = [pc EXCEPT ![s] = "idle"]
         /\ UNCHANGED <<client, login, asked, running>>
         /\ disturbed' \in {disturbed, disturbed \cup {s}}
         /\ password' = password \/ password' \in Inserted(asked[s])
         /\ odd' = IF Plain(asked[s]) THEN odd ELSE odd \cup {"up"}
<1>1. pc[s] = "query" /\ asked[s] \in Request /\ asked[s].kind = "up"
  BY DEF QueryUp, InsertSucceeds, NameIsTaken, InsertFails, Asks, Inv, Ready
<1>2. CASE InsertSucceeds(s)
  BY <1>1, <1>2 DEF InsertSucceeds, Answer, Goto, Run
<1>3. CASE NameIsTaken(s)
  BY <1>1, <1>3 DEF NameIsTaken, Answer, Goto, past
<1>4. CASE InsertFails(s)
  <2>1. password' = password \/ password' \in Inserted(asked[s])
    BY <1>4 DEF InsertFails
  <2> QED
    BY <1>1, <1>4, <2>1 DEF InsertFails, Answer, Goto, Run
<1> QED
  BY <1>2, <1>3, <1>4 DEF QueryUp

-----------------------------------------------------------------------------
LEMMA InvSame ==
  ASSUME Inv, UNCHANGED <<client, password, thread, past, pc>>, running' \in BOOLEAN
  PROVE  Inv'
BY DEF Inv, TypeOK, Ready, OddIsSeen, AsksOddly, RowsWereGiven, AcceptedIsRegistered, Gives,
       client, thread, past

LEMMA InvAsk ==
  ASSUME Inv, NEW s \in Session, NEW q \in Request, Ask(s, q)
  PROVE  Inv'
<1> USE DatabaseAssumption DEF Inv, Goto, client
<1>1. /\ pc[s] = "idle" /\ pc'[s] = "init" /\ asked'[s] = q
      /\ answer'[s] = NULL
      /\ \A u \in Session \ {s} :
           pc'[u] = pc[u] /\ asked'[u] = asked[u] /\ answer'[u] = answer[u]
      /\ UNCHANGED <<client, password, login, odd, running>>
  BY DEF Ask, TypeOK
<1>2. TypeOK'
  <2>1. disturbed' \subseteq Session
    BY DEF Ask, TypeOK
  <2>2. /\ asked' \in [Session -> Request \cup {NULL}]
        /\ pc' \in [Session -> {"idle", "init", "connect", "query", "fetch"}]
        /\ answer' \in [Session -> {NULL, "accepted", "rejected"}]
    BY DEF Ask, TypeOK
  <2> QED
    BY <1>1, <2>1, <2>2 DEF TypeOK
<1>3. Ready'
  BY <1>1 DEF Ready, Calling
<1>4. \A u \in Session : (pc[u] = "fetch" <=> pc'[u] = "fetch")
                          /\ (pc[u] = "fetch" => asked'[u] = asked[u])
  BY <1>1
<1>5. OddIsSeen' /\ RowsWereGiven'
  BY <1>1, <1>4 DEF OddIsSeen, RowsWereGiven, Gives, AsksOddly
<1>6. AcceptedIsRegistered'
  BY <1>1 DEF AcceptedIsRegistered
<1> QED
  BY <1>2, <1>3, <1>5, <1>6

LEMMA InvConnectInit ==
  ASSUME Inv, NEW s \in Session, ConnectInit(s)
  PROVE  Inv'
<1> USE DatabaseAssumption DEF Inv, Goto, thread, past
<1>1. /\ pc[s] = "init" /\ pc'[s] = "connect" /\ handles < MaxHandles
      /\ handles' = handles + 1 /\ conn' = handles + 1
      /\ \A u \in Session \ {s} : pc'[u] = pc[u]
      /\ UNCHANGED <<linked, pending, result, password, thread, past, running>>
  BY DEF ConnectInit, TypeOK
<1>2. handles \in Nat /\ conn' \notin pending /\ conn' \in Handle
  BY <1>1 DEF TypeOK, Handle
<1>3. TypeOK'
  <2>1. pc' \in [Session -> {"idle", "init", "connect", "query", "fetch"}]
    BY DEF ConnectInit, TypeOK
  <2>2. handles' \in 0 .. MaxHandles /\ linked' \subseteq 1 .. handles'
    BY <1>1, <1>2 DEF TypeOK
  <2> QED
    BY <1>1, <1>2, <2>1, <2>2 DEF TypeOK
<1>4. Ready'
  <2>1. conn' \in 1 .. handles'
    BY <1>1, <1>2
  <2>2. conn' # NULL
    BY <1>1, <1>2 DEF TypeOK, Handle
  <2> QED
    BY <1>1, <2>1, <2>2 DEF Ready
<1>5. RowsWereGiven'
  BY <1>1, <1>2 DEF RowsWereGiven
<1>6. OddIsSeen' /\ AcceptedIsRegistered'
  BY <1>1 DEF OddIsSeen, AsksOddly, AcceptedIsRegistered
<1> QED
  BY <1>3, <1>4, <1>5, <1>6

LEMMA InvConnect ==
  ASSUME Inv, NEW s \in Session, Connect(s)
  PROVE  Inv'
<1> USE DatabaseAssumption DEF Inv, Goto, thread, past
<1>0. CASE Crash
  BY <1>0, InvSame DEF Crash
<1>1. CASE ~Crash
  <2>1. /\ pc[s] = "connect" /\ pc'[s] = "query"
        /\ linked' = linked \cup {conn} /\ pending' = pending \ {conn}
        /\ \A u \in Session \ {s} : pc'[u] = pc[u]
        /\ UNCHANGED <<conn, handles, result, password, thread, past, running>>
    BY <1>1 DEF Connect, TypeOK
  <2>2. conn \in 1 .. handles
    BY <2>1 DEF Ready, Calling
  <2>3. TypeOK'
    <3>1. pc' \in [Session -> {"idle", "init", "connect", "query", "fetch"}]
      BY <1>1 DEF Connect, TypeOK
    <3> QED
      BY <2>1, <2>2, <3>1 DEF TypeOK
  <2>4. Ready'
    BY <2>1, <2>2 DEF Ready, Calling
  <2>5. RowsWereGiven'
    BY <2>1 DEF RowsWereGiven
  <2>6. OddIsSeen' /\ AcceptedIsRegistered'
    BY <2>1 DEF OddIsSeen, AsksOddly, AcceptedIsRegistered
  <2> QED
    BY <2>3, <2>4, <2>5, <2>6
<1> QED
  BY <1>0, <1>1

LEMMA InvQueryUp ==
  ASSUME Inv, NEW s \in Session, QueryUp(s)
  PROVE  Inv'
<1> USE DatabaseAssumption DEF Inv, client
<1>1. PICK what \in {"accepted", "rejected"} :
        /\ answer' = [answer EXCEPT ![s] = what]
        /\ what = "accepted" => password' \in Inserted(asked[s])
  BY QueryUpSteps
<1>2. /\ pc[s] = "query" /\ asked[s] \in Request /\ asked[s].kind = "up"
      /\ pc' = [pc EXCEPT ![s] = "idle"] /\ disturbed' \in {disturbed, disturbed \cup {s}}
      /\ UNCHANGED <<client, login, asked, running>>
      /\ password' = password \/ password' \in Inserted(asked[s])
      /\ odd' = IF Plain(asked[s]) THEN odd ELSE odd \cup {"up"}
  BY QueryUpSteps
<1>3. /\ pc'[s] = "idle" /\ answer'[s] = what
      /\ \A u \in Session \ {s} : pc'[u] = pc[u] /\ answer'[u] = answer[u]
  BY <1>1, <1>2 DEF TypeOK
<1>4. /\ password' \in [Name -> Password \cup {NULL}]
      /\ Plain(asked[s]) => \A n \in Name : password[n] # NULL => password'[n] = password[n]
      /\ Plain(asked[s]) /\ what = "accepted" => password'[asked[s].name] = asked[s].pass
  <2>1. CASE password' \in Inserted(asked[s])
    BY <1>2, <2>1, InsertedAre
  <2>2. CASE password' \notin Inserted(asked[s])
    BY <1>1, <1>2, <2>2 DEF TypeOK
  <2> QED
    BY <2>1, <2>2
<1>5. TypeOK'
  <2>1. /\ pc' \in [Session -> {"idle", "init", "connect", "query", "fetch"}]
        /\ answer' \in [Session -> {NULL, "accepted", "rejected"}]
    BY <1>1, <1>2 DEF TypeOK
  <2>2. disturbed' \subseteq Session /\ odd' \subseteq {"up", "in"}
    BY <1>2 DEF TypeOK
  <2> QED
    BY <1>2, <1>4, <2>1, <2>2 DEF TypeOK
<1>6. Ready'
  BY <1>2, <1>3 DEF Ready, Calling
<1>7. OddIsSeen'
  BY <1>2, <1>3 DEF OddIsSeen, AsksOddly, Plain
<1>8. RowsWereGiven'
  <2> SUFFICES ASSUME "up" \notin odd', conn \in pending, NEW n \in result[conn]
               PROVE  \E u \in Session : Gives(u, n)' \/ AsksOddly(u)'
    BY <1>2 DEF RowsWereGiven
  <2>1. Plain(asked[s]) /\ "up" \notin odd
    BY <1>2
  <2>2. PICK u \in Session : Gives(u, n) \/ AsksOddly(u)
    BY <2>1 DEF RowsWereGiven
  <2>3. pc'[u] = "fetch" /\ asked'[u] = asked[u] /\ asked[u] \in Request
    BY <1>2, <1>3, <2>2 DEF Gives, AsksOddly, Ready
  <2>4. CASE AsksOddly(u)
    BY <2>3, <2>4 DEF AsksOddly, Plain
  <2>5. CASE Gives(u, n)
    <3>1. n \in Name /\ password[n] # NULL
      BY <2>3, <2>5 DEF Gives, Request
    <3>2. Gives(u, n)'
      BY <1>4, <2>1, <2>3, <2>5, <3>1 DEF Gives
    <3> QED
      BY <3>2
  <2> QED
    BY <2>2, <2>4, <2>5
<1>9. AcceptedIsRegistered'
  <2> SUFFICES ASSUME "up" \notin odd', NEW u \in Session, answer'[u] = "accepted",
                      asked[u].kind = "up"
               PROVE  password'[asked[u].name] = asked[u].pass
    BY <1>2 DEF AcceptedIsRegistered
  <2>1. Plain(asked[s]) /\ "up" \notin odd
    BY <1>2
  <2>2. CASE u = s
    BY <1>3, <1>4, <2>1, <2>2
  <2>3. CASE u # s
    <3>1. answer[u] = "accepted" /\ asked[u] \in Request
      BY <1>3, <2>3 DEF Ready
    <3>2. password[asked[u].name] = asked[u].pass
      BY <2>1, <3>1 DEF AcceptedIsRegistered
    <3> QED
      BY <1>4, <2>1, <3>1, <3>2 DEF Request
  <2> QED
    BY <2>2, <2>3
<1> QED
  BY <1>5, <1>6, <1>7, <1>8, <1>9

LEMMA InvSelect ==
  ASSUME Inv, NEW s \in Session, Select(s)
  PROVE  Inv'
<1> USE DatabaseAssumption DEF Inv, thread
<1>1. /\ pc[s] = "query" /\ asked[s] \in Request /\ asked[s].kind = "in"
      /\ pending' = pending \cup {conn} /\ pc' = [pc EXCEPT ![s] = "fetch"]
      /\ odd' = IF Plain(asked[s]) THEN odd ELSE odd \cup {"in"}
      /\ UNCHANGED <<conn, handles, linked, password, thread, disturbed, running>>
  BY DEF Select, Asks, Ready, Goto, Run
<1>2. PICK rows \in Rows(asked[s]) : result' = [result EXCEPT ![conn] = rows]
  BY DEF Select
<1>3. conn \in linked /\ conn \in Handle
  BY DEF Select, Free, TypeOK, Handle
<1>4. result'[conn] = rows /\ rows \subseteq Name
  BY <1>1, <1>2, <1>3, RowsAre DEF TypeOK
<1>5. pc'[s] = "fetch" /\ \A u \in Session \ {s} : pc'[u] = pc[u]
  BY <1>1 DEF TypeOK
<1>6. TypeOK'
  <2>1. pc' \in [Session -> {"idle", "init", "connect", "query", "fetch"}]
    BY <1>1 DEF TypeOK
  <2>2. result' \in [Handle -> SUBSET Name]
    BY <1>2, <1>3, <1>4 DEF TypeOK
  <2>3. odd' \subseteq {"up", "in"}
    BY <1>1 DEF TypeOK
  <2> QED
    BY <1>1, <1>3, <2>1, <2>2, <2>3 DEF TypeOK
<1>7. Ready'
  BY <1>1, <1>5 DEF Ready, Calling
<1>8. OddIsSeen'
  BY <1>1, <1>5 DEF OddIsSeen, AsksOddly, Plain
<1>9. RowsWereGiven'
  <2>1. ASSUME NEW n \in rows PROVE Gives(s, n)' \/ AsksOddly(s)'
    <3>1. Plain(asked[s]) => n = asked[s].name /\ password[n] = asked[s].pass
      BY <1>1, RowsAre
    <3>2. Plain(asked[s])' = Plain(asked[s])
      BY <1>1 DEF Plain
    <3> QED
      BY <1>1, <1>5, <3>1, <3>2 DEF Gives, AsksOddly
  <2> QED
    BY <1>1, <1>4, <2>1 DEF RowsWereGiven
<1>10. AcceptedIsRegistered'
  BY <1>1 DEF AcceptedIsRegistered
<1> QED
  BY <1>6, <1>7, <1>8, <1>9, <1>10

LEMMA InvQueryIn ==
  ASSUME Inv, NEW s \in Session, QueryIn(s)
  PROVE  Inv'
<1> USE DEF Inv, client
<1>1. CASE Select(s)
  BY <1>1, InvSelect
<1>2. CASE SelectFails(s)
  <2>1. /\ pc[s] = "query" /\ asked[s].kind = "in"
        /\ pc' = [pc EXCEPT ![s] = "idle"] /\ answer' = [answer EXCEPT ![s] = "rejected"]
        /\ disturbed' = disturbed \cup {s}
        /\ UNCHANGED <<client, password, login, asked, odd, running>>
    BY <1>2 DEF SelectFails, Asks, Answer, Goto
  <2>2. /\ pc'[s] = "idle" /\ answer'[s] = "rejected"
        /\ \A u \in Session \ {s} : pc'[u] = pc[u] /\ answer'[u] = answer[u]
    BY <2>1 DEF TypeOK
  <2>3. TypeOK'
    <3>1. /\ pc' \in [Session -> {"idle", "init", "connect", "query", "fetch"}]
          /\ answer' \in [Session -> {NULL, "accepted", "rejected"}]
      BY <2>1 DEF TypeOK
    <3> QED
      BY <2>1, <3>1 DEF TypeOK
  <2>4. \A u \in Session : pc'[u] = "fetch" <=> pc[u] = "fetch"
    BY <2>1, <2>2
  <2>5. OddIsSeen' /\ RowsWereGiven'
    BY <2>1, <2>4 DEF OddIsSeen, RowsWereGiven, Gives, AsksOddly
  <2>6. Ready' /\ AcceptedIsRegistered'
    BY <2>1, <2>2 DEF Ready, Calling, AcceptedIsRegistered
  <2> QED
    BY <2>3, <2>5, <2>6
<1> QED
  BY <1>1, <1>2 DEF QueryIn

LEMMA InvFetch ==
  ASSUME Inv, NEW s \in Session, Fetch(s)
  PROVE  Inv'
<1> USE DatabaseAssumption DEF Inv, Goto, past
<1>0. CASE Crash
  BY <1>0, InvSame DEF Crash
<1>1. CASE ~Crash
  <2>1. /\ pc[s] = "fetch" /\ conn \in pending /\ pending' = pending \ {conn}
        /\ pc'[s] = "idle" /\ answer'[s] \in {"accepted", "rejected"}
        /\ \A u \in Session \ {s} : pc'[u] = pc[u] /\ answer'[u] = answer[u]
        /\ UNCHANGED <<conn, handles, linked, result, password, asked, past, running>>
    BY <1>1 DEF Fetch, Answer, TypeOK
  <2>2. asked[s].kind = "in"
    BY <2>1 DEF Ready
  <2>3. TypeOK'
    <3>1. result[conn] \subseteq Name
      BY <2>1 DEF TypeOK, Ready, Calling
    <3>2. login' \in [Session -> Name \cup {NULL}]
      BY <1>1, <3>1 DEF Fetch, TypeOK
    <3>3. /\ pc' \in [Session -> {"idle", "init", "connect", "query", "fetch"}]
          /\ answer' \in [Session -> {NULL, "accepted", "rejected"}]
      BY <1>1 DEF Fetch, Answer, TypeOK
    <3> QED
      BY <2>1, <3>2, <3>3 DEF TypeOK
  <2>4. Ready' /\ OddIsSeen' /\ RowsWereGiven'
    BY <2>1 DEF Ready, Calling, OddIsSeen, AsksOddly, RowsWereGiven
  <2>5. AcceptedIsRegistered'
    BY <2>1, <2>2 DEF AcceptedIsRegistered
  <2> QED
    BY <2>3, <2>4, <2>5
<1> QED
  BY <1>0, <1>1

LEMMA InvStep == Inv /\ [Next]_vars => Inv'
<1> SUFFICES ASSUME Inv, [Next]_vars PROVE Inv'
  OBVIOUS
<1>1. CASE UNCHANGED vars
  BY <1>1, InvSame DEF vars, Inv, TypeOK
<1>2. CASE Crash
  BY <1>2, InvSame DEF Crash
<1> QED
  BY <1>1, <1>2, Steps, InvAsk, InvConnectInit, InvConnect, InvQueryUp, InvQueryIn, InvFetch

\* Types; what the proofs below need of them is that rows wait only on handles
\* that are connected, and that these are handles there are.
THEOREM TypeCorrect == Spec => []TypeOK
<1>1. Inv => TypeOK
  BY DEF Inv
<1> QED
  BY <1>1, InvInit, InvStep, PTL DEF Spec

\* A sign-up that was answered with success is in the table as it was asked for,
\* on whatever connection its query went, until somebody signs up with an odd
\* text.
THEOREM AcceptedAreRegistered == Spec => []AcceptedIsRegistered
<1>1. Inv => AcceptedIsRegistered
  BY DEF Inv
<1> QED
  BY <1>1, InvInit, InvStep, PTL DEF Spec

-----------------------------------------------------------------------------
(* Logins.                                                                 *)

\* Only a fetch changes a login, to a name among the rows of the connection.
LEMMA LoginSteps ==
  ASSUME Inv, [Next]_vars
  PROVE  \/ login' = login
         \/ \E s \in Session : \E n \in result[conn] :
              /\ conn \in pending
              /\ login' = [login EXCEPT ![s] = n]
              /\ password' = password /\ odd' = odd
<1> USE DEF client, thread, past
<1>1. CASE UNCHANGED vars
  BY <1>1 DEF vars
<1>2. CASE Crash
  BY <1>2 DEF Crash
<1>3. ASSUME NEW s \in Session, NEW q \in Request, Ask(s, q) PROVE login' = login
  BY <1>3 DEF Ask
<1>4. ASSUME NEW s \in Session,
             ConnectInit(s) \/ Connect(s) \/ QueryUp(s) \/ QueryIn(s)
      PROVE  login' = login
  BY <1>4, QueryUpSteps DEF ConnectInit, Connect, QueryIn, Select, SelectFails, Crash
<1>5. ASSUME NEW s \in Session, Fetch(s)
      PROVE  \/ login' = login
             \/ \E n \in result[conn] :
                  /\ conn \in pending /\ login' = [login EXCEPT ![s] = n]
                  /\ password' = password /\ odd' = odd
  BY <1>5 DEF Fetch, Crash
<1> QED
  BY <1>1, <1>2, <1>3, <1>4, <1>5, Steps

\* Whoever becomes logged in, and with whosever rows: the name and the password
\* of the account were given in a request that is under way, or an odd text is
\* under way, or was used to sign up.
THEOREM LoginsWereGiven == Spec => LoginWasGiven
<1>1. ASSUME Inv, [Next]_vars, NEW t \in Session, login'[t] # login[t]
      PROVE  "up" \in odd \/ \E u \in Session : Gives(u, login'[t]) \/ AsksOddly(u)
  <2>1. PICK s \in Session, n \in result[conn] :
          conn \in pending /\ login' = [login EXCEPT ![s] = n] /\ password' = password
    BY <1>1, LoginSteps
  <2>2. login'[t] = n
    BY <1>1, <2>1 DEF Inv, TypeOK
  <2> QED
    BY <1>1, <2>1, <2>2 DEF Inv, RowsWereGiven
<1>2. Inv /\ [Next]_vars =>
        [\A s \in Session : login'[s] # login[s] =>
           "up" \in odd \/ \E u \in Session : Gives(u, login'[s]) \/ AsksOddly(u)]_vars
  BY <1>1
<1> QED
  BY <1>2, InvInit, InvStep, PTL DEF Spec, LoginWasGiven

-----------------------------------------------------------------------------
(* A request that meets no other and whose query does not fail.            *)

\* As long as a request is undisturbed, the connection of the moment is its own:
\* ready for its query, then holding the rows of its query and of no other.
Undisturbed ==
  \A s \in Session \ disturbed :
    pc[s] # "idle" =>
      /\ \A u \in Session \ {s} : pc[u] = "idle"
      /\ pc[s] = "query" => Free
      /\ pc[s] = "fetch" => conn \in pending /\ result[conn] \in Rows(asked[s])

LEMMA UndisturbedInit == Init => Undisturbed
BY DEF Init, Undisturbed

LEMMA UndisturbedSame ==
  ASSUME Undisturbed, UNCHANGED <<client, password, thread, past, pc>>
  PROVE  Undisturbed'
BY DEF Undisturbed, Free, Rows, Plain, client, thread, past

\* A request that begins while others are under way disturbs all of them.
LEMMA UndisturbedAsk ==
  ASSUME Inv, Undisturbed, NEW s \in Session, NEW q \in Request, Ask(s, q)
  PROVE  Undisturbed'
<1> DEFINE others == {u \in Session : pc[u] # "idle"}
<1>1. /\ pc'[s] = "init" /\ \A u \in Session \ {s} : pc'[u] = pc[u]
      /\ disturbed' = IF others = {} THEN disturbed \ {s} ELSE disturbed \cup others \cup {s}
  BY DEF Ask, Goto, Inv, TypeOK
<1> SUFFICES ASSUME NEW v \in Session \ disturbed', pc'[v] # "idle"
             PROVE  (\A u \in Session \ {v} : pc'[u] = "idle") /\ pc'[v] = "init"
  BY DEF Undisturbed
<1>2. others = {}
  BY <1>1
<1> QED
  BY <1>1, <1>2

\* Whoever takes a step is the one request that may be undisturbed.
LEMMA OnlyOne ==
  ASSUME Undisturbed, NEW s \in Session, pc[s] # "idle", NEW v \in Session \ disturbed,
         pc[v] # "idle"
  PROVE  v = s
BY DEF Undisturbed

\* A request that has ended leaves no other that is undisturbed.
LEMMA UndisturbedEnd ==
  ASSUME Inv, Undisturbed, NEW s \in Session, pc[s] # "idle",
         pc' = [pc EXCEPT ![s] = "idle"], disturbed \subseteq disturbed'
  PROVE  Undisturbed'
<1> SUFFICES ASSUME NEW v \in Session \ disturbed', pc'[v] # "idle" PROVE FALSE
  BY DEF Undisturbed
<1>1. v # s /\ pc[v] # "idle"
  BY DEF Inv, TypeOK
<1> QED
  BY <1>1, OnlyOne

LEMMA UndisturbedSelect ==
  ASSUME Inv, Undisturbed, NEW s \in Session, Select(s)
  PROVE  Undisturbed'
<1> USE DEF Inv
<1>1. /\ pc[s] = "query" /\ pc'[s] = "fetch" /\ \A u \in Session \ {s} : pc'[u] = pc[u]
      /\ pending' = pending \cup {conn}
      /\ UNCHANGED <<conn, password, asked, disturbed>>
  BY DEF Select, Asks, Goto, TypeOK, thread
<1>2. conn' \in pending' /\ result'[conn'] \in Rows(asked[s])
  <2>1. conn \in Handle
    <3>1. conn \in 1 .. handles /\ handles \in 0 .. MaxHandles /\ MaxHandles \in Nat
      BY DatabaseAssumption DEF Select, Free, TypeOK
    <3> QED
      BY <3>1 DEF Handle
  <2> QED
    BY <1>1, <2>1 DEF Select, TypeOK
<1>3. Rows(asked[s])' = Rows(asked[s])
  BY <1>1 DEF Rows, Plain
<1> SUFFICES ASSUME NEW v \in Session \ disturbed, pc'[v] # "idle"
             PROVE  (\A u \in Session \ {v} : pc'[u] = "idle") /\ v = s
  BY <1>1, <1>2, <1>3 DEF Undisturbed
<1>4. v = s
  BY <1>1, OnlyOne
<1> QED
  BY <1>1, <1>4 DEF Undisturbed

LEMMA UndisturbedStep ==
  ASSUME Inv, Undisturbed, [Next]_vars
  PROVE  Undisturbed'
<1> USE DEF Inv, Goto
<1>1. CASE UNCHANGED vars
  BY <1>1, UndisturbedSame DEF vars
<1>2. CASE Crash
  BY <1>2, UndisturbedSame DEF Crash
<1>3. ASSUME NEW s \in Session, ConnectInit(s) PROVE Undisturbed'
  <2>1. /\ pc[s] = "init" /\ pc'[s] = "connect" /\ disturbed' = disturbed
        /\ \A u \in Session \ {s} : pc'[u] = pc[u]
    BY <1>3 DEF ConnectInit, TypeOK, past
  <2> SUFFICES ASSUME NEW v \in Session \ disturbed, pc'[v] # "idle"
               PROVE  (\A u \in Session \ {v} : pc'[u] = "idle") /\ pc'[v] = "connect"
    BY <2>1 DEF Undisturbed
  <2>2. v = s
    BY <2>1, OnlyOne
  <2> QED
    BY <2>1, <2>2 DEF Undisturbed
<1>4. ASSUME NEW s \in Session, Connect(s), ~Crash PROVE Undisturbed'
  <2>1. /\ pc[s] = "connect" /\ pc'[s] = "query" /\ disturbed' = disturbed
        /\ linked' = linked \cup {conn} /\ pending' = pending \ {conn} /\ conn' = conn
        /\ \A u \in Session \ {s} : pc'[u] = pc[u]
    BY <1>4 DEF Connect, TypeOK, past
  <2>2. Free'
    BY <2>1 DEF Free
  <2> SUFFICES ASSUME NEW v \in Session \ disturbed, pc'[v] # "idle"
               PROVE  (\A u \in Session \ {v} : pc'[u] = "idle") /\ pc'[v] = "query"
    BY <2>1, <2>2 DEF Undisturbed
  <2>3. v = s
    BY <2>1, OnlyOne
  <2> QED
    BY <2>1, <2>3 DEF Undisturbed
<1>5. ASSUME NEW s \in Session, QueryUp(s) PROVE Undisturbed'
  <2>1. /\ pc[s] = "query" /\ pc' = [pc EXCEPT ![s] = "idle"]
        /\ disturbed \subseteq disturbed'
    BY <1>5, QueryUpSteps
  <2> QED
    BY <2>1, UndisturbedEnd
<1>6. ASSUME NEW s \in Session, QueryIn(s) PROVE Undisturbed'
  <2>1. CASE SelectFails(s)
    BY <2>1, UndisturbedEnd DEF SelectFails, Asks, Answer
  <2> QED
    BY <1>6, <2>1, UndisturbedSelect DEF QueryIn
<1>7. ASSUME NEW s \in Session, Fetch(s), ~Crash PROVE Undisturbed'
  BY <1>7, UndisturbedEnd DEF Fetch, Answer, past
<1> QED
  BY <1>1, <1>2, <1>3, <1>4, <1>5, <1>6, <1>7, Steps, UndisturbedAsk

\* What the end of an undisturbed sign-up brings.
LEMMA RightSignUp ==
  ASSUME Inv, NEW s \in Session \ disturbed', QueryUp(s), Plain(asked[s])
  PROVE  /\ answer'[s] = "accepted" <=> Deserves(asked[s])
         /\ login' = login
<1>1. ~InsertFails(s)
  BY DEF InsertFails
<1>2. CASE InsertSucceeds(s)
  <2>1. asked[s] \in Request /\ password' \in Inserted(asked[s])
    BY <1>2 DEF InsertSucceeds, Asks, Inv, Ready
  <2>2. password[asked[s].name] = NULL
    BY <2>1, InsertedAre DEF Inv
  <2> QED
    BY <1>2, <2>2 DEF InsertSucceeds, Asks, Answer, Deserves, Inv, TypeOK
<1>3. CASE NameIsTaken(s)
  BY <1>3 DEF NameIsTaken, Asks, Answer, Deserves, Inv, TypeOK
<1> QED
  BY <1>1, <1>2, <1>3 DEF QueryUp

\* What the end of an undisturbed sign-in brings.
LEMMA RightSignIn ==
  ASSUME Inv, Undisturbed, NEW s \in Session \ disturbed, Fetch(s), ~Crash, Plain(asked[s])
  PROVE  /\ answer'[s] = "accepted" <=> Deserves(asked[s])
         /\ login'[s] # login[s] => login'[s] = asked[s].name
<1> USE DEF Inv
<1>1. asked[s].kind = "in" /\ result[conn] \in Rows(asked[s])
  BY DEF Fetch, Ready, Undisturbed
<1>2. \/ /\ \E n \in result[conn] : login' = [login EXCEPT ![s] = n]
         /\ answer' = [answer EXCEPT ![s] = "accepted"]
      \/ /\ result[conn] = {} /\ login' = login
         /\ answer' = [answer EXCEPT ![s] = "rejected"]
  BY DEF Fetch, Answer
<1>3. CASE password[asked[s].name] = asked[s].pass
  <2>1. result[conn] = {asked[s].name}
    BY <1>1, <1>3 DEF Rows
  <2>2. answer'[s] = "accepted" /\ login'[s] = asked[s].name
    BY <1>2, <2>1 DEF TypeOK
  <2> QED
    BY <1>1, <1>3, <2>2 DEF Deserves
<1>4. CASE password[asked[s].name] # asked[s].pass
  <2>1. result[conn] = {}
    BY <1>1, <1>4 DEF Rows
  <2>2. answer'[s] = "rejected" /\ login' = login
    BY <1>2, <2>1 DEF TypeOK
  <2> QED
    BY <1>1, <1>4, <2>2 DEF Deserves
<1> QED
  BY <1>3, <1>4

\* What the end of an undisturbed request brings.
LEMMA RightAnswer ==
  ASSUME Inv, Undisturbed, [Next]_vars, NEW s \in Session \ disturbed',
         pc[s] # "idle", pc'[s] = "idle", Plain(asked[s])
  PROVE  /\ answer'[s] = "accepted" <=> Deserves(asked[s])
         /\ login'[s] # login[s] => login'[s] = asked[s].name
<1> USE DEF Inv, Goto
<1>1. ~(UNCHANGED vars) /\ ~Crash
  BY DEF vars, Crash
<1>2. ASSUME NEW t \in Session, NEW q \in Request, Ask(t, q) PROVE FALSE
  BY <1>2 DEF Ask, TypeOK
<1>3. ASSUME NEW t \in Session, ConnectInit(t) \/ Connect(t) \/ Select(t) PROVE FALSE
  <2>1. \E label \in {"connect", "query", "fetch"} : pc' = [pc EXCEPT ![t] = label]
    BY <1>1, <1>3 DEF ConnectInit, Connect, Select
  <2> QED
    BY <2>1 DEF TypeOK
<1>4. ASSUME NEW t \in Session, SelectFails(t) PROVE t # s
  BY <1>4 DEF SelectFails
<1>5. ASSUME NEW t \in Session, QueryUp(t) \/ SelectFails(t) \/ Fetch(t)
      PROVE  t = s /\ disturbed \subseteq disturbed'
  <2>1. pc[t] # "idle" /\ disturbed \subseteq disturbed' /\ pc' = [pc EXCEPT ![t] = "idle"]
    BY <1>1, <1>5, QueryUpSteps DEF SelectFails, Asks, Fetch, Answer, past
  <2>2. t = s
    BY <2>1 DEF TypeOK
  <2> QED
    BY <2>1, <2>2
<1> QED
  BY <1>1, <1>2, <1>3, <1>4, <1>5, Steps, RightSignUp, RightSignIn DEF QueryIn

\* Whatever the requests before it have left behind on the connections, a plain
\* request that meets no other and whose query does not fail is accepted exactly
\* if it deserves to be, and logs its session in as nobody but the user it names.
THEOREM LoneAnswersAreRight == Spec => AnswersAreRight
<1>1. Inv /\ Undisturbed /\ [Next]_vars => Inv' /\ Undisturbed'
  BY InvStep, UndisturbedStep
<1>2. Inv /\ Undisturbed /\ [Next]_vars =>
        [\A s \in Session \ disturbed' :
           pc[s] # "idle" /\ pc'[s] = "idle" /\ Plain(asked[s]) =>
             /\ answer'[s] = "accepted" <=> Deserves(asked[s])
             /\ login'[s] # login[s] => login'[s] = asked[s].name]_vars
  BY RightAnswer
<1> QED
  BY <1>1, <1>2, InvInit, UndisturbedInit, PTL DEF Spec, AnswersAreRight

-----------------------------------------------------------------------------
(* The abstract accounts.                                                  *)

\* Anything can happen to the accounts once somebody signs up with an odd text.
LEMMA OddSignUpStep ==
  ASSUME Inv, Inv', odd \subseteq odd', "up" \in odd', NEW s \in Session,
         \E n \in Name \cup {login[s]} : login' = [login EXCEPT ![s] = n]
  PROVE  A!Next
BY DEF Inv, TypeOK, A!Next, A!OddSignUp

\* A sign-up is a query that succeeds, or has stored the row before it failed.
LEMMA QueryUpAccounts ==
  ASSUME Inv, Inv', NEW s \in Session, QueryUp(s)
  PROVE  A!Next \/ UNCHANGED A!vars
<1>1. /\ asked[s] \in Request /\ login' = login
      /\ password' = password \/ password' \in Inserted(asked[s])
      /\ odd' = IF Plain(asked[s]) THEN odd ELSE odd \cup {"up"}
  BY QueryUpSteps
<1>2. CASE ~Plain(asked[s])
  <2>1. login' = [login EXCEPT ![s] = login[s]]
    BY <1>1 DEF Inv, TypeOK
  <2> QED
    BY <1>1, <1>2, <2>1, OddSignUpStep
<1>3. CASE Plain(asked[s]) /\ password' \in Inserted(asked[s])
  <2>1. A!SignUp(asked[s].name, asked[s].pass)
    BY <1>1, <1>3, InsertedAre DEF Inv, A!SignUp
  <2>2. asked[s].name \in Name /\ asked[s].pass \in Password
    BY <1>1 DEF Request
  <2> QED
    BY <2>1, <2>2 DEF A!Next
<1>4. CASE Plain(asked[s]) /\ password' = password
  BY <1>1, <1>4 DEF A!vars
<1> QED
  BY <1>1, <1>2, <1>3, <1>4

\* A sign-in is a fetch that finds a row.
LEMMA LoginAccounts ==
  ASSUME Inv, Inv', [Next]_vars, login' # login
  PROVE  A!Next
<1>1. PICK s \in Session, n \in result[conn] :
        /\ conn \in pending /\ login' = [login EXCEPT ![s] = n]
        /\ password' = password /\ odd' = odd
  BY LoginSteps
<1>2. n \in Name
  BY <1>1, DatabaseAssumption DEF Inv, TypeOK, Ready, Handle
<1>3. CASE "up" \in odd
  BY <1>1, <1>2, <1>3, OddSignUpStep
<1>4. CASE "up" \notin odd
  <2>1. PICK u \in Session : Gives(u, n) \/ AsksOddly(u)
    BY <1>1, <1>4 DEF Inv, RowsWereGiven
  <2>2. CASE Gives(u, n)
    <3>1. asked[u] \in Request /\ password[n] = asked[u].pass
      BY <2>2 DEF Gives, Inv, Ready
    <3>2. password[n] \in Password /\ A!SignIn(s, n, password[n])
      BY <1>1, <3>1 DEF Request, A!SignIn
    <3> QED
      BY <1>2, <3>2 DEF A!Next
  <2>3. CASE AsksOddly(u)
    <3>1. "in" \in odd
      BY <2>3 DEF Inv, OddIsSeen
    <3>2. A!OddSignIn
      BY <1>1, <1>2, <3>1 DEF A!OddSignIn
    <3> QED
      BY <3>2 DEF A!Next
  <2> QED
    BY <2>1, <2>2, <2>3
<1> QED
  BY <1>3, <1>4

LEMMA AccountsStep == Inv /\ Inv' /\ [Next]_vars => [A!Next]_(A!vars)
<1> SUFFICES ASSUME Inv, Inv', [Next]_vars PROVE A!Next \/ UNCHANGED A!vars
  OBVIOUS
<1>1. CASE UNCHANGED <<password, login, odd>>
  BY <1>1 DEF A!vars
<1>2. CASE login' # login
  BY <1>2, LoginAccounts
<1>3. ASSUME NEW s \in Session, QueryUp(s) PROVE A!Next \/ UNCHANGED A!vars
  BY <1>3, QueryUpAccounts
<1>4. ASSUME NEW s \in Session, Select(s) PROVE A!Next \/ UNCHANGED A!vars
  <2>1. UNCHANGED <<password, login>> /\ odd' = IF Plain(asked[s]) THEN odd ELSE odd \cup {"in"}
    BY <1>4 DEF Select, Asks, Run, thread
  <2>2. CASE Plain(asked[s])
    BY <2>1, <2>2 DEF A!vars
  <2>3. CASE ~Plain(asked[s])
    <3>1. login' = [login EXCEPT ![s] = login[s]]
      BY <2>1 DEF Inv, TypeOK
    <3>2. A!OddSignIn
      BY <2>1, <2>3, <3>1 DEF A!OddSignIn
    <3> QED
      BY <3>2 DEF A!Next
  <2> QED
    BY <2>2, <2>3
<1>5. CASE login' = login /\ ~(UNCHANGED <<password, login, odd>>)
  <2>1. \E s \in Session : QueryUp(s) \/ Select(s)
    BY <1>5, Steps
       DEF vars, client, thread, past, Crash, Ask, ConnectInit, Connect, QueryIn, SelectFails,
           Fetch
  <2> QED
    BY <1>3, <1>4, <2>1
<1> QED
  BY <1>1, <1>2, <1>5

\* However requests overlap on the one connection and queries fail, the table and
\* the logins are those of the abstract accounts, which an odd text may disturb.
THEOREM Refinement == Spec => ImplementsAccounts
<1>1. Init => A!Init
  BY DEF Init, A!Init
<1> QED
  BY <1>1, InvInit, InvStep, AccountsStep, PTL DEF Spec, ImplementsAccounts, A!Spec
=============================================================================
