# lso-server in TLA+

A verification project for `server/`, the C server of a chat with rooms: TLA+
modules translated from the source, TLC runs on small instances, and theorems
for every instance checked by TLAPS.  File names below are those of
`server/`, line numbers are of the commit modelled.

## 1. The system

One process.  `main` accepts connections and starts one thread per connection;
each thread runs `client_handler`: read, take what was read for one request,
dispatch on its tag, run the handler to its end, read again.  All state is
global memory that the threads share, and a MySQL table of users.

| part | state | operations |
|---|---|---|
| room table (`room.c`) | `gRooms`, `counter_room`; per room `clients`, `clientsCount`, `owner`, a mutex; `client->room` | `room_create`, `room_add_client`, `room_remove_client`, `room_delete`, `room_send_message`, `room_is_full`, `room_get`, `room_serialize` |
| client (`client.c`) | `user`, `room`, `uid`, socket, a mutex | `client_create`, `client_send`, `client_serialize`, the end of `client_handler` |
| client pool (`client_pool.c`) | `clients`, `size`, a mutex | `client_pool_add`, `_remove`, `_get`, `_is_full`, `_lock`, `_unlock` |
| request handlers (`client.c`, `messages.c`) | none of their own | the nine `handle_*_tag` functions |
| accept loop (`main.c`) | none of its own | accept, reject when full, create, add |
| accounts (`database.c`) | the global `conn`; the table `users` | `database_connect`, `database_new_user`, `database_user_login` |
| byte codec (`utils.c`, `buffer.c`, `lso_reader.c`, `lso_writer.c`, `message.c`) | a buffer with count, capacity, offset; a position | read and write of integers and strings, the tag header |
| framing (`client.c:295-314`) | a 1024 byte buffer per thread | one `read` is one request |

How the parts meet: a handler reads and writes the room table, looks users up
in the pool, and sends to any client's socket; the join protocol takes three
handlers of two clients (request to the owner, answer by the owner, notice to
the room) and the server remembers nothing between them; a connection's end
runs the leave handler, takes the client out of the pool and frees it, while
slots of rooms and of the pool hold its address.

Hard behaviour, with the properties that make each part correct:

* room table: pointers between clients and rooms agree in both directions, the
  count equals the occupied slots, nobody is in two slots, ids are not reused,
  closing empties everything that points to the room;
* join protocol: requests, answers, closings, disconnections and other joins in
  any order; an announced join has happened; the owner can always accept;
* pool: its entries are the connected clients and its size is their number;
* messages: what is said in a room reaches everybody in it and nobody else;
* threads: slot scans, counts and table updates partly outside the locks;
* accounts: one connection pointer for all threads;
* codec and framing: what is written is what is read back.

`PROJECT.json` lists every hazard at its line with the properties about it.

## 2. The modules

| module | stands for |
|---|---|
| `ClientMemory` | addresses of `client_t`: allocated, freed, allocated again; the field `user` |
| `Room` | `room.c`: `gRooms`, the slots and counts, `client->room`, and each operation |
| `ClientPool` | `client_pool.c` |
| `ChatServer` | the handlers, the end of a connection and the accept loop over the three modules above |
| `ChatRooms` | abstract: who is in which room, who hosts it |
| `MCChatServer` | the instances of `ChatServer` that TLC checks |
| `ChatServerProofs` | theorems about `ChatServer` under `Spec` |
| `ChatRoomsProofs` | theorems about `ChatServer` under `PoliteSpec`: the implementation of `ChatRooms` |
| `RoomThreads` | `room.c` and the handlers of one room as interleaved threads |
| `OneRoom` | abstract: the members of one room, which is open, closing or closed |
| `PoolThreads` | `client_pool.c` between the accepting thread and those of the connections |
| `TableThreads` | `gRooms` and `counter_room` between the threads |
| `Accounts` | abstract: who has an account, who is logged in as whom |
| `Database` | `database.c` between the threads, over the one pointer `conn` |
| `Codec` | `utils.c`, `buffer.c`, `lso_writer.c`, `lso_reader.c`, `message.c` as functions |
| `Wire` | a message from the writer of one side to the reader of the other |
| `Framing` | the byte stream of one connection and the read loop of `client_handler` |
| `MC<module>` | the instances that TLC checks |
| `<module>Proofs` | the theorems: `RoomThreads`, `PoolThreads`, `TableThreads`, `Database`, `Framing`, `Wire` |

`ChatServer` extends `Room` and `ClientPool`, which extend `ClientMemory`;
`ChatRooms` is its abstract specification, `OneRoom` that of `RoomThreads`,
`Accounts` that of `Database`; `Wire` extends `Codec`.  The three modules named after threads repeat the
operations of one part each at a finer grain, with as much of the others as
these operations touch.

### How the model corresponds to the code

*Addresses.*  `Client` is the set of addresses a `client_t` can be allocated
at; `live` holds those that are allocated.  `client_free` leaves `user` and
`room` alone, as `free` does, and slots of rooms and of the pool may go on
naming a freed address; a later connection may get the same one.
`client_create` sets `room` to null and leaves `user` with zeros or with what
the memory held.

*Rooms.*  Ids come from `counter_room` and are never reused, so the id of a
room also stands for its address.  Nothing compares an id with `MAX_ROOMS`
(`room.c:32,42`): the constant `MaxRooms` bounds only how many rooms a run
creates, and `gRooms` of the model goes on behind the array (`PastTheEnd`).  A
creation there stores the room, which can then be joined by its id and closed
like any other; only the room list, which loops to `MAX_ROOMS`, does not show
it.  Whatever stores or reads there, a creation, a closing or a request with the
id, may also stop the server, by what it overwrites or finds.  What the rest of
the program keeps in that memory is not modelled further.  `client->room` is the
id; it dangles when `gRooms` has no such room.  `clientsCount` is a field of its
own.  The slot `room_add_client` fills is the last empty one, the one
`room_remove_client` empties is the first that holds the client.  Names of rooms
are left out.

*Users.*  A user is a row of the table: id and name.  Comparisons of
`user.id` in the code (`client.c:198`, `room.c:116`, `client_pool.c:48`)
compare users here.

*Handlers.*  One action per tag, with every call it makes.  The requests a
client can send are all tags with all room ids and users, at any time: the
server does not remember which requests it has asked for, and a client may be
logged in, in a room, or neither.  The ids are those below `MaxRooms`, in the
table and behind it; negative ones and those further away, which `room_get` does
not refuse either, are left out.  `sent` holds the messages of the last step.

*What stops the server.*  `running` becomes FALSE where the code dereferences
a null pointer (`strlen` of the name of a client without a login, `client_send`
to a null client, `room_send_message` to a null room, `client->room->id` in
`room_add_client`), or calls `exit` because the database does not answer.  After
that nothing is claimed.  Where a handler reads a freed `client_t`, or stores past
the end of `gRooms` or reads there, both outcomes are possible: it stops, or it
goes on.  The runs therefore do not check for deadlock: a
stopped server is a state without successor.

*Granularity.*  In `ChatServer` a handler is one step.  That is the server as
its request protocol sees it, and the level at which an order of requests can
be wrong.  What the threads do to each other inside the handlers is not claimed
there; `RoomThreads` does it for one room.

### Threads in one room

`RoomThreads` starts in the state `handle_create_room_tag` leaves: the owner in
the last slot, count one.  Every client has a thread with a label `pc`; the
requests are accepting a client, sending a message and leaving, the last one
also at the end of a connection.  The steps follow the accesses:

* `room_add_client` reads each slot in a step of its own (`Scan`), without the
  mutex, and decides (`Check`).  `Store` is its critical section, the slot and
  the count together; `Point` sets `client->room` afterwards.
* `room_remove_client` looks for the slot in one critical section (`Find`) and
  empties it in another (`Clear`), then clears the pointer (`Unpoint`).
* `room_send_message` holds the mutex from `Send` to `Sending`, for its calls of
  `send` can block.
* The closing branch takes no lock.  It reads `room->clients[i]` three times
  (`Close`, `Kick`, `Tell`), and `Delete` clears the owner's pointer and frees
  the room.

The other critical sections are single steps: they make no call that blocks,
and the slots and the count are written in critical sections only, so no other
thread can tell them apart.  `room_is_full` is not called on the way to
`room_add_client`, so the count is written and never read here.

`running` turns FALSE when a thread goes through a null pointer or uses the
room after it is freed.  The use of a freed `client_t` is a choice: it stops
the server or passes.  Each client is logged in as a user of its own.  `Rest`
lets a server with nothing to do stand still, so deadlock is checked: a thread
that waited for a mutex that nobody will release would be reported.

### Threads in the pool

Only the accepting thread takes the pool's mutex, so the mutex keeps nobody out
and `PoolThreads` leaves it out.  The accepting thread checks the limit
(`Accept`), allocates the client and starts its thread (`Create`), looks for an
empty slot entry by entry (`Scan`), fills it (`Store`) and raises the size in
two steps, the load and the store of `size++`.  The thread of a connection may
end from `Create` on: it looks for itself entry by entry, each a read of the
pointer (`Find`) and a read through it (`Compare`), empties the slot, lowers
the size in two steps and frees the client.  `client_pool_get` is `Request`,
`Get` and `Use`; its index is unsigned, so a size below zero is a large number
(`InLoop`).

### Threads at the table of rooms

In `TableThreads` a creation is: malloc and the load of `counter_room++`, its
store with the field `id`, the entry in `gRooms`, the mutex, the first client,
the owner, the reply.  Beside it other threads list the table (`List`,
`Serialize`), ask to join a room they find in it (`RequestJoin`, `Ask`, `Send`)
and close their rooms (`RequestClose`, `Unlist`, `Free`).  Ids go on behind the
table, up to `MaxRooms`, as in `Room`.  A room is an address, which malloc may
return again.  A use of a freed room, or of a mutex or an owner
that is not set yet, stops the server or passes.

### Threads at the database

Every request makes a new handle, puts it into the global `conn` and closes
none; each call of the library reads `conn` again, and by then it may be another
thread's.  `ConnectInit` is `mysql_init`, `Connect` is `mysql_real_connect`,
`QueryUp` and `QueryIn` are the two queries, `Fetch` is `mysql_store_result`
with what follows it.  What the library does is modelled from how `database.c`
uses it: a query on a handle that is not connected, or whose rows nobody has
fetched, fails; two threads inside the library may be the end of the process.
The table keeps a name once.

The statements are made by `sprintf`, which escapes nothing (`database.c:33,51`).
`Odd` are the texts with a quote or a backslash, in a name or a password.  A
statement made with one (`~Plain`) is another than was meant: it may fail, a
SELECT may find any row or none (`Rows`), an INSERT that succeeds may leave any
table (`Inserted`).  It is assumed to stay one statement, as `mysql_query` takes
no more without `CLIENT_MULTI_STATEMENTS`, so a SELECT changes no table.  With a
plain text the statement does what it says.

Any query can fail, also one on a handle of its own: the database is lost, and
an INSERT that fails may have stored its row (`InsertFails`, `SelectFails`).
`mysql_store_result` returns null when there are no rows or they cannot be read,
and the server stops in `mysql_num_rows` (`Crash` in `Fetch`).

### Codec and wire

`Codec` is pure: a buffer is its bytes with a count and an offset, a writer or a
reader adds a position.  Bytes are signed, and `Or` is what `high | low` gives
when a negative low byte is widened.  Conversions that lose nothing, such as the
copies of `byte_buffer_clone`, are left out.  `Wire` writes any fields, sends
them as `client_send` does and reads them as the handlers do; a length that
reads back wrong takes the reader where the code would take it.

### Framing

A byte is the message it belongs to and its place in it.  The client sends,
closes or resets; the network delivers any number of bytes at a time (`Arrive`);
`Read` takes up to `BUFFER_SIZE - 1` of what has arrived for one message, as
`client_handler` does, and makes its tag from the first two bytes, whatever they
are.  What the handler of a message does with rooms is left to `ChatServer` and
`RoomThreads`; here it is a step (`Handle`) that waits while another thread has
the mutex it needs.

`EndLoop` is the read of zero or less.  Behind it come the steps of
`client.c:316-331`: `LeaveRoom`, `handle_leave_room_tag` for a client that is in a
room, which waits for the mutex too; `FreeClient`, out of the pool, close and
free.  The other threads take the mutex and let it go (`Lock`, `Unlock`), and
until the client is freed an owner may let it into a room or close the one it is
in (`MoveClient`); whether it is in one when the loop ends is open.  The calls of
`send` and of the database are taken to return.

### History variables

Some properties hold as long as clients have behaved in a way the server does
not enforce.  The specification then keeps in a variable whether they have:
`conduct` (connections last until they are added; they also come and go one at a
time), `overlapped` (two creations at once), `disturbed` (the sessions whose
request met another or whose query failed), `odd` (an odd text in a sign-up, in a
sign-in), `courteous` (the client waits, its messages arrive whole).  The
variable restricts no step; the property names it, and all other properties of
the module hold without it.

### The abstract specifications

`ChatRooms` knows only who is in which room (`at`), who hosts it (`host`) and
how many rooms there have been.  Create, join, leave and close are its actions.
`ChatServer!Rooms` maps `at` to `room`, `host` to the field `owner` of the open
rooms and `opened` to `counter_room`.  The code implements it for clients that
leave a room before they create another (`PoliteSpec`), and only for those: the
server does not ask.

`OneRoom` is a room without slots, count, mutex or threads: clients join within
the capacity and leave in single steps; the owner begins the closing, after
which nobody joins, and ends it when everybody is out.  `RoomThreads` implements
it under `OwnerSpec`.  A client joins when its field `room` is set (`Point`),
leaves when its slot is emptied (`Clear`; until its field is cleared it is in
`inside` but not in `Staying`), or is put out by the closing loop (`Kick`).
`Status` follows from `allocated` and the label of the owner's thread.

`Accounts` knows the password of each account and who is logged in as whom:
signing up takes a free name, signing in the name and the password.  A sign-in
with an odd text (`OddSignIn`) may log any session in as anybody, from then on,
but touches no account; after a sign-up with one (`OddSignUp`) the table may be
any, too.  `Accounts` has the variables `password`, `login` and `odd` of
`Database`, which implements it with every overlap and every failure: threads
that share the connection can lose answers, get each other's, or stop the
server, but without odd texts they make no account and no login that a request
has not asked for.

## 3. The runs

| run | specification | shows |
|---|---|---|
| `server` | `Spec` | the eight invariants and two action properties of section 4, whatever clients send |
| `polite` | `PoliteSpec` | slots and pointers agree in both directions, chat stays among those present, `ChatRooms` is implemented |
| `chatOnlyWithPresent` | `Spec` | violation: chat reaches a client that has gone to a room of its own (README.md:10) |
| `ownerCanAccept` | `Spec` | violation: an accepted client is not found in the pool (README.md:12) |
| `threads` | `Spec` | types, array bounds, `CountCoversSlots`, no deadlock, whoever answers join requests |
| `threadsEnd` | `Spec` | every request ends |
| `threadsOwner` | `OwnerSpec` | exact count, slots match pointers, a closed room is empty, `OneRoom` is implemented, if only the owner answers join requests |
| `pool` | `Spec` | stores inside the array, size within the limit, who is added stays; freed clients and an exact size under the conditions of section 4 |
| `table` | `Spec` | the table, and what is stored behind it, names allocated rooms under their ids; unique ids and owners without overlapping creations |
| `database` | `Spec` | accepted accounts exist and logins were given, but for what odd texts do; `Accounts` is implemented; right answers for a plain request that meets no other and does not fail |
| `wire` | `Spec` | what is written arrives; which integers read back |
| `framing` | `Spec` | the stream is read once and in order; the thread of a closed connection ends and its client is freed; a courteous client's messages are each handled once |

Bounds of `ChatServer`: three addresses, two users (three in the violations),
rooms of two slots, a pool of three.  Three addresses are an owner, somebody inside and
somebody who wants in, or two sessions of a user and a third client; two slots
make a room full with two clients and leave holes in any position.  The run
`server` creates two rooms, an old one and a new one; the table has one entry,
so the second is stored past its end.  `polite` creates three, the third past the
end; in the violations both are in the table, so neither needs the overrun.  A
pool of three is filled and has holes before, between and after clients.  Fewer users
than addresses make two sessions of one user certain.  Addresses and users are
symmetric: no definition singles one out and no liveness is checked.

Bounds of `RoomThreads`: three clients and two slots, with `MaxRequests` five
(three for liveness): two threads that fill one slot while a third leaves, sends
or closes.  With only the owner answering, four clients, three slots and six
requests: a room that is filled, emptied in the middle and filled again.
`MaxRequests` also bounds how far the count can drift from the slots.  The
clients other than the owner are symmetric; the run with liveness uses no
symmetry.

Bounds of `PoolThreads`: three addresses, two slots, `MaxConnections` four: a
connection is turned away, two connections end while a third is added, and an
address is allocated again while a slot still names it.  The size can drift both
ways, below zero and to the limit.

Bounds of `TableThreads`: three threads, three addresses, three ids of which the
table holds two: two creations that get one id beside a third thread that lists,
asks or closes, and a room past the end of the table.

Bounds of `Database`: two sessions, two names, two passwords and a third with a
quote, which stands for every odd text: nothing in the model tells an odd name
from an odd password.  `MaxHandles` three: a thread connects while the other is
anywhere, one of them twice, and the limit of the database server is reached.

Bounds of `Wire`: messages of two fields, integers on both sides of the sign bit
of every byte and at the ends of the ranges, strings whose lengths are on both
sides of the sign bit and of the first byte, writers of capacity zero, one, four
and eight, two tags.  Two fields are enough for a field to suffer from the one
before it.

Bounds of `Framing`: a bare header, behind it a message that fills a read of
three bytes: reads of one byte, of the end of one message and the beginning of
the next, of more than has been asked for at once.  `MaxLocks` two: the mutex is
held once while a handler wants it and again when the thread leaves the room.

Fairness: none at the level of `ChatServer`; a client may stay silent forever,
and a handler is one step.  In `RoomThreads` every thread is weakly fair: the
operating system runs every thread that can go on, and the calls of `send`
return because the clients read what they are sent.  Weak fairness is enough
for the mutex because the number of requests is bounded; nothing obliges a
client to send one.  In `Framing` the thread of the connection (`Thread`), the
network and whoever has the mutex (`Unlock`) are weakly fair: bytes that were
sent arrive unless the connection is reset, and a critical section ends, as
`RequestsEnd` shows for one room if the calls of `send` return.  Weak fairness of
the waiting thread is enough because the others take the mutex `MaxLocks` times
at most; a mutex that always lets another go first could keep it waiting.  The
client is not fair: it may send nothing and never close.

## 4. What is checked and what is proved

| property | says | TLC | TLAPS |
|---|---|---|---|
| `TypeOK` | types: what is stored in slots, owners, pointers and ids, in the table and past its end | `server` | `TypeCorrect` |
| `RoomPointersValid` | a client's room is open and has it in a slot | `server` | `PointersNeverDangle` |
| `OneSlotPerRoom` | no client twice in a room | `server` | `NoDuplicateSlots` |
| `OwnerHasSlot` | the owner stays in the room as long as it exists | `server` | `RoomsAreOwned` |
| `InsideIsLoggedIn` | whoever is inside has a name to send | `server` | `InsideHaveNames` |
| `CountIsOccupancy` | `clientsCount` is exact | `server` | `CountCorrect` |
| `PoolIsLive` | the pool is the set of connections, size exact | `server` | `PoolCorrect` |
| `RoomIdsAreFinal` | ids are not reused | `server` | `IdsAreFinal` |
| `CloseReachesEveryone` | closing tells and puts out everybody | `server` | `ClosingIsComplete` |
| `MessageReachesRoom` | chat reaches everybody in the room | `server` | `ChatReachesRoom` |
| `SlotsAreTheInside` | slots and pointers agree both ways, if clients leave first | `polite` | `SlotsMatch` |
| `ChatOnlyWithPresent` | chat reaches nobody else, if clients leave first | `polite` | `ChatStaysInside` |
| `ImplementsChatRooms` | `ChatRooms` is implemented, if clients leave first | `polite` | `Refinement` |
| `RoomThreads!TypeOK` | types; every access is inside the array | `threads` | `TypeCorrect` |
| `CountCoversSlots` | the count is never below the slots in use | `threads` | `CountNeverTooLow` |
| `RequestsEnd` | every request ends | `threadsEnd` | |
| `CountIsExact` | one answering thread keeps the count exact | `threadsOwner` | `CountExact` |
| `SlotsMatchPointers`, `ClosedIsEmpty` | one answering thread loses nobody | `threadsOwner` | `SlotsMatch`, `ClosingEmpties` |
| `ImplementsOneRoom` | joins, leaves and the closing take effect as single steps | `threadsOwner` | `Refinement` |
| `PoolThreads!TypeOK` | types; every store is inside the array | `pool` | `TypeCorrect` |
| `SizeWithinLimit` | the size never passes the limit | `pool` | `SizeStaysWithinLimit` |
| `AddedStaysIn` | nobody else takes an added client's slot | `pool` | `AddedStays` |
| `SlotsAreConnections` | no slot names a freed client, if connections last until they are added | `pool` | `SlotsStayConnections` |
| `SizeIsExact`, `GetStaysInside` | the size is exact and lookups end inside the array, if connections also come and go one at a time | `pool` | `SizeStaysExact`, `GetStays` |
| `TableThreads!TypeOK` | types; a room in hand is allocated | `table` | `TypeCorrect` |
| `EntriesAreRooms` | no freed room and no wrong id in the table | `table` | `EntriesStayRooms` |
| `RoomsAreListed` | ids are unique, and rooms owned and found under their ids, if creations do not overlap | `table` | `RoomsStayListed` |
| `Database!TypeOK` | types; rows wait on connected handles only | `database` | `TypeCorrect` |
| `AcceptedIsRegistered` | an accepted sign-up is stored as asked, until somebody signs up with an odd text | `database` | `AcceptedAreRegistered` |
| `LoginWasGiven` | nobody is logged in with what nobody gave, unless an odd text is under way or signed up with | `database` | `LoginsWereGiven` |
| `ImplementsAccounts` | `Accounts`, which says what odd texts may do, is implemented | `database` | `Refinement` |
| `AnswersAreRight` | a plain request that meets no other and whose query does not fail is answered right | `database` | `LoneAnswersAreRight` |
| `MessageArrives` | the bytes written arrive behind the header | `wire` | `PayloadArrives` |
| `ExactFieldsReadBack` | which fields read back, and what a lost length does | `wire` | `OnlyExactReadBack`, `Int16ReadsBack`, `Int32ReadsBack` |
| `BytesInOrder` | no byte is lost, doubled or moved between reads | `framing` | `NoByteLost` |
| `HandlerEnds` | the thread of a closed connection ends, its client out of its room and the pool and freed | `framing` | |
| `EachOnce` | a courteous client's messages are handled once, whole and in order | `framing` | `EachHandledOnce` |
| `EachHandled` | and all of them are | `framing` | |

### Where the code and what is said of it part

Two disagreements have a run of their own, `chatOnlyWithPresent` and
`ownerCanAccept`.  The conditions in the other properties mark further ones;
dropping the condition makes TLC show each:

* `room.c:101` "Adds @client to @room": two threads fill the same slot, and one
  client is in the room without one (`CountIsExact` under `Spec`); a join to a
  room that has become full is announced all the same.
* `client.c:200` "Close room and kick everyone": a client that is added behind
  the closing loop keeps a pointer to the freed room (`ClosedIsEmpty` under
  `Spec`); the loop also writes through slots of clients that have moved to
  another room (`SlotsAreTheInside` under `Spec`).
* `main.c:141` "Check if max clients is reached": a lost update of the size turns
  clients away from a pool with room, or leaves it above the number of entries
  (`SizeIsExact` without `calm`); a connection that ends before it is added
  leaves a freed client in the pool (`SlotsAreConnections` without its condition).
* `README.md:11`: a room whose id was given twice is not in the table
  (`RoomsAreListed` without `overlapped`).
* `README.md:8`: a right login is rejected, or a session becomes logged in as the
  user another session has asked for (`AnswersAreRight` without `disturbed`).
* `README.md:8` again: the names and passwords go into the statements as they are
  (`database.c:33,51`).  A name with a quote is refused or stored otherwise, and a
  login with one can succeed without the password (`LoginWasGiven` without
  `AsksOddly`, `AnswersAreRight` without `Plain`).
* `README.md:10`, users create rooms: nothing stops at `MAX_ROOMS`
  (`room.c:32,42`), and as no id is returned, after that many creations every
  further room is stored past the end of `gRooms`.  No property says otherwise;
  the runs `server`, `polite` and `table` go there.
* `main.c:60`, in a test that is commented out, prints integers beside what is
  read back, with "==": an integer with an inner sign bit does not read back
  (`ExactFieldsReadBack`).
* `message.c:39` "there's tag header payload": a read that begins inside a
  message takes payload for a tag, and one of a single byte makes a message of
  count -1 (`EachOnce` without `courteous`).

The proofs assume `ClientAssumption` (null is not an address or a user, the
empty login is not a user), `RoomAssumption` (the arrays are not empty, null is
not a room; `MaxRooms`, the number of rooms ever created, may be any, below or
above the length of the table) and `PoolAssumption` (the pool is not empty), for any sets of
addresses and users and any lengths of the arrays.

The argument: `StepKinds` reduces the next-state relation to what a step does
to the room table (create, join, quit, close, accept, or nothing), `PoolSteps`
to what it does to the pool.  One lemma per operation on a room says what the
array, the count and the owner are afterwards.  The inductive invariant `IInv`
adds to the properties that `gRooms` is empty from `counter_room` on: without
it a creation could overwrite a room somebody is in.  `RoomPointersValid` needs
`PoolIsLive`, because the client that joins is taken from the pool and must be
allocated; the slot `room_remove_client` empties is never the owner's because
the quitting client has another user id than the owner.  `CountIsOccupancy`
and `PoolIsLive` use the library's facts on cardinalities.

`ChatRoomsProofs` adds `SlotsAreTheInside` to the invariant under `PoliteSpec`.
One lemma per kind of step says what it does to the owners, the pointers and
the count of rooms, and that slots and pointers still agree; from these each
kind is a step of `ChatRooms` or leaves its variables alone.  That a room with
an empty slot is below the abstract capacity (`RoomLeft`) needs the agreement
again: the occupied slots map onto the clients inside.

`RoomThreadsProofs` needs only finitely many clients.  For the count under
`Spec` the inductive invariant counts what interleaving takes away: `Robbed` are
the threads about to empty a slot that another client has taken since they found
it, and `Ahead` says that the count exceeds the occupied slots by at least their
number.  A store into a taken slot raises the count without a slot and robs at
most one thread; a thread that empties another's slot lowers both but stops
being robbed.  Under `OwnerSpec`, `Alone` says why none is ever robbed: only the
owner's thread fills slots, so what it has found empty is still empty.

For `SlotsMatchPointers` and `ClosedIsEmpty` the invariant `Matched` says where
everybody is in the middle of a handler.  A client that points to the room is in
a slot the closing loop has still to visit, or is about to clear the pointer
(`Pointed`); a slot holds a client that points to the room, or the one the owner
is adding (`Listed`); whoever is leaving still points to the room (`Leavers`), so
the owner cannot add it meanwhile and leave it in two slots (`Single`).  The loop
ends behind the last slot, and then nobody is left for `Pointed` but those that
are clearing their pointer.

From the same invariant follows the implementation of `OneRoom`, one lemma per
kind of step.  `JoinsAtPoint` needs that the room has space when the field is
set, long after the slot was filled: that slot holds the newcomer, who does not
stay yet, so those who stay fit into the other slots (`RoomForOne`).
`RoomAtClosing` needs that nobody stays when the loop is done.

`PoolThreadsProofs`: `Limit` says that from its check to its store the accepting
thread alone can raise the size, and what others have loaded is within the
limit; `Entries`, that an empty slot found by the only thread that fills slots
stays empty, and a slot in which a thread has found itself stays its own.
`Named` and `Counted` are implications from the history variable.  While
connections have been patient, the client being added has not gone (`Newcomer`)
and a thread that searches for itself is in no slot it has passed (`Passed`), so
it empties its slot before it frees its memory (`Alive`).  While they have been
calm, at most one thread is adding or removing (`OneAtATime`): nothing that was
loaded goes stale (`Loads`), the size is the number of connections but for one
that is coming or going (`SizeKept`), and each has a slot (`Slotted`).  That the
search of the accepting thread ends (`SlotLeft`) is a pigeonhole argument: if all
slots were taken they would hold as many clients as there are slots beside the
one to be added, and the size would have been at the limit.

`TableThreadsProofs`: `Private` says that a room in a thread's hand is nobody
else's, in hand or in `client->room`; then a room whose id is being set or whose
memory is being freed is not in the table (`Tabled`).  `Owned` holds with every
overlap: who has a room owns it.  `Listed` holds as long as creations have not
overlapped: ids given out are below the counter, the counter in hand is the
present one (`Counted`), so no two rooms share an id (`Single`) and a room is in
the table unless its thread is about to put it there or to free it (`Found`).

`DatabaseProofs`: `Ready` says which handles threads are about to use, and
`RowsWereGiven` that rows waiting on the connection of the moment were asked for
by a thread that is about to fetch, or that one of the requests is odd;
connections that `conn` has left are never named by it again.  `Undisturbed` says
that while a request has met no other and has not failed, every other session is
idle, the connection of the moment is ready for its query, and then has the rows
of its query: the new handle is what makes the answer independent of what
earlier requests left.  The implementation of `Accounts` maps a step with an odd
text to `OddSignIn` or `OddSignUp`, and a plain one to `SignUp`, `SignIn` or none.

`FramingProofs`: a client that waits has everything it has sent either on its way
or handled (`Waits`, `OneAtATime`), and then the shape of what has been taken is
known message by message.  `BytesInOrder` speaks of `FlattenSeq`, a recursive
function whose properties would need induction over sequences, which the provers
cannot do.  The proof carries instead, in the inductive invariant, that on every
beginning of what has been taken the function exists and is unique (`Joins`,
`Joinable`); a step that takes one more chunk extends it by one value, so the
induction is that of the behaviour.  `JoinsNothing`, `JoinsOneMore` and `JoinedBy`
are the three facts about it.

`WireProofs` proves, from the bytes they are made of, which integers of 16 and of
32 bits read back.  `Carried` follows the bytes of a message through the growing
buffer of the writer (`Holds`), the frame and the reader's side (`Framed`,
`Unframed`).  `InOrder` adds where the reader is: `Laid(at)` gives every field
its place in the bytes, and the reader that has got `k` values is at the place of
the next one unless a string before it has lost its length (`InPlace`).  One
lemma per kind of field says what is read there and where the reader goes.

The assumptions are those on the constants (`ThreadsAssumption` in
`RoomThreads` and `PoolThreads`, `TableAssumption`, `DatabaseAssumption`,
`FramingAssumption`: a message has at least its header, a read takes two bytes
or more; `WireAssumption`: a tag is below 128, an integer has 32 bits, and so has
the length of a string with its closing zero, which `lso_writer_write_string`
passes as `int32_t`).

Only model-checked: liveness (`RequestsEnd`, `HandlerEnds`, `EachHandled`), which
is out of the prover's reach.  Every other property of a passing run is stated by
a theorem.

## 5. Not modelled, and the plan

Still worth having: what holds for a client that is courteous except that its
messages are longer than a read, and the count of `RoomThreads` when two threads
answer but never at once.

Not modelled:

* payloads that do not match their tag, such as a chat request without text,
  whose writer is created with a capacity of -1 (`messages.c:88`): what memory
  holds there is unknown;
* room ids in requests that are negative or beyond `MaxRooms`, for the same
  reason;
* memory of `client_create` that has held anything but a `client_t`
  (`client.c:365`): a garbage pointer in `user.name` would be read later;
* a descriptor that has been closed and given to a later connection: a message to
  a freed client would then go there (`client.c:343`), and not be lost;
* the length of a read in `Wire` (`client.c:297`), which `Framing` has;
* texts so long that a statement does not fit its 256 bytes
  (`database.c:32,49`), and several statements in one;
* the 64-bit and bool operations of the codec, which nothing calls, and the
  release of buffers;
* two threads that send to one socket at once: each send is one call, and no
  handler reads the order back;
* socket set-up and `printf`; vendored and generated files, build output and
  editor settings; the lengths of names.
