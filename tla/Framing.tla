------------------------------ MODULE Framing -------------------------------
(***************************************************************************)
(* One connection from the client's side to client_handler: what read()    *)
(* returns is taken for one message, and TCP has no messages.  A byte is   *)
(* the message it belongs to and its place in it; the first two places are *)
(* the header.                                                             *)
(*                                                                         *)
(* The thread of the connection handles what it has read, and at its end   *)
(* takes the client out of its room and the pool.  Both wait for the mutex *)
(* of a room, which other threads hold while they send.  What the handlers *)
(* do with rooms is in ChatServer and RoomThreads: here the client is in a *)
(* room or not when its loop ends, and the others may still move it.       *)
(* Assumed of the calls of the system: send() and the calls of the         *)
(* database return, and the server goes on.                                *)
(***************************************************************************)
EXTENDS Integers, Sequences, SequencesExt

CONSTANTS
  Length,    (* the lengths of the client's messages, header included      *)
  ReadSize,  (* BUFFER_SIZE - 1                                            *)
  MaxLocks   (* bound: how often other threads take the mutex              *)

ASSUME FramingAssumption ==
  /\ Length \in Seq(Nat)
  /\ \A m \in DOMAIN Length : Length[m] >= 2
  /\ ReadSize \in Nat \ {0, 1}
  /\ MaxLocks \in Nat

VARIABLES
  sent,     (* how many messages the client has sent                       *)
  flight,   (* bytes sent that have not arrived                            *)
  socket,   (* bytes that have arrived and are not read                    *)
  peer,     (* "open", "closed" by the client, or "reset"                  *)
  thread,   (* where client_handler is: "reading", "handling", "leaving"   *)
            (* the room, "removing" the client from the pool, or "freed"   *)
  inRoom,   (* client->room # NULL, from the end of the loop on            *)
  busy,     (* another thread holds the mutex this one needs               *)
  locks,    (* how often one has taken it                                  *)
  taken,    (* the messages it made, with the bytes they were made of      *)
  courteous (* history: the client has waited for each message to be taken *)
            (* before the next, and each has arrived in one piece          *)

connection == <<sent, flight, socket, peer, taken, courteous>>
room       == <<inRoom, busy, locks>>
vars       == <<connection, thread, room>>

Message == DOMAIN Length
Bytes(m) == [i \in 1 .. Length[m] |-> [message |-> m, place |-> i]]
Stream == FlattenSeq([m \in 1 .. sent |-> Bytes(m)])

NoTag == 0
HeaderSize == 2

Init ==
  /\ sent = 0 /\ flight = <<>> /\ socket = <<>>
  /\ peer = "open" /\ thread = "reading" /\ taken = <<>>
  /\ inRoom = FALSE /\ busy = FALSE /\ locks = 0
  /\ courteous = TRUE

-----------------------------------------------------------------------------
(* The client and the network.                                             *)

Send ==
  /\ peer = "open"
  /\ sent < Len(Length)
  /\ sent' = sent + 1
  /\ flight' = flight \o Bytes(sent')
  /\ courteous' = (courteous /\ Len(taken) = sent)
  /\ UNCHANGED <<socket, peer, thread, room, taken>>

Arrive(n) ==
  /\ n <= Len(flight)
  /\ socket' = socket \o SubSeq(flight, 1, n)
  /\ flight' = SubSeq(flight, n + 1, Len(flight))
  /\ courteous' = (courteous /\ n = Len(flight))
  /\ UNCHANGED <<sent, peer, thread, room, taken>>

Close ==
  /\ peer = "open"
  /\ peer' = "closed"
  /\ UNCHANGED <<sent, flight, socket, thread, room, taken, courteous>>

\* The connection breaks: what has not been read is gone.
Reset ==
  /\ peer # "reset"
  /\ peer' = "reset"
  /\ flight' = <<>> /\ socket' = <<>>
  /\ UNCHANGED <<sent, thread, room, taken, courteous>>

-----------------------------------------------------------------------------
(* client_handler.                                                         *)

\* Mutant: the buffer's last byte is kept for a zero once more.
MutantChunk == SubSeq(socket, 1, IF Len(socket) < ReadSize THEN Len(socket) ELSE ReadSize - 1)

Chunk == SubSeq(socket, 1, IF Len(socket) < ReadSize THEN Len(socket) ELSE ReadSize)
Unread == SubSeq(socket, ReadSize + 1, Len(socket))

\* The tags the first two bytes can make: those of a message, or by chance any.
\* Of a single byte the second is what lies behind it.
Tags(bytes) ==
  IF Len(bytes) >= HeaderSize /\ bytes[1].place = 1
    THEN {bytes[1].message}
    ELSE Message \cup {NoTag}

\* Mutant: the header is counted as payload.
Mutant_message_create_from_byte_buffer(t, bytes) ==
  [tag |-> t, count |-> Len(bytes), bytes |-> bytes]

message_create_from_byte_buffer(t, bytes) ==
  [tag |-> t, count |-> Len(bytes) - HeaderSize, bytes |-> bytes]

Read ==
  /\ thread = "reading"
  /\ socket # <<>>
  /\ \E t \in Tags(Chunk) :
       taken' = Append(taken, message_create_from_byte_buffer(t, Chunk))
  /\ socket' = Unread
  /\ thread' = "handling"
  /\ UNCHANGED <<sent, flight, peer, room, courteous>>

\* on_message_received, and the buffer is cleared.
Handle ==
  /\ thread = "handling"
  /\ ~busy
  /\ thread' = "reading"
  /\ UNCHANGED <<connection, room>>

\* Mutants: only an error ends the loop; a read that finds nothing does.
MutantReadFails == peer = "reset"
MutantReadWouldBlock == socket = <<>>

\* read() returns zero or less.
ReadFails ==
  /\ socket = <<>>
  /\ \/ peer = "reset"
     \/ peer = "closed" /\ flight = <<>>

EndLoop ==
  /\ thread = "reading"
  /\ ReadFails
  /\ thread' = "leaving"
  /\ inRoom' \in BOOLEAN
  /\ UNCHANGED <<connection, busy, locks>>

\* handle_leave_room_tag, for a client in a room.
LeaveRoom ==
  /\ thread = "leaving"
  /\ inRoom => ~busy
  /\ inRoom' = FALSE
  /\ thread' = "removing"
  /\ UNCHANGED <<connection, busy, locks>>

\* client_pool_remove, pthread_detach, close and free.
FreeClient ==
  /\ thread = "removing"
  /\ thread' = "freed"
  /\ UNCHANGED <<connection, room>>

-----------------------------------------------------------------------------
(* The other threads.                                                      *)

\* Only a mutex that the thread needs matters.
Lock ==
  /\ thread \in {"handling", "leaving"}
  /\ ~busy
  /\ locks < MaxLocks
  /\ busy' = TRUE
  /\ locks' = locks + 1
  /\ UNCHANGED <<connection, thread, inRoom>>

Unlock ==
  /\ busy
  /\ busy' = FALSE
  /\ UNCHANGED <<connection, thread, inRoom, locks>>

\* An owner lets the client into a room or closes the one it is in.
MoveClient ==
  /\ thread \in {"leaving", "removing"}
  /\ inRoom' = ~inRoom
  /\ UNCHANGED <<connection, thread, busy, locks>>

-----------------------------------------------------------------------------
Network == \E n \in 1 .. Len(flight) : Arrive(n)
Thread  == Read \/ Handle \/ EndLoop \/ LeaveRoom \/ FreeClient
Others  == Lock \/ Unlock \/ MoveClient
Next    == Send \/ Network \/ Close \/ Reset \/ Thread \/ Others

\* The network delivers, the thread runs, and whoever has the mutex lets it go.
Spec == Init /\ [][Next]_vars /\ WF_vars(Network) /\ WF_vars(Thread) /\ WF_vars(Unlock)

-----------------------------------------------------------------------------
TakenBytes == FlattenSeq([i \in DOMAIN taken |-> taken[i].bytes])

\* However the stream is cut, its bytes are read in order, each once, and until
\* the connection breaks none is lost between two reads.
BytesInOrder ==
  /\ IsPrefix(TakenBytes, Stream)
  /\ peer # "reset" => TakenBytes \o socket \o flight = Stream

\* The handler of a connection that is closed or broken ends: it handles what it
\* has still to read, its client leaves the room it is in by then and the pool
\* and is freed, though other threads hold the mutex of the room now and then
\* and move the client about.
HandlerEnds == peer # "open" ~> thread = "freed"

\* message.c, "there's tag header payload": as long as the client waits and its
\* messages fit a read and arrive in one piece, each is handled once, in order
\* and whole.
Fits == \A m \in 1 .. sent : Length[m] <= ReadSize

EachOnce ==
  courteous /\ Fits =>
    \A i \in DOMAIN taken :
      taken[i] = [tag |-> i, count |-> Length[i] - HeaderSize, bytes |-> Bytes(i)]

\* A message such a client has sent is handled, and its handler returns, unless
\* the connection breaks.
Handled == IF thread = "handling" THEN Len(taken) - 1 ELSE Len(taken)

EachHandled ==
  \A m \in Message :
    sent >= m ~> (Handled >= m \/ peer = "reset" \/ ~courteous)
=============================================================================
