---------------------------- MODULE FramingProofs ----------------------------
(***************************************************************************)
(* Theorems about the framing of messages, for messages of any lengths and *)
(* any size of a read: the bytes are taken in order, each once, however    *)
(* the stream is cut, and a client that waits, and whose messages fit a    *)
(* read, has each handled once and whole.                                  *)
(***************************************************************************)
EXTENDS Framing, SequenceTheorems, TLAPS

Byte == [message : Nat, place : Nat]

Types ==
  /\ sent \in 0 .. Len(Length)
  /\ flight \in Seq(Byte) /\ socket \in Seq(Byte)
  /\ taken \in Seq([tag : Nat, count : Int, bytes : Seq(Byte)])
  /\ peer \in {"open", "closed", "reset"}
  /\ thread \in {"reading", "handling", "leaving", "removing", "freed"}
  /\ inRoom \in BOOLEAN /\ busy \in BOOLEAN /\ locks \in 0 .. MaxLocks
  /\ courteous \in BOOLEAN

LEMMA BytesType ==
  ASSUME NEW m \in Message
  PROVE  Bytes(m) \in Seq(Byte) /\ Len(Bytes(m)) = Length[m] /\ Length[m] \in Nat /\ Length[m] >= 2
<1>1. DOMAIN Length = 1 .. Len(Length) /\ Length[m] \in Nat /\ Length[m] >= 2 /\ m \in Nat
  BY FramingAssumption DEF Message
<1>2. \A i \in 1 .. Length[m] : Bytes(m)[i] \in Byte
  BY <1>1 DEF Bytes, Byte
<1>3. Bytes(m) \in [1 .. Length[m] -> Byte]
  BY <1>2 DEF Bytes
<1> QED
  BY <1>1, <1>3

LEMMA Cut ==
  ASSUME NEW S, NEW s \in Seq(S), NEW n \in 0 .. Len(s)
  PROVE  /\ SubSeq(s, 1, n) \in Seq(S) /\ Len(SubSeq(s, 1, n)) = n
         /\ SubSeq(s, n + 1, Len(s)) \in Seq(S)
         /\ SubSeq(s, 1, n) \o SubSeq(s, n + 1, Len(s)) = s
         /\ n = Len(s) => SubSeq(s, 1, n) = s /\ SubSeq(s, n + 1, Len(s)) = <<>>
<1>1. /\ SubSeq(s, 1, n) \in Seq(S) /\ Len(SubSeq(s, 1, n)) = n
      /\ SubSeq(s, n + 1, Len(s)) \in Seq(S)
  OBVIOUS
<1>2. SubSeq(s, 1, n) \o SubSeq(s, n + 1, Len(s)) = SubSeq(s, 1, Len(s))
  <2>1. 1 \in 1 .. Len(s) + 1 /\ n \in 1 - 1 .. Len(s) /\ Len(s) \in n .. Len(s)
    OBVIOUS
  <2> QED
    BY <2>1, ConcatAdjacentSubSeq
<1>3. SubSeq(s, 1, Len(s)) = s
  BY SubSeqFull
<1>4. n = Len(s) => SubSeq(s, n + 1, Len(s)) = <<>>
  BY SubSeqEmpty
<1> QED
  BY <1>1, <1>2, <1>3, <1>4

\* What a read takes and leaves.
LEMMA Halves ==
  ASSUME Types
  PROVE  /\ Chunk \in Seq(Byte) /\ Unread \in Seq(Byte) /\ Chunk \o Unread = socket
         /\ socket # <<>> => Chunk # <<>>
         /\ Len(socket) <= ReadSize => Chunk = socket /\ Unread = <<>>
<1> USE FramingAssumption DEF Types
<1>1. CASE Len(socket) < ReadSize
  <2>1. Chunk = SubSeq(socket, 1, Len(socket))
    BY <1>1 DEF Chunk
  <2>2. Unread = <<>>
    BY <1>1 DEF Unread
  <2>3. Chunk = socket
    BY <2>1, Cut
  <2> QED
    BY <2>2, <2>3
<1>2. CASE Len(socket) >= ReadSize
  <2>1. Chunk = SubSeq(socket, 1, ReadSize)
    BY <1>2 DEF Chunk
  <2>2. ReadSize \in 0 .. Len(socket) /\ ReadSize > 0
    BY <1>2
  <2> HIDE DEF Types
  <2>3. /\ Chunk \in Seq(Byte) /\ Unread \in Seq(Byte) /\ Chunk \o Unread = socket
        /\ Len(Chunk) = ReadSize
        /\ ReadSize = Len(socket) => Chunk = socket /\ Unread = <<>>
    <3>1. socket \in Seq(Byte)
      BY DEF Types
    <3>2. ReadSize \in 0 .. Len(socket)
      BY <2>2
    <3> HIDE FramingAssumption
    <3>3. /\ SubSeq(socket, 1, ReadSize) \in Seq(Byte)
          /\ Len(SubSeq(socket, 1, ReadSize)) = ReadSize
          /\ SubSeq(socket, ReadSize + 1, Len(socket)) \in Seq(Byte)
          /\ SubSeq(socket, 1, ReadSize) \o SubSeq(socket, ReadSize + 1, Len(socket)) = socket
      BY <3>1, <3>2, Cut, ZenonT(30)
    <3>4. ReadSize = Len(socket) =>
            SubSeq(socket, 1, ReadSize) = socket /\ SubSeq(socket, ReadSize + 1, Len(socket)) = <<>>
      BY <3>1, <3>2, Cut, ZenonT(30)
    <3> QED
      BY <2>1, <3>3, <3>4 DEF Unread
  <2>4. Chunk # <<>>
    BY <2>2, <2>3
  <2> QED
    BY <2>2, <2>3, <2>4, <1>2
<1> QED
  BY <1>1, <1>2

\* The message made of a chunk.
LEMMA TagType ==
  ASSUME NEW bytes \in Seq(Byte), NEW t \in Tags(bytes)
  PROVE  t \in Nat
<1>1. Message \cup {NoTag} \subseteq Nat
  BY FramingAssumption DEF Message, NoTag
<1>2. Len(bytes) >= 2 => bytes[1].message \in Nat
  <2>1. Len(bytes) >= 2 => bytes[1] \in Byte
    BY ElementOfSeq
  <2> QED
    BY <2>1 DEF Byte
<1> QED
  BY <1>1, <1>2 DEF Tags, HeaderSize

\* The thread between two reads and at its end, and the other threads.
Elsewhere == Handle \/ EndLoop \/ LeaveRoom \/ FreeClient \/ Others

LEMMA ElsewhereLeaves ==
  ASSUME Elsewhere
  PROVE  UNCHANGED connection
BY DEF Elsewhere, Handle, EndLoop, LeaveRoom, FreeClient, Others, Lock, Unlock, MoveClient

LEMMA TypesInit == Init => Types
<1> SUFFICES ASSUME Init PROVE Types
  OBVIOUS
<1>1. 0 \in 0 .. MaxLocks /\ 0 \in 0 .. Len(Length)
  BY FramingAssumption
<1>2. <<>> \in Seq(Byte) /\ <<>> \in Seq([tag : Nat, count : Int, bytes : Seq(Byte)])
  OBVIOUS
<1> QED
  BY <1>1, <1>2 DEF Init, Types

LEMMA TypesStep ==
  ASSUME Types, [Next]_vars
  PROVE  Types'
<1> USE FramingAssumption DEF Types, room
<1>1. CASE Send
  <2>1. sent' \in Message /\ sent' \in 0 .. Len(Length)
    BY <1>1 DEF Send, Message
  <2>2. flight' \in Seq(Byte)
    BY <1>1, <2>1, BytesType DEF Send
  <2> QED
    BY <1>1, <2>1, <2>2 DEF Send
<1>2. ASSUME NEW n \in 1 .. Len(flight), Arrive(n) PROVE Types'
  <2>1. n \in 0 .. Len(flight)
    OBVIOUS
  <2>2. SubSeq(flight, 1, n) \in Seq(Byte) /\ SubSeq(flight, n + 1, Len(flight)) \in Seq(Byte)
    BY <2>1, Cut
  <2>3. flight' \in Seq(Byte) /\ socket' \in Seq(Byte)
    BY <1>2, <2>2 DEF Arrive
  <2> QED
    BY <1>2, <2>3 DEF Arrive
<1>3. CASE Close
  BY <1>3 DEF Close
<1>4. CASE Reset
  BY <1>4 DEF Reset
<1>5. CASE Read
  <2>1. PICK t \in Tags(Chunk) : taken' = Append(taken, message_create_from_byte_buffer(t, Chunk))
    BY <1>5 DEF Read
  <2>2. Chunk \in Seq(Byte) /\ Unread \in Seq(Byte)
    BY Halves
  <2>3. t \in Nat
    BY <2>2, TagType
  <2> HIDE DEF Types
  <2>4. message_create_from_byte_buffer(t, Chunk) \in [tag : Nat, count : Int, bytes : Seq(Byte)]
    BY <2>2, <2>3 DEF message_create_from_byte_buffer, HeaderSize
  <2>5. taken' \in Seq([tag : Nat, count : Int, bytes : Seq(Byte)])
    BY <2>1, <2>4 DEF Types
  <2> QED
    BY <1>5, <2>2, <2>5 DEF Read, Types
<1>6. CASE Elsewhere
  <2>1. UNCHANGED <<sent, flight, socket, peer, taken, courteous>>
    BY <1>6, ElsewhereLeaves DEF connection
  <2>2. CASE Handle \/ EndLoop \/ LeaveRoom \/ FreeClient
    BY <2>1, <2>2 DEF Handle, EndLoop, LeaveRoom, FreeClient, room
  <2>3. CASE Others
    <3>1. thread' = thread
      BY <2>3 DEF Others, Lock, Unlock, MoveClient
    <3>2. inRoom' \in BOOLEAN /\ busy' \in BOOLEAN /\ locks' \in 0 .. MaxLocks
      <4>1. /\ inRoom \in BOOLEAN /\ busy \in BOOLEAN
            /\ locks \in 0 .. MaxLocks /\ MaxLocks \in Nat
        OBVIOUS
      <4> HIDE FramingAssumption DEF Types
      <4>2. CASE Lock
        BY <4>1, <4>2 DEF Lock
      <4>3. CASE Unlock
        BY <4>1, <4>3 DEF Unlock
      <4>4. CASE MoveClient
        BY <4>1, <4>4 DEF MoveClient
      <4> QED
        BY <2>3, <4>2, <4>3, <4>4 DEF Others
    <3> QED
      BY <2>1, <3>1, <3>2
  <2> QED
    BY <1>6, <2>2, <2>3 DEF Elsewhere
<1>7. CASE UNCHANGED vars
  BY <1>7 DEF vars, connection, room
<1> QED
  BY <1>1, <1>2, <1>3, <1>4, <1>5, <1>6, <1>7 DEF Next, Network, Thread, Elsewhere

-----------------------------------------------------------------------------
Whole(i) == [tag |-> i, count |-> Length[i] - HeaderSize, bytes |-> Bytes(i)]

\* Of a client that waits, at most the last message is not handled: it is on its
\* way or in the socket as a whole.
OneAtATime ==
  /\ \A i \in DOMAIN taken : taken[i] = Whole(i)
  /\ \/ flight = <<>> /\ socket = <<>>
     \/ /\ sent = Len(taken) + 1
        /\ \/ flight = Bytes(sent) /\ socket = <<>>
           \/ flight = <<>> /\ socket = Bytes(sent)

Waits == courteous /\ Fits => OneAtATime

LEMMA WaitsInit == Init => Waits
BY DEF Init, Waits, OneAtATime

LEMMA WaitsStep ==
  ASSUME Types, Waits, [Next]_vars
  PROVE  Waits'
<1> USE FramingAssumption
<1> SUFFICES ASSUME courteous', Fits' PROVE OneAtATime'
  BY DEF Waits
<1>1. CASE Send
  <2>1. courteous /\ Len(taken) = sent /\ sent \in Nat
    BY <1>1, LenProperties DEF Send, Types
  <2>2. Fits
    BY <1>1, <2>1 DEF Send, Fits
  <2>3. OneAtATime /\ flight = <<>> /\ socket = <<>>
    BY <2>1, <2>2 DEF Waits, OneAtATime, Types
  <2>4. sent' \in Message
    BY <1>1 DEF Send, Message, Types
  <2>5. flight' = Bytes(sent')
    BY <1>1, <2>3, <2>4, BytesType DEF Send
  <2>6. sent' = Len(taken') + 1 /\ socket' = <<>> /\ taken' = taken
    BY <1>1, <2>1, <2>3 DEF Send
  <2> QED
    BY <2>3, <2>5, <2>6 DEF OneAtATime
<1>2. ASSUME NEW n \in 1 .. Len(flight), Arrive(n) PROVE OneAtATime'
  <2>1. courteous /\ n = Len(flight) /\ n \in 0 .. Len(flight) /\ UNCHANGED <<sent, taken>>
    <3>1. courteous' = (courteous /\ n = Len(flight)) /\ UNCHANGED <<sent, taken>>
      BY <1>2 DEF Arrive
    <3>2. courteous /\ n = Len(flight)
      BY <3>1, Zenon
    <3>3. n \in 0 .. Len(flight)
      OBVIOUS
    <3> QED
      BY <3>1, <3>2, <3>3
  <2>2. OneAtATime
    BY <2>1 DEF Waits, Fits
  <2>3. SubSeq(flight, 1, n) = flight /\ SubSeq(flight, n + 1, Len(flight)) = <<>>
    BY <2>1, Cut DEF Types
  <2>4. flight = Bytes(sent) /\ socket = <<>> /\ sent = Len(taken) + 1
    BY <2>1, <2>2 DEF OneAtATime
  <2>5. socket' = flight /\ flight' = <<>>
    BY <1>2, <2>3, <2>4 DEF Arrive, Types
  <2> QED
    BY <2>1, <2>2, <2>4, <2>5 DEF OneAtATime
<1>3. CASE Read
  <2>1. courteous /\ UNCHANGED <<sent, flight>> /\ socket # <<>>
    BY <1>3 DEF Read
  <2>2. OneAtATime
    BY <2>1 DEF Waits, Fits
  <2>3. sent = Len(taken) + 1 /\ socket = Bytes(sent) /\ flight = <<>>
    BY <2>1, <2>2 DEF OneAtATime
  <2>4. sent \in Message /\ sent \in Nat
    BY <2>3 DEF Types, Message
  <2>5. Len(socket) = Length[sent] /\ Len(socket) >= 2 /\ Len(socket) <= ReadSize
    BY <2>1, <2>3, <2>4, BytesType DEF Fits
  <2>6. Chunk = Bytes(sent) /\ Unread = <<>>
    BY <2>3, <2>5, Halves
  <2>7. Tags(Bytes(sent)) = {sent}
    <3>1. Bytes(sent)[1] = [message |-> sent, place |-> 1]
      BY <2>3, <2>4, <2>5, BytesType DEF Bytes
    <3> QED
      BY <2>3, <2>5, <3>1 DEF Tags, HeaderSize
  <2>8. message_create_from_byte_buffer(sent, Bytes(sent)) = Whole(sent)
    BY <2>3, <2>5 DEF message_create_from_byte_buffer, Whole
  <2>9. taken' = Append(taken, Whole(sent))
    BY <1>3, <2>6, <2>7, <2>8 DEF Read
  <2>10. \A i \in DOMAIN taken' : taken'[i] = Whole(i)
    <3>1. Len(taken) \in Nat /\ DOMAIN taken = 1 .. Len(taken)
      BY DEF Types
    <3>2. /\ DOMAIN taken' = 1 .. Len(taken) + 1 /\ taken'[Len(taken) + 1] = Whole(sent)
          /\ \A i \in 1 .. Len(taken) : taken'[i] = taken[i]
      BY <2>9, <3>1 DEF Types
    <3>3. \A i \in 1 .. Len(taken) + 1 : i \in 1 .. Len(taken) \/ i = sent
      BY <2>3, <3>1
    <3> QED
      BY <2>2, <2>3, <3>1, <3>2, <3>3 DEF OneAtATime
  <2>11. (\A i \in DOMAIN taken : taken[i] = Whole(i))'
    BY <2>10 DEF Whole, Bytes
  <2> QED
    BY <1>3, <2>1, <2>3, <2>6, <2>11 DEF OneAtATime, Read
<1>4. CASE Reset
  BY <1>4 DEF Reset, Waits, Fits, OneAtATime
<1>5. CASE Close \/ Elsewhere \/ UNCHANGED vars
  <2>1. UNCHANGED <<sent, flight, socket, taken, courteous>>
    BY <1>5, ElsewhereLeaves DEF Close, vars, connection
  <2> QED
    BY <2>1 DEF Waits, Fits, OneAtATime
<1> QED
  BY <1>1, <1>2, <1>3, <1>4, <1>5 DEF Next, Network, Thread, Elsewhere

\* message.c, "there's tag header payload": each message of a client that waits,
\* and whose messages fit a read and arrive in one piece, is handled once, in
\* order and whole.
THEOREM EachHandledOnce == Spec => []EachOnce
<1>1. Init => Types /\ Waits
  BY TypesInit, WaitsInit
<1>2. Types /\ Waits /\ [Next]_vars => Types' /\ Waits'
  BY TypesStep, WaitsStep
<1>3. Types /\ Waits => EachOnce
  BY DEF Waits, OneAtATime, EachOnce, Whole
<1> QED
  BY <1>1, <1>2, <1>3, PTL DEF Spec

-----------------------------------------------------------------------------
(* The bytes of several sequences in one.  FlattenSeq is a recursive       *)
(* function: that there is one such function, for the pieces there are so  *)
(* far, is part of the invariant below, and a step adds one piece.         *)

Joins(s, f) == f = [i \in 1 .. Len(s) |-> IF i = 1 THEN s[i] ELSE f[i - 1] \o s[i]]

Joinable(s) == \E f : Joins(s, f) /\ \A g : Joins(s, g) => g = f

LEMMA JoinedBy ==
  ASSUME NEW s, Joinable(s), NEW f, Joins(s, f), Len(s) # 0
  PROVE  FlattenSeq(s) = f[Len(s)]
<1> DEFINE flatten == CHOOSE g : Joins(s, g)
<1>1. Joins(s, flatten)
  OBVIOUS
<1>2. flatten = f
  BY <1>1 DEF Joinable
<1>3. FlattenSeq(s) = flatten[Len(s)]
  BY DEF FlattenSeq, Joins
<1> QED
  BY <1>2, <1>3

LEMMA JoinsNothing == Joinable(<<>>) /\ FlattenSeq(<<>>) = <<>>
<1>1. Len(<<>>) = 0
  OBVIOUS
<1>2. FlattenSeq(<<>>) = <<>>
  BY <1>1 DEF FlattenSeq
<1>3. \A f, g : Joins(<<>>, f) /\ Joins(<<>>, g) => f = g
  BY <1>1 DEF Joins
<1>4. Joins(<<>>, <<>>)
  BY <1>1 DEF Joins
<1> QED
  BY <1>2, <1>3, <1>4 DEF Joinable

\* One more piece goes behind what there is.
LEMMA JoinsOneMore ==
  ASSUME NEW S, NEW s \in Seq(Seq(S)), NEW e \in Seq(S), Joinable(s)
  PROVE  Joinable(Append(s, e)) /\ FlattenSeq(Append(s, e)) = FlattenSeq(s) \o e
<1> DEFINE n == Len(s)
           z == Append(s, e)
<1>1. n \in Nat /\ Len(z) = n + 1 /\ z[n + 1] = e /\ \A i \in 1 .. n : z[i] = s[i]
  BY AppendProperties
<1> HIDE DEF n, z
<1>2. PICK f : Joins(s, f) /\ \A g : Joins(s, g) => g = f
  BY DEF Joinable
<1>3. f = [i \in 1 .. n |-> IF i = 1 THEN s[i] ELSE f[i - 1] \o s[i]]
  BY <1>2 DEF Joins, n
<1> DEFINE h == [i \in 1 .. n + 1 |-> IF i \in 1 .. n THEN f[i]
                                      ELSE IF n = 0 THEN e ELSE f[n] \o e]
<1>4. /\ \A i \in 1 .. n : h[i] = f[i]
      /\ h[n + 1] = IF n = 0 THEN e ELSE f[n] \o e
      /\ h = [i \in 1 .. n + 1 |-> h[i]]
  BY <1>1
<1> HIDE DEF h
<1>5. \A i \in 1 .. n + 1 : h[i] = IF i = 1 THEN z[i] ELSE h[i - 1] \o z[i]
  <2> TAKE i \in 1 .. n + 1
  <2>1. CASE i \in 1 .. n
    <3>1. f[i] = IF i = 1 THEN s[i] ELSE f[i - 1] \o s[i]
      BY <1>3, <2>1
    <3>2. i # 1 => i - 1 \in 1 .. n
      BY <2>1, <1>1
    <3> QED
      BY <1>1, <1>4, <2>1, <3>1, <3>2
  <2>2. CASE i = n + 1
    <3>1. i # 1 => n # 0 /\ i - 1 = n /\ n \in 1 .. n
      BY <2>2, <1>1
    <3>2. i = 1 => n = 0
      BY <2>2, <1>1
    <3> QED
      BY <1>1, <1>4, <2>2, <3>1, <3>2
  <2> QED
    BY <1>1, <2>1, <2>2
<1>6. Joins(z, h)
  BY <1>1, <1>4, <1>5 DEF Joins
<1>7. ASSUME NEW g, Joins(z, g) PROVE g = h
  <2>1. g = [i \in 1 .. n + 1 |-> IF i = 1 THEN z[i] ELSE g[i - 1] \o z[i]]
    BY <1>1, <1>7 DEF Joins
  <2> DEFINE k == [i \in 1 .. n |-> g[i]]
  <2>2. \A i \in 1 .. n : k[i] = IF i = 1 THEN s[i] ELSE k[i - 1] \o s[i]
    <3> TAKE i \in 1 .. n
    <3>1. i \in 1 .. n + 1 /\ (i # 1 => i - 1 \in 1 .. n)
      BY <1>1
    <3>2. g[i] = IF i = 1 THEN z[i] ELSE g[i - 1] \o z[i]
      BY <2>1, <3>1
    <3>3. k[i] = g[i] /\ (i # 1 => k[i - 1] = g[i - 1])
      BY <3>1
    <3> QED
      BY <1>1, <3>2, <3>3
  <2>3. Joins(s, k)
    BY <2>2 DEF Joins, n
  <2>4. k = f
    BY <1>2, <2>3
  <2>5. \A i \in 1 .. n : g[i] = f[i]
    BY <2>4
  <2>6. g[n + 1] = IF n = 0 THEN e ELSE f[n] \o e
    <3>1. n + 1 \in 1 .. n + 1 /\ (n + 1 = 1 <=> n = 0) /\ (n # 0 => n \in 1 .. n)
          /\ (n + 1) - 1 = n
      BY <1>1
    <3>2. g[n + 1] = IF n + 1 = 1 THEN z[n + 1] ELSE g[n] \o z[n + 1]
      BY <2>1, <3>1
    <3> QED
      BY <1>1, <2>5, <3>1, <3>2
  <2>7. \A i \in 1 .. n + 1 : g[i] = h[i]
    <3>1. \A i \in 1 .. n + 1 : i \in 1 .. n \/ i = n + 1
      BY <1>1
    <3> QED
      BY <3>1, <1>4, <2>5, <2>6, Zenon
  <2> QED
    BY <1>4, <2>1, <2>7
<1>8. Joinable(z)
  BY <1>6, <1>7 DEF Joinable
<1>9. FlattenSeq(z) = h[n + 1]
  BY <1>1, <1>6, <1>8, JoinedBy
<1>10. FlattenSeq(s) = IF n = 0 THEN <<>> ELSE f[n]
  <2>1. CASE n = 0
    BY <2>1, EmptySeq, JoinsNothing DEF n
  <2>2. CASE n # 0
    BY <2>2, <1>2, JoinedBy DEF n
  <2> QED
    BY <2>1, <2>2
<1>11. <<>> \o e = e
  BY ConcatEmptySeq
<1> QED
  BY <1>1, <1>4, <1>8, <1>9, <1>10, <1>11 DEF z

-----------------------------------------------------------------------------
(* The stream.                                                             *)

Pieces == [i \in DOMAIN taken |-> taken[i].bytes]
Sendings == [m \in 1 .. sent |-> Bytes(m)]

LEMMA PiecesType == ASSUME Types PROVE Pieces \in Seq(Seq(Byte)) /\ Len(Pieces) = Len(taken)
<1>1. DOMAIN taken = 1 .. Len(taken) /\ Len(taken) \in Nat
      /\ \A i \in 1 .. Len(taken) : taken[i].bytes \in Seq(Byte)
  <2> DEFINE M == [tag : Nat, count : Int, bytes : Seq(Byte)]
  <2>1. \A m \in M : m.bytes \in Seq(Byte)
    OBVIOUS
  <2>2. taken \in Seq(M)
    BY DEF Types
  <2> HIDE DEF M
  <2> QED
    BY <2>1, <2>2
<1>2. Pieces \in [1 .. Len(taken) -> Seq(Byte)]
  BY <1>1 DEF Pieces
<1> QED
  BY <1>1, <1>2

LEMMA SendingsType == ASSUME Types PROVE Sendings \in Seq(Seq(Byte)) /\ Len(Sendings) = sent
<1>1. sent \in Nat /\ \A m \in 1 .. sent : Bytes(m) \in Seq(Byte)
  <2>1. sent \in Nat /\ 1 .. sent \subseteq Message
    BY FramingAssumption DEF Types, Message
  <2> QED
    BY <2>1, BytesType
<1>2. Sendings \in [1 .. sent -> Seq(Byte)]
  BY <1>1 DEF Sendings
<1> QED
  BY <1>1, <1>2

Ordered ==
  /\ Joinable(Pieces) /\ TakenBytes \in Seq(Byte)
  /\ Joinable(Sendings) /\ Stream \in Seq(Byte)
  /\ IF peer = "reset"
       THEN socket = <<>> /\ flight = <<>> /\ IsPrefix(TakenBytes, Stream)
       ELSE TakenBytes \o (socket \o flight) = Stream

LEMMA OrderedInit == Init => Ordered
<1> SUFFICES ASSUME Init PROVE Ordered
  OBVIOUS
<1>1. Pieces = <<>> /\ Sendings = <<>>
  BY DEF Init, Pieces, Sendings
<1>2. TakenBytes = <<>> /\ Stream = <<>>
  BY <1>1, JoinsNothing DEF TakenBytes, Stream, Pieces, Sendings
<1>3. <<>> \o (<<>> \o <<>>) = <<>> /\ <<>> \in Seq(Byte)
  OBVIOUS
<1>4. socket = <<>> /\ flight = <<>> /\ peer # "reset"
  BY DEF Init
<1> QED
  BY <1>1, <1>2, <1>3, <1>4, JoinsNothing DEF Ordered

LEMMA Together ==
  ASSUME NEW x \in Seq(Byte), NEW y \in Seq(Byte)
  PROVE  x \o y \in Seq(Byte)
BY ConcatProperties

LEMMA Moved ==
  ASSUME NEW x \in Seq(Byte), NEW y \in Seq(Byte), NEW z \in Seq(Byte)
  PROVE  (x \o y) \o z = x \o (y \o z)
BY ConcatAssociative

LEMMA StartIsPrefix ==
  ASSUME NEW S, NEW s \in Seq(S), NEW t \in Seq(S)
  PROVE  IsPrefix(s, s \o t)
<1>1. s \o t \in Seq(S) /\ Len(s) \in Nat /\ Len(s) <= Len(s \o t)
  BY ConcatProperties, LenProperties
<1>2. CASE Len(s) = 0
  BY <1>1, <1>2, SubSeqEmpty DEF IsPrefix
<1>3. CASE Len(s) # 0
  <2>1. 1 \in 1 .. Len(s) /\ Len(s) \in 1 .. Len(s)
    BY <1>1, <1>3
  <2>2. SubSeq(s \o t, 1, Len(s)) = SubSeq(s, 1, Len(s))
    BY <2>1, SubSeqOfConcat1
  <2> QED
    BY <1>1, <2>2 DEF IsPrefix
<1> QED
  BY <1>2, <1>3

\* Steps that neither send nor read.
LEMMA StreamStays ==
  ASSUME UNCHANGED <<taken, sent>>
  PROVE  UNCHANGED <<Pieces, TakenBytes, Sendings, Stream>>
BY DEF Pieces, TakenBytes, Sendings, Stream, Bytes

LEMMA OrderedStep ==
  ASSUME Types, Types', Ordered, [Next]_vars
  PROVE  Ordered'
<1>0. /\ socket \in Seq(Byte) /\ flight \in Seq(Byte)
      /\ TakenBytes \in Seq(Byte) /\ Stream \in Seq(Byte)
  BY DEF Types, Ordered
<1>s. socket \in Seq(Byte)
  BY <1>0
<1>f. flight \in Seq(Byte)
  BY <1>0
<1>t. TakenBytes \in Seq(Byte)
  BY <1>0
<1>1. CASE Send
  <2>1. /\ peer # "reset" /\ peer' = peer /\ sent' = sent + 1
        /\ flight' = flight \o Bytes(sent') /\ UNCHANGED <<socket, taken>>
    BY <1>1 DEF Send
  <2> DEFINE e == Bytes(sent')
  <2>2. e \in Seq(Byte)
    <3>1. sent' \in Message
      BY <1>1, FramingAssumption DEF Send, Types, Message
    <3> QED
      BY <3>1, BytesType
  <2>3. UNCHANGED <<Pieces, TakenBytes>>
    BY <2>1 DEF Pieces, TakenBytes
  <2>4. Sendings' = Append(Sendings, e)
    <3>1. Sendings' = [m \in 1 .. sent + 1 |-> Bytes(m)]
      BY <2>1 DEF Sendings, Bytes
    <3>2. sent \in Nat /\ Append(Sendings, e) = [m \in 1 .. sent + 1 |-> IF m \in 1 .. sent THEN Bytes(m) ELSE e]
      BY SendingsType DEF Types, Sendings
    <3>3. \A m \in 1 .. sent + 1 : m \in 1 .. sent \/ Bytes(m) = e
      BY <2>1, <3>2
    <3> QED
      BY <3>1, <3>2, <3>3
  <2> HIDE DEF e
  <2>5. Joinable(Sendings)' /\ Stream' = Stream \o e
    <3>1. Joinable(Append(Sendings, e)) /\ FlattenSeq(Append(Sendings, e)) = FlattenSeq(Sendings) \o e
      BY <2>2, SendingsType, JoinsOneMore DEF Ordered
    <3>2. Stream = FlattenSeq(Sendings) /\ Stream' = FlattenSeq(Sendings')
      BY DEF Stream, Sendings
    <3>3. Joinable(Sendings')
      BY <2>4, <3>1
    <3> QED
      BY <2>4, <3>1, <3>2, <3>3 DEF Joinable, Joins
  <2>6. Stream' \in Seq(Byte)
    BY <1>0, <2>2, <2>5, ConcatProperties
  <2>7. TakenBytes \o (socket \o flight) = Stream
    BY <2>1 DEF Ordered
  <2>8. TakenBytes \o (socket \o (flight \o e)) = Stream \o e
    <3> DEFINE m == socket \o flight
    <3>1. m \in Seq(Byte)
      BY <1>0, Together
    <3>2. m \o e = socket \o (flight \o e)
      BY <1>s, <1>f, <2>2, Moved
    <3> HIDE DEF m
    <3>3. (TakenBytes \o m) \o e = TakenBytes \o (m \o e)
      BY <1>t, <2>2, <3>1, Moved
    <3>4. TakenBytes \o m = Stream
      BY <2>7 DEF m
    <3> QED
      BY <3>2, <3>3, <3>4
  <2> QED
    BY <2>1, <2>3, <2>5, <2>6, <2>8 DEF Ordered, e
<1>2. ASSUME NEW n \in 1 .. Len(flight), Arrive(n) PROVE Ordered'
  <2>1. peer # "reset"
    <3>1. flight # <<>>
      BY <1>0
    <3> QED
      BY <3>1 DEF Ordered
  <2> DEFINE a == SubSeq(flight, 1, n)
             b == SubSeq(flight, n + 1, Len(flight))
  <2>2. a \in Seq(Byte) /\ b \in Seq(Byte) /\ a \o b = flight
    <3>1. n \in 0 .. Len(flight)
      BY <1>0
    <3> QED
      BY <1>0, <3>1, Cut
  <2>3. socket' = socket \o a /\ flight' = b /\ UNCHANGED <<sent, peer, taken>>
    BY <1>2 DEF Arrive
  <2> HIDE DEF a, b
  <2>4. (socket \o a) \o b = socket \o flight
    <3>1. (socket \o a) \o b = socket \o (a \o b)
      <4>1. a \in Seq(Byte) /\ b \in Seq(Byte)
        BY <2>2
      <4> QED
        BY <1>s, <4>1, Moved
    <3> QED
      BY <2>2, <3>1
  <2> QED
    BY <2>1, <2>3, <2>4, StreamStays DEF Ordered
<1>3. CASE Reset
  <2>1. peer # "reset" /\ peer' = "reset" /\ socket' = <<>> /\ flight' = <<>>
        /\ UNCHANGED <<sent, taken>>
    BY <1>3 DEF Reset
  <2>2. socket \o flight \in Seq(Byte)
    BY <1>0, ConcatProperties
  <2>3. IsPrefix(TakenBytes, Stream)
    BY <1>0, <2>1, <2>2, StartIsPrefix DEF Ordered
  <2>4. IsPrefix(TakenBytes, Stream)'
    BY <2>1, <2>3, StreamStays DEF IsPrefix
  <2> QED
    BY <2>1, <2>4, StreamStays DEF Ordered
<1>4. CASE Read
  <2>1. socket # <<>> /\ socket' = Unread /\ UNCHANGED <<sent, flight, peer>>
    BY <1>4 DEF Read
  <2>2. peer # "reset"
    BY <2>1 DEF Ordered
  <2>3. PICK t \in Tags(Chunk) : taken' = Append(taken, message_create_from_byte_buffer(t, Chunk))
    BY <1>4 DEF Read
  <2>4. Chunk \in Seq(Byte) /\ Unread \in Seq(Byte) /\ Chunk \o Unread = socket
    BY Halves
  <2>5. Pieces' = Append(Pieces, Chunk)
    <3> DEFINE m == message_create_from_byte_buffer(t, Chunk)
    <3>1. m.bytes = Chunk
      BY DEF message_create_from_byte_buffer
    <3> HIDE DEF m
    <3>2. Len(taken) \in Nat /\ DOMAIN taken = 1 .. Len(taken)
      BY DEF Types
    <3>3. /\ DOMAIN taken' = 1 .. Len(taken) + 1
          /\ taken'[Len(taken) + 1] = m
          /\ \A i \in 1 .. Len(taken) : taken'[i] = taken[i]
      BY <2>3 DEF Types, m
    <3>4. Pieces' = [i \in 1 .. Len(taken) + 1 |-> taken'[i].bytes]
      BY <3>3 DEF Pieces
    <3>5. Append(Pieces, Chunk)
            = [i \in 1 .. Len(taken) + 1 |-> IF i \in 1 .. Len(taken) THEN taken[i].bytes ELSE Chunk]
      BY <3>2, PiecesType DEF Pieces
    <3>6. \A i \in 1 .. Len(taken) + 1 : i \in 1 .. Len(taken) \/ i = Len(taken) + 1
      BY <3>2
    <3> QED
      BY <3>1, <3>3, <3>4, <3>5, <3>6
  <2>6. Joinable(Pieces)' /\ TakenBytes' = TakenBytes \o Chunk
    <3>1. Joinable(Append(Pieces, Chunk)) /\ FlattenSeq(Append(Pieces, Chunk)) = FlattenSeq(Pieces) \o Chunk
      BY <2>4, PiecesType, JoinsOneMore DEF Ordered
    <3>2. TakenBytes = FlattenSeq(Pieces) /\ TakenBytes' = FlattenSeq(Pieces')
      BY DEF TakenBytes, Pieces
    <3>3. Joinable(Pieces')
      BY <2>5, <3>1
    <3> QED
      BY <2>5, <3>1, <3>2, <3>3 DEF Joinable, Joins
  <2>7. TakenBytes' \in Seq(Byte)
    BY <1>0, <2>4, <2>6, ConcatProperties
  <2>8. UNCHANGED <<Sendings, Stream>>
    BY <2>1 DEF Sendings, Stream, Bytes
  <2>9. (TakenBytes \o Chunk) \o (Unread \o flight) = TakenBytes \o (socket \o flight)
    <3> DEFINE m == Unread \o flight
    <3>0. Chunk \in Seq(Byte) /\ Unread \in Seq(Byte)
      BY <2>4
    <3>1. m \in Seq(Byte)
      BY <1>0, <3>0, Together
    <3>2. socket \o flight = Chunk \o m
      <4>1. (Chunk \o Unread) \o flight = Chunk \o (Unread \o flight)
        BY <1>f, <3>0, Moved
      <4> QED
        BY <2>4, <4>1
    <3> HIDE DEF m
    <3>3. Chunk \in Seq(Byte)
      BY <3>0
    <3>4. (TakenBytes \o Chunk) \o m = TakenBytes \o (Chunk \o m)
      BY <1>t, <3>1, <3>3, Moved
    <3> QED
      BY <3>2, <3>4 DEF m
  <2> QED
    BY <2>1, <2>2, <2>6, <2>7, <2>8, <2>9 DEF Ordered
<1>5. CASE Close \/ Elsewhere \/ UNCHANGED vars
  <2>1. UNCHANGED <<sent, flight, socket, taken>> /\ (peer' = "reset" <=> peer = "reset")
    BY <1>5, ElsewhereLeaves DEF Close, vars, connection
  <2>2. IsPrefix(TakenBytes, Stream)' <=> IsPrefix(TakenBytes, Stream)
    BY <2>1, StreamStays DEF IsPrefix
  <2> QED
    BY <2>1, <2>2, StreamStays DEF Ordered
<1> QED
  BY <1>1, <1>2, <1>3, <1>4, <1>5 DEF Next, Network, Thread, Elsewhere

\* However the stream is cut, client_handler takes its bytes in order, each once,
\* and none is lost between two reads.
THEOREM NoByteLost == Spec => []BytesInOrder
<1>1. Init => Types /\ Ordered
  BY TypesInit, OrderedInit
<1>2. Types /\ Ordered /\ [Next]_vars => Types' /\ Ordered'
  BY TypesStep, OrderedStep
<1>3. Types /\ Ordered => BytesInOrder
  <2> SUFFICES ASSUME Types, Ordered PROVE BytesInOrder
    OBVIOUS
  <2>1. /\ socket \in Seq(Byte) /\ flight \in Seq(Byte) /\ socket \o flight \in Seq(Byte)
        /\ TakenBytes \in Seq(Byte)
    BY ConcatProperties DEF Types, Ordered
  <2>2. TakenBytes \o (socket \o flight) = (TakenBytes \o socket) \o flight
    BY <2>1, ConcatAssociative
  <2>3. IsPrefix(TakenBytes, TakenBytes \o (socket \o flight))
    BY <2>1, StartIsPrefix
  <2> QED
    BY <2>2, <2>3 DEF BytesInOrder, Ordered
<1> QED
  BY <1>1, <1>2, <1>3, PTL DEF Spec
=============================================================================
