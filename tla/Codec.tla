------------------------------- MODULE Codec --------------------------------
(***************************************************************************)
(* utils.c, buffer.c, lso_writer.c, lso_reader.c and message.c as pure     *)
(* functions: integers and strings through signed bytes, a buffer that     *)
(* grows, and the header in front of a message.                            *)
(*                                                                         *)
(* A buffer is a record of its bytes, as many as its capacity, with the    *)
(* fields count and offset.  Positions are those of the code and start at  *)
(* zero.  Bytes that are allocated and not set are Junk.                   *)
(***************************************************************************)
EXTENDS Integers, Sequences

CONSTANT Junk

Int16 == {v \in Int : -32768 <= v /\ v <= 32767}
Int32 == {v \in Int : -2147483647 - 1 <= v /\ v <= 2147483647}

-----------------------------------------------------------------------------
(* Integers.                                                               *)

\* (int8_t) of an integer.
Signed(n) == LET b == n % 256 IN IF b < 128 THEN b ELSE b - 256

write_int16(v) == <<Signed(v \div 256), Signed(v)>>
write_int32(v) ==
  <<Signed(v \div 16777216), Signed(v \div 65536), Signed(v \div 256), Signed(v)>>

\* Mutant: a byte is taken as unsigned, as one would expect of it.
MutantOr(high, low) == high + (IF low < 0 THEN low + 256 ELSE low)

\* high | low, where the bits of high end where those of low begin: a negative
\* low has every bit above its own set.
Or(high, low) == IF low < 0 THEN low ELSE high + low

read_int16(b) == Or(b[1] * 256, b[2])
read_int32(b) == Or(Or(Or(b[1] * 16777216, b[2] * 65536), b[3] * 256), b[4])

\* The integers that come back as they were written: where a byte other than
\* the first has its sign bit, all bytes in front of it are the sign of v.
Exact16(v) == Signed(v) < 0 => -128 <= v /\ v < 0
Exact32(v) ==
  /\ Signed(v) < 0 => -128 <= v /\ v < 0
  /\ Signed(v \div 256) < 0 => -32768 <= v /\ v < 0
  /\ Signed(v \div 65536) < 0 => -8388608 <= v /\ v < 0

-----------------------------------------------------------------------------
(* Buffers.                                                                *)

byte_buffer_create(capacity) ==
  [bytes |-> [i \in 1 .. capacity |-> 0], count |-> 0, offset |-> 0]

byte_buffer_create_from_bytes(bytes) ==
  [bytes |-> bytes, count |-> Len(bytes), offset |-> 0]

\* Mutant: the bytes are not copied into the larger buffer.
Mutant_byte_buffer_ensure_size(b, space) ==
  [b EXCEPT !.bytes = [i \in 1 .. (IF space <= Len(@) THEN Len(@) ELSE space) |->
                         IF space <= Len(@) THEN @[i] ELSE Junk]]

byte_buffer_ensure_size(b, space) ==
  [b EXCEPT !.bytes = [i \in 1 .. (IF space <= Len(@) THEN Len(@) ELSE space) |->
                         IF i <= Len(@) THEN @[i] ELSE Junk]]

\* The bytes bs at a position of b.
Put(b, position, bs) ==
  [b EXCEPT !.bytes = [i \in 1 .. Len(@) |->
                         IF i \in position + 1 .. position + Len(bs)
                           THEN bs[i - position] ELSE @[i]]]

Payload(b) == SubSeq(b.bytes, b.offset + 1, b.offset + b.count)

-----------------------------------------------------------------------------
(* The writer.                                                             *)

lso_writer_initialize(minLength) ==
  [buffer |-> byte_buffer_create(minLength), position |-> 0]

\* lso_writer_write_int8, _int16, _int32.
lso_writer_write(w, bs) ==
  LET end == w.position + Len(bs)
  IN  [buffer   |-> [Put(byte_buffer_ensure_size(w.buffer, end), w.position, bs)
                       EXCEPT !.count = IF end > @ THEN end ELSE @],
       position |-> end]

\* The terminating zero is written and counted.
StringBytes(s) == write_int32(Len(s) + 1) \o s \o <<0>>

-----------------------------------------------------------------------------
(* Messages.                                                               *)

HeaderLength == 2

\* byte_buffer_clone is the buffer itself here.
message_create_from_writer(tag, w) == [tag |-> tag, buffer |-> w.buffer]

message_to_buffer(m) ==
  Put(Put([byte_buffer_create(m.buffer.count + HeaderLength)
             EXCEPT !.count = m.buffer.count + HeaderLength],
          0, write_int16(m.tag)),
      HeaderLength, SubSeq(m.buffer.bytes, 1, m.buffer.count))

message_create_from_byte_buffer(b) ==
  [tag    |-> read_int16(SubSeq(b.bytes, b.offset + 1, b.offset + HeaderLength)),
   buffer |-> [b EXCEPT !.offset = @ + HeaderLength, !.count = @ - HeaderLength]]

-----------------------------------------------------------------------------
(* The reader.                                                             *)

lso_reader_create(b) == [buffer |-> b, position |-> 0]

CanRead(r, n) == r.position + n <= r.buffer.count

\* The n bytes the reader is at, and the reader behind them.
Ahead(r, n) ==
  SubSeq(r.buffer.bytes, r.buffer.offset + r.position + 1, r.buffer.offset + r.position + n)
Skip(r, n) == [r EXCEPT !.position = @ + n]

\* What is not there reads as zero, and the reader stays where it is.
lso_reader_read_int8(r)  == IF CanRead(r, 1) THEN Ahead(r, 1)[1] ELSE 0
lso_reader_read_int16(r) == IF CanRead(r, 2) THEN read_int16(Ahead(r, 2)) ELSE 0
lso_reader_read_int32(r) == IF CanRead(r, 4) THEN read_int32(Ahead(r, 4)) ELSE 0

\* The length is followed whatever it is.  At -1 the closing zero falls in front
\* of the memory of the string, where there is a zero: what is read is Junk and
\* the reader is a byte back.  Other lengths below zero get no memory, and one
\* beyond the bytes reads what is not the buffer's: not ok.
lso_reader_read_string(r) ==
  LET length == lso_reader_read_int32(r)
  IN  IF ~CanRead(r, 4)
      THEN [ok |-> TRUE, value |-> <<Junk>>, reader |-> r]
      ELSE [ok     |-> length >= -1 /\ r.buffer.offset + r.position + 4 + length <= Len(r.buffer.bytes),
            value  |-> IF length = -1 THEN <<Junk>> ELSE Ahead(Skip(r, 4), length),
            reader |-> Skip(r, 4 + length)]
=============================================================================
