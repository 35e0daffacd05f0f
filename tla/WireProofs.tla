----------------------------- MODULE WireProofs -----------------------------
(***************************************************************************)
(* Theorems about the codec, for every integer of 16 and of 32 bits, and   *)
(* for messages of any fields and any capacity of the writer's buffer: which *)
(* integers read back as they were written, that the bytes of a message    *)
(* arrive, and which of its fields are read as they were written.          *)
(***************************************************************************)
EXTENDS Wire, SequenceTheorems, TLAPS

\* The value of a signed byte, by the byte's own.
LEMMA SignedByte ==
  ASSUME NEW n \in Int
  PROVE  /\ n % 256 \in 0 .. 255
         /\ n = 256 * (n \div 256) + (n % 256)
         /\ n \div 256 \in Int
         /\ Signed(n) = IF n % 256 < 128 THEN n % 256 ELSE (n % 256) - 256
BY DEF Signed

LEMMA SignedStays == ASSUME NEW n \in -128 .. 127 PROVE Signed(n) = n
<1>1. n % 256 = IF n < 0 THEN n + 256 ELSE n
  OBVIOUS
<1> QED
  BY <1>1 DEF Signed

\* An integer whose high byte fits 8 bits, that is one of 16 bits, reads back as
\* it was written if and only if its low byte has no sign bit or the high byte is
\* nothing but the sign of it.
THEOREM Int16ReadsBack ==
  ASSUME NEW v \in Int, v \div 256 \in -128 .. 127
  PROVE  read_int16(write_int16(v)) = v <=> Exact16(v)
<1> DEFINE h == v \div 256
           l == Signed(v)
<1>1. l \in -128 .. 127 /\ v = 256 * h + (IF l < 0 THEN l + 256 ELSE l)
  <2> DEFINE m == v % 256
  <2>1. h \in Int /\ m \in 0 .. 255 /\ v = 256 * h + m /\ l = IF m < 128 THEN m ELSE m - 256
    BY SignedByte
  <2> HIDE DEF h, l, m
  <2>2. l \in -128 .. 127 /\ m = IF l < 0 THEN l + 256 ELSE l
    BY <2>1
  <2> QED
    BY <2>1, <2>2
<1>2. read_int16(write_int16(v)) = IF l < 0 THEN l ELSE 256 * h + l
  BY <1>1, SignedStays DEF read_int16, write_int16, Or
<1>3. h \in -128 .. 127 /\ (Exact16(v) <=> (l < 0 => -128 <= v /\ v < 0))
  BY DEF Exact16
<1> HIDE DEF h, l
<1> QED
  BY <1>1, <1>2, <1>3

\* The same for bytes that are those of the integer, from wherever they come.
LEMMA SameBytes16 ==
  ASSUME NEW v, NEW a, \A j \in 1 .. 2 : a[j] = write_int16(v)[j]
  PROVE  read_int16(a) = read_int16(write_int16(v))
BY DEF read_int16

LEMMA SameBytes32 ==
  ASSUME NEW v, NEW a, \A j \in 1 .. 4 : a[j] = write_int32(v)[j]
  PROVE  read_int32(a) = read_int32(write_int32(v))
BY SMT DEF read_int32

LEMMA Int16Splits == ASSUME NEW v \in Int16 PROVE v \div 256 \in -128 .. 127
BY DEF Int16

\* The bytes of an integer of 32 bits: the first, with its sign, and what the
\* others are without theirs.
Splits32(v, h, b, c, d) ==
  /\ v = ((h * 256 + b) * 256 + c) * 256 + d
  /\ write_int32(v) = <<h, Signed(b), Signed(c), Signed(d)>>
  /\ Signed(v \div 65536) = Signed(b) /\ Signed(v \div 256) = Signed(c)
  /\ Signed(v) = Signed(d)

LEMMA Digits ==
  ASSUME NEW v \in Int32
  PROVE  \E h \in -128 .. 127, b \in 0 .. 255, c \in 0 .. 255, d \in 0 .. 255 :
           Splits32(v, h, b, c, d)
<1> DEFINE v1 == v \div 256
           v2 == v1 \div 256
           v3 == v2 \div 256
<1>1. v \in Int
  BY SMT DEF Int32
<1>2. v1 \in Int /\ (v % 256) \in 0 .. 255 /\ v = v1 * 256 + (v % 256)
  BY <1>1, SignedByte
<1>3. v2 \in Int /\ (v1 % 256) \in 0 .. 255 /\ v1 = v2 * 256 + (v1 % 256)
  BY <1>2, SignedByte
<1>4. v3 \in Int /\ (v2 % 256) \in 0 .. 255 /\ v2 = v3 * 256 + (v2 % 256)
  BY <1>3, SignedByte
<1>5. v \div 65536 = v2 /\ v \div 16777216 = v3
  BY <1>1, SMTT(30)
<1>6. v3 \in -128 .. 127
  BY <1>5, SMTT(30) DEF Int32
<1>7. \A n \in Int : Signed(n) = Signed(n % 256)
  BY DEF Signed
<1>8. Signed(v3) = v3
  BY <1>6, SignedStays
<1>9. write_int32(v) = <<v3, Signed(v2), Signed(v1), Signed(v)>>
  BY <1>5, <1>8, SMT DEF write_int32
<1>10. /\ Signed(v2) = Signed(v2 % 256) /\ Signed(v1) = Signed(v1 % 256)
       /\ Signed(v) = Signed(v % 256)
  BY <1>1, <1>2, <1>3, <1>7
<1>11. v \div 256 = v1
  OBVIOUS
<1> HIDE DEF v1, v2, v3
<1>12. v = ((v3 * 256 + (v2 % 256)) * 256 + (v1 % 256)) * 256 + (v % 256)
  BY <1>2, <1>3, <1>4
<1>13. Splits32(v, v3, v2 % 256, v1 % 256, v % 256)
  BY <1>5, <1>9, <1>10, <1>11, <1>12, SMT DEF Splits32
<1> DEFINE b2 == v2 % 256
           b1 == v1 % 256
           b0 == v % 256
<1>14. b2 \in 0 .. 255 /\ b1 \in 0 .. 255 /\ b0 \in 0 .. 255
  BY <1>2, <1>3, <1>4
<1>15. Splits32(v, v3, b2, b1, b0)
  BY <1>13
<1> HIDE DEF b2, b1, b0
<1> QED
  BY <1>6, <1>14, <1>15, ZenonT(30)

\* An integer of 32 bits reads back as it was written if and only if every byte
\* but the first that has its sign bit has only the sign in front of it.
THEOREM Int32ReadsBack ==
  ASSUME NEW v \in Int32
  PROVE  read_int32(write_int32(v)) = v <=> Exact32(v)
<1>1. PICK h \in -128 .. 127, b \in 0 .. 255, c \in 0 .. 255, d \in 0 .. 255 :
           Splits32(v, h, b, c, d)
  BY Digits, Zenon
<1> DEFINE B == Signed(b)
           C == Signed(c)
           D == Signed(d)
<1>2. /\ B \in Int /\ B = IF b < 128 THEN b ELSE b - 256
      /\ C \in Int /\ C = IF c < 128 THEN c ELSE c - 256
      /\ D \in Int /\ D = IF d < 128 THEN d ELSE d - 256
  BY DEF Signed
<1>3. /\ write_int32(v) = <<h, B, C, D>>
      /\ Exact32(v) <=> /\ D < 0 => -128 <= v /\ v < 0
                        /\ C < 0 => -32768 <= v /\ v < 0
                        /\ B < 0 => -8388608 <= v /\ v < 0
  BY <1>1, SMT DEF Exact32, Splits32
<1> HIDE DEF B, C, D
<1>4. read_int32(write_int32(v))
        = IF D < 0 THEN D
          ELSE IF C < 0 THEN C * 256 + D
          ELSE IF B < 0 THEN B * 65536 + C * 256 + D
          ELSE h * 16777216 + B * 65536 + C * 256 + D
  BY <1>2, <1>3, SMTT(30) DEF read_int32, Or
<1>5. v \in Int /\ v = h * 16777216 + b * 65536 + c * 256 + d
  BY <1>1, SMT DEF Splits32
<1>6. D < 0 => (v = D <=> -128 <= v /\ v < 0)
  BY <1>2, <1>5, SMTT(30)
<1>7. D >= 0 /\ C < 0 => (v = C * 256 + D <=> -32768 <= v /\ v < 0)
  BY <1>2, <1>5, SMTT(30)
<1>8. D >= 0 /\ C >= 0 /\ B < 0 => (v = B * 65536 + C * 256 + D <=> -8388608 <= v /\ v < 0)
  BY <1>2, <1>5, SMTT(30)
<1>9. D >= 0 /\ C >= 0 /\ B >= 0 => v = h * 16777216 + B * 65536 + C * 256 + D
  BY <1>2, <1>5, SMTT(30)
<1> QED
  BY <1>2, <1>3, <1>4, <1>5, <1>6, <1>7, <1>8, <1>9, SMTT(30)

LEMMA ReadsInt ==
  ASSUME NEW v \in Int32
  PROVE  read_int32(write_int32(v)) \in Int
<1>1. PICK h \in -128 .. 127, b \in 0 .. 255, c \in 0 .. 255, d \in 0 .. 255 : Splits32(v, h, b, c, d)
  BY Digits, Zenon
<1>2. write_int32(v) = <<h, Signed(b), Signed(c), Signed(d)>>
  BY <1>1, SMT DEF Splits32
<1>3. h \in Int /\ Signed(b) \in Int /\ Signed(c) \in Int /\ Signed(d) \in Int
  BY DEF Signed
<1> QED
  BY <1>2, <1>3, SMTT(30) DEF read_int32, Or

LEMMA OneIsExact == Exact32(1)
<1>1. Signed(1) = 1 /\ 1 \div 256 = 0 /\ Signed(0) = 0
  BY DEF Signed
<1>2. 1 \div 65536 = 0
  BY SMT
<1> QED
  BY <1>1, <1>2, SMT DEF Exact32

-----------------------------------------------------------------------------
(* Buffers.                                                                *)

Elem == Int \cup {Junk}

Buffer == [bytes : Seq(Elem), count : Nat, offset : Nat]

LEMMA Ensured ==
  ASSUME NEW b \in Buffer, NEW space \in Nat
  PROVE  LET e == byte_buffer_ensure_size(b, space)
         IN  /\ e \in Buffer /\ e.count = b.count /\ e.offset = b.offset
             /\ Len(e.bytes) >= space /\ Len(e.bytes) >= Len(b.bytes)
             /\ \A i \in 1 .. Len(b.bytes) : e.bytes[i] = b.bytes[i]
<1> DEFINE n == IF space <= Len(b.bytes) THEN Len(b.bytes) ELSE space
           bs == [i \in 1 .. n |-> IF i <= Len(b.bytes) THEN b.bytes[i] ELSE Junk]
<1>1. b.bytes \in Seq(Elem) /\ Len(b.bytes) \in Nat /\ b.count \in Nat /\ b.offset \in Nat
  BY DEF Buffer
<1>2. n \in Nat /\ n >= space /\ n >= Len(b.bytes)
  BY <1>1
<1>3. byte_buffer_ensure_size(b, space) = [b EXCEPT !.bytes = bs]
  BY DEF byte_buffer_ensure_size
<1> HIDE DEF n
<1>4. \A i \in 1 .. n : bs[i] \in Elem
  <2> TAKE i \in 1 .. n
  <2>1. i <= Len(b.bytes) => b.bytes[i] \in Elem
    BY <1>1, <1>2, ElementOfSeq
  <2> QED
    BY <2>1 DEF Elem
<1>5. bs \in Seq(Elem) /\ Len(bs) = n
  BY <1>2, <1>4
<1>6. \A i \in 1 .. Len(b.bytes) : bs[i] = b.bytes[i]
  BY <1>1, <1>2
<1> HIDE DEF bs
<1>7. [b EXCEPT !.bytes = bs] = [bytes |-> bs, count |-> b.count, offset |-> b.offset]
  BY DEF Buffer
<1> QED
  BY <1>1, <1>2, <1>3, <1>5, <1>6, <1>7 DEF Buffer

LEMMA Placed ==
  ASSUME NEW b \in Buffer, NEW p \in Nat, NEW s \in Seq(Elem), p + Len(s) <= Len(b.bytes)
  PROVE  LET e == Put(b, p, s)
         IN  /\ e \in Buffer /\ e.count = b.count /\ e.offset = b.offset
             /\ Len(e.bytes) = Len(b.bytes)
             /\ \A i \in 1 .. Len(s) : e.bytes[p + i] = s[i]
             /\ \A i \in 1 .. p : e.bytes[i] = b.bytes[i]
<1> DEFINE n == Len(b.bytes)
           bs == [i \in 1 .. n |-> IF i \in p + 1 .. p + Len(s) THEN s[i - p] ELSE b.bytes[i]]
<1>1. b.bytes \in Seq(Elem) /\ n \in Nat /\ b.count \in Nat /\ b.offset \in Nat
      /\ Len(s) \in Nat
  BY DEF Buffer
<1>2. Put(b, p, s) = [b EXCEPT !.bytes = bs]
  BY DEF Put
<1>3. \A i \in 1 .. n : bs[i] \in Elem
  <2> TAKE i \in 1 .. n
  <2>1. b.bytes[i] \in Elem
    BY <1>1, ElementOfSeq
  <2>2. i \in p + 1 .. p + Len(s) => i - p \in 1 .. Len(s)
    BY <1>1
  <2>3. i \in p + 1 .. p + Len(s) => s[i - p] \in Elem
    BY <2>2, ElementOfSeq
  <2> QED
    BY <2>1, <2>3
<1>4. bs \in Seq(Elem) /\ Len(bs) = n
  BY <1>1, <1>3
<1>5. \A i \in 1 .. Len(s) : bs[p + i] = s[i]
  <2> TAKE i \in 1 .. Len(s)
  <2>1. p + i \in 1 .. n /\ p + i \in p + 1 .. p + Len(s) /\ (p + i) - p = i
    BY <1>1
  <2> QED
    BY <2>1
<1>6. \A i \in 1 .. p : bs[i] = b.bytes[i]
  BY <1>1
<1> HIDE DEF bs
<1>7. [b EXCEPT !.bytes = bs] = [bytes |-> bs, count |-> b.count, offset |-> b.offset]
  BY DEF Buffer
<1> QED
  BY <1>1, <1>2, <1>4, <1>5, <1>6, <1>7 DEF Buffer

\* The writer w has written s.
Holds(w, s) ==
  /\ w \in [buffer : Buffer, position : Nat]
  /\ w.position = Len(s) /\ w.buffer.count = Len(s) /\ Len(s) <= Len(w.buffer.bytes)
  /\ \A i \in 1 .. Len(s) : w.buffer.bytes[i] = s[i]

LEMMA HoldsMore ==
  ASSUME NEW s \in Seq(Int), NEW t \in Seq(Int), NEW w, Holds(w, s)
  PROVE  Holds(lso_writer_write(w, t), s \o t)
<1> DEFINE end == w.position + Len(t)
           b == byte_buffer_ensure_size(w.buffer, end)
           c == Put(b, w.position, t)
<1>1. w.buffer \in Buffer /\ w.position = Len(s) /\ Len(s) \in Nat /\ Len(t) \in Nat
      /\ end \in Nat /\ end >= Len(s) /\ w.buffer.count = Len(s)
  BY DEF Holds
<1>2. t \in Seq(Elem)
  BY SeqMonotonic DEF Elem
<1>3. /\ b \in Buffer /\ b.count = Len(s)
      /\ Len(b.bytes) \in Nat /\ Len(b.bytes) >= end
      /\ \A i \in 1 .. Len(s) : b.bytes[i] = s[i]
  <2> HIDE DEF end
  <2>1. /\ b \in Buffer /\ b.count = w.buffer.count
        /\ Len(b.bytes) >= end /\ Len(b.bytes) >= Len(w.buffer.bytes)
        /\ \A i \in 1 .. Len(w.buffer.bytes) : b.bytes[i] = w.buffer.bytes[i]
    BY <1>1, Ensured
  <2>2. Len(b.bytes) \in Nat /\ Len(w.buffer.bytes) \in Nat
    BY <1>1, <2>1 DEF Buffer
  <2> HIDE DEF b
  <2> QED
    BY <1>1, <2>1, <2>2 DEF Holds
<1> HIDE DEF b
<1>4. /\ c \in Buffer /\ c.count = Len(s) /\ Len(c.bytes) = Len(b.bytes)
      /\ \A i \in 1 .. Len(t) : c.bytes[Len(s) + i] = t[i]
      /\ \A i \in 1 .. Len(s) : c.bytes[i] = s[i]
  BY <1>1, <1>2, <1>3, Placed
<1>5. lso_writer_write(w, t) = [buffer |-> [c EXCEPT !.count = IF end > @ THEN end ELSE @],
                                position |-> end]
  BY DEF lso_writer_write, b
<1> HIDE DEF c
<1>6. [c EXCEPT !.count = IF end > @ THEN end ELSE @]
        = [bytes |-> c.bytes, count |-> end, offset |-> c.offset]
  <2>1. (IF end > c.count THEN end ELSE c.count) = end
    BY <1>1, <1>4
  <2> HIDE DEF end
  <2> QED
    BY <1>4, <2>1 DEF Buffer
<1>7. [bytes |-> c.bytes, count |-> end, offset |-> c.offset] \in Buffer
  BY <1>1, <1>4 DEF Buffer
<1>8. Len(s \o t) = end
  BY <1>1
<1>9. \A i \in 1 .. end : c.bytes[i] = (s \o t)[i]
  <2> TAKE i \in 1 .. end
  <2>1. CASE i <= Len(s)
    BY <1>1, <1>4, <2>1
  <2>2. CASE i > Len(s)
    <3>1. i - Len(s) \in 1 .. Len(t) /\ Len(s) + (i - Len(s)) = i
      BY <1>1, <2>2
    <3>2. c.bytes[i] = t[i - Len(s)]
      BY <1>4, <3>1
    <3> QED
      BY <1>1, <2>2, <3>2
  <2> QED
    BY <1>1, <2>1, <2>2
<1> HIDE DEF end
<1> DEFINE v == [buffer |-> [bytes |-> c.bytes, count |-> end, offset |-> c.offset],
                 position |-> end]
<1>10. v \in [buffer : Buffer, position : Nat]
  BY <1>1, <1>7
<1>11. v.position = end /\ v.buffer.count = end /\ v.buffer.bytes = c.bytes
  OBVIOUS
<1>12. lso_writer_write(w, t) = v
  BY <1>5, <1>6
<1>13. end <= Len(c.bytes)
  BY <1>3, <1>4
<1> HIDE DEF v
<1> QED
  BY <1>8, <1>9, <1>10, <1>11, <1>12, <1>13 DEF Holds

-----------------------------------------------------------------------------
(* A message from the writer to the reader.                                *)

\* The buffer b is a message with the tag t and the payload s, header included.
Framed(b, t, s) ==
  /\ b \in Buffer /\ b.count = Len(s) + 2 /\ b.offset = 0 /\ Len(b.bytes) = Len(s) + 2
  /\ b.bytes[1] = Signed(t \div 256) /\ b.bytes[2] = Signed(t)
  /\ \A i \in 1 .. Len(s) : b.bytes[i + 2] = s[i]

\* The buffer b stands behind the header of a message with the payload s.
Unframed(b, s) ==
  /\ b \in Buffer /\ b.count = Len(s) /\ b.offset = 2 /\ Len(b.bytes) = Len(s) + 2
  /\ \A i \in 1 .. Len(s) : b.bytes[i + 2] = s[i]

LEMMA FramedBy ==
  ASSUME NEW s \in Seq(Int), NEW w, Holds(w, s), NEW t \in 0 .. 127
  PROVE  Framed(message_to_buffer(message_create_from_writer(t, w)), t, s)
<1> DEFINE n == Len(s)
           a == [byte_buffer_create(n + 2) EXCEPT !.count = n + 2]
           b == Put(a, 0, write_int16(t))
           p == SubSeq(w.buffer.bytes, 1, n)
           c == Put(b, 2, p)
<1>1. /\ n \in Nat /\ w.buffer \in Buffer /\ w.buffer.count = n
      /\ w.buffer.bytes \in Seq(Elem) /\ n <= Len(w.buffer.bytes)
      /\ Len(w.buffer.bytes) \in Nat
      /\ \A i \in 1 .. n : w.buffer.bytes[i] = s[i]
  BY DEF Holds, Buffer
<1>2. message_to_buffer(message_create_from_writer(t, w)) = c
  BY <1>1 DEF message_to_buffer, message_create_from_writer, HeaderLength
<1>3. a \in Buffer /\ a.count = n + 2 /\ a.offset = 0 /\ Len(a.bytes) = n + 2
  <2> DEFINE z == [i \in 1 .. n + 2 |-> 0]
  <2>1. z \in Seq(Elem) /\ Len(z) = n + 2
    BY <1>1 DEF Elem
  <2>2. byte_buffer_create(n + 2) = [bytes |-> z, count |-> 0, offset |-> 0]
    BY DEF byte_buffer_create
  <2> HIDE DEF z, n
  <2>3. a = [bytes |-> z, count |-> n + 2, offset |-> 0]
    BY <2>2
  <2>4. n + 2 \in Nat
    BY <1>1
  <2> HIDE DEF a
  <2> QED
    BY <2>1, <2>3, <2>4 DEF Buffer
<1>4. p \in Seq(Elem) /\ Len(p) = n /\ \A i \in 1 .. n : p[i] = s[i]
  <2>1. p \in Seq(Elem) /\ Len(p) = n /\ \A i \in 1 .. n : p[i] = w.buffer.bytes[i]
    BY <1>1
  <2> QED
    BY <1>1, <2>1
<1> DEFINE h == write_int16(t)
<1>5. /\ h \in Seq(Elem) /\ Len(h) = 2
      /\ h[1] = Signed(t \div 256) /\ h[2] = Signed(t)
  <2>1. Signed(t \div 256) \in Int /\ Signed(t) \in Int
    BY DEF Signed
  <2> QED
    BY <2>1 DEF write_int16, Elem
<1> HIDE DEF n, a, p, h
<1>6. /\ b \in Buffer /\ b.count = n + 2 /\ b.offset = 0 /\ Len(b.bytes) = n + 2
      /\ b.bytes[1] = Signed(t \div 256) /\ b.bytes[2] = Signed(t)
  <2>1. 0 + Len(h) <= Len(a.bytes)
    BY <1>1, <1>3, <1>5
  <2>2. /\ b \in Buffer /\ b.count = a.count /\ b.offset = a.offset /\ Len(b.bytes) = Len(a.bytes)
        /\ \A i \in 1 .. Len(h) : b.bytes[0 + i] = h[i]
    <3>1. a \in Buffer /\ h \in Seq(Elem) /\ 0 \in Nat /\ b = Put(a, 0, h)
      BY <1>3, <1>5 DEF h
    <3> HIDE DEF b
    <3> QED
      BY <2>1, <3>1, Placed, Zenon
  <2> HIDE DEF b
  <2>3. b.bytes[0 + 1] = h[1] /\ b.bytes[0 + 2] = h[2]
    BY <1>5, <2>2
  <2> QED
    BY <1>3, <1>5, <2>2, <2>3
<1> HIDE DEF b
<1>7. /\ c \in Buffer /\ c.count = n + 2 /\ c.offset = 0 /\ Len(c.bytes) = n + 2
      /\ c.bytes[1] = Signed(t \div 256) /\ c.bytes[2] = Signed(t)
      /\ \A i \in 1 .. n : c.bytes[2 + i] = p[i]
  <2>1. 2 + Len(p) <= Len(b.bytes)
    BY <1>1, <1>4, <1>6
  <2>2. /\ c \in Buffer /\ c.count = b.count /\ c.offset = b.offset /\ Len(c.bytes) = Len(b.bytes)
        /\ \A i \in 1 .. Len(p) : c.bytes[2 + i] = p[i]
        /\ \A i \in 1 .. 2 : c.bytes[i] = b.bytes[i]
    <3>1. b \in Buffer /\ p \in Seq(Elem) /\ 2 \in Nat
      BY <1>4, <1>6
    <3> QED
      BY <2>1, <3>1, Placed, Zenon
  <2> HIDE DEF c
  <2> QED
    BY <1>4, <1>6, <2>2
<1> HIDE DEF c
<1>8. \A i \in 1 .. n : c.bytes[i + 2] = s[i]
  <2> TAKE i \in 1 .. n
  <2>1. i + 2 = 2 + i
    BY <1>1
  <2>2. c.bytes[2 + i] = p[i]
    BY <1>7
  <2>3. p[i] = s[i]
    BY <1>4
  <2> QED
    BY <2>1, <2>2, <2>3
<1> QED
  BY <1>2, <1>7, <1>8 DEF Framed, n

LEMMA UnframedBy ==
  ASSUME NEW s \in Seq(Int), NEW t \in 0 .. 127, NEW b, Framed(b, t, s)
  PROVE  LET m == message_create_from_byte_buffer(
                    byte_buffer_create_from_bytes(SubSeq(b.bytes, 1, b.count)))
         IN  m.tag = t /\ Unframed(m.buffer, s)
<1> DEFINE n == Len(s)
           bs == b.bytes
<1>1. /\ bs \in Seq(Elem) /\ n \in Nat /\ Len(bs) = n + 2 /\ b.count = n + 2
      /\ bs[1] = Signed(t \div 256) /\ bs[2] = Signed(t)
      /\ \A i \in 1 .. n : bs[i + 2] = s[i]
  BY DEF Framed, Buffer
<1> HIDE DEF bs, n
<1>2. SubSeq(bs, 1, n + 2) = bs
  BY <1>1, SubSeqFull
<1> DEFINE c == byte_buffer_create_from_bytes(bs)
           m == message_create_from_byte_buffer(c)
<1>3. c = [bytes |-> bs, count |-> n + 2, offset |-> 0]
  BY <1>1 DEF byte_buffer_create_from_bytes
<1> HIDE DEF c
<1>4. m.buffer = [bytes |-> bs, count |-> (n + 2) - 2, offset |-> 0 + 2]
  BY <1>3 DEF message_create_from_byte_buffer, HeaderLength
<1>5. Unframed(m.buffer, s)
  <2>1. (n + 2) - 2 = n /\ 0 + 2 = 2
    BY <1>1
  <2> HIDE DEF m
  <2> QED
    BY <1>1, <1>4, <2>1 DEF Unframed, Buffer, n
<1>6. m.tag = t
  <2>1. m.tag = read_int16(SubSeq(bs, 1, 2))
    BY <1>3 DEF message_create_from_byte_buffer, HeaderLength
  <2>2. SubSeq(bs, 1, 2)[1] = bs[1] /\ SubSeq(bs, 1, 2)[2] = bs[2]
    BY <1>1
  <2>3. t \div 256 = 0 /\ Signed(0) = 0 /\ Signed(t) = t
    BY SignedStays DEF Signed
  <2>4. read_int16(SubSeq(bs, 1, 2)) = Or(0 * 256, t)
    BY <1>1, <2>2, <2>3 DEF read_int16
  <2> QED
    BY <2>1, <2>4 DEF Or
<1> QED
  BY <1>1, <1>2, <1>5, <1>6 DEF c, bs

LEMMA UnframedPayload ==
  ASSUME NEW s \in Seq(Int), NEW b, Unframed(b, s)
  PROVE  Payload(b) = s
<1> DEFINE n == Len(s)
           p == SubSeq(b.bytes, 2 + 1, 2 + n)
<1>1. /\ b.bytes \in Seq(Elem) /\ n \in Nat /\ Len(b.bytes) = n + 2
      /\ b.count = n /\ b.offset = 2
      /\ \A i \in 1 .. n : b.bytes[i + 2] = s[i]
  BY DEF Unframed, Buffer
<1>2. Payload(b) = p
  BY <1>1 DEF Payload
<1>3. p \in Seq(Elem) /\ Len(p) = n /\ \A i \in 1 .. n : p[i] = b.bytes[i + 2]
  BY <1>1
<1> HIDE DEF p
<1>4. s \in Seq(Elem)
  BY SeqMonotonic DEF Elem
<1>5. \A i \in 1 .. Len(p) : p[i] = s[i]
  BY <1>1, <1>3
<1>6. p = s
  BY <1>3, <1>4, <1>5, SeqEqual
<1> QED
  BY <1>2, <1>6

-----------------------------------------------------------------------------
LEMMA Bytes32 ==
  ASSUME NEW v \in Int32
  PROVE  write_int32(v) \in Seq(Int) /\ Len(write_int32(v)) = 4
<1>1. PICK h \in -128 .. 127, b \in 0 .. 255, c \in 0 .. 255, d \in 0 .. 255 : Splits32(v, h, b, c, d)
  BY Digits, Zenon
<1>2. write_int32(v) = <<h, Signed(b), Signed(c), Signed(d)>>
  BY <1>1, SMT DEF Splits32
<1>3. h \in Int /\ Signed(b) \in Int /\ Signed(c) \in Int /\ Signed(d) \in Int
  BY DEF Signed
<1> QED
  BY <1>2, <1>3

LEMMA FieldFacts ==
  ASSUME NEW f \in Field
  PROVE  \/ f.kind = "int8" /\ f.value \in -128 .. 127
         \/ f.kind = "int16" /\ f.value \in Int16
         \/ f.kind = "int32" /\ f.value \in Int32
         \/ /\ f.kind = "string" /\ f.value \in Seq(Int)
            /\ Len(f.value) \in Nat /\ Len(f.value) + 1 \in Int32
<1>1. CASE f \in [kind : {"string"}, value : {[i \in 1 .. n |-> 97] : n \in Lengths}]
  <2>1. PICK n \in Lengths : f.value = [i \in 1 .. n |-> 97]
    BY <1>1
  <2>2. n \in Nat /\ n + 1 \in Int32
    BY WireAssumption
  <2>3. f.value \in Seq(Int) /\ Len(f.value) = n
    BY <2>1, <2>2
  <2> QED
    BY <1>1, <2>2, <2>3
<1>2. CASE f \in [kind : {"int8"}, value : Ints \cap -128 .. 127]
  BY <1>2
<1>3. CASE f \in [kind : {"int16"}, value : Ints \cap Int16]
  BY <1>3
<1>4. CASE f \in [kind : {"int32"}, value : Ints]
  BY <1>4, WireAssumption
<1> QED
  BY <1>1, <1>2, <1>3, <1>4 DEF Field

\* A string goes as its length with the zero that ends it, itself and the zero.
LEMMA StringFacts ==
  ASSUME NEW s \in Seq(Int), Len(s) + 1 \in Int32
  PROVE  /\ StringBytes(s) \in Seq(Int) /\ Len(StringBytes(s)) = Len(s) + 5
         /\ \A i \in 1 .. 4 : StringBytes(s)[i] = write_int32(Len(s) + 1)[i]
         /\ \A i \in 1 .. Len(s) + 1 : StringBytes(s)[4 + i] = (s \o <<0>>)[i]
<1> DEFINE l == write_int32(Len(s) + 1)
           z == s \o <<0>>
<1>1. l \in Seq(Int) /\ Len(l) = 4
  BY Bytes32
<1>2. <<0>> \in Seq(Int) /\ Len(s) \in Nat
  OBVIOUS
<1>3. z \in Seq(Int) /\ Len(z) = Len(s) + 1
  BY <1>2
<1>4. StringBytes(s) = (l \o s) \o <<0>>
  BY DEF StringBytes
<1> HIDE DEF l
<1>5. StringBytes(s) = l \o z
  <2> DEFINE o == <<0>>
  <2>1. o \in Seq(Int)
    BY <1>2
  <2> HIDE DEF o
  <2>2. (l \o s) \o o = l \o (s \o o)
    <3>1. l \in Seq(Int)
      BY <1>1
    <3> QED
      BY <2>1, <3>1, SMT
  <2>3. StringBytes(s) = (l \o s) \o o /\ z = s \o o
    BY <1>4 DEF o
  <2> HIDE DEF z
  <2> QED
    BY <2>2, <2>3
<1> HIDE DEF z
<1>6. /\ l \o z \in Seq(Int) /\ Len(l \o z) = Len(l) + Len(z)
      /\ \A i \in 1 .. Len(l) + Len(z) :
           (l \o z)[i] = IF i <= Len(l) THEN l[i] ELSE z[i - Len(l)]
  BY <1>1, <1>3, ConcatProperties
<1> DEFINE r == l \o z
           n == Len(s)
<1>7. /\ n \in Nat /\ r \in Seq(Int) /\ Len(r) = n + 5
      /\ \A i \in 1 .. n + 5 : r[i] = IF i <= 4 THEN l[i] ELSE z[i - 4]
  <2>1. Len(l) + Len(z) = n + 5
    BY <1>1, <1>2, <1>3
  <2> QED
    BY <1>1, <1>2, <1>6, <2>1
<1> HIDE DEF r, n
<1>8. \A i \in 1 .. 4 : r[i] = l[i]
  BY <1>7
<1>9. \A i \in 1 .. n + 1 : r[4 + i] = z[i]
  <2> TAKE i \in 1 .. n + 1
  <2>1. 4 + i \in 1 .. n + 5 /\ ~(4 + i <= 4) /\ (4 + i) - 4 = i
    BY <1>7
  <2> QED
    BY <1>7, <2>1
<1> QED
  BY <1>5, <1>7, <1>8, <1>9 DEF l, z, r, n

LEMMA BytesFacts ==
  ASSUME NEW f \in Field
  PROVE  Bytes(f) \in Seq(Int) /\ Len(Bytes(f)) \in Nat
<1>1. CASE f.kind = "int8" /\ f.value \in -128 .. 127
  <2>1. Bytes(f) = <<f.value>>
    BY <1>1 DEF Bytes
  <2> QED
    BY <1>1, <2>1
<1>2. CASE f.kind = "int16" /\ f.value \in Int16
  <2>1. Bytes(f) = write_int16(f.value) /\ f.value \in Int
    BY <1>2 DEF Bytes, Int16
  <2>2. Signed(f.value \div 256) \in Int /\ Signed(f.value) \in Int
    BY <2>1 DEF Signed
  <2> QED
    BY <2>1, <2>2 DEF write_int16
<1>3. CASE f.kind = "int32" /\ f.value \in Int32
  <2>1. Bytes(f) = write_int32(f.value)
    BY <1>3 DEF Bytes
  <2> QED
    BY <1>3, <2>1, Bytes32
<1>4. CASE f.kind = "string" /\ f.value \in Seq(Int) /\ Len(f.value) + 1 \in Int32
  <2>1. Bytes(f) = StringBytes(f.value)
    BY <1>4 DEF Bytes
  <2> QED
    BY <1>4, <2>1, StringFacts
<1> QED
  BY <1>1, <1>2, <1>3, <1>4, FieldFacts

\* What is on its way is what has been written.
Carried ==
  /\ phase \in {"write", "sent", "read", "stopped"}
  /\ tag \in 0 .. 127 /\ stream \in Seq(Int)
  /\ Holds(writer, stream)
  /\ phase = "sent" => Framed(sent, tag, stream)
  /\ phase \in {"read", "stopped"} => message.tag = tag /\ Unframed(message.buffer, stream)

LEMMA CarriedInit == Init => Carried
<1> SUFFICES ASSUME Init PROVE Carried
  OBVIOUS
<1>1. PICK n \in MinLength : writer = lso_writer_initialize(n)
  BY DEF Init
<1>2. n \in Nat
  BY WireAssumption
<1> DEFINE bs == [i \in 1 .. n |-> 0]
<1>3. bs \in Seq(Elem) /\ Len(bs) = n
  BY <1>2 DEF Elem
<1>4. writer = [buffer |-> [bytes |-> bs, count |-> 0, offset |-> 0], position |-> 0]
  BY <1>1 DEF lso_writer_initialize, byte_buffer_create
<1> HIDE DEF bs
<1>5. stream = <<>> /\ Len(<<>>) = 0
  BY DEF Init
<1>6. Holds(writer, stream)
  BY <1>2, <1>3, <1>4, <1>5 DEF Holds, Buffer
<1>7. phase = "write" /\ tag \in 0 .. 127
  BY WireAssumption DEF Init
<1> QED
  BY <1>5, <1>6, <1>7 DEF Carried

\* The steps of the reader change what has been read only.
Reads ==
  \/ ReadNumber("int8", 1, lso_reader_read_int8(reader))
  \/ ReadNumber("int16", 2, lso_reader_read_int16(reader))
  \/ ReadNumber("int32", 4, lso_reader_read_int32(reader))
  \/ ReadString

LEMMA ReadsKeep ==
  ASSUME Reads
  PROVE  /\ UNCHANGED <<fields, stream, writer, tag, sent, message>>
         /\ phase = "read" /\ phase' \in {"read", "stopped"}
BY DEF Reads, ReadNumber, ReadString

LEMMA CarriedStep ==
  ASSUME Carried, [Next]_vars
  PROVE  Carried'
<1>1. ASSUME NEW f \in Field, Write(f) PROVE Carried'
  <2>1. /\ phase = "write" /\ stream' = stream \o Bytes(f)
        /\ writer' = lso_writer_write(writer, Bytes(f))
        /\ UNCHANGED <<tag, phase>>
    BY <1>1 DEF Write
  <2>2. Bytes(f) \in Seq(Int) /\ stream \in Seq(Int)
    BY BytesFacts DEF Carried
  <2>3. stream' \in Seq(Int)
    BY <2>1, <2>2
  <2>4. Holds(writer', stream')
    BY <2>1, <2>2, HoldsMore DEF Carried
  <2> QED
    BY <2>1, <2>3, <2>4 DEF Carried, Holds
<1>2. CASE Send
  <2>1. /\ phase' = "sent" /\ UNCHANGED <<stream, writer, tag, message>>
        /\ sent' = message_to_buffer(message_create_from_writer(tag, writer))
    BY <1>2 DEF Send
  <2>2. Framed(sent', tag, stream)
    BY <2>1, FramedBy DEF Carried
  <2> QED
    BY <2>1, <2>2 DEF Carried, Framed, Holds
<1>3. CASE Receive
  <2>1. /\ phase = "sent" /\ phase' = "read" /\ UNCHANGED <<stream, writer, tag, sent>>
        /\ message' = message_create_from_byte_buffer(
                        byte_buffer_create_from_bytes(SubSeq(sent.bytes, 1, sent.count)))
    BY <1>3 DEF Receive
  <2>2. message'.tag = tag /\ Unframed(message'.buffer, stream)
    BY <2>1, UnframedBy DEF Carried
  <2> QED
    BY <2>1, <2>2 DEF Carried, Unframed, Holds
<1>4. CASE Reads
  BY <1>4, ReadsKeep DEF Carried, Unframed, Holds
<1>5. CASE UNCHANGED vars
  BY <1>5 DEF vars, Carried, Framed, Unframed, Holds
<1> QED
  BY <1>1, <1>2, <1>3, <1>4, <1>5 DEF Next, Reads

\* What create_..._message and client_send write arrives in client_handler as it
\* was written, whatever the writer's first capacity: the tag and every byte.
THEOREM PayloadArrives == Spec => []MessageArrives
<1>1. Carried => MessageArrives
  BY UnframedPayload DEF Carried, MessageArrives
<1> QED
  BY <1>1, CarriedInit, CarriedStep, PTL DEF Spec

-----------------------------------------------------------------------------
(* Where the reader is.                                                    *)

\* at[i] is how many bytes there are in front of the i-th field.
Laid(at) ==
  /\ at \in [1 .. Len(fields) + 1 -> Nat]
  /\ at[1] = 0 /\ at[Len(fields) + 1] = Len(stream)
  /\ \A i \in 1 .. Len(fields) :
       /\ at[i + 1] = at[i] + Len(Bytes(fields[i])) /\ at[i + 1] <= Len(stream)
       /\ \A j \in 1 .. Len(Bytes(fields[i])) : stream[at[i] + j] = Bytes(fields[i])[j]

\* The reader that has got k values is where the next field begins, unless a
\* string before it has lost its length.
InPlace(at, k) == InStep(k + 1) => reader.position = at[k + 1]

InOrder ==
  /\ fields \in Seq(Field)
  /\ \E S : got \in Seq(S)
  /\ Len(got) <= Len(fields)
  /\ \E at : Laid(at) /\ (phase = "read" => InPlace(at, Len(got)))
  /\ phase = "read" => \E p : reader = [buffer |-> message.buffer, position |-> p]
  /\ phase \in {"write", "sent"} => got = <<>>
  /\ ExactFieldsReadBack

LEMMA InOrderInit == Init => InOrder
<1> SUFFICES ASSUME Init PROVE InOrder
  OBVIOUS
<1>1. fields = <<>> /\ got = <<>> /\ stream = <<>> /\ phase = "write"
  BY DEF Init
<1>2. <<>> \in Seq(Field) /\ <<>> \in Seq({}) /\ Len(<<>>) = 0
  OBVIOUS
<1>3. Laid([i \in 1 .. 1 |-> 0])
  BY <1>1, <1>2 DEF Laid
<1>4. ExactFieldsReadBack
  BY <1>1, <1>2 DEF ExactFieldsReadBack
<1> QED
  BY <1>1, <1>2, <1>3, <1>4 DEF InOrder

\* The n bytes the reader has ahead are those of t behind the first p.
HasAhead(r, n, t, p) ==
  /\ CanRead(r, n)
  /\ Ahead(r, n) \in Seq(Elem) /\ Len(Ahead(r, n)) = n
  /\ \A j \in 1 .. n : Ahead(r, n)[j] = t[p + j]

\* The bytes behind a position that is inside.
LEMMA AheadIs ==
  ASSUME NEW s \in Seq(Int), NEW b, Unframed(b, s), NEW p \in Nat, NEW n \in Nat,
         p + n <= Len(s)
  PROVE  HasAhead([buffer |-> b, position |-> p], n, s, p)
<1> DEFINE r == [buffer |-> b, position |-> p]
           a == SubSeq(b.bytes, 2 + p + 1, 2 + p + n)
<1>1. /\ b.bytes \in Seq(Elem) /\ Len(s) \in Nat /\ Len(b.bytes) = Len(s) + 2
      /\ b.count = Len(s) /\ b.offset = 2
      /\ \A i \in 1 .. Len(s) : b.bytes[i + 2] = s[i]
  BY DEF Unframed, Buffer
<1>2. CanRead(r, n)
  BY <1>1 DEF CanRead
<1>3. Ahead(r, n) = a
  BY <1>1 DEF Ahead
<1>4. a \in Seq(Elem) /\ Len(a) = n /\ \A j \in 1 .. n : a[j] = b.bytes[2 + p + j]
  BY <1>1
<1>5. \A j \in 1 .. n : a[j] = s[p + j]
  <2> TAKE j \in 1 .. n
  <2>1. p + j \in 1 .. Len(s) /\ (p + j) + 2 = 2 + p + j
    BY <1>1
  <2> QED
    BY <1>1, <1>4, <2>1
<1> QED
  BY <1>2, <1>3, <1>4, <1>5 DEF HasAhead

\* A value more has been read.
LEMMA OneMore ==
  ASSUME InOrder, NEW v, NEW q, NEW at, Laid(at),
         phase = "read", Len(got) < Len(fields),
         UNCHANGED <<fields, stream, message, phase>>,
         got' = Append(got, v),
         reader' = [buffer |-> message.buffer, position |-> q],
         InStep(Len(got) + 1) =>
           (v = AsRead(fields[Len(got) + 1]) <=> Exact(fields[Len(got) + 1])),
         InStep(Len(got) + 2) => q = at[Len(got) + 2]
  PROVE  InOrder'
<1>1. PICK S : got \in Seq(S)
  BY DEF InOrder
<1> DEFINE T == S \cup {v}
           k == Len(got)
<1>2. k \in Nat /\ DOMAIN got = 1 .. k
  BY <1>1
<1>3. /\ got' \in Seq(T) /\ Len(got') = k + 1 /\ got'[k + 1] = v
      /\ \A i \in 1 .. k : got'[i] = got[i]
  <2>1. got \in Seq(T) /\ v \in T
    BY <1>1, SeqMonotonic
  <2> HIDE DEF T
  <2> QED
    BY <2>1, AppendProperties
<1> HIDE DEF T, k
<1>4. \A i : InStep(i)' <=> InStep(i)
  BY DEF InStep
<1>5. Laid(at)' /\ (Len(got) <= Len(fields))' /\ (fields \in Seq(Field))'
  <2>1. Laid(at)'
    BY DEF Laid
  <2>2. Len(fields) \in Nat /\ fields \in Seq(Field)
    BY DEF InOrder
  <2> QED
    BY <1>2, <1>3, <2>1, <2>2 DEF k
<1>6. InPlace(at, Len(got))'
  <2>1. Len(got') + 1 = k + 2
    BY <1>2, <1>3
  <2>2. InStep(k + 2) => q = at[k + 2]
    BY DEF k
  <2>3. InStep(Len(got) + 1)' <=> InStep(k + 2)
    BY <2>1 DEF InStep
  <2>4. InStep(Len(got) + 1)' => reader'.position = at[Len(got') + 1]
    BY <2>1, <2>2, <2>3
  <2> QED
    BY <2>4 DEF InPlace
<1>7. ExactFieldsReadBack'
  <2>1. \A i \in 1 .. k + 1 : i \in 1 .. k \/ i = k + 1
    BY <1>2
  <2>2. ASSUME NEW i \in 1 .. k + 1, InStep(i)
        PROVE  got'[i] = AsRead(fields[i]) <=> Exact(fields[i])
    <3>1. CASE i \in 1 .. k
      BY <1>3, <2>2, <3>1 DEF InOrder, ExactFieldsReadBack, k
    <3>2. CASE i = k + 1
      BY <1>3, <2>2, <3>2 DEF k
    <3> QED
      BY <2>1, <3>1, <3>2
  <2>3. \A i \in 1 .. Len(got') : InStep(i)' => (got'[i] = AsRead(fields'[i]) <=> Exact(fields'[i]))
    BY <1>3, <1>4, <2>2
  <2> QED
    BY <2>3 DEF ExactFieldsReadBack
<1>8. (\E R : got \in Seq(R))'
  BY <1>3
<1>9. (\E u : Laid(u) /\ (phase = "read" => InPlace(u, Len(got))))'
  BY <1>5, <1>6
<1>10. (\E p : reader = [buffer |-> message.buffer, position |-> p])'
  OBVIOUS
<1> QED
  BY <1>5, <1>7, <1>8, <1>9, <1>10 DEF InOrder

\* In place, the reader has the bytes of the field ahead of it.
LEMMA FieldAhead ==
  ASSUME Carried, InOrder, phase = "read", NEW at, Laid(at), NEW i \in 1 .. Len(fields),
         NEW o \in Nat, NEW n \in Nat, o + n <= Len(Bytes(fields[i])),
         NEW r, r = [buffer |-> message.buffer, position |-> at[i] + o]
  PROVE  /\ CanRead(r, n)
         /\ Ahead(r, n) \in Seq(Elem) /\ Len(Ahead(r, n)) = n
         /\ \A j \in 1 .. n : Ahead(r, n)[j] = Bytes(fields[i])[o + j]
<1> DEFINE bs == Bytes(fields[i])
           p == at[i] + o
<1>1. stream \in Seq(Int) /\ Unframed(message.buffer, stream)
  BY DEF Carried
<1>2. Len(bs) \in Nat
  BY BytesFacts DEF InOrder
<1>3. Len(fields) \in Nat /\ i \in Nat
  BY DEF InOrder
<1>4. /\ at[i] \in Nat /\ at[i] + Len(bs) <= Len(stream)
      /\ \A j \in 1 .. Len(bs) : stream[at[i] + j] = bs[j]
  BY <1>3 DEF Laid
<1> HIDE DEF bs
<1>5. p \in Nat /\ p + n <= Len(stream)
  <2>1. Len(stream) \in Nat /\ o + n <= Len(bs)
    BY <1>1 DEF bs
  <2> QED
    BY <1>2, <1>4, <2>1
<1>6. \A j \in 1 .. n : stream[p + j] = bs[o + j]
  <2> TAKE j \in 1 .. n
  <2>1. o + n <= Len(bs)
    BY DEF bs
  <2>2. o + j \in 1 .. Len(bs) /\ at[i] + (o + j) = p + j
    BY <1>2, <1>4, <2>1
  <2> QED
    BY <1>4, <2>2
<1>7. r = [buffer |-> message.buffer, position |-> p]
  OBVIOUS
<1> HIDE DEF p
<1>8. /\ CanRead(r, n)
      /\ Ahead(r, n) \in Seq(Elem) /\ Len(Ahead(r, n)) = n
      /\ \A j \in 1 .. n : Ahead(r, n)[j] = stream[p + j]
  <2>1. HasAhead([buffer |-> message.buffer, position |-> p], n, stream, p)
    BY <1>1, <1>5, AheadIs
  <2> QED
    BY <1>7, <2>1 DEF HasAhead
<1> QED
  BY <1>6, <1>8 DEF bs

\* Where a field of this kind is ahead, the value is the one it was written as if
\* and only if the field is exact.
Suits(kind, size, value) ==
  \A f \in Field : f.kind = kind =>
    /\ Len(Bytes(f)) = size
    /\ CanRead(reader, size) /\ (\A j \in 1 .. size : Ahead(reader, size)[j] = Bytes(f)[j]) =>
         (value = AsRead(f) <=> Exact(f))

LEMMA NumberStep ==
  ASSUME Carried, InOrder, NEW kind, NEW size \in Nat, NEW value,
         ReadNumber(kind, size, value), Suits(kind, size, value)
  PROVE  InOrder'
<1> DEFINE i == Len(got) + 1
           f == fields[i]
<1>1. /\ phase = "read" /\ Len(got) < Len(fields) /\ f.kind = kind
      /\ got' = Append(got, value)
      /\ reader' = IF CanRead(reader, size) THEN Skip(reader, size) ELSE reader
      /\ UNCHANGED <<fields, stream, phase, message>>
  BY DEF ReadNumber
<1>2. PICK at : Laid(at) /\ InPlace(at, Len(got))
  BY <1>1 DEF InOrder
<1>3. PICK p : reader = [buffer |-> message.buffer, position |-> p]
  BY <1>1 DEF InOrder
<1>4. Len(got) \in Nat /\ Len(fields) \in Nat /\ fields \in Seq(Field)
  BY DEF InOrder
<1>5. i \in 1 .. Len(fields) /\ i \in Nat
  BY <1>1, <1>4
<1>6. f \in Field
  BY <1>4, <1>5
<1> DEFINE q == IF CanRead(reader, size) THEN p + size ELSE p
<1>7. reader' = [buffer |-> message.buffer, position |-> q]
  BY <1>1, <1>3 DEF Skip
<1>8. ASSUME InStep(i)
      PROVE  (value = AsRead(f) <=> Exact(f)) /\ q = at[i + 1]
  <2>1. p = at[i]
    BY <1>2, <1>3, <1>8 DEF InPlace
  <2>2. Len(Bytes(f)) = size
    BY <1>1, <1>6 DEF Suits
  <2>3. at[i] \in Nat /\ at[i + 1] = at[i] + size
    BY <1>2, <1>4, <1>5, <2>2 DEF Laid
  <2>4. 0 \in Nat /\ 0 + size <= Len(Bytes(fields[i]))
    BY <2>2
  <2>5. reader = [buffer |-> message.buffer, position |-> at[i] + 0]
    BY <1>3, <2>1, <2>3
  <2>6. /\ CanRead(reader, size)
        /\ \A j \in 1 .. size : Ahead(reader, size)[j] = Bytes(fields[i])[0 + j]
    <3> HIDE DEF i, f
    <3> QED
      BY <1>1, <1>2, <1>5, <2>4, <2>5, FieldAhead
  <2>7. \A j \in 1 .. size : Ahead(reader, size)[j] = Bytes(f)[j]
    BY <2>6
  <2> QED
    BY <1>1, <1>6, <2>1, <2>3, <2>6, <2>7 DEF Suits
<1>9. InStep(i + 1) => InStep(i)
  BY <1>5 DEF InStep
<1>10. Len(got) + 2 = i + 1
  BY <1>4
<1> HIDE DEF q
<1>11. InStep(Len(got) + 2) => q = at[Len(got) + 2]
  BY <1>8, <1>9, <1>10
<1>12. InStep(Len(got) + 1) =>
           (value = AsRead(fields[Len(got) + 1]) <=> Exact(fields[Len(got) + 1]))
  BY <1>8
<1> HIDE DEF i, f
<1> QED
  BY <1>1, <1>2, <1>7, <1>11, <1>12, OneMore

LEMMA Int8Step ==
  ASSUME Carried, InOrder, ReadNumber("int8", 1, lso_reader_read_int8(reader))
  PROVE  InOrder'
<1> DEFINE value == lso_reader_read_int8(reader)
<1>1. ReadNumber("int8", 1, value) /\ 1 \in Nat
  OBVIOUS
<1>2. ASSUME NEW f \in Field, f.kind = "int8"
      PROVE  /\ Len(Bytes(f)) = 1
             /\ CanRead(reader, 1) /\ (\A j \in 1 .. 1 : Ahead(reader, 1)[j] = Bytes(f)[j]) =>
                  (value = AsRead(f) <=> Exact(f))
  <2>1. Bytes(f) = <<f.value>> /\ Exact(f) /\ AsRead(f) = f.value
    BY <1>2 DEF Bytes, Exact, AsRead
  <2>2. CanRead(reader, 1) => value = Ahead(reader, 1)[1]
    BY DEF lso_reader_read_int8
  <2> HIDE DEF value
  <2> QED
    BY <2>1, <2>2
<1> HIDE DEF value
<1>3. Suits("int8", 1, value)
  BY <1>2 DEF Suits
<1> QED
  BY <1>1, <1>3, NumberStep

LEMMA Int16Step ==
  ASSUME Carried, InOrder, ReadNumber("int16", 2, lso_reader_read_int16(reader))
  PROVE  InOrder'
<1> DEFINE value == lso_reader_read_int16(reader)
<1>1. ReadNumber("int16", 2, value) /\ 2 \in Nat
  OBVIOUS
<1>2. ASSUME NEW f \in Field, f.kind = "int16"
      PROVE  /\ Len(Bytes(f)) = 2
             /\ CanRead(reader, 2) /\ (\A j \in 1 .. 2 : Ahead(reader, 2)[j] = Bytes(f)[j]) =>
                  (value = AsRead(f) <=> Exact(f))
  <2>1. Bytes(f) = write_int16(f.value) /\ (Exact(f) <=> Exact16(f.value)) /\ AsRead(f) = f.value
    BY <1>2 DEF Bytes, Exact, AsRead
  <2>2. CanRead(reader, 2) => value = read_int16(Ahead(reader, 2))
    BY DEF lso_reader_read_int16
  <2>3. Len(write_int16(f.value)) = 2
    BY DEF write_int16
  <2>4. f.value \in Int16 /\ f.value \in Int
    BY <1>2, FieldFacts DEF Int16
  <2>5. read_int16(write_int16(f.value)) = f.value <=> Exact16(f.value)
    BY <2>4, Int16Splits, Int16ReadsBack
  <2> HIDE DEF value
  <2>6. ASSUME CanRead(reader, 2), \A j \in 1 .. 2 : Ahead(reader, 2)[j] = Bytes(f)[j]
        PROVE  value = AsRead(f) <=> Exact(f)
    <3>1. value = read_int16(write_int16(f.value))
      BY <2>1, <2>2, <2>6, SameBytes16
    <3> QED
      BY <2>1, <2>5, <3>1
  <2> QED
    BY <2>1, <2>3, <2>6
<1> HIDE DEF value
<1>3. Suits("int16", 2, value)
  BY <1>2 DEF Suits
<1> QED
  BY <1>1, <1>3, NumberStep

LEMMA Int32Step ==
  ASSUME Carried, InOrder, ReadNumber("int32", 4, lso_reader_read_int32(reader))
  PROVE  InOrder'
<1> DEFINE value == lso_reader_read_int32(reader)
<1>1. ReadNumber("int32", 4, value) /\ 4 \in Nat
  OBVIOUS
<1>2. ASSUME NEW f \in Field, f.kind = "int32"
      PROVE  /\ Len(Bytes(f)) = 4
             /\ CanRead(reader, 4) /\ (\A j \in 1 .. 4 : Ahead(reader, 4)[j] = Bytes(f)[j]) =>
                  (value = AsRead(f) <=> Exact(f))
  <2>1. Bytes(f) = write_int32(f.value) /\ (Exact(f) <=> Exact32(f.value)) /\ AsRead(f) = f.value
    BY <1>2 DEF Bytes, Exact, AsRead
  <2>2. CanRead(reader, 4) => value = read_int32(Ahead(reader, 4))
    BY DEF lso_reader_read_int32
  <2>3. f.value \in Int32
    BY <1>2, FieldFacts
  <2>4. Len(write_int32(f.value)) = 4
    BY <2>3, Bytes32
  <2>5. read_int32(write_int32(f.value)) = f.value <=> Exact32(f.value)
    BY <2>3, Int32ReadsBack
  <2> HIDE DEF value
  <2>6. ASSUME CanRead(reader, 4), \A j \in 1 .. 4 : Ahead(reader, 4)[j] = Bytes(f)[j]
        PROVE  value = AsRead(f) <=> Exact(f)
    <3>1. value = read_int32(write_int32(f.value))
      BY <2>1, <2>2, <2>6, SameBytes32
    <3> QED
      BY <2>1, <2>5, <3>1
  <2> QED
    BY <2>1, <2>4, <2>6
<1> HIDE DEF value
<1>3. Suits("int32", 4, value)
  BY <1>2 DEF Suits
<1> QED
  BY <1>1, <1>3, NumberStep

\* A string is read where its length is: it stops no thread and is the string that
\* was written if and only if its length reads back.
LEMMA StringRead ==
  ASSUME Carried, InOrder, phase = "read", NEW at, Laid(at), NEW i \in 1 .. Len(fields),
         fields[i].kind = "string", reader = [buffer |-> message.buffer, position |-> at[i]]
  PROVE  LET r == lso_reader_read_string(reader)
         IN  /\ Exact(fields[i]) =>
                  r.ok /\ r.value = AsRead(fields[i])
                  /\ r.reader = [buffer |-> message.buffer, position |-> at[i + 1]]
             /\ ~Exact(fields[i]) => ~r.ok \/ r.value # AsRead(fields[i])
<1> DEFINE f == fields[i]
           s == f.value
           n == Len(s) + 1
           length == lso_reader_read_int32(reader)
           r == lso_reader_read_string(reader)
           z == s \o <<0>>
<1>1. f \in Field /\ f.kind = "string" /\ Len(fields) \in Nat
  BY DEF InOrder
<1>2. s \in Seq(Int) /\ Len(s) \in Nat /\ n \in Int32 /\ n \in Nat /\ n >= 1
  BY <1>1, FieldFacts
<1>3. Bytes(f) = StringBytes(s) /\ AsRead(f) = z /\ (Exact(f) <=> Exact32(n))
  BY <1>1 DEF Bytes, AsRead, Exact
<1>4. /\ Len(Bytes(f)) = n + 4
      /\ \A j \in 1 .. 4 : Bytes(f)[j] = write_int32(n)[j]
      /\ \A j \in 1 .. n : Bytes(f)[4 + j] = z[j]
  <2>1. Len(StringBytes(s)) = Len(s) + 5 /\ Len(s) + 5 = n + 4
    BY <1>2, StringFacts
  <2>2. /\ \A j \in 1 .. 4 : StringBytes(s)[j] = write_int32(n)[j]
        /\ \A j \in 1 .. n : StringBytes(s)[4 + j] = z[j]
    BY <1>2, StringFacts, Zenon
  <2> HIDE DEF n, z, f, s
  <2> QED
    BY <1>3, <2>1, <2>2
<1>5. z \in Seq(Elem) /\ Len(z) = n
  <2>1. z \in Seq(Int) /\ Len(z) = n
    BY <1>2
  <2> HIDE DEF z
  <2> QED
    BY <2>1, SeqMonotonic DEF Elem
<1>6. /\ at[i] \in Nat /\ at[i + 1] = at[i] + (n + 4) /\ at[i + 1] <= Len(stream)
      /\ Len(stream) \in Nat
  <2>1. at[i] \in Nat
    <3>1. at \in [1 .. Len(fields) + 1 -> Nat] /\ i \in 1 .. Len(fields) + 1
      BY <1>1 DEF Laid
    <3> QED
      BY <3>1
  <2>2. at[i + 1] = at[i] + Len(Bytes(f)) /\ at[i + 1] <= Len(stream)
    BY DEF Laid
  <2>3. Len(stream) \in Nat
    BY DEF Carried
  <2> QED
    BY <1>4, <2>1, <2>2, <2>3
<1>7. /\ message.buffer.bytes \in Seq(Elem) /\ message.buffer.offset = 2
      /\ Len(message.buffer.bytes) = Len(stream) + 2
  BY DEF Carried, Unframed, Buffer
<1> HIDE DEF f, s, n, z
<1>8. CanRead(reader, 4) /\ length = read_int32(write_int32(n))
  <2>1. 0 + 4 <= Len(Bytes(f)) /\ 4 \in Nat /\ 0 \in Nat
    BY <1>2, <1>4
  <2>2. reader = [buffer |-> message.buffer, position |-> at[i] + 0]
    BY <1>6
  <2>3. CanRead(reader, 4) /\ \A j \in 1 .. 4 : Ahead(reader, 4)[j] = Bytes(f)[0 + j]
    <3> DEFINE o == 0
               k == 4
    <3>1. o + k <= Len(Bytes(fields[i])) /\ o \in Nat /\ k \in Nat
      BY <2>1 DEF f
    <3>2. reader = [buffer |-> message.buffer, position |-> at[i] + o]
      BY <2>2
    <3> HIDE DEF o, k
    <3>3. CanRead(reader, k) /\ \A j \in 1 .. k : Ahead(reader, k)[j] = Bytes(fields[i])[o + j]
      BY <3>1, <3>2, FieldAhead
    <3> QED
      BY <3>3 DEF f, o, k
  <2>4. \A j \in 1 .. 4 : Ahead(reader, 4)[j] = write_int32(n)[j]
    BY <1>4, <2>3
  <2> QED
    BY <2>3, <2>4, SameBytes32 DEF lso_reader_read_int32
<1>9. length \in Int /\ (length = n <=> Exact(f))
  BY <1>2, <1>3, <1>8, Int32ReadsBack, ReadsInt
<1>10. /\ r.ok <=> length >= -1 /\ 2 + at[i] + 4 + length <= Len(stream) + 2
       /\ r.value = IF length = -1 THEN <<Junk>> ELSE Ahead(Skip(reader, 4), length)
       /\ r.reader = Skip(reader, 4 + length)
  <2>1. reader.buffer = message.buffer /\ reader.position = at[i]
    OBVIOUS
  <2> HIDE DEF length
  <2> QED
    BY <1>7, <1>8, <2>1 DEF lso_reader_read_string, length
<1>11. Skip(reader, 4) = [buffer |-> message.buffer, position |-> at[i] + 4]
  BY DEF Skip
<1> HIDE DEF length, r
<1>12. ASSUME Exact(f)
       PROVE  r.ok /\ r.value = z /\ r.reader = [buffer |-> message.buffer, position |-> at[i + 1]]
  <2>1. length = n /\ length # -1
    BY <1>2, <1>9, <1>12
  <2>2. r.ok
    <3>1. n \in Nat
      BY <1>2
    <3> HIDE DEF n
    <3>2. length >= -1 /\ 2 + at[i] + 4 + length <= Len(stream) + 2
      BY <1>6, <2>1, <3>1
    <3> QED
      BY <1>10, <3>2, Zenon
  <2> DEFINE a == Ahead(Skip(reader, 4), n)
  <2>3. a \in Seq(Elem) /\ Len(a) = n /\ \A j \in 1 .. n : a[j] = Bytes(f)[4 + j]
    <3>1. 4 + n <= Len(Bytes(f)) /\ 4 \in Nat
      BY <1>2, <1>4
    <3> QED
      BY <1>2, <1>11, <3>1, FieldAhead DEF f
  <2>4. r.value = a
    BY <1>10, <2>1
  <2> HIDE DEF a
  <2>5. a = z
    BY <1>4, <1>5, <2>3, SeqEqual
  <2>6. r.reader = [buffer |-> message.buffer, position |-> at[i] + (4 + n)]
    BY <1>10, <2>1 DEF Skip
  <2>7. at[i] + (4 + n) = at[i + 1]
    BY <1>2, <1>6
  <2> QED
    BY <2>2, <2>4, <2>5, <2>6, <2>7
<1>13. ASSUME ~Exact(f), r.ok
       PROVE  r.value # z
  <2>1. length # n /\ length >= -1
    BY <1>9, <1>10, <1>13
  <2>2. CASE length = -1
    <3>1. n # 1
      BY <1>3, <1>13, OneIsExact
    <3>2. r.value = <<Junk>> /\ Len(<<Junk>>) = 1
      BY <1>10, <2>2
    <3> QED
      BY <1>5, <3>1, <3>2
  <2>3. CASE length # -1
    <3>1. length \in Nat
      BY <1>9, <2>1, <2>3
    <3> DEFINE m == 2 + (at[i] + 4)
               bs == message.buffer.bytes
    <3>2. m \in Nat /\ m + length <= Len(bs)
      <4>1. 2 + at[i] + 4 + length <= Len(stream) + 2
        BY <1>10, <1>13
      <4>2. Len(bs) = Len(stream) + 2
        BY <1>7
      <4>3. at[i] \in Nat
        BY <1>6
      <4> HIDE DEF bs, length
      <4> QED
        BY <3>1, <4>1, <4>2, <4>3
    <3> HIDE DEF m, bs
    <3>3. r.value = SubSeq(bs, m + 1, m + length)
      <4>1. r.value = Ahead(Skip(reader, 4), length)
        BY <1>10, <2>3
      <4> DEFINE u == Skip(reader, 4)
      <4>2. u.buffer.bytes = bs /\ u.buffer.offset + u.position = m
        BY <1>7, <1>11 DEF m, bs
      <4> HIDE DEF u
      <4>3. Ahead(u, length) = SubSeq(bs, m + 1, m + length)
        BY <4>2 DEF Ahead
      <4> QED
        BY <4>1, <4>3 DEF u
    <3>4. Len(SubSeq(bs, m + 1, m + length)) = length
      BY <1>7, <3>1, <3>2 DEF bs
    <3> QED
      BY <1>5, <2>1, <3>3, <3>4
  <2> QED
    BY <2>2, <2>3
<1> QED
  BY <1>3, <1>12, <1>13 DEF f, r

LEMMA StringStep ==
  ASSUME Carried, InOrder, ReadString
  PROVE  InOrder'
<1> DEFINE i == Len(got) + 1
           r == lso_reader_read_string(reader)
<1>1. /\ phase = "read" /\ Len(got) < Len(fields) /\ fields[i].kind = "string"
      /\ UNCHANGED <<fields, stream, message>>
  BY DEF ReadString
<1>2. \/ r.ok /\ got' = Append(got, r.value) /\ reader' = r.reader /\ UNCHANGED phase
      \/ ~r.ok /\ phase' = "stopped" /\ UNCHANGED <<got, reader>>
  BY DEF ReadString
<1>3. PICK at : Laid(at) /\ InPlace(at, Len(got))
  BY <1>1 DEF InOrder
<1>4. PICK p : reader = [buffer |-> message.buffer, position |-> p]
  BY <1>1 DEF InOrder
<1>5. Len(got) \in Nat /\ Len(fields) \in Nat /\ i \in 1 .. Len(fields) /\ i \in Nat
      /\ Len(got) + 2 = i + 1
  <2>1. Len(got) \in Nat /\ Len(fields) \in Nat
    BY DEF InOrder
  <2> QED
    BY <1>1, <2>1
<1>6. InStep(i + 1) => InStep(i) /\ Exact(fields[i])
  <2>1. i \in 1 .. (i + 1) - 1 /\ 1 .. i - 1 \subseteq 1 .. (i + 1) - 1
    BY <1>5
  <2> QED
    BY <1>1, <2>1 DEF InStep
<1>7. PICK q : r.reader = [buffer |-> message.buffer, position |-> q]
  <2>1. \A n : Skip(reader, n) = [buffer |-> message.buffer, position |-> p + n]
    BY <1>4 DEF Skip
  <2>2. r.reader = reader \/ r.reader = Skip(reader, 4 + lso_reader_read_int32(reader))
    BY DEF lso_reader_read_string
  <2> QED
    BY <1>4, <2>1, <2>2
<1>8. ASSUME InStep(i)
      PROVE  /\ Exact(fields[i]) => r.ok /\ r.value = AsRead(fields[i]) /\ q = at[i + 1]
             /\ ~Exact(fields[i]) => ~r.ok \/ r.value # AsRead(fields[i])
  <2>1. reader = [buffer |-> message.buffer, position |-> at[i]]
    BY <1>3, <1>4, <1>8 DEF InPlace
  <2> HIDE DEF i
  <2>2. /\ Exact(fields[i]) =>
             r.ok /\ r.value = AsRead(fields[i])
             /\ r.reader = [buffer |-> message.buffer, position |-> at[i + 1]]
        /\ ~Exact(fields[i]) => ~r.ok \/ r.value # AsRead(fields[i])
    BY <1>1, <1>3, <1>5, <2>1, StringRead
  <2> HIDE DEF r
  <2>3. Exact(fields[i]) => q = at[i + 1]
    <3>1. [buffer |-> message.buffer, position |-> q].position = q
      OBVIOUS
    <3> QED
      BY <1>7, <2>2, <3>1
  <2> QED
    BY <2>2, <2>3
<1> HIDE DEF r
<1>9. CASE r.ok /\ got' = Append(got, r.value) /\ reader' = r.reader /\ UNCHANGED phase
  <2>1. InStep(Len(got) + 2) => q = at[Len(got) + 2]
    BY <1>5, <1>6, <1>8
  <2>2. InStep(Len(got) + 1) =>
          (r.value = AsRead(fields[Len(got) + 1]) <=> Exact(fields[Len(got) + 1]))
    BY <1>8, <1>9
  <2>3. reader' = [buffer |-> message.buffer, position |-> q]
    BY <1>7, <1>9
  <2>4. phase' = phase /\ got' = Append(got, r.value)
    BY <1>9
  <2> HIDE DEF i
  <2> QED
    BY <1>1, <1>3, <2>1, <2>2, <2>3, <2>4, OneMore
<1>10. CASE ~r.ok /\ phase' = "stopped" /\ UNCHANGED <<got, reader>>
  <2>1. ~InStep(i + 1)
    BY <1>6, <1>8, <1>10
  <2>2. \A k : InStep(k)' <=> InStep(k)
    BY <1>1 DEF InStep
  <2>3. ~InStep(Len(got) + 2)'
    <3>1. ~InStep(Len(got) + 2)
      BY <1>5, <2>1
    <3> QED
      BY <1>1, <1>10, <3>1 DEF InStep
  <2>4. ExactFieldsReadBack'
    <3>1. \A k \in 1 .. Len(got) : InStep(k) => (got[k] = AsRead(fields[k]) <=> Exact(fields[k]))
      BY DEF InOrder, ExactFieldsReadBack
    <3>2. (\A k \in 1 .. Len(got) : InStep(k) => (got[k] = AsRead(fields[k]) <=> Exact(fields[k])))'
      BY <1>1, <1>10, <2>2, <3>1
    <3> QED
      BY <2>3, <3>2 DEF ExactFieldsReadBack
  <2>5. Laid(at)'
    BY <1>1, <1>3 DEF Laid
  <2>6. phase' = "stopped" /\ fields' = fields /\ got' = got
    BY <1>1, <1>10
  <2> QED
    BY <2>4, <2>5, <2>6 DEF InOrder
<1> QED
  BY <1>2, <1>9, <1>10

LEMMA WriteStep ==
  ASSUME Carried, InOrder, NEW f \in Field, Write(f)
  PROVE  InOrder'
<1> DEFINE n == Len(fields)
           bs == Bytes(f)
           l == Len(stream)
<1>1. /\ phase = "write" /\ fields' = Append(fields, f) /\ stream' = stream \o bs
      /\ UNCHANGED <<phase, got>>
  BY DEF Write
<1>2. n \in Nat /\ fields \in Seq(Field) /\ got = <<>>
  BY <1>1 DEF InOrder
<1>3. bs \in Seq(Int) /\ Len(bs) \in Nat /\ stream \in Seq(Int) /\ l \in Nat
  BY BytesFacts DEF Carried
<1>4. PICK at : Laid(at)
  BY DEF InOrder
<1> HIDE DEF bs
<1>5. /\ Len(stream') = l + Len(bs)
      /\ \A i \in 1 .. l : stream'[i] = stream[i]
      /\ \A j \in 1 .. Len(bs) : stream'[l + j] = bs[j]
  <2>1. /\ Len(stream') = l + Len(bs)
        /\ \A i \in 1 .. l + Len(bs) : stream'[i] = IF i <= l THEN stream[i] ELSE bs[i - l]
    BY <1>1, <1>3, ConcatProperties
  <2> HIDE DEF l
  <2>2. \A i \in 1 .. l : stream'[i] = stream[i]
    BY <1>3, <2>1
  <2>3. \A j \in 1 .. Len(bs) : stream'[l + j] = bs[j]
    <3> TAKE j \in 1 .. Len(bs)
    <3>1. l + j \in 1 .. l + Len(bs) /\ ~(l + j <= l) /\ (l + j) - l = j
      BY <1>3
    <3> QED
      BY <2>1, <3>1
  <2> QED
    BY <2>1, <2>2, <2>3
<1>6. /\ fields' \in Seq(Field) /\ Len(fields') = n + 1 /\ fields'[n + 1] = f
      /\ \A i \in 1 .. n : fields'[i] = fields[i]
  BY <1>1, <1>2, AppendProperties
<1>7. /\ at \in [1 .. n + 1 -> Nat] /\ at[1] = 0 /\ at[n + 1] = l
      /\ \A i \in 1 .. n :
           /\ at[i + 1] = at[i] + Len(Bytes(fields[i])) /\ at[i + 1] <= l
           /\ \A j \in 1 .. Len(Bytes(fields[i])) : stream[at[i] + j] = Bytes(fields[i])[j]
  BY <1>4 DEF Laid
<1>8. \A i \in 1 .. n : Len(Bytes(fields[i])) \in Nat
  BY <1>2, BytesFacts
<1> HIDE DEF n, l
<1> DEFINE u == [i \in 1 .. (n + 1) + 1 |-> IF i \in 1 .. n + 1 THEN at[i] ELSE l + Len(bs)]
<1>9. /\ u \in [1 .. (n + 1) + 1 -> Nat] /\ u[(n + 1) + 1] = l + Len(bs)
      /\ \A i \in 1 .. n + 1 : u[i] = at[i]
  BY <1>2, <1>3, <1>7
<1> HIDE DEF u
<1>10. ASSUME NEW i \in 1 .. n + 1
       PROVE  /\ u[i + 1] = u[i] + Len(Bytes(fields'[i])) /\ u[i + 1] <= l + Len(bs)
              /\ \A j \in 1 .. Len(Bytes(fields'[i])) : stream'[u[i] + j] = Bytes(fields'[i])[j]
  <2>1. CASE i \in 1 .. n
    <3> DEFINE c == Bytes(fields[i])
    <3>1. i + 1 \in 1 .. n + 1 /\ fields'[i] = fields[i]
      BY <1>2, <1>6, <2>1
    <3>2. /\ u[i + 1] = at[i + 1] /\ u[i] = at[i] /\ at[i] \in Nat
          /\ at[i + 1] = at[i] + Len(c) /\ at[i + 1] <= l /\ Len(c) \in Nat
          /\ \A j \in 1 .. Len(c) : stream[at[i] + j] = c[j]
      BY <1>7, <1>8, <1>9, <2>1, <3>1
    <3> HIDE DEF c
    <3>3. \A j \in 1 .. Len(c) : stream'[at[i] + j] = c[j]
      <4> TAKE j \in 1 .. Len(c)
      <4>1. at[i] + j \in 1 .. l
        BY <1>3, <3>2
      <4> QED
        BY <1>5, <3>2, <4>1
    <3>4. at[i + 1] <= l + Len(bs)
      BY <1>3, <3>2
    <3> QED
      BY <3>1, <3>2, <3>3, <3>4 DEF c
  <2>2. CASE i = n + 1
    BY <1>3, <1>5, <1>6, <1>7, <1>9, <2>2, SMTT(30) DEF bs
  <2> QED
    BY <1>2, <2>1, <2>2
<1>11. \E w : Laid(w)'
  <2>1. u[1] = 0
    BY <1>2, <1>7, <1>9
  <2>2. PICK w : w = u
    OBVIOUS
  <2>3. /\ w \in [1 .. Len(fields') + 1 -> Nat] /\ w[1] = 0 /\ w[Len(fields') + 1] = Len(stream')
        /\ \A i \in 1 .. Len(fields') : w[i + 1] = w[i] + Len(Bytes(fields'[i])) /\ w[i + 1] <= Len(stream')
    <3>1. Len(fields') = n + 1 /\ Len(stream') = l + Len(bs)
      BY <1>5, <1>6
    <3> QED
      BY <1>9, <1>10, <2>1, <2>2, <3>1
  <2>4. \A i \in 1 .. Len(fields') :
          \A j \in 1 .. Len(Bytes(fields'[i])) : stream'[w[i] + j] = Bytes(fields'[i])[j]
    BY <1>6, <1>10, <2>2
  <2>5. Laid(w)'
    BY <2>3, <2>4 DEF Laid
  <2> QED
    BY <2>5
<1>12. ExactFieldsReadBack'
  BY <1>1, <1>2 DEF ExactFieldsReadBack
<1>13. (\E S : got \in Seq(S))' /\ (Len(got) <= Len(fields))'
  <2>1. Len(<<>>) = 0 /\ <<>> \in Seq({})
    OBVIOUS
  <2> QED
    BY <1>1, <1>2, <1>6, <2>1
<1> QED
  BY <1>1, <1>2, <1>6, <1>11, <1>12, <1>13 DEF InOrder

LEMMA InOrderStep ==
  ASSUME Carried, InOrder, [Next]_vars
  PROVE  InOrder'
<1>1. CASE Send \/ UNCHANGED vars
  <2>1. \/ UNCHANGED vars
        \/ phase = "write" /\ phase' = "sent" /\ UNCHANGED <<fields, stream, got, reader, message>>
    BY <1>1 DEF Send
  <2>2. UNCHANGED <<fields, stream, got, reader, message>>
    BY <2>1 DEF vars
  <2>3. \A at : Laid(at)' <=> Laid(at)
    BY <2>2 DEF Laid
  <2>4. \A k : InStep(k)' <=> InStep(k)
    BY <2>2 DEF InStep
  <2>5. \A at, k : InPlace(at, k)' <=> InPlace(at, k)
    BY <2>2, <2>4 DEF InPlace
  <2>6. ExactFieldsReadBack'
    BY <2>1, <2>2, <2>4 DEF InOrder, ExactFieldsReadBack, vars
  <2> QED
    BY <2>1, <2>2, <2>3, <2>5, <2>6 DEF InOrder, vars
<1>2. CASE Receive
  <2>1. /\ phase = "sent" /\ phase' = "read" /\ UNCHANGED <<fields, stream, got>>
        /\ reader' = lso_reader_create(message'.buffer)
    BY <1>2 DEF Receive
  <2>2. PICK at : Laid(at)
    BY DEF InOrder
  <2>3. got = <<>> /\ Len(<<>>) = 0
    BY <2>1 DEF InOrder
  <2>4. Laid(at)'
    BY <2>1, <2>2 DEF Laid
  <2>5. reader' = [buffer |-> message'.buffer, position |-> 0]
    BY <2>1 DEF lso_reader_create
  <2>6. InPlace(at, Len(got))'
    <3>1. at[0 + 1] = 0
      BY <2>2 DEF Laid
    <3>2. reader'.position = at[Len(got') + 1]
      BY <2>1, <2>3, <2>5, <3>1
    <3> QED
      BY <3>2 DEF InPlace
  <2>7. ExactFieldsReadBack'
    BY <2>1, <2>3 DEF ExactFieldsReadBack
  <2> QED
    BY <2>1, <2>4, <2>5, <2>6, <2>7 DEF InOrder
<1> QED
  BY <1>1, <1>2, WriteStep, Int8Step, Int16Step, Int32Step, StringStep DEF Next

\* Integers and strings are read out of a message as they were written into it if
\* and only if they are exact; a string that is not disturbs what is behind it.
THEOREM OnlyExactReadBack == Spec => []ExactFieldsReadBack
<1>1. Carried /\ InOrder /\ [Next]_vars => Carried' /\ InOrder'
  BY CarriedStep, InOrderStep
<1>2. InOrder => ExactFieldsReadBack
  BY DEF InOrder
<1> QED
  BY <1>1, <1>2, CarriedInit, InOrderInit, PTL DEF Spec
=============================================================================
