-------------------------------- MODULE Wire --------------------------------
(***************************************************************************)
(* A message from the fields that are written into it to those that are    *)
(* read out of it: create_..._message and client_send on one side, the     *)
(* handlers and their reader on the other.  Each field is read as what it  *)
(* was written as.  The other side has the whole message in one piece: how *)
(* a stream is cut, and the length of a read, are in Framing.              *)
(***************************************************************************)
EXTENDS Codec

CONSTANTS
  Tag,        (* tags of messages                                          *)
  Ints,       (* the integers written                                      *)
  Lengths,    (* the lengths of the strings written                        *)
  MinLength,  (* the capacities a writer is created with                   *)
  MaxFields   (* bound: how many fields a message has                      *)

\* lso_writer_write_string passes a length as an int32_t.
ASSUME WireAssumption ==
  /\ Tag \subseteq 0 .. 127
  /\ Ints \subseteq Int32
  /\ \A n \in Lengths : n \in Nat /\ n + 1 \in Int32
  /\ MinLength \subseteq Nat
  /\ MaxFields \in Nat

Field ==
  [kind : {"int8"}, value : Ints \cap -128 .. 127]
    \cup [kind : {"int16"}, value : Ints \cap Int16]
    \cup [kind : {"int32"}, value : Ints]
    \cup [kind : {"string"}, value : {[i \in 1 .. n |-> 97] : n \in Lengths}]

VARIABLES
  fields,   (* what has been written                                       *)
  stream,   (* the bytes of the fields, one after the other                *)
  writer,   (* the lso_writer_t                                            *)
  tag,      (* of the message                                              *)
  phase,    (* "write", "sent", "read" or "stopped"                        *)
  sent,     (* the buffer that goes to the socket                          *)
  message,  (* the message_t on the other side                             *)
  reader,   (* its lso_reader_t                                            *)
  got       (* what has been read                                          *)

vars == <<fields, stream, writer, tag, phase, sent, message, reader, got>>

Nothing == byte_buffer_create(0)

Init ==
  /\ fields = <<>> /\ stream = <<>>
  /\ \E n \in MinLength : writer = lso_writer_initialize(n)
  /\ tag \in Tag
  /\ phase = "write"
  /\ sent = Nothing
  /\ message = [tag |-> 0, buffer |-> Nothing]
  /\ reader = lso_reader_create(Nothing)
  /\ got = <<>>

Bytes(f) ==
  CASE f.kind = "int8"   -> <<f.value>>
    [] f.kind = "int16"  -> write_int16(f.value)
    [] f.kind = "int32"  -> write_int32(f.value)
    [] f.kind = "string" -> StringBytes(f.value)

Write(f) ==
  /\ phase = "write"
  /\ Len(fields) < MaxFields
  /\ fields' = Append(fields, f)
  /\ stream' = stream \o Bytes(f)
  /\ writer' = lso_writer_write(writer, Bytes(f))
  /\ UNCHANGED <<tag, phase, sent, message, reader, got>>

\* client_send.
Send ==
  /\ phase = "write"
  /\ phase' = "sent"
  /\ sent' = message_to_buffer(message_create_from_writer(tag, writer))
  /\ UNCHANGED <<fields, stream, writer, tag, message, reader, got>>

\* client_handler.
Receive ==
  /\ phase = "sent"
  /\ phase' = "read"
  /\ message' = message_create_from_byte_buffer(
                  byte_buffer_create_from_bytes(SubSeq(sent.bytes, 1, sent.count)))
  /\ reader' = lso_reader_create(message'.buffer)
  /\ UNCHANGED <<fields, stream, writer, tag, sent, got>>

ReadNumber(kind, size, value) ==
  /\ phase = "read"
  /\ Len(got) < Len(fields) /\ fields[Len(got) + 1].kind = kind
  /\ got' = Append(got, value)
  /\ reader' = IF CanRead(reader, size) THEN Skip(reader, size) ELSE reader
  /\ UNCHANGED <<fields, stream, writer, tag, phase, sent, message>>

\* The string is read with the zero that ends it.
ReadString ==
  /\ phase = "read"
  /\ Len(got) < Len(fields) /\ fields[Len(got) + 1].kind = "string"
  /\ LET r == lso_reader_read_string(reader)
     IN  \/ r.ok /\ got' = Append(got, r.value) /\ reader' = r.reader /\ UNCHANGED phase
         \/ ~r.ok /\ phase' = "stopped" /\ UNCHANGED <<got, reader>>
  /\ UNCHANGED <<fields, stream, writer, tag, sent, message>>

Next ==
  \/ \E f \in Field : Write(f)
  \/ Send
  \/ Receive
  \/ ReadNumber("int8", 1, lso_reader_read_int8(reader))
  \/ ReadNumber("int16", 2, lso_reader_read_int16(reader))
  \/ ReadNumber("int32", 4, lso_reader_read_int32(reader))
  \/ ReadString

Spec == Init /\ [][Next]_vars

-----------------------------------------------------------------------------
\* What is written arrives as it was written: the buffer grows under the writer
\* and keeps what is in it, and the header goes on and comes off.
MessageArrives ==
  phase = "read" => message.tag = tag /\ Payload(message.buffer) = stream

Exact(f) ==
  CASE f.kind = "int8"   -> TRUE
    [] f.kind = "int16"  -> Exact16(f.value)
    [] f.kind = "int32"  -> Exact32(f.value)
    [] f.kind = "string" -> Exact32(Len(f.value) + 1)

AsRead(f) == IF f.kind = "string" THEN f.value \o <<0>> ELSE f.value

\* The reader is where the writer was: no string before the i-th field lost
\* its length.
InStep(i) == \A j \in 1 .. i - 1 : fields[j].kind = "string" => Exact(fields[j])

\* The test that main.c keeps in a comment prints integers beside what it reads
\* back, with "==" between them.  An integer reads back if and only if every byte
\* but the first that has its sign bit has only the sign in front of it, and one
\* that is lost does not disturb the fields behind it.  A string whose length is
\* lost does, or stops the server.
ExactFieldsReadBack ==
  /\ \A i \in 1 .. Len(got) : InStep(i) => (got[i] = AsRead(fields[i]) <=> Exact(fields[i]))
  /\ phase = "stopped" => ~InStep(Len(got) + 2)
=============================================================================
