---------------------------- MODULE BufferClient ----------------------------
(***************************************************************************)
(* One ByteBuf object and a client that calls its public member functions  *)
(* in any order: the object keeps one buffer for reading and writing, so   *)
(* writes, overwrites, reads and resets interleave on it.                  *)
(***************************************************************************)
EXTENDS ByteBuf

CONSTANTS Values,     \* the integers the client writes
          Widths,     \* sizeof(T) of the integers it writes and reads
          Payloads,   \* the byte sequences it passes to write_bytes
          MaxPosition,\* bound: the largest position it passes to write_.._at
          Counts,     \* the lengths it passes to read_bytes
          MaxLen      \* bound: the client stops writing at this length

ASSUME ClientAssumption ==
  /\ Values \subseteq Int
  /\ Widths \subseteq Nat \ {0}
  /\ Payloads \subseteq Seq(Byte)
  /\ MaxPosition \in Nat
  /\ Counts \subseteq Nat
  /\ MaxLen \in Nat

(* The highest bit of a byte can be a sign: it parts the values in halves. *)
ASSUME SignAssumption == Radix % 2 = 0

VARIABLES buf,     \* the object
          result   \* what the last call returned or threw

vars == <<buf, result>>

Returned(r) ==
  /\ buf' = r.buf
  /\ result' = [outcome |-> r.outcome, bytes |-> r.value]

Appends(c) ==
  /\ Len(buf.buffer) + Len(c.bytes) <= MaxLen
  /\ Returned(Ok(Write(buf, c), <<>>))

Init ==
  /\ buf = EmptyBuf
  /\ result = [outcome |-> "ok", bytes |-> <<>>]

(* write_u16 .. write_i64 and their _le twins.                             *)
WriteInt(v, w) == Appends(Counted(LittleEndian(v, w)))

(* write_u8, write_i8 and their _le twins.                                 *)
WriteOctet(v) == Appends(Uncounted(LittleEndian(v, 1)))

(* write_bytes.                                                            *)
WriteBytes(bytes) == Appends(Uncounted(bytes))

(* write_u8_at .. write_i64_at and their _le twins.                        *)
WriteIntAt(pos, v, w) == Returned(WriteAt(buf, pos, LittleEndian(v, w)))

(* read_bytes, and read_u8 .. read_i64, whose value is ValueOf the bytes.  *)
Read(n) == Returned(ReadBytes(buf, n))

Reset == Returned(Ok(EmptyBuf, <<>>))

Next ==
  \/ \E v \in Values, w \in Widths : WriteInt(v, w)
  \/ \E v \in Values : WriteOctet(v)
  \/ \E bytes \in Payloads : WriteBytes(bytes)
  \/ \E pos \in 0 .. MaxPosition, v \in Values, w \in Widths : WriteIntAt(pos, v, w)
  \/ \E n \in Counts \cup Widths \cup {1} : Read(n)
  \/ Reset

Spec == Init /\ [][Next]_vars

-----------------------------------------------------------------------------
Results == [outcome : {"ok", "out_of_range"}, bytes : Seq(Byte)]

(* Type correctness of the object and of what its calls return.            *)
TypeOK ==
  /\ buf \in ByteBufs
  /\ result \in Results

(* No order of calls moves a cursor past the data: readable_bytes() never  *)
(* wraps below zero, and writer_index() is always a place in the buffer,   *)
(* however it lags behind the bytes that its writers did not count.        *)
CursorsInBounds ==
  /\ buf.reader_index <= Len(buf.buffer)
  /\ buf.writer_index <= Len(buf.buffer)

(* Unread bytes or not, no call but reset takes a byte out of data() or    *)
(* moves an index back, and a byte changes only by an overwrite, which     *)
(* touches one integer and neither index: a position noted from            *)
(* writer_index() and a checksum taken over data() go on being about the   *)
(* same bytes, whatever is read or appended in between.                    *)
Appended ==
  /\ Len(buf.buffer) <= Len(buf'.buffer)
  /\ \A i \in 1 .. Len(buf.buffer) : buf'.buffer[i] = buf.buffer[i]
  /\ buf.reader_index <= buf'.reader_index
  /\ buf.writer_index <= buf'.writer_index

OverwrittenAt(pos, w) ==
  /\ Len(buf'.buffer) = Len(buf.buffer)
  /\ \A i \in 1 .. Len(buf.buffer) :
       i \notin pos + 1 .. pos + w => buf'.buffer[i] = buf.buffer[i]
  /\ UNCHANGED <<buf.reader_index, buf.writer_index>>

DataKept ==
  [][\/ Appended
     \/ \E pos \in 0 .. MaxPosition, w \in Widths : OverwrittenAt(pos, w)
     \/ Reset]_vars

(* Every bit pattern that lies in the buffer reads as a value of the type  *)
(* asked for and is written back as the same bytes, for signed and         *)
(* unsigned types: the shifts of read_le and write_le are inverse.         *)
IntegersSurvive ==
  \A w \in Widths, signed \in BOOLEAN, at \in 0 .. Len(buf.buffer) - 1 :
    at + w <= Len(buf.buffer) =>
      LET bytes == SubSeq(buf.buffer, at + 1, at + w)
          v     == ValueOf(bytes, signed)
          half  == Patterns(w) \div 2
      IN  /\ v \in IF signed THEN -half .. Patterns(w) - half - 1
                             ELSE 0 .. Patterns(w) - 1
          /\ LittleEndian(v, w) = bytes

(* The object is a queue of the bytes written and not yet read: no call    *)
(* loses, duplicates or reorders one, and a call that throws takes none.   *)
Unread == SubSeq(buf.buffer, buf.reader_index + 1, Len(buf.buffer))

IntegerBytes == {LittleEndian(v, w) : v \in Values, w \in Widths \cup {1}}

Queue == INSTANCE ByteQueue WITH
  queue   <- Unread,
  Written <- Payloads \cup IntegerBytes,
  Patches <- IntegerBytes,
  Offsets <- -MaxLen .. MaxPosition,
  Counts  <- Counts \cup Widths \cup {1}

ImplementsQueue == Queue!Spec
=============================================================================
