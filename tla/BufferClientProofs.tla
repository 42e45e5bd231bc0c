------------------------- MODULE BufferClientProofs -------------------------
(***************************************************************************)
(* Type correctness and cursor safety of a ByteBuf under any calls, that   *)
(* it keeps the bytes it has, and that it implements the queue of          *)
(* ByteQueue, for every value of the constants.                            *)
(***************************************************************************)
EXTENDS BufferClient, ByteBufProofs

(* The bound of the client's own guard.                                    *)
LengthBounded == Len(buf.buffer) <= MaxLen

IInv == TypeOK /\ CursorsInBounds /\ LengthBounded

(* What an append leaves: the type, and cursors still in bounds.           *)
LEMMA AppendsPreserves ==
  ASSUME IInv, NEW c \in Chunks, c.counted <= Len(c.bytes), Appends(c)
  PROVE  IInv'
<1> DEFINE b == Write(buf, c)
<1>1. /\ buf \in ByteBufs
      /\ buf.reader_index <= Len(buf.buffer)
      /\ buf.writer_index <= Len(buf.buffer)
  BY DEF IInv, TypeOK, CursorsInBounds
<1>2. /\ b \in ByteBufs
      /\ Len(b.buffer) = Len(buf.buffer) + Len(c.bytes)
      /\ b.reader_index = buf.reader_index
      /\ b.writer_index = buf.writer_index + c.counted
  BY <1>1, WriteType
<1>3. /\ Len(buf.buffer) \in Nat
      /\ Len(c.bytes) \in Nat
      /\ buf.reader_index \in Nat
      /\ buf.writer_index \in Nat
      /\ c.counted \in Nat
  BY <1>1 DEF ByteBufs, Chunks
<1>4. b.reader_index <= Len(b.buffer)
  BY <1>1, <1>2, <1>3 DEF ByteBufs
<1>5. b.writer_index <= Len(b.buffer)
  BY <1>1, <1>2, <1>3 DEF ByteBufs
<1>6. /\ buf' = b
      /\ result' = [outcome |-> "ok", bytes |-> <<>>]
      /\ Len(b.buffer) <= MaxLen
  BY <1>2 DEF Appends, Returned, Ok
<1> QED
  BY <1>2, <1>4, <1>5, <1>6, EmptySeq
  DEF IInv, TypeOK, CursorsInBounds, LengthBounded, Results

(* A call that leaves the buffer's length, as overwrites and reads do.     *)
LEMMA ReturnedPreserves ==
  ASSUME NEW r,
         r.buf \in ByteBufs,
         r.buf.reader_index <= Len(r.buf.buffer),
         r.buf.writer_index <= Len(r.buf.buffer),
         Len(r.buf.buffer) <= MaxLen,
         r.outcome \in {"ok", "out_of_range"},
         r.value \in Seq(Byte),
         Returned(r)
  PROVE  IInv'
BY DEF IInv, TypeOK, CursorsInBounds, LengthBounded, Results, Returned

LEMMA InitEstablishes == Init => IInv
<1> SUFFICES ASSUME Init PROVE IInv
  OBVIOUS
<1>1. /\ buf = [buffer |-> <<>>, reader_index |-> 0, writer_index |-> 0]
      /\ result = [outcome |-> "ok", bytes |-> <<>>]
  BY DEF Init, EmptyBuf
<1>2. <<>> \in Seq(Byte) /\ Len(<<>>) = 0
  BY EmptySeq
<1> QED
  BY <1>1, <1>2, ClientAssumption
  DEF IInv, TypeOK, CursorsInBounds, LengthBounded, Results, ByteBufs

LEMMA NextPreserves == IInv /\ [Next]_vars => IInv'
<1> SUFFICES ASSUME IInv, [Next]_vars PROVE IInv'
  OBVIOUS
<1> USE ClientAssumption
<1>0. /\ buf \in ByteBufs
      /\ buf.reader_index <= Len(buf.buffer)
      /\ buf.writer_index <= Len(buf.buffer)
      /\ Len(buf.buffer) <= MaxLen
  BY DEF IInv, TypeOK, CursorsInBounds, LengthBounded
<1>1. ASSUME NEW v \in Values, NEW w \in Widths, WriteInt(v, w) PROVE IInv'
  <2>1. LittleEndian(v, w) \in Seq(Byte)
    BY LittleEndianType
  <2> QED
    BY <1>1, <2>1, ChunkTypes, AppendsPreserves DEF WriteInt
<1>2. ASSUME NEW v \in Values, WriteOctet(v) PROVE IInv'
  <2>1. LittleEndian(v, 1) \in Seq(Byte)
    BY LittleEndianType
  <2> QED
    BY <1>2, <2>1, ChunkTypes, AppendsPreserves DEF WriteOctet
<1>3. ASSUME NEW bytes \in Payloads, WriteBytes(bytes) PROVE IInv'
  BY <1>3, ChunkTypes, AppendsPreserves DEF WriteBytes
<1>4. ASSUME NEW pos \in 0 .. MaxPosition, NEW v \in Values, NEW w \in Widths,
             WriteIntAt(pos, v, w)
      PROVE  IInv'
  <2> DEFINE r == WriteAt(buf, pos, LittleEndian(v, w))
  <2>1. LittleEndian(v, w) \in Seq(Byte)
    BY LittleEndianType
  <2>2. /\ r.buf \in ByteBufs
        /\ Len(r.buf.buffer) = Len(buf.buffer)
        /\ r.buf.reader_index = buf.reader_index
        /\ r.buf.writer_index = buf.writer_index
        /\ r.outcome \in {"ok", "out_of_range"}
        /\ r.value = <<>>
    BY <1>0, <2>1, WriteAtType
  <2>3. Returned(r)
    BY <1>4 DEF WriteIntAt
  <2> QED
    BY <1>0, <2>2, <2>3, EmptySeq, ReturnedPreserves DEF ByteBufs
<1>5. ASSUME NEW n \in Counts \cup Widths \cup {1}, Read(n) PROVE IInv'
  <2> DEFINE r == ReadBytes(buf, n)
  <2>1. n \in Nat
    OBVIOUS
  <2>2. /\ r.buf \in ByteBufs
        /\ r.buf.buffer = buf.buffer
        /\ r.buf.reader_index <= Len(buf.buffer)
        /\ r.buf.writer_index = buf.writer_index
        /\ r.outcome \in {"ok", "out_of_range"}
        /\ r.value \in Seq(Byte)
    BY <1>0, <2>1, ReadBytesType
  <2>3. Returned(r)
    BY <1>5 DEF Read
  <2> QED
    BY <1>0, <2>2, <2>3, ReturnedPreserves
<1>6. ASSUME Reset PROVE IInv'
  <2>1. /\ buf' = [buffer |-> <<>>, reader_index |-> 0, writer_index |-> 0]
        /\ result' = [outcome |-> "ok", bytes |-> <<>>]
    BY <1>6 DEF Reset, Returned, Ok, EmptyBuf
  <2>2. <<>> \in Seq(Byte) /\ Len(<<>>) = 0
    BY EmptySeq
  <2> QED
    BY <2>1, <2>2 DEF IInv, TypeOK, CursorsInBounds, LengthBounded, Results, ByteBufs
<1>7. ASSUME UNCHANGED vars PROVE IInv'
  BY <1>7 DEF IInv, TypeOK, CursorsInBounds, LengthBounded, vars
<1> QED
  BY <1>1, <1>2, <1>3, <1>4, <1>5, <1>6, <1>7 DEF Next

(* For any integers, payloads, positions and counts, the object and the    *)
(* results of its calls keep their types.                                  *)
THEOREM TypeCorrect == Spec => []TypeOK
<1>1. IInv => TypeOK
  BY DEF IInv
<1> QED
  BY InitEstablishes, NextPreserves, <1>1, PTL DEF Spec

(* No order of calls moves reader_index_ or writer_index_ past the data.   *)
THEOREM CursorsStayInBounds == Spec => []CursorsInBounds
<1>1. IInv => CursorsInBounds
  BY DEF IInv
<1> QED
  BY InitEstablishes, NextPreserves, <1>1, PTL DEF Spec

-----------------------------------------------------------------------------
(* What is in the buffer stays there.                                      *)
LEMMA UnchangedIsAppended ==
  ASSUME IInv, UNCHANGED buf
  PROVE  Appended
<1>1. /\ Len(buf.buffer) \in Nat
      /\ buf.reader_index \in Nat
      /\ buf.writer_index \in Nat
  BY DEF IInv, TypeOK, ByteBufs
<1> QED
  BY <1>1 DEF Appended

LEMMA AppendsKeeps ==
  ASSUME IInv, NEW c \in Chunks, Appends(c)
  PROVE  Appended
<1>1. /\ buf \in ByteBufs
      /\ buf.buffer \in Seq(Byte)
      /\ Len(buf.buffer) \in Nat
      /\ buf.reader_index \in Nat
      /\ buf.writer_index \in Nat
      /\ c.bytes \in Seq(Byte)
      /\ Len(c.bytes) \in Nat
      /\ c.counted \in Nat
  BY DEF IInv, TypeOK, ByteBufs, Chunks
<1>2. buf' = Write(buf, c)
  BY DEF Appends, Returned, Ok
<1>3. /\ buf'.buffer = buf.buffer \o c.bytes
      /\ Len(buf'.buffer) = Len(buf.buffer) + Len(c.bytes)
      /\ buf'.reader_index = buf.reader_index
      /\ buf'.writer_index = buf.writer_index + c.counted
  BY <1>1, <1>2, WriteType
<1>4. ASSUME NEW i \in 1 .. Len(buf.buffer)
      PROVE  buf'.buffer[i] = buf.buffer[i]
  <2>1. PICK ls \in Nat, lb \in Nat : ls = Len(buf.buffer) /\ lb = Len(c.bytes)
    BY <1>1
  <2>2. i \in 1 .. ls
    BY <2>1
  <2>3. i \in 1 .. ls + lb /\ i <= ls
    BY <2>2
  <2> QED
    BY <1>1, <1>3, <2>1, <2>3, ConcatProperties
<1>5. /\ buf.reader_index <= buf.reader_index
      /\ buf.writer_index <= buf.writer_index + c.counted
      /\ Len(buf.buffer) <= Len(buf.buffer) + Len(c.bytes)
  <2>1. \A m \in Nat, n \in Nat : m <= m /\ m <= m + n
    OBVIOUS
  <2> QED
    BY <1>1, <2>1
<1> QED
  BY <1>3, <1>4, <1>5 DEF Appended

LEMMA WriteAtKeeps ==
  ASSUME IInv, NEW pos \in Nat, NEW bytes \in Seq(Byte),
         Returned(WriteAt(buf, pos, bytes))
  PROVE  Appended \/ OverwrittenAt(pos, Len(bytes))
<1> DEFINE r == WriteAt(buf, pos, bytes)
<1>1. buf \in ByteBufs /\ buf.buffer \in Seq(Byte)
  BY DEF IInv, TypeOK, ByteBufs
<1>2. /\ Len(r.buf.buffer) = Len(buf.buffer)
      /\ r.buf.reader_index = buf.reader_index
      /\ r.buf.writer_index = buf.writer_index
      /\ r.outcome \in {"ok", "out_of_range"}
      /\ r.value = <<>>
      /\ r.outcome = "ok" <=> pos + Len(bytes) <= Len(buf.buffer)
      /\ r.outcome = "ok" => r.buf.buffer = Overwritten(buf.buffer, pos, bytes)
      /\ r.outcome # "ok" => r.buf = buf
  BY <1>1, WriteAtType
<1>3. buf' = r.buf
  BY DEF Returned
<1> HIDE DEF r
<1>4. CASE r.outcome # "ok"
  BY <1>2, <1>3, <1>4, UnchangedIsAppended
<1>5. CASE r.outcome = "ok"
  <2>1. \A i \in 1 .. Len(buf.buffer) :
          i \notin pos + 1 .. pos + Len(bytes) => buf'.buffer[i] = buf.buffer[i]
    BY <1>1, <1>2, <1>3, <1>5, OverwrittenType
  <2> QED
    BY <1>2, <1>3, <2>1 DEF OverwrittenAt
<1> QED
  BY <1>4, <1>5

LEMMA ReadKeeps ==
  ASSUME IInv, NEW n \in Nat, Read(n)
  PROVE  Appended
<1>1. /\ buf \in ByteBufs
      /\ Len(buf.buffer) \in Nat
      /\ buf.reader_index \in Nat
      /\ buf.writer_index \in Nat
  BY DEF IInv, TypeOK, ByteBufs
<1>2. CASE ReadableBytes(buf) < n
  <2>1. UNCHANGED buf
    BY <1>2 DEF Read, ReadBytes, Returned, OutOfRange
  <2> QED
    BY <2>1, UnchangedIsAppended
<1>3. CASE ~(ReadableBytes(buf) < n)
  <2>1. buf' = [buf EXCEPT !.reader_index = @ + n]
    BY <1>3 DEF Read, ReadBytes, Returned, Ok
  <2>2. /\ buf'.buffer = buf.buffer
        /\ buf'.reader_index = buf.reader_index + n
        /\ buf'.writer_index = buf.writer_index
    BY <1>1, <2>1 DEF ByteBufs
  <2> QED
    BY <1>1, <2>2 DEF Appended
<1> QED
  BY <1>2, <1>3

LEMMA NextKeeps ==
  ASSUME IInv, Next
  PROVE  \/ Appended
         \/ \E pos \in 0 .. MaxPosition, w \in Widths : OverwrittenAt(pos, w)
         \/ Reset
<1> USE ClientAssumption
<1>1. ASSUME NEW v \in Values, NEW w \in Widths, WriteInt(v, w) PROVE Appended
  <2>1. LittleEndian(v, w) \in Seq(Byte)
    BY LittleEndianType
  <2> QED
    BY <1>1, <2>1, ChunkTypes, AppendsKeeps DEF WriteInt
<1>2. ASSUME NEW v \in Values, WriteOctet(v) PROVE Appended
  <2>1. LittleEndian(v, 1) \in Seq(Byte)
    BY LittleEndianType
  <2> QED
    BY <1>2, <2>1, ChunkTypes, AppendsKeeps DEF WriteOctet
<1>3. ASSUME NEW bytes \in Payloads, WriteBytes(bytes) PROVE Appended
  BY <1>3, ChunkTypes, AppendsKeeps DEF WriteBytes
<1>4. ASSUME NEW pos \in 0 .. MaxPosition, NEW v \in Values, NEW w \in Widths,
             WriteIntAt(pos, v, w)
      PROVE  Appended \/ OverwrittenAt(pos, w)
  <2>1. LittleEndian(v, w) \in Seq(Byte) /\ Len(LittleEndian(v, w)) = w
    BY LittleEndianType
  <2> QED
    BY <1>4, <2>1, WriteAtKeeps DEF WriteIntAt
<1>5. ASSUME NEW n \in Counts \cup Widths \cup {1}, Read(n) PROVE Appended
  BY <1>5, ReadKeeps
<1> QED
  BY <1>1, <1>2, <1>3, <1>4, <1>5 DEF Next

(* Whatever is called, and in any order, the bytes of data() stay where    *)
(* they are until a reset, but for overwrites of single integers in place, *)
(* and neither index goes back: for every set of integers, payloads,       *)
(* positions and counts.                                                   *)
THEOREM DataIsKept == Spec => DataKept
<1>1. IInv /\ [Next]_vars =>
        [\/ Appended
         \/ \E pos \in 0 .. MaxPosition, w \in Widths : OverwrittenAt(pos, w)
         \/ Reset]_vars
  BY NextKeeps
<1> QED
  BY <1>1, InitEstablishes, NextPreserves, PTL DEF Spec, DataKept

-----------------------------------------------------------------------------
(* The bytes from place m + 1 to place n.                                  *)
LEMMA Slice ==
  ASSUME NEW s \in Seq(Byte), NEW m \in Nat, NEW n \in Nat, m <= n, n <= Len(s)
  PROVE  /\ SubSeq(s, m + 1, n) \in Seq(Byte)
         /\ Len(SubSeq(s, m + 1, n)) = n - m
         /\ \A i \in 1 .. n - m : SubSeq(s, m + 1, n)[i] = s[m + i]
<1>1. PICK f \in Int : f = m + 1
  OBVIOUS
<1>2. PICK part : part = SubSeq(s, f, n)
  OBVIOUS
<1>3. \A i \in f .. n : s[i] \in Byte
  <2>1. Len(s) \in Nat
    BY LenProperties
  <2>2. \A i \in 1 .. Len(s) : s[i] \in Byte
    BY ElementOfSeq
  <2> QED
    BY <1>1, <2>1, <2>2
<1>4. /\ SubSeq(s, f, n) \in Seq(Byte)
      /\ Len(SubSeq(s, f, n)) = IF f <= n THEN n - f + 1 ELSE 0
      /\ \A i \in 1 .. n - f + 1 : SubSeq(s, f, n)[i] = s[f + i - 1]
  BY <1>3, SubSeqProperties
<1>5. /\ part \in Seq(Byte)
      /\ Len(part) = IF f <= n THEN n - f + 1 ELSE 0
      /\ \A i \in 1 .. n - f + 1 : part[i] = s[f + i - 1]
  BY <1>2, <1>4
<1>6. Len(part) = n - m
  <2>1. CASE m < n
    <3>1. f <= n /\ n - f + 1 = n - m
      BY <1>1, <2>1
    <3> QED
      BY <1>5, <3>1
  <2>2. CASE m = n
    <3>1. ~(f <= n) /\ n - m = 0
      BY <1>1, <2>2
    <3> QED
      BY <1>5, <3>1
  <2> QED
    BY <2>1, <2>2
<1>7. ASSUME NEW i \in 1 .. n - m PROVE part[i] = s[m + i]
  <2>1. i \in 1 .. n - f + 1 /\ f + i - 1 = m + i
    BY <1>1
  <2> QED
    BY <1>5, <2>1
<1> QED
  BY <1>1, <1>2, <1>5, <1>6, <1>7

(* For every width, every buffer and every place in it: the bit pattern    *)
(* there is a value of the type it is read as and written back as it was.  *)
THEOREM IntegersAreInverse == Spec => []IntegersSurvive
<1>1. TypeOK => IntegersSurvive
  <2> SUFFICES ASSUME TypeOK, NEW w \in Widths, NEW signed \in BOOLEAN,
                      NEW at \in 0 .. Len(buf.buffer) - 1, at + w <= Len(buf.buffer)
               PROVE  LET bytes == SubSeq(buf.buffer, at + 1, at + w)
                          v     == ValueOf(bytes, signed)
                          half  == Patterns(w) \div 2
                      IN  /\ v \in IF signed THEN -half .. Patterns(w) - half - 1
                                             ELSE 0 .. Patterns(w) - 1
                          /\ LittleEndian(v, w) = bytes
    BY DEF IntegersSurvive
  <2>1. buf.buffer \in Seq(Byte) /\ w \in Nat \ {0} /\ at \in Nat
    BY ClientAssumption DEF TypeOK, ByteBufs
  <2>2. PICK n \in Nat : n = at + w
    BY <2>1
  <2>3. at <= n /\ n <= Len(buf.buffer) /\ n - at = w
    BY <2>1, <2>2
  <2>4. PICK bytes \in Seq(Byte) : bytes = SubSeq(buf.buffer, at + 1, n) /\ Len(bytes) = w
    BY <2>1, <2>3, Slice
  <2>5. LittleEndian(ValueOf(bytes, signed), w) = bytes
    BY <2>1, <2>4, WrittenBack
  <2>6. signed => LET half == Patterns(w) \div 2
                  IN  ValueOf(bytes, signed) \in -half .. Patterns(w) - half - 1
    BY <2>1, <2>4, SignAssumption, SignedRange
  <2>7. ~ signed => ValueOf(bytes, signed) \in 0 .. Patterns(w) - 1
    BY <2>1, <2>4, UnsignedRange
  <2> QED
    BY <2>2, <2>4, <2>5, <2>6, <2>7
<1> QED
  BY TypeCorrect, <1>1, PTL

(* Suffixes of byte sequences: what appending, reading and overwriting do  *)
(* to the bytes from place r + 1 on.                                       *)
LEMMA SuffixOfConcat ==
  ASSUME NEW s \in Seq(Byte), NEW t \in Seq(Byte), NEW r \in 0 .. Len(s)
  PROVE  SubSeq(s \o t, r + 1, Len(s \o t)) = SubSeq(s, r + 1, Len(s)) \o t
<1>1. Len(s) \in Nat /\ Len(t) \in Nat
  BY LenProperties
<1>2. PICK whole \in Seq(Byte) : whole = s \o t
  BY ConcatProperties
<1>3. /\ Len(whole) = Len(s) + Len(t)
      /\ \A i \in 1 .. Len(s) + Len(t) :
           whole[i] = IF i <= Len(s) THEN s[i] ELSE t[i - Len(s)]
  BY <1>2, ConcatProperties
<1>4. PICK kept : kept = SubSeq(s, r + 1, Len(s))
  OBVIOUS
<1>5. /\ kept \in Seq(Byte)
      /\ Len(kept) = Len(s) - r
      /\ \A i \in 1 .. Len(s) - r : kept[i] = s[r + i]
  BY <1>1, <1>4, Slice
<1>6. PICK left : left = SubSeq(whole, r + 1, Len(whole))
  OBVIOUS
<1>7. /\ left \in Seq(Byte)
      /\ Len(left) = Len(whole) - r
      /\ \A i \in 1 .. Len(whole) - r : left[i] = whole[r + i]
  <2>1. r \in Nat /\ Len(whole) \in Nat /\ r <= Len(whole) /\ Len(whole) <= Len(whole)
    BY <1>1, <1>3
  <2>2. /\ SubSeq(whole, r + 1, Len(whole)) \in Seq(Byte)
        /\ Len(SubSeq(whole, r + 1, Len(whole))) = Len(whole) - r
        /\ \A i \in 1 .. Len(whole) - r :
             SubSeq(whole, r + 1, Len(whole))[i] = whole[r + i]
    BY <2>1, Slice
  <2> QED
    BY <1>6, <2>2
<1>8. PICK glued \in Seq(Byte) : glued = kept \o t
  BY <1>5, ConcatProperties
<1>9. /\ Len(glued) = Len(kept) + Len(t)
      /\ \A i \in 1 .. Len(kept) + Len(t) :
           glued[i] = IF i <= Len(kept) THEN kept[i] ELSE t[i - Len(kept)]
  BY <1>5, <1>8, ConcatProperties
<1>10. Len(left) = Len(glued)
  BY <1>1, <1>3, <1>5, <1>7, <1>9
<1>11. ASSUME NEW i \in 1 .. Len(left) PROVE left[i] = glued[i]
  <2>1. /\ r + i \in 1 .. Len(s) + Len(t)
        /\ i \in 1 .. Len(kept) + Len(t)
        /\ r + i <= Len(s) <=> i <= Len(kept)
        /\ (r + i) - Len(s) = i - Len(kept)
    BY <1>1, <1>3, <1>5, <1>7
  <2>2. left[i] = whole[r + i]
    BY <1>7
  <2>3. CASE i <= Len(kept)
    <3>1. i \in 1 .. Len(s) - r
      BY <1>5, <2>3
    <3> QED
      BY <1>3, <1>5, <1>9, <2>1, <2>2, <2>3, <3>1
  <2>4. CASE ~(i <= Len(kept))
    BY <1>3, <1>9, <2>1, <2>2, <2>4
  <2> QED
    BY <2>3, <2>4
<1>12. left = glued
  BY <1>7, <1>10, <1>11, SeqEqual
<1> QED
  BY <1>2, <1>4, <1>6, <1>8, <1>12

LEMMA SuffixOfSuffix ==
  ASSUME NEW s \in Seq(Byte), NEW r \in 0 .. Len(s), NEW n \in 0 .. Len(s) - r
  PROVE  LET unread == SubSeq(s, r + 1, Len(s))
         IN  /\ unread \in Seq(Byte)
             /\ Len(unread) = Len(s) - r
             /\ SubSeq(s, r + n + 1, Len(s)) = SubSeq(unread, n + 1, Len(unread))
             /\ SubSeq(s, r + 1, r + n) = SubSeq(unread, 1, n)
<1> DEFINE unread == SubSeq(s, r + 1, Len(s))
           rest   == SubSeq(s, r + n + 1, Len(s))
           taken  == SubSeq(s, r + 1, r + n)
<1>1. /\ Len(s) \in Nat
      /\ \A i \in 1 .. Len(s) : s[i] \in Byte
  BY LenProperties, ElementOfSeq
<1>2. /\ unread \in Seq(Byte)
      /\ Len(unread) = Len(s) - r
      /\ \A i \in 1 .. Len(s) - r : unread[i] = s[r + i]
  BY <1>1, Slice
<1>3. /\ rest \in Seq(Byte)
      /\ Len(rest) = Len(s) - r - n
      /\ \A i \in 1 .. Len(s) - r - n : rest[i] = s[r + n + i]
  <2>1. PICK e \in Nat : e = r + n
    BY <1>1
  <2>2. e <= Len(s) /\ Len(s) - e = Len(s) - r - n
    BY <1>1, <2>1
  <2>3. /\ SubSeq(s, e + 1, Len(s)) \in Seq(Byte)
        /\ Len(SubSeq(s, e + 1, Len(s))) = Len(s) - e
        /\ \A i \in 1 .. Len(s) - e : SubSeq(s, e + 1, Len(s))[i] = s[e + i]
    BY <1>1, <2>2, Slice
  <2> QED
    BY <2>1, <2>2, <2>3
<1>4. /\ taken \in Seq(Byte)
      /\ Len(taken) = n
      /\ \A i \in 1 .. n : taken[i] = s[r + i]
  <2>1. PICK e \in Nat : e = r + n
    BY <1>1
  <2>2. r \in Nat /\ r <= e /\ e <= Len(s) /\ e - r = n
    BY <1>1, <2>1
  <2>3. /\ SubSeq(s, r + 1, e) \in Seq(Byte)
        /\ Len(SubSeq(s, r + 1, e)) = e - r
        /\ \A i \in 1 .. e - r : SubSeq(s, r + 1, e)[i] = s[r + i]
    BY <2>2, Slice
  <2> QED
    BY <2>1, <2>2, <2>3
<1> HIDE DEF unread, rest, taken
<1> DEFINE rest2  == SubSeq(unread, n + 1, Len(unread))
           taken2 == SubSeq(unread, 1, n)
<1>5. /\ rest2 \in Seq(Byte)
      /\ Len(rest2) = Len(unread) - n
      /\ \A i \in 1 .. Len(unread) - n : rest2[i] = unread[n + i]
  <2>1. n \in Nat /\ Len(unread) \in Nat /\ n <= Len(unread)
    BY <1>1, <1>2
  <2> QED
    BY <1>2, <2>1, Slice
<1>6. /\ taken2 \in Seq(Byte)
      /\ Len(taken2) = n
      /\ \A i \in 1 .. n : taken2[i] = unread[i]
  <2>1. n \in Nat /\ 0 <= n /\ n <= Len(unread) /\ 0 \in Nat
    BY <1>1, <1>2
  <2>2. PICK first : first = SubSeq(unread, 1, n)
    OBVIOUS
  <2>3. /\ SubSeq(unread, 0 + 1, n) \in Seq(Byte)
        /\ Len(SubSeq(unread, 0 + 1, n)) = n - 0
        /\ \A i \in 1 .. n - 0 : SubSeq(unread, 0 + 1, n)[i] = unread[0 + i]
    BY <1>2, <2>1, Slice
  <2>4. first = SubSeq(unread, 0 + 1, n)
    BY <2>2
  <2>5. /\ first \in Seq(Byte)
        /\ Len(first) = n - 0
        /\ \A i \in 1 .. n - 0 : first[i] = unread[0 + i]
    BY <2>3, <2>4
  <2>6. /\ first \in Seq(Byte)
        /\ Len(first) = n
        /\ \A i \in 1 .. n : first[i] = unread[i]
    BY <2>1, <2>5
  <2> QED
    BY <2>2, <2>6
<1> HIDE DEF rest2, taken2
<1>7. rest = rest2
  <2>1. ASSUME NEW i \in 1 .. Len(rest) PROVE rest[i] = rest2[i]
    <3>1. /\ i \in 1 .. Len(s) - r - n
          /\ i \in 1 .. Len(unread) - n
          /\ n + i \in 1 .. Len(s) - r
          /\ r + n + i = r + (n + i)
      BY <1>1, <1>2, <1>3
    <3>2. rest[i] = s[r + n + i]
      BY <1>3, <3>1
    <3>3. rest2[i] = unread[n + i]
      BY <1>5, <3>1
    <3>4. unread[n + i] = s[r + (n + i)]
      BY <1>2, <3>1
    <3> QED
      BY <3>1, <3>2, <3>3, <3>4
  <2>2. Len(rest) = Len(rest2)
    BY <1>1, <1>2, <1>3, <1>5
  <2> QED
    BY <1>3, <1>5, <2>1, <2>2, SeqEqual
<1>8. taken = taken2
  <2>1. ASSUME NEW i \in 1 .. Len(taken) PROVE taken[i] = taken2[i]
    <3>1. i \in 1 .. n /\ i \in 1 .. Len(s) - r
      BY <1>1, <1>4
    <3> QED
      BY <1>2, <1>4, <1>6, <3>1
  <2> QED
    BY <1>4, <1>6, <2>1, SeqEqual
<1> QED
  BY <1>2, <1>7, <1>8 DEF unread, rest, taken, rest2, taken2

LEMMA SuffixOfOverwrite ==
  ASSUME NEW s \in Seq(Byte), NEW r \in 0 .. Len(s), NEW pos \in Nat,
         NEW bytes \in Seq(Byte)
  PROVE  LET unread == SubSeq(s, r + 1, Len(s))
             t      == Overwritten(s, pos, bytes)
             from   == pos - r
         IN  SubSeq(t, r + 1, Len(t)) = Overwritten(unread, from, bytes)
<1> DEFINE t == Overwritten(s, pos, bytes)
<1>0. /\ t \in Seq(Byte)
      /\ Len(t) = Len(s)
      /\ \A i \in 1 .. Len(s) :
           t[i] = IF i \in pos + 1 .. pos + Len(bytes) THEN bytes[i - pos] ELSE s[i]
  BY OverwrittenType
<1> HIDE DEF t
<1> DEFINE unread == SubSeq(s, r + 1, Len(s))
           after  == SubSeq(t, r + 1, Len(t))
           from   == pos - r
<1>1. /\ Len(s) \in Nat
      /\ Len(bytes) \in Nat
      /\ \A i \in 1 .. Len(s) : s[i] \in Byte /\ t[i] \in Byte
  BY <1>0, LenProperties, ElementOfSeq
<1>2. /\ unread \in Seq(Byte)
      /\ Len(unread) = Len(s) - r
      /\ \A i \in 1 .. Len(s) - r : unread[i] = s[r + i]
  BY <1>1, Slice
<1>3. /\ after \in Seq(Byte)
      /\ Len(after) = Len(s) - r
      /\ \A i \in 1 .. Len(s) - r : after[i] = t[r + i]
  BY <1>0, <1>1, Slice
<1> HIDE DEF unread, after
<1>4. DOMAIN after = 1 .. Len(unread)
  BY <1>2, <1>3, LenProperties
<1>5. ASSUME NEW i \in 1 .. Len(unread)
      PROVE  after[i] = IF i \in from + 1 .. from + Len(bytes)
                          THEN bytes[i - from] ELSE unread[i]
  <2>1. /\ r + i \in 1 .. Len(s)
        /\ after[i] = t[r + i]
        /\ unread[i] = s[r + i]
    <3>1. i \in 1 .. Len(s) - r
      BY <1>2
    <3>2. r + i \in 1 .. Len(s)
      BY <1>1, <3>1
    <3> QED
      BY <1>2, <1>3, <3>1, <3>2
  <2>2. i \in from + 1 .. from + Len(bytes) <=> r + i \in pos + 1 .. pos + Len(bytes)
    BY <1>1, <1>2
  <2>3. (r + i) - pos = i - from
    BY <1>2
  <2> QED
    BY <1>0, <2>1, <2>2, <2>3
<1>6. after = [i \in 1 .. Len(unread) |->
                 IF i \in from + 1 .. from + Len(bytes)
                   THEN bytes[i - from] ELSE unread[i]]
  <2>1. after = [i \in 1 .. Len(unread) |-> after[i]]
    BY <1>3, <1>4, LenProperties
  <2> HIDE DEF from
  <2> QED
    BY <1>5, <2>1
<1> QED
  BY <1>6 DEF unread, after, from, t, Overwritten

-----------------------------------------------------------------------------
(* Every call on the object is a step of the queue.                        *)
LEMMA AppendsImplementsPut ==
  ASSUME IInv, NEW c \in Chunks, Appends(c)
  PROVE  Queue!Put(c.bytes)
<1>1. /\ buf.buffer \in Seq(Byte)
      /\ buf.reader_index \in 0 .. Len(buf.buffer)
      /\ c.bytes \in Seq(Byte)
      /\ buf \in ByteBufs
  BY DEF IInv, TypeOK, CursorsInBounds, ByteBufs, Chunks
<1>2. /\ buf' = Write(buf, c)
      /\ result' = [outcome |-> "ok", bytes |-> <<>>]
  BY DEF Appends, Returned, Ok
<1>3. /\ buf'.buffer = buf.buffer \o c.bytes
      /\ buf'.reader_index = buf.reader_index
  BY <1>1, <1>2, WriteType
<1>4. Unread' = Unread \o c.bytes
  BY <1>1, <1>3, SuffixOfConcat DEF Unread
<1> QED
  BY <1>2, <1>4 DEF Queue!Put, Queue!Done

LEMMA ReadImplementsTake ==
  ASSUME IInv, NEW n \in Nat, Read(n)
  PROVE  Queue!Take(n) \/ Queue!RefuseTake(n)
<1>1. /\ buf.buffer \in Seq(Byte)
      /\ Len(buf.buffer) \in Nat
      /\ buf.reader_index \in 0 .. Len(buf.buffer)
      /\ buf \in ByteBufs
  BY DEF IInv, TypeOK, CursorsInBounds, ByteBufs
<1>2. Len(Unread) = Len(buf.buffer) - buf.reader_index
  BY <1>1, SuffixOfSuffix DEF Unread
<1>3. CASE ReadableBytes(buf) < n
  <2>1. /\ buf' = buf
        /\ result' = [outcome |-> "out_of_range", bytes |-> <<>>]
    BY <1>3 DEF Read, ReadBytes, Returned, OutOfRange
  <2>2. n > Len(Unread)
    BY <1>1, <1>2, <1>3 DEF ReadableBytes
  <2> QED
    BY <2>1, <2>2 DEF Queue!RefuseTake, Queue!Refused, Unread
<1>4. CASE ~(ReadableBytes(buf) < n)
  <2> DEFINE s == buf.buffer
             r == buf.reader_index
  <2>1. n \in 0 .. Len(s) - r
    BY <1>1, <1>4 DEF ReadableBytes
  <2>2. /\ buf' = [buf EXCEPT !.reader_index = @ + n]
        /\ result' = [outcome |-> "ok", bytes |-> SubSeq(s, r + 1, r + n)]
    BY <1>4 DEF Read, ReadBytes, Returned, Ok
  <2>3. buf'.buffer = s /\ buf'.reader_index = r + n
    BY <1>1, <2>2 DEF ByteBufs
  <2>4. /\ SubSeq(s, r + n + 1, Len(s)) = SubSeq(Unread, n + 1, Len(Unread))
        /\ SubSeq(s, r + 1, r + n) = SubSeq(Unread, 1, n)
    BY <1>1, <2>1, SuffixOfSuffix DEF Unread
  <2>5. Unread' = SubSeq(Unread, n + 1, Len(Unread))
    BY <2>3, <2>4 DEF Unread
  <2>6. n <= Len(Unread)
    BY <1>1, <1>2, <2>1
  <2> QED
    BY <2>2, <2>4, <2>5, <2>6 DEF Queue!Take, Queue!Got
<1> QED
  BY <1>3, <1>4

LEMMA WriteAtImplementsOverwrite ==
  ASSUME IInv, NEW pos \in Nat, NEW bytes \in Seq(Byte),
         Returned(WriteAt(buf, pos, bytes))
  PROVE  LET from == pos - buf.reader_index
         IN  Queue!Overwrite(from, bytes) \/ Queue!RefuseOverwrite(from, bytes)
<1> DEFINE s    == buf.buffer
           r    == buf.reader_index
           from == pos - r
           call == WriteAt(buf, pos, bytes)
<1>1. /\ s \in Seq(Byte)
      /\ Len(s) \in Nat
      /\ Len(bytes) \in Nat
      /\ r \in 0 .. Len(s)
      /\ buf \in ByteBufs
  BY DEF IInv, TypeOK, CursorsInBounds, ByteBufs
<1>2. Len(Unread) = Len(s) - r
  BY <1>1, SuffixOfSuffix DEF Unread
<1>3. /\ call.buf.reader_index = r
      /\ call.outcome \in {"ok", "out_of_range"}
      /\ call.value = <<>>
      /\ call.outcome = "ok" <=> pos + Len(bytes) <= Len(s)
      /\ call.outcome = "ok" => call.buf.buffer = Overwritten(s, pos, bytes)
      /\ call.outcome # "ok" => call.buf = buf
  BY <1>1, WriteAtType
<1>4. /\ buf' = call.buf
      /\ result' = [outcome |-> call.outcome, bytes |-> <<>>]
  BY <1>3 DEF Returned
<1> HIDE DEF call
<1>5. CASE call.outcome # "ok"
  <2>1. from + Len(bytes) > Len(Unread)
    BY <1>1, <1>2, <1>3, <1>5
  <2>2. UNCHANGED Unread
    BY <1>3, <1>4, <1>5 DEF Unread
  <2> QED
    BY <1>3, <1>4, <1>5, <2>1, <2>2 DEF Queue!RefuseOverwrite, Queue!Refused
<1>6. CASE call.outcome = "ok"
  <2> DEFINE t == Overwritten(s, pos, bytes)
  <2>1. from + Len(bytes) <= Len(Unread)
    BY <1>1, <1>2, <1>3, <1>6
  <2>2. Unread' = SubSeq(t, r + 1, Len(t))
    BY <1>3, <1>4, <1>6 DEF Unread
  <2>3. SubSeq(t, r + 1, Len(t)) = Overwritten(Unread, from, bytes)
    BY <1>1, SuffixOfOverwrite DEF Unread
  <2> HIDE DEF from
  <2>4. Unread' = [i \in 1 .. Len(Unread) |->
                     IF i \in from + 1 .. from + Len(bytes)
                       THEN bytes[i - from] ELSE Unread[i]]
    BY <2>2, <2>3 DEF Overwritten
  <2> QED
    BY <1>4, <1>6, <2>1, <2>4 DEF Queue!Overwrite, Queue!Done, from
<1> QED
  BY <1>5, <1>6

LEMMA NextImplementsQueue == IInv /\ [Next]_vars => [Queue!Next]_(Queue!vars)
<1> SUFFICES ASSUME IInv, [Next]_vars PROVE [Queue!Next]_(Queue!vars)
  OBVIOUS
<1> USE ClientAssumption
<1>0. /\ buf.reader_index \in 0 .. MaxLen
      /\ buf \in ByteBufs
  BY DEF IInv, TypeOK, CursorsInBounds, LengthBounded, ByteBufs
<1>1. ASSUME NEW v \in Values, NEW w \in Widths, WriteInt(v, w)
      PROVE  Queue!Next
  <2>1. LittleEndian(v, w) \in Seq(Byte) /\ LittleEndian(v, w) \in IntegerBytes
    BY LittleEndianType DEF IntegerBytes
  <2>2. Queue!Put(LittleEndian(v, w))
    BY <1>1, <2>1, ChunkTypes, AppendsImplementsPut DEF WriteInt
  <2> QED
    BY <2>1, <2>2 DEF Queue!Next
<1>2. ASSUME NEW v \in Values, WriteOctet(v) PROVE Queue!Next
  <2>1. LittleEndian(v, 1) \in Seq(Byte) /\ LittleEndian(v, 1) \in IntegerBytes
    BY LittleEndianType DEF IntegerBytes
  <2>2. Queue!Put(LittleEndian(v, 1))
    BY <1>2, <2>1, ChunkTypes, AppendsImplementsPut DEF WriteOctet
  <2> QED
    BY <2>1, <2>2 DEF Queue!Next
<1>3. ASSUME NEW bytes \in Payloads, WriteBytes(bytes) PROVE Queue!Next
  <2>1. Queue!Put(bytes)
    BY <1>3, ChunkTypes, AppendsImplementsPut DEF WriteBytes
  <2> QED
    BY <2>1 DEF Queue!Next
<1>4. ASSUME NEW pos \in 0 .. MaxPosition, NEW v \in Values, NEW w \in Widths,
             WriteIntAt(pos, v, w)
      PROVE  Queue!Next
  <2>1. LittleEndian(v, w) \in Seq(Byte) /\ LittleEndian(v, w) \in IntegerBytes
    BY LittleEndianType DEF IntegerBytes
  <2>2. PICK bytes \in IntegerBytes :
          bytes \in Seq(Byte) /\ Returned(WriteAt(buf, pos, bytes))
    BY <1>4, <2>1 DEF WriteIntAt
  <2>3. PICK from \in -MaxLen .. MaxPosition : from = pos - buf.reader_index
    BY <1>0
  <2>4. Queue!Overwrite(from, bytes) \/ Queue!RefuseOverwrite(from, bytes)
    BY <2>2, <2>3, WriteAtImplementsOverwrite
  <2> QED
    BY <2>4 DEF Queue!Next
<1>5. ASSUME NEW n \in Counts \cup Widths \cup {1}, Read(n) PROVE Queue!Next
  <2>1. Queue!Take(n) \/ Queue!RefuseTake(n)
    BY <1>5, ReadImplementsTake
  <2> QED
    BY <2>1 DEF Queue!Next
<1>6. ASSUME Reset PROVE Queue!Next
  <2>1. /\ buf' = [buffer |-> <<>>, reader_index |-> 0, writer_index |-> 0]
        /\ result' = [outcome |-> "ok", bytes |-> <<>>]
    BY <1>6 DEF Reset, Returned, Ok, EmptyBuf
  <2>2. Unread' = <<>>
    <3>1. Len(<<>>) = 0
      BY EmptySeq
    <3> QED
      BY <2>1, <3>1, SubSeqEmpty DEF Unread
  <2> QED
    BY <2>1, <2>2 DEF Queue!Next, Queue!Clear, Queue!Done
<1>7. ASSUME UNCHANGED vars PROVE UNCHANGED Queue!vars
  BY <1>7 DEF vars, Queue!vars, Unread
<1> QED
  BY <1>1, <1>2, <1>3, <1>4, <1>5, <1>6, <1>7 DEF Next

(* A ByteBuf is a queue of the bytes written and not yet read: under any   *)
(* calls none is lost, duplicated or reordered, a read or an overwrite is  *)
(* refused exactly when it reaches past the last byte, and then changes    *)
(* nothing.                                                                *)
THEOREM BufferImplementsQueue == Spec => ImplementsQueue
<1>1. Init => Queue!Init
  <2> SUFFICES ASSUME Init PROVE Queue!Init
    OBVIOUS
  <2>1. /\ buf = [buffer |-> <<>>, reader_index |-> 0, writer_index |-> 0]
        /\ result = [outcome |-> "ok", bytes |-> <<>>]
    BY DEF Init, EmptyBuf
  <2>2. Len(<<>>) = 0
    BY EmptySeq
  <2>3. Unread = <<>>
    BY <2>1, <2>2, SubSeqEmpty DEF Unread
  <2> QED
    BY <2>1, <2>3 DEF Queue!Init, Queue!Done
<1> QED
  BY <1>1, InitEstablishes, NextPreserves, NextImplementsQueue, PTL
  DEF Spec, ImplementsQueue, Queue!Spec

=============================================================================
