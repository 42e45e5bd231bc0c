-------------------------- MODULE ChecksumServices --------------------------
(***************************************************************************)
(* The four checksum services of include/checksum.hpp computing: bytes are *)
(* written to a buffer and read from it, a service is asked for the        *)
(* checksum, the bytes may be damaged on their way, and the receiver asks  *)
(* the same service again.                                                 *)
(*                                                                         *)
(* A word of 16 or 32 bits is the set of the positions of its ones: TLC's  *)
(* integers have 32 bits with a sign, and << ^ & are set operations.       *)
(***************************************************************************)
EXTENDS ByteBuf, FiniteSets, FiniteSetsExt

CONSTANTS
  Writes,      \* the byte sequences that are written
  Damages,     \* the sets of bits, counted over the data, that are flipped
  MaxBytes     \* bound: the length of the data

ASSUME BytesOfEightBits == Radix = 256

ASSUME ServicesAssumption ==
  /\ Writes \subseteq Seq(Byte)
  /\ Damages \subseteq SUBSET Nat
  /\ MaxBytes \in Nat

(* The int32_t in which SZSE_BIN sums does not overflow.                   *)
ASSUME SumFits == 255 * MaxBytes <= 2147483647

Sums == INSTANCE Checksum

Services == {"CRC16", "CRC32", "SSE_BIN", "SZSE_BIN"}

-----------------------------------------------------------------------------
Bits(v) == {i \in 0 .. 7 : (v \div 2^i) % 2 = 1}

ByteOf(bits) ==
  LET one(i) == IF i \in bits THEN 2^i ELSE 0
  IN  one(0) + one(1) + one(2) + one(3) + one(4) + one(5) + one(6) + one(7)

ShiftRight(word) == {i - 1 : i \in word \ {0}}

(* One turn of the inner loop; taps is 0xA001 in the code.                 *)
ShiftOut(crc, taps) ==
  IF 0 \in crc THEN SymDiff(ShiftRight(crc), taps) ELSE ShiftRight(crc)

(* Wrong variant: seven turns instead of eight.                            *)
AbsorbSeven(crc, byte, taps) ==
  LET turn[i \in 0 .. 7] ==
        IF i = 0 THEN SymDiff(crc, Bits(byte)) ELSE ShiftOut(turn[i - 1], taps)
  IN  turn[7]

(* One turn of the outer loop.                                             *)
Absorb(crc, byte, taps) ==
  LET turn[i \in 0 .. 8] ==
        IF i = 0 THEN SymDiff(crc, Bits(byte)) ELSE ShiftOut(turn[i - 1], taps)
  IN  turn[8]

Cyclic(bytes, start, taps) ==
  LET crc[i \in 0 .. Len(bytes)] ==
        IF i = 0 THEN start ELSE Absorb(crc[i - 1], bytes[i], taps)
  IN  crc[Len(bytes)]

(* `crc = 0xFFFF`, then every byte of data() with 0xA001.                  *)
Crc16(b) == Cyclic(b.buffer, 0 .. 15, {0, 13, 15})

(* zlib's crc32(0, bytes): the same with 0xEDB88320 in 32 bits, inverted   *)
(* before and after.                                                       *)
ZlibCrc32(bytes) ==
  (0 .. 31) \
    Cyclic(bytes, 0 .. 31,
           {5, 8, 9, 15, 19, 20, 21, 23, 24, 26, 27, 29, 30, 31})

(* Wrong variant: as many bytes of data() as have been read, not as are    *)
(* readable.                                                               *)
Crc32OfRead(b) == ZlibCrc32(SubSeq(b.buffer, 1, b.reader_index))

(* crc32() of the first readable_bytes() bytes of data().                  *)
Crc32(b) == ZlibCrc32(SubSeq(b.buffer, 1, ReadableBytes(b)))

(* `checksum = (checksum + b) & 0xFF` for every byte.                      *)
SseBin(b) ==
  LET sum[i \in 0 .. Len(b.buffer)] ==
        IF i = 0 THEN 0 ELSE (sum[i - 1] + b.buffer[i]) % 256
  IN  sum[Len(b.buffer)]

(* Wrong variant: the sum itself.                                          *)
SzseBinUncut(b) == Sums!SumOf(b.buffer)

(* `checksum += b` for every byte, in an int32_t, and `% 256` of the sum.  *)
SzseBin(b) ==
  LET sum[i \in 0 .. Len(b.buffer)] ==
        IF i = 0 THEN 0 ELSE sum[i - 1] + b.buffer[i]
  IN  sum[Len(b.buffer)] % 256

Calc(service, b) ==
  CASE service = "CRC16"    -> Crc16(b)
    [] service = "CRC32"    -> Crc32(b)
    [] service = "SSE_BIN"  -> SseBin(b)
    [] service = "SZSE_BIN" -> SzseBin(b)

-----------------------------------------------------------------------------
(***************************************************************************)
(* What the names of the services promise, defined without their loops.    *)
(* A polynomial over GF(2) is the set of its exponents; the first bit on   *)
(* the wire, the lowest of the first byte, is its highest coefficient.     *)
(***************************************************************************)
PolynomialOf(bytes) ==
  {8 * Len(bytes) - 1 - n :
     n \in {k \in 0 .. 8 * Len(bytes) - 1 : k % 8 \in Bits(bytes[k \div 8 + 1])}}

Times(poly, n) == {e + n : e \in poly}

(* One step of a long division: the multiple of the divisor that cancels   *)
(* exponent e is subtracted.                                               *)
Cancelled(poly, divisor, degree, e) ==
  IF e \in poly THEN SymDiff(poly, Times(divisor, e - degree)) ELSE poly

Remainder(poly, divisor, highest) ==
  LET degree == CHOOSE d \in divisor : \A e \in divisor : e <= d
      left[e \in degree .. highest + 1] ==
        IF e = highest + 1 THEN poly
                           ELSE Cancelled(left[e + 1], divisor, degree, e)
  IN  left[degree]

(* The cyclic redundancy check with a preset of ones, lowest bit first.    *)
CyclicCheck(bytes, divisor, width) ==
  LET top == 8 * Len(bytes)
      preset == SymDiff(Times(PolynomialOf(bytes), width), top .. top + width - 1)
  IN  {width - 1 - e : e \in Remainder(preset, divisor, top + width - 1)}

Crc16Divisor == {16, 15, 2, 0}
Crc32Divisor == {32, 26, 23, 22, 16, 12, 11, 10, 8, 7, 5, 4, 2, 1, 0}

Promised(service, bytes) ==
  CASE service = "CRC16"    -> CyclicCheck(bytes, Crc16Divisor, 16)
    [] service = "CRC32"    -> (0 .. 31) \ CyclicCheck(bytes, Crc32Divisor, 32)
    [] service = "SSE_BIN"  -> Sums!SseBin([EmptyBuf EXCEPT !.buffer = bytes])
    [] service = "SZSE_BIN" -> Sums!SzseBin([EmptyBuf EXCEPT !.buffer = bytes])

(* The known inputs of test/checksum_test.cpp: 0x4B37 and 0xCBF43926 for   *)
(* "123456789", 0 for the CRC32 of nothing.                                *)
ASSUME KnownInputs ==
  /\ CyclicCheck(<<49, 50, 51, 52, 53, 54, 55, 56, 57>>, Crc16Divisor, 16)
       = {0, 1, 2, 4, 5, 8, 9, 11, 14}
  /\ Promised("CRC32", <<49, 50, 51, 52, 53, 54, 55, 56, 57>>)
       = {1, 2, 5, 8, 11, 12, 13, 18, 20, 21, 22, 23, 24, 25, 27, 30, 31}
  /\ Promised("CRC32", <<>>) = {}

-----------------------------------------------------------------------------
VARIABLES
  buf,       \* the buffer of the sender, and then of the receiver
  sent,      \* what the sender asked for: service, data and answer, or <<>>
  arrived,   \* the receiver has the bytes
  verdict    \* what the receiver concludes

vars == <<buf, sent, arrived, verdict>>

Init == buf = EmptyBuf /\ sent = <<>> /\ arrived = FALSE /\ verdict = "none"

WriteBytes(bytes) ==
  /\ sent = <<>>
  /\ Len(buf.buffer) + Len(bytes) <= MaxBytes
  /\ buf' = Write(buf, Uncounted(bytes))
  /\ UNCHANGED <<sent, arrived, verdict>>

(* A decode() of a byte, by the sender or by the receiver, who may read    *)
(* before it checks.                                                       *)
ReadByte ==
  /\ sent = <<>> \/ arrived
  /\ verdict = "none"
  /\ ReadableBytes(buf) >= 1
  /\ buf' = ReadBytes(buf, 1).buf
  /\ UNCHANGED <<sent, arrived, verdict>>

Ask(service) ==
  /\ sent = <<>>
  /\ sent' = [service |-> service, data |-> buf.buffer,
              read |-> buf.reader_index, sum |-> Calc(service, buf)]
  /\ UNCHANGED <<buf, arrived, verdict>>

(* The bytes of a sequence, each with its bits of the damage flipped.      *)
Flipped(bytes, damage) ==
  [i \in 1 .. Len(bytes) |->
     ByteOf(SymDiff(Bits(bytes[i]), {k \in 0 .. 7 : 8 * (i - 1) + k \in damage}))]

(* The bytes fill the buffer of the receiver, as they were or damaged.     *)
Arrive(damage) ==
  /\ sent # <<>> /\ ~arrived
  /\ \A bit \in damage : bit < 8 * Len(sent.data)
  /\ buf' = Write(EmptyBuf, Uncounted(Flipped(sent.data, damage)))
  /\ arrived' = TRUE
  /\ UNCHANGED <<sent, verdict>>

Check ==
  /\ arrived
  /\ verdict = "none"
  /\ verdict' = IF Calc(sent.service, buf) = sent.sum THEN "accepted" ELSE "refused"
  /\ UNCHANGED <<buf, sent, arrived>>

Next ==
  \/ \E bytes \in Writes : WriteBytes(bytes)
  \/ ReadByte
  \/ \E service \in Services : Ask(service)
  \/ \E damage \in Damages \cup {{}} : Arrive(damage)
  \/ Check

Spec == Init /\ [][Next]_vars

-----------------------------------------------------------------------------
(* The objects have their types, the answers the width of their types.     *)
TypeOK ==
  /\ buf \in ByteBufs
  /\ arrived \in BOOLEAN
  /\ verdict \in {"none", "accepted", "refused"}
  /\ sent # <<>> =>
       /\ sent.data \in Seq(Byte)
       /\ sent.service = "CRC16" => sent.sum \subseteq 0 .. 15
       /\ sent.service = "CRC32" => sent.sum \subseteq 0 .. 31
       /\ sent.service \in {"SSE_BIN", "SZSE_BIN"} => sent.sum \in 0 .. 255

(* The bytes that a service answers for when some have been read: all of   *)
(* them, but CRC32 starts with the first and counts only the unread ones.  *)
Covered(service, bytes, read) ==
  IF service = "CRC32" THEN SubSeq(bytes, 1, Len(bytes) - read) ELSE bytes

(* Each calc() computes what its name promises of the bytes in the buffer, *)
(* wherever the reader is, but for CRC32 of a prefix as short as the reader*)
(* is far.                                                                 *)
AnswersAsNamed ==
  sent # <<>> => sent.sum = Promised(sent.service, Covered(sent.service, sent.data, sent.read))

(* A receiver who has read as many bytes as the sender had and asks the    *)
(* service again refuses every damage of the bytes it answers for: the CRCs*)
(* find all that Damages has, the sums all that stay in one byte.  What    *)
(* was not damaged there is accepted.  But for CRC32 it does not matter    *)
(* what either has read.                                                   *)
DamageIsFound ==
  verdict # "none" /\ (sent.service # "CRC32" \/ buf.reader_index = sent.read) =>
    LET covered == Covered(sent.service, sent.data, sent.read)
        changed == {i \in DOMAIN covered : covered[i] # buf.buffer[i]}
    IN  /\ changed = {} => verdict = "accepted"
        /\ changed # {} /\ (Cardinality(changed) = 1 \/ sent.service \in {"CRC16", "CRC32"})
             => verdict = "refused"
=============================================================================
