------------------------------ MODULE ByteBuf ------------------------------
(***************************************************************************)
(* The byte buffer of include/bytebuf.hpp.  A ByteBuf object is a record   *)
(* with the three members of the class; its member functions are operators *)
(* from an object (and arguments) to the object they leave behind, so that *)
(* a module that composes calls can make one action of a whole handler.    *)
(*                                                                         *)
(* Positions are the 0-based offsets of the code: byte p of the buffer is  *)
(* buffer[p + 1].                                                          *)
(***************************************************************************)
EXTENDS Integers, Sequences

CONSTANT Radix   \* how many values a byte has: 256 in the program

ASSUME RadixAssumption == Radix \in Nat \ {0, 1}

Byte == 0 .. Radix - 1

ByteBufs == [buffer : Seq(Byte), reader_index : Nat, writer_index : Nat]

EmptyBuf == [buffer |-> <<>>, reader_index |-> 0, writer_index |-> 0]

-----------------------------------------------------------------------------
(***************************************************************************)
(* Integers on the wire.  The `big_endian` parameter of write, write_at    *)
(* and read is never passed by a named member function, so every integer,  *)
(* with or without `_le` in the name of its writer, is little-endian.      *)
(***************************************************************************)

(* The w bytes that the shifts of write_le make of a value: the value      *)
(* modulo Radix^w, negative values in two's complement.                    *)
LittleEndian(v, w) ==
  LET shifted[i \in 0 .. w] == IF i = 0 THEN v ELSE shifted[i - 1] \div Radix
  IN  [i \in 1 .. w |-> shifted[i - 1] % Radix]

(* Wrong variant: the signed types read through the unsigned ones, never   *)
(* made negative again.                                                    *)
ValueOfUnsigned(bytes, signed) ==
  LET w == Len(bytes)
      high[i \in 1 .. w] ==
        IF i = 1 THEN bytes[w] ELSE high[i - 1] * Radix + bytes[w + 1 - i]
  IN  high[w]

(* The value that read_le assembles from bytes, the sign being that of the *)
(* type T it is called with.                                               *)
ValueOf(bytes, signed) ==
  LET w == Len(bytes)
      top == IF signed /\ bytes[w] >= Radix \div 2
               THEN bytes[w] - Radix ELSE bytes[w]
      high[i \in 1 .. w] ==
        IF i = 1 THEN top ELSE high[i - 1] * Radix + bytes[w + 1 - i]
  IN  high[w]

(* How many bit patterns w bytes have: Radix^w.                            *)
Patterns(w) ==
  LET power[i \in 0 .. w] == IF i = 0 THEN 1 ELSE power[i - 1] * Radix
  IN  power[w]

-----------------------------------------------------------------------------
(***************************************************************************)
(* What a sequence of append calls does to a buffer depends on nothing in  *)
(* the buffer: it appends some bytes and advances writer_index_ by some    *)
(* amount.  A chunk is that effect.  Only write_le and write_be count      *)
(* their bytes in writer_index_; write_u8, write_i8 and write_bytes append *)
(* without counting.                                                       *)
(***************************************************************************)
Chunks == [bytes : Seq(Byte), counted : Nat]

Counted(bytes)   == [bytes |-> bytes, counted |-> Len(bytes)]
Uncounted(bytes) == [bytes |-> bytes, counted |-> 0]

FullyCounted(c) == c.counted = Len(c.bytes)

(* Wrong variant: write_bytes advances writer_index_, and write_le, which  *)
(* calls it, still does so too.                                            *)
WriteCountedTwice(b, c) ==
  [b EXCEPT !.buffer = @ \o c.bytes,
            !.writer_index = @ + Len(c.bytes) + c.counted]

(* Wrong variant: the bytes put at writer_index_, as if everything before  *)
(* were counted, and not behind the data.                                  *)
WriteAtIndex(b, c) ==
  [b EXCEPT !.buffer = SubSeq(@, 1, b.writer_index) \o c.bytes,
            !.writer_index = @ + c.counted]

Write(b, c) ==
  [b EXCEPT !.buffer = @ \o c.bytes, !.writer_index = @ + c.counted]

(* The results of the calls that can throw std::out_of_range: the buffer   *)
(* they leave, and what they return.                                       *)
Ok(b, v)      == [outcome |-> "ok", buf |-> b, value |-> v]
OutOfRange(b) == [outcome |-> "out_of_range", buf |-> b, value |-> <<>>]

(* What comes after a call, unless the call has thrown.                    *)
Then(r, After(_)) == IF r.outcome = "ok" THEN After(r) ELSE r

(* write_le_at: overwrites in place, moves neither index.                  *)
Overwritten(s, pos, bytes) ==
  [i \in 1 .. Len(s) |->
     IF i \in pos + 1 .. pos + Len(bytes) THEN bytes[i - pos] ELSE s[i]]

WriteAt(b, pos, bytes) ==
  IF pos + Len(bytes) > Len(b.buffer)
    THEN OutOfRange(b)
    ELSE Ok([b EXCEPT !.buffer = Overwritten(@, pos, bytes)], <<>>)

ReadableBytes(b) == Len(b.buffer) - b.reader_index

(* Wrong variant: `reader_index_ += len` forgotten.                        *)
ReadBytesPeeking(b, n) ==
  IF ReadableBytes(b) < n
    THEN OutOfRange(b)
    ELSE Ok(b, SubSeq(b.buffer, b.reader_index + 1, b.reader_index + n))

(* Wrong variant: reader_index_ advanced first and then compared with the   *)
(* size, so that a read that is refused has moved it all the same.         *)
ReadBytesAdvancing(b, n) ==
  IF ReadableBytes(b) < n
    THEN OutOfRange([b EXCEPT !.reader_index = @ + n])
    ELSE Ok([b EXCEPT !.reader_index = @ + n],
            SubSeq(b.buffer, b.reader_index + 1, b.reader_index + n))

(* Wrong variant: the bytes read are dropped from the front of buffer_, to *)
(* keep the buffer of a long connection small.                             *)
ReadBytesCompacting(b, n) ==
  IF ReadableBytes(b) < n
    THEN OutOfRange(b)
    ELSE LET end == b.reader_index + n
         IN  Ok([buffer       |-> SubSeq(b.buffer, end + 1, Len(b.buffer)),
                 reader_index |-> 0,
                 writer_index |-> IF end > b.writer_index
                                    THEN 0 ELSE b.writer_index - end],
                SubSeq(b.buffer, b.reader_index + 1, end))

(* check_read(n) and then n bytes from reader_index_ on: the reading part  *)
(* of read_bytes and of every integer reader.                              *)
ReadBytes(b, n) ==
  IF ReadableBytes(b) < n
    THEN OutOfRange(b)
    ELSE Ok([b EXCEPT !.reader_index = @ + n],
            SubSeq(b.buffer, b.reader_index + 1, b.reader_index + n))
=============================================================================
