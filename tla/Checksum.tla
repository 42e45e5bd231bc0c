------------------------------ MODULE Checksum ------------------------------
(***************************************************************************)
(* The checksum services of include/checksum.hpp that sum bytes.  Each is  *)
(* given the whole ByteBuf and sums data(): every byte of the buffer,      *)
(* whoever wrote it and whether or not it has been read.                   *)
(***************************************************************************)
EXTENDS ByteBuf

SumOf(bytes) ==
  LET sum[i \in 0 .. Len(bytes)] == IF i = 0 THEN 0 ELSE sum[i - 1] + bytes[i]
  IN  sum[Len(bytes)]

(* Wrong variant: the sum of the bytes still to be read.                   *)
SseBinOfUnread(b) ==
  SumOf(SubSeq(b.buffer, b.reader_index + 1, Len(b.buffer))) % Radix

(* `checksum = (checksum + b) & 0xFF` for every byte.                      *)
SseBin(b) == SumOf(b.buffer) % Radix

(* `checksum += b` in an int32_t, and `% 256` at the end.  The int32_t     *)
(* overflows only beyond eight million bytes, which no bound here reaches. *)
SzseBin(b) == SumOf(b.buffer) % Radix

(* zlib's crc32() of a byte sequence.  Any function of the bytes would do. *)
Digest(bytes) == SumOf(bytes)

(* Of the first readable_bytes() bytes of data(), which are all of them as *)
(* long as nothing has been read.                                          *)
Crc32(b) == Digest(SubSeq(b.buffer, 1, ReadableBytes(b)))
=============================================================================
