------------------------- MODULE FramedBufferProofs -------------------------
(***************************************************************************)
(* For every header, body, width and number of frames: encoding never      *)
(* throws, and a frame stays intact in the buffer as long as writer_index  *)
(* counted every body before the last.                                     *)
(***************************************************************************)
EXTENDS FramedBuffer, ByteBufProofs

(* The sum of a byte sequence is an integer.                               *)
LEMMA SumOfType ==
  ASSUME NEW bytes \in Seq(Byte)
  PROVE  SumOf(bytes) \in Int
<1> DEFINE Summing(f) ==
             f = [i \in 0 .. Len(bytes) |-> IF i = 0 THEN 0 ELSE f[i - 1] + bytes[i]]
           sum  == CHOOSE f : Summing(f)
           step == [i \in 1 .. Len(bytes) |-> [x \in Int |-> x + bytes[i]]]
<1>1. Len(bytes) \in Nat
  OBVIOUS
<1>2. \A i \in 1 .. Len(bytes) : bytes[i] \in Int
  BY ElementOfSeq, RadixAssumption DEF Byte
<1>3. step \in [1 .. Len(bytes) -> [Int -> Int]]
  BY <1>2
<1>4. \A i \in 1 .. Len(bytes), x \in Int : step[i][x] = x + bytes[i]
  OBVIOUS
<1> HIDE DEF step
<1>5. PICK n \in Nat, zero \in Int : n = Len(bytes) /\ zero = 0
  BY <1>1
<1>6. PICK f : Recursion(f, n, zero, step)
  BY <1>3, <1>5, RecursionExists
<1>7. f \in [0 .. n -> Int]
  BY <1>3, <1>5, <1>6, RecursionType
<1>8. Summing(f)
  <2>1. ASSUME NEW i \in 0 .. n
        PROVE  f[i] = IF i = 0 THEN 0 ELSE f[i - 1] + bytes[i]
    <3>1. CASE i = 0
      BY <1>5, <1>6, <3>1 DEF Recursion
    <3>2. CASE i \in 1 .. n
      <4>1. f[i] = step[i][f[i - 1]]
        BY <1>6, <3>2 DEF Recursion
      <4>2. f[i - 1] \in Int
        BY <1>7, <3>2
      <4> QED
        BY <1>4, <1>5, <3>2, <4>1, <4>2
    <3> QED
      BY <3>1, <3>2
  <2> QED
    BY <1>5, <1>7, <2>1
<1>9. Summing(sum)
  <2> HIDE DEF Summing
  <2> QED
    BY <1>8
<1> HIDE DEF sum
<1>10. sum[Len(bytes)] \in Int
  <2> DEFINE T == {i \in Nat : i <= Len(bytes) => sum[i] \in Int}
  <2>1. 0 \in T
    BY <1>1, <1>9
  <2>2. ASSUME NEW i \in Nat, i \in T PROVE i + 1 \in T
    <3>1. i + 1 <= Len(bytes) => sum[i + 1] = sum[i] + bytes[i + 1]
      BY <1>1, <1>9
    <3> QED
      BY <1>1, <1>2, <2>2, <3>1
  <2> HIDE DEF T
  <2>3. Nat \subseteq T
    BY <2>1, <2>2, SetInduction
  <2> QED
    BY <1>1, <2>3 DEF T
<1>11. SumOf(bytes) = sum[Len(bytes)]
  BY DEF SumOf, sum
<1> QED
  BY <1>10, <1>11

-----------------------------------------------------------------------------
(* Pieces of concatenations.                                               *)
LEMMA SliceOfSuffix ==
  ASSUME NEW s \in Seq(Byte), NEW t \in Seq(Byte)
  PROVE  SubSeq(s \o t, Len(s) + 1, Len(s) + Len(t)) = t
<1> DEFINE u == s \o t
           left == SubSeq(u, Len(s) + 1, Len(s) + Len(t))
<1>1. /\ Len(s) \in Nat
      /\ Len(t) \in Nat
      /\ Len(u) = Len(s) + Len(t)
      /\ u \in Seq(Byte)
      /\ \A i \in 1 .. Len(t) : u[Len(s) + i] = t[i]
  BY ConcatType
<1>2. \A i \in Len(s) + 1 .. Len(s) + Len(t) : u[i] \in Byte
  BY <1>1, ElementOfSeq
<1> HIDE DEF u
<1>3. /\ left \in Seq(Byte)
      /\ Len(left) = IF Len(s) + 1 <= Len(s) + Len(t)
                       THEN Len(s) + Len(t) - (Len(s) + 1) + 1 ELSE 0
      /\ \A i \in 1 .. Len(s) + Len(t) - (Len(s) + 1) + 1 :
           left[i] = u[Len(s) + 1 + i - 1]
  BY <1>1, <1>2, SubSeqProperties
<1> HIDE DEF left
<1>4. Len(left) = Len(t)
  BY <1>1, <1>3
<1>5. ASSUME NEW i \in 1 .. Len(left) PROVE left[i] = t[i]
  <2>1. /\ i \in 1 .. Len(t)
        /\ i \in 1 .. Len(s) + Len(t) - (Len(s) + 1) + 1
        /\ Len(s) + 1 + i - 1 = Len(s) + i
    BY <1>1, <1>4
  <2> QED
    BY <1>1, <1>3, <2>1
<1>6. left = t
  BY <1>3, <1>4, <1>5, SeqEqual
<1> QED
  BY <1>6 DEF left, u

-----------------------------------------------------------------------------
(* The whole of encode: it returns, the buffer grows by the frame that     *)
(* goes into the history, and that frame is what the buffer gained when    *)
(* writer_index was at the end of the buffer.                              *)
LEMMA EncodedType ==
  ASSUME NEW b \in ByteBufs, b.writer_index <= Len(b.buffer),
         NEW h \in Headers, NEW body \in Bodies
  PROVE  LET r == EncodePatched(b, Counted(h), LengthWidth, body)
             n == Write(r.buf, Counted(Trailer(r.buf)))
             f == FrameAt(Len(b.buffer), h, body, Trailer(r.buf))
         IN  /\ r.outcome = "ok"
             /\ n \in ByteBufs
             /\ n.reader_index = b.reader_index
             /\ n.writer_index <= Len(n.buffer)
             /\ f \in Frames
             /\ f.at = Len(b.buffer)
             /\ Len(n.buffer) = Len(b.buffer) + Len(f.bytes)
             /\ b.writer_index = Len(b.buffer) =>
                  /\ n.buffer = b.buffer \o f.bytes
                  /\ f.tracked => n.writer_index = Len(n.buffer)
<1> DEFINE r == EncodePatched(b, Counted(h), LengthWidth, body)
           z == LittleEndian(0, LengthWidth)
           l == LittleEndian(body.counted, LengthWidth)
           t == Trailer(r.buf)
           n == Write(r.buf, Counted(t))
           f == FrameAt(Len(b.buffer), h, body, t)
           d == body.bytes
           s == b.buffer
<1>1. /\ h \in Seq(Byte)
      /\ body \in Chunks
      /\ body.counted <= Len(d)
      /\ LengthWidth \in Nat
      /\ TrailerWidth \in Nat
  BY FramedAssumption
<1>2. /\ d \in Seq(Byte)
      /\ body.counted \in Nat
      /\ s \in Seq(Byte)
      /\ b.writer_index \in Nat
      /\ Len(s) \in Nat
      /\ Len(h) \in Nat
      /\ Len(d) \in Nat
  BY <1>1 DEF Chunks, ByteBufs
<1>3. /\ r.outcome = "ok"
      /\ r.buf \in ByteBufs
      /\ r.buf.reader_index = b.reader_index
      /\ r.buf.writer_index = b.writer_index + Len(h) + LengthWidth + body.counted
      /\ Len(r.buf.buffer) = Len(s) + Len(h) + LengthWidth + Len(d)
      /\ r.buf.buffer = Overwritten(((s \o h) \o z) \o d, b.writer_index + Len(h), l)
  BY <1>1, EncodePatchedType
<1>4. /\ z \in Seq(Byte)
      /\ Len(z) = LengthWidth
      /\ l \in Seq(Byte)
      /\ Len(l) = LengthWidth
  <2>1. PICK zero \in Int, c \in Int : zero = 0 /\ c = body.counted
    BY <1>2
  <2> QED
    BY <1>1, <2>1, LittleEndianType
<1> HIDE DEF r
<1>5. t \in Seq(Byte) /\ Len(t) = TrailerWidth
  <2>1. SseBin(r.buf) \in Int
    <3>1. r.buf.buffer \in Seq(Byte)
      BY <1>3 DEF ByteBufs
    <3>2. SumOf(r.buf.buffer) \in Int
      BY <3>1, SumOfType
    <3> QED
      BY <3>2, RadixAssumption DEF SseBin
  <2> QED
    BY <1>1, <2>1, LittleEndianType DEF Trailer
<1> HIDE DEF t, z, l
<1>6. /\ n \in ByteBufs
      /\ n.buffer = r.buf.buffer \o t
      /\ Len(n.buffer) = Len(s) + Len(h) + LengthWidth + Len(d) + TrailerWidth
      /\ n.reader_index = b.reader_index
      /\ n.writer_index =
           b.writer_index + Len(h) + LengthWidth + body.counted + TrailerWidth
  <2>1. /\ Counted(t) \in Chunks
        /\ Counted(t).bytes = t
        /\ Counted(t).counted = TrailerWidth
    BY <1>5 DEF Counted, Chunks
  <2>2. /\ n \in ByteBufs
        /\ n.buffer = r.buf.buffer \o Counted(t).bytes
        /\ Len(n.buffer) = Len(r.buf.buffer) + Len(Counted(t).bytes)
        /\ n.reader_index = r.buf.reader_index
        /\ n.writer_index = r.buf.writer_index + Counted(t).counted
    BY <1>3, <2>1, WriteType
  <2> HIDE DEF n
  <2> QED
    BY <1>3, <1>5, <2>1, <2>2
<1> HIDE DEF n
<1>7. /\ Pieces(h, l, d) \in Seq(Byte)
      /\ Len(Pieces(h, l, d)) = Len(h) + LengthWidth + Len(d)
  <2>1. PICK e \in Seq(Byte) : e = body.bytes
    BY <1>2
  <2>2. h \in Seq(Byte) /\ l \in Seq(Byte)
    BY <1>1, <1>4
  <2>3. /\ Pieces(h, l, e) \in Seq(Byte)
        /\ Len(Pieces(h, l, e)) = Len(h) + Len(l) + Len(e)
    BY <2>2, PiecesType
  <2> QED
    BY <1>4, <2>1, <2>3
<1>8. f = [at |-> Len(s), bytes |-> Glued(Pieces(h, l, d), t),
           tracked |-> FullyCounted(body)]
  BY DEF FrameAt, FrameBytes, Counted, Pieces, Glued, l
<1> HIDE DEF f
<1>9. /\ Glued(Pieces(h, l, d), t) \in Seq(Byte)
      /\ Len(Glued(Pieces(h, l, d), t)) = Len(h) + LengthWidth + Len(d) + TrailerWidth
  <2>1. PICK j \in Seq(Byte) : j = Pieces(h, l, d)
    BY <1>7
  <2>2. j \o t \in Seq(Byte) /\ Len(j \o t) = Len(j) + Len(t)
    BY <1>5, ConcatProperties
  <2> QED
    BY <1>5, <1>7, <2>1, <2>2 DEF Glued
<1>10. f \in Frames /\ f.at = Len(s)
  BY <1>2, <1>8, <1>9 DEF Frames, FullyCounted
<1>11. Len(n.buffer) = Len(s) + Len(f.bytes)
  <2>1. f.bytes = Glued(Pieces(h, l, d), t)
    BY <1>8
  <2>2. PICK ls \in Nat, lh \in Nat, ld \in Nat :
          ls = Len(b.buffer) /\ lh = Len(h) /\ ld = Len(body.bytes)
    BY <1>2
  <2>3. Len(f.bytes) = lh + LengthWidth + ld + TrailerWidth
    BY <1>9, <2>1, <2>2
  <2>4. Len(n.buffer) = ls + lh + LengthWidth + ld + TrailerWidth
    BY <1>6, <2>2
  <2>5. ls + lh + LengthWidth + ld + TrailerWidth =
          ls + (lh + LengthWidth + ld + TrailerWidth)
    BY <1>1
  <2> QED
    BY <2>2, <2>3, <2>4, <2>5
<1>12. n.writer_index <= Len(n.buffer)
  <2>1. PICK w \in Nat, ls \in Nat, lh \in Nat, ld \in Nat, c \in Nat :
          /\ w = b.writer_index
          /\ ls = Len(b.buffer)
          /\ lh = Len(h)
          /\ ld = Len(body.bytes)
          /\ c = body.counted
    BY <1>2
  <2>2. w <= ls /\ c <= ld
    BY <1>1, <2>1
  <2>3. w + lh + LengthWidth + c + TrailerWidth <= ls + lh + LengthWidth + ld + TrailerWidth
    BY <1>1, <2>2
  <2> QED
    BY <1>6, <2>1, <2>3
<1>13. ASSUME b.writer_index = Len(s)
       PROVE  /\ n.buffer = s \o f.bytes
              /\ f.tracked => n.writer_index = Len(n.buffer)
  <2>1. r.buf.buffer = s \o ((h \o l) \o d)
    <3>1. PICK e \in Seq(Byte), u \in Seq(Byte) : e = body.bytes /\ u = b.buffer
      BY <1>2
    <3>2. h \in Seq(Byte) /\ z \in Seq(Byte) /\ l \in Seq(Byte) /\ Len(z) = Len(l)
      BY <1>1, <1>4
    <3>3. Overwritten(Pieces(Glued(u, h), z, e), Len(u) + Len(h), l) =
            Glued(u, Pieces(h, l, e))
      BY <3>2, AlignedPatch
    <3> QED
      BY <1>3, <1>13, <3>1, <3>3 DEF Pieces, Glued
  <2>2. PICK j \in Seq(Byte) : j = Pieces(h, l, d)
    BY <1>7
  <2>3. Glued(Glued(s, j), t) = Glued(s, Glued(j, t))
    BY <1>2, <1>5, GluedAssociative
  <2>4. n.buffer = s \o f.bytes
    BY <1>6, <1>8, <2>1, <2>2, <2>3 DEF Pieces, Glued
  <2>5. f.tracked => n.writer_index = Len(n.buffer)
    BY <1>2, <1>6, <1>8, <1>13 DEF FullyCounted
  <2> QED
    BY <2>4, <2>5
<1> QED
  BY <1>3, <1>6, <1>10, <1>11, <1>12, <1>13 DEF r, n, f, t

-----------------------------------------------------------------------------
(* The inductive invariant.  That tracked frames are intact is not         *)
(* inductive: the next frame could be laid down on top of them.  What      *)
(* keeps it away is that writer_index is at the end of the buffer as long  *)
(* as every body was counted, and that no frame extends beyond that end.   *)
CursorsInside ==
  /\ buf.reader_index <= Len(buf.buffer)
  /\ buf.writer_index <= Len(buf.buffer)

FramesInside ==
  \A i \in 1 .. Len(frames) : frames[i].at + Len(frames[i].bytes) <= Len(buf.buffer)

TrackedAtEnd ==
  (\A i \in 1 .. Len(frames) : frames[i].tracked) =>
    buf.writer_index = Len(buf.buffer)

IInv ==
  /\ TypeOK
  /\ EncodeNeverThrows
  /\ CursorsInside
  /\ FramesInside
  /\ TrackedAtEnd
  /\ TrackedFramesIntact

LEMMA Initially == Init => IInv
<1> SUFFICES ASSUME Init PROVE IInv
  OBVIOUS
<1>1. <<>> \in Seq(Byte) /\ <<>> \in Seq(Frames) /\ Len(<<>>) = 0
  BY EmptySeq
<1>2. buf \in ByteBufs /\ buf.reader_index = 0 /\ buf.writer_index = 0 /\ Len(buf.buffer) = 0
  BY <1>1 DEF Init, EmptyBuf, ByteBufs
<1>3. frames = <<>> /\ outcome = "ok"
  BY DEF Init
<1> QED
  BY <1>1, <1>2, <1>3
  DEF IInv, TypeOK, EncodeNeverThrows, CursorsInside, FramesInside, TrackedAtEnd,
      TrackedFramesIntact, AllButLastTracked

LEMMA ResetStep == IInv /\ Reset => IInv'
<1> SUFFICES ASSUME IInv, Reset PROVE IInv'
  OBVIOUS
<1>1. <<>> \in Seq(Byte) /\ <<>> \in Seq(Frames) /\ Len(<<>>) = 0
  BY EmptySeq
<1>2. /\ buf' \in ByteBufs
      /\ buf'.reader_index = 0
      /\ buf'.writer_index = 0
      /\ Len(buf'.buffer) = 0
  BY <1>1 DEF Reset, EmptyBuf, ByteBufs
<1>3. frames' = <<>> /\ outcome' = "ok"
  BY DEF Reset, IInv, EncodeNeverThrows
<1> QED
  BY <1>1, <1>2, <1>3
  DEF IInv, TypeOK, EncodeNeverThrows, CursorsInside, FramesInside, TrackedAtEnd,
      TrackedFramesIntact, AllButLastTracked

LEMMA ConsumeStep == \A n \in Reads : IInv /\ Consume(n) => IInv'
<1> SUFFICES ASSUME NEW n \in Reads, IInv, Consume(n) PROVE IInv'
  OBVIOUS
<1>1. /\ buf \in ByteBufs
      /\ buf.reader_index <= Len(buf.buffer)
      /\ n \in Nat
  BY FramedAssumption DEF IInv, TypeOK, CursorsInside
<1>2. /\ buf' \in ByteBufs
      /\ buf'.buffer = buf.buffer
      /\ buf'.reader_index <= Len(buf.buffer)
      /\ buf'.writer_index = buf.writer_index
  BY <1>1, ReadBytesType DEF Consume
<1>3. frames' = frames /\ outcome' = outcome
  BY DEF Consume
<1> QED
  BY <1>2, <1>3
  DEF IInv, TypeOK, EncodeNeverThrows, CursorsInside, FramesInside, TrackedAtEnd,
      TrackedFramesIntact, AllButLastTracked, Intact

LEMMA EncodeStep ==
  \A header \in Headers, body \in Bodies : IInv /\ EncodeFrame(header, body) => IInv'
<1> SUFFICES ASSUME NEW header \in Headers, NEW body \in Bodies, IInv,
                    EncodeFrame(header, body)
             PROVE  IInv'
  OBVIOUS
<1> DEFINE r == EncodePatched(buf, Counted(header), LengthWidth, body)
           n == Write(r.buf, Counted(Trailer(r.buf)))
           f == FrameAt(Len(buf.buffer), header, body, Trailer(r.buf))
<1>1. /\ buf \in ByteBufs
      /\ buf.writer_index <= Len(buf.buffer)
      /\ frames \in Seq(Frames)
      /\ Len(frames) \in Nat
      /\ buf.buffer \in Seq(Byte)
      /\ Len(buf.buffer) \in Nat
      /\ buf.reader_index \in Nat
      /\ buf.reader_index <= Len(buf.buffer)
  BY DEF IInv, TypeOK, CursorsInside, ByteBufs
<1>2. /\ r.outcome = "ok"
      /\ n \in ByteBufs
      /\ n.reader_index = buf.reader_index
      /\ n.writer_index <= Len(n.buffer)
      /\ f \in Frames
      /\ f.at = Len(buf.buffer)
      /\ Len(n.buffer) = Len(buf.buffer) + Len(f.bytes)
      /\ buf.writer_index = Len(buf.buffer) =>
           /\ n.buffer = buf.buffer \o f.bytes
           /\ f.tracked => n.writer_index = Len(n.buffer)
  BY <1>1, EncodedType
<1>3. outcome' = "ok" /\ buf' = n /\ frames' = Append(frames, f)
  BY <1>2 DEF EncodeFrame
<1> HIDE DEF r, n, f
<1>4. f.bytes \in Seq(Byte) /\ Len(f.bytes) \in Nat /\ f.tracked \in BOOLEAN
  BY <1>2 DEF Frames
<1>5. /\ frames' \in Seq(Frames)
      /\ Len(frames') = Len(frames) + 1
      /\ \A i \in 1 .. Len(frames) : frames'[i] = frames[i]
      /\ frames'[Len(frames) + 1] = f
  BY <1>1, <1>2, <1>3, AppendProperties
<1>6. \A i \in 1 .. Len(frames') : i \in 1 .. Len(frames) \/ i = Len(frames) + 1
  BY <1>1, <1>5
<1>7. \A i \in 1 .. Len(frames) :
        /\ frames[i].at \in Nat
        /\ frames[i].bytes \in Seq(Byte)
        /\ Len(frames[i].bytes) \in Nat
  <2> SUFFICES ASSUME NEW i \in 1 .. Len(frames)
               PROVE  /\ frames[i].at \in Nat
                      /\ frames[i].bytes \in Seq(Byte)
                      /\ Len(frames[i].bytes) \in Nat
    OBVIOUS
  <2>1. frames[i] \in Frames
    BY <1>1, ElementOfSeq
  <2> QED
    BY <2>1 DEF Frames
<1>14. Len(buf'.buffer) = Len(buf.buffer) + Len(f.bytes)
  BY <1>2, <1>3
<1>9. CursorsInside'
  <2>1. buf'.reader_index = buf.reader_index /\ buf'.writer_index <= Len(buf'.buffer)
    BY <1>2, <1>3
  <2>2. PICK ls \in Nat, lf \in Nat, ri \in Nat :
          ls = Len(buf.buffer) /\ lf = Len(f.bytes) /\ ri = buf.reader_index
    BY <1>1, <1>4
  <2>4. ri <= ls
    BY <1>1, <2>2
  <2>3. ri <= ls + lf
    BY <2>4
  <2> QED
    BY <1>14, <2>1, <2>2, <2>3 DEF CursorsInside
<1>8. TypeOK' /\ EncodeNeverThrows'
  <2>1. buf' \in ByteBufs
    BY <1>2, <1>3
  <2>2. frames' \in Seq(Frames)
    BY <1>5
  <2> QED
    BY <1>3, <1>9, <2>1, <2>2 DEF TypeOK, EncodeNeverThrows, CursorsInside
<1>10. FramesInside'
  <2> SUFFICES ASSUME NEW i \in 1 .. Len(frames')
               PROVE  frames'[i].at + Len(frames'[i].bytes) <= Len(buf'.buffer)
    BY DEF FramesInside
  <2>1. CASE i \in 1 .. Len(frames)
    <3>1. frames[i].at + Len(frames[i].bytes) <= Len(buf.buffer)
      BY <2>1 DEF IInv, FramesInside
    <3>2. PICK end \in Nat : end = frames[i].at + Len(frames[i].bytes)
      BY <1>7, <2>1
    <3>3. PICK ls \in Nat, lf \in Nat : ls = Len(buf.buffer) /\ lf = Len(f.bytes)
      BY <1>1, <1>4
    <3>6. end <= ls
      BY <3>1, <3>2, <3>3
    <3>4. end <= ls + lf
      BY <3>6
    <3>5. frames'[i] = frames[i]
      BY <1>5, <2>1
    <3> QED
      BY <1>14, <3>2, <3>3, <3>4, <3>5
  <2>2. CASE i = Len(frames) + 1
    <3>1. frames'[i] = f
      BY <1>5, <2>2
    <3>2. f.at = Len(buf.buffer)
      BY <1>2
    <3>3. PICK ls \in Nat, lf \in Nat : ls = Len(buf.buffer) /\ lf = Len(f.bytes)
      BY <1>1, <1>4
    <3>4. ls + lf <= ls + lf
      OBVIOUS
    <3> QED
      BY <1>14, <3>1, <3>2, <3>3, <3>4
  <2> QED
    BY <1>6, <2>1, <2>2
<1>11. (\A i \in 1 .. Len(frames) : frames[i].tracked) =>
         buf.writer_index = Len(buf.buffer)
  BY DEF IInv, TrackedAtEnd
<1>12. TrackedAtEnd'
  <2> SUFFICES ASSUME \A i \in 1 .. Len(frames') : frames'[i].tracked
               PROVE  buf'.writer_index = Len(buf'.buffer)
    BY DEF TrackedAtEnd
  <2>1. \A i \in 1 .. Len(frames) : i \in 1 .. Len(frames') /\ frames[i].tracked
    BY <1>1, <1>5
  <2>2. Len(frames) + 1 \in 1 .. Len(frames')
    BY <1>1, <1>5
  <2>3. f.tracked
    BY <1>5, <2>2
  <2> QED
    BY <1>2, <1>3, <1>11, <2>1, <2>3
<1>13. TrackedFramesIntact'
  <2> SUFFICES ASSUME AllButLastTracked', NEW i \in 1 .. Len(frames')
               PROVE  SubSeq(buf'.buffer, frames'[i].at + 1,
                             frames'[i].at + Len(frames'[i].bytes)) = frames'[i].bytes
    BY DEF TrackedFramesIntact, Intact
  <2>1. \A j \in 1 .. Len(frames) : frames[j].tracked
    BY <1>1, <1>5 DEF AllButLastTracked
  <2>2. buf'.buffer = buf.buffer \o f.bytes
    BY <1>2, <1>3, <1>11, <2>1
  <2>3. CASE i \in 1 .. Len(frames)
    <3>1. AllButLastTracked
      BY <1>1, <2>1 DEF AllButLastTracked
    <3>2. SubSeq(buf.buffer, frames[i].at + 1, frames[i].at + Len(frames[i].bytes)) =
            frames[i].bytes
      BY <2>3, <3>1 DEF IInv, TrackedFramesIntact, Intact
    <3>3. PICK at \in Nat, len \in Nat, s \in Seq(Byte), t \in Seq(Byte) :
            /\ at = frames[i].at
            /\ len = Len(frames[i].bytes)
            /\ s = buf.buffer
            /\ t = f.bytes
      BY <1>1, <1>4, <1>7, <2>3
    <3>4. at + len <= Len(s)
      BY <2>3, <3>3 DEF IInv, FramesInside
    <3>5. SubSeq(s \o t, at + 1, at + len) = SubSeq(s, at + 1, at + len)
      BY <3>4, SliceOfPrefix
    <3> QED
      BY <1>5, <2>2, <2>3, <3>2, <3>3, <3>5
  <2>4. CASE i = Len(frames) + 1
    <3>1. frames'[i] = f
      BY <1>5, <2>4
    <3>2. PICK s \in Seq(Byte), t \in Seq(Byte) : s = buf.buffer /\ t = f.bytes
      BY <1>1, <1>4
    <3>3. SubSeq(s \o t, Len(s) + 1, Len(s) + Len(t)) = t
      BY SliceOfSuffix
    <3> QED
      BY <1>2, <2>2, <3>1, <3>2, <3>3
  <2> QED
    BY <1>6, <2>3, <2>4
<1> QED
  BY <1>8, <1>9, <1>10, <1>12, <1>13 DEF IInv

LEMMA StutterStep == IInv /\ UNCHANGED vars => IInv'
BY DEF IInv, vars, TypeOK, EncodeNeverThrows, CursorsInside, FramesInside,
       TrackedAtEnd, TrackedFramesIntact, AllButLastTracked, Intact

LEMMA Invariance == Spec => []IInv
<1>1. IInv /\ [Next]_vars => IInv'
  BY EncodeStep, ConsumeStep, ResetStep, StutterStep DEF Next
<1> QED
  BY <1>1, Initially, PTL DEF Spec

(* Type correctness of the buffer and the history.                         *)
THEOREM TypeCorrect == Spec => []TypeOK
<1>1. IInv => TypeOK
  BY DEF IInv
<1> QED
  BY <1>1, Invariance, PTL

(* encode() of a frame returns, whatever was encoded into the buffer       *)
(* before and however little of it writer_index counted: write_u32_at is   *)
(* never given a position outside the buffer.                              *)
THEOREM EncodingNeverThrows == Spec => []EncodeNeverThrows
<1>1. IInv => EncodeNeverThrows
  BY DEF IInv
<1> QED
  BY <1>1, Invariance, PTL

(* While writer_index counted every body before the last, each frame in    *)
(* the buffer is byte for byte what its sender encoded.                    *)
THEOREM TrackedFramesStayIntact == Spec => []TrackedFramesIntact
<1>1. IInv => TrackedFramesIntact
  BY DEF IInv
<1> QED
  BY <1>1, Invariance, PTL

-----------------------------------------------------------------------------
(* Checksums.  A frame ends with its trailer, so a trailer lies inside its *)
(* frame; what is appended behind a frame changes neither its trailer nor  *)
(* the bytes that it sums.                                                 *)
LEMMA TrailerLast ==
  ASSUME NEW b \in ByteBufs, b.writer_index <= Len(b.buffer),
         NEW h \in Headers, NEW body \in Bodies
  PROVE  LET r == EncodePatched(b, Counted(h), LengthWidth, body)
             n == Write(r.buf, Counted(Trailer(r.buf)))
             f == FrameAt(Len(b.buffer), h, body, Trailer(r.buf))
         IN  /\ r.buf.buffer \in Seq(Byte)
             /\ Trailer(r.buf) \in Seq(Byte)
             /\ Len(Trailer(r.buf)) = TrailerWidth
             /\ n.buffer = r.buf.buffer \o Trailer(r.buf)
             /\ TrailerWidth <= Len(f.bytes)
<1> DEFINE r == EncodePatched(b, Counted(h), LengthWidth, body)
           t == Trailer(r.buf)
           n == Write(r.buf, Counted(t))
           f == FrameAt(Len(b.buffer), h, body, t)
<1>1. /\ h \in Seq(Byte)
      /\ body \in Chunks
      /\ body.counted <= Len(body.bytes)
      /\ LengthWidth \in Nat
      /\ TrailerWidth \in Nat
      /\ Len(h) \in Nat
      /\ Len(body.bytes) \in Nat
      /\ Len(b.buffer) \in Nat
  BY FramedAssumption DEF Chunks, ByteBufs
<1>2. /\ r.buf \in ByteBufs
      /\ r.buf.buffer \in Seq(Byte)
      /\ Len(r.buf.buffer) = Len(b.buffer) + Len(h) + LengthWidth + Len(body.bytes)
  <2>1. /\ r.buf \in ByteBufs
        /\ Len(r.buf.buffer) = Len(b.buffer) + Len(h) + LengthWidth + Len(body.bytes)
    BY <1>1, EncodePatchedType
  <2> QED
    BY <2>1 DEF ByteBufs
<1>3. /\ f \in Frames
      /\ Len(n.buffer) = Len(b.buffer) + Len(f.bytes)
  BY EncodedType
<1> HIDE DEF r
<1>4. t \in Seq(Byte) /\ Len(t) = TrailerWidth
  <2>1. SumOf(r.buf.buffer) % Radix \in Int
    BY <1>2, SumOfType, RadixAssumption
  <2> QED
    BY <1>1, <2>1, LittleEndianType DEF Trailer, SseBin
<1> HIDE DEF t, f
<1>5. /\ n.buffer = r.buf.buffer \o t
      /\ Len(n.buffer) = Len(r.buf.buffer) + TrailerWidth
  <2>1. /\ Counted(t) \in Chunks
        /\ Counted(t).bytes = t
    BY <1>4 DEF Counted, Chunks
  <2>2. /\ n.buffer = r.buf.buffer \o Counted(t).bytes
        /\ Len(n.buffer) = Len(r.buf.buffer) + Len(Counted(t).bytes)
    BY <1>2, <2>1, WriteType
  <2> QED
    BY <1>4, <2>1, <2>2
<1> HIDE DEF n
<1>6. TrailerWidth <= Len(f.bytes)
  <2>1. PICK lb \in Nat, lh \in Nat, ld \in Nat, lf \in Nat :
          lb = Len(b.buffer) /\ lh = Len(h) /\ ld = Len(body.bytes) /\ lf = Len(f.bytes)
    BY <1>1, <1>3 DEF Frames
  <2>2. lb + lf = lb + lh + LengthWidth + ld + TrailerWidth
    BY <1>2, <1>3, <1>5, <2>1
  <2>3. TrailerWidth <= lf
    BY <1>1, <2>2
  <2> QED
    BY <2>1, <2>3
<1> QED
  BY <1>2, <1>4, <1>5, <1>6 DEF n, f, t, r

LEMMA SlicesKept ==
  ASSUME NEW s \in Seq(Byte), NEW t \in Seq(Byte),
         NEW w \in Nat, NEW stop \in Nat, w <= stop, stop <= Len(s)
  PROVE  /\ SubSeq(s \o t, stop - w + 1, stop) = SubSeq(s, stop - w + 1, stop)
         /\ SubSeq(s \o t, 1, stop - w) = SubSeq(s, 1, stop - w)
<1>1. PICK at \in Nat : at = stop - w
  OBVIOUS
<1>2. at + w = stop /\ at + w <= Len(s)
  BY <1>1
<1>3. SubSeq(s \o t, at + 1, at + w) = SubSeq(s, at + 1, at + w)
  BY <1>2, SliceOfPrefix
<1>4. PICK zero \in Nat : zero = 0
  OBVIOUS
<1>5. Len(s) \in Nat
  OBVIOUS
<1>6. zero + at <= Len(s) /\ zero + at = at /\ zero + 1 = 1
  BY <1>2, <1>4, <1>5
<1>7. SubSeq(s \o t, zero + 1, zero + at) = SubSeq(s, zero + 1, zero + at)
  BY <1>6, SliceOfPrefix
<1> QED
  BY <1>1, <1>2, <1>3, <1>6, <1>7

LEMMA SlicesOfNew ==
  ASSUME NEW s \in Seq(Byte), NEW t \in Seq(Byte)
  PROVE  /\ SubSeq(s \o t, Len(s) + 1, Len(s) + Len(t)) = t
         /\ SubSeq(s \o t, 1, Len(s)) = s
<1>1. PICK zero \in Nat, n \in Nat : zero = 0 /\ n = Len(s)
  OBVIOUS
<1>2. zero + n <= Len(s) /\ zero + n = n /\ zero + 1 = 1
  BY <1>1
<1>3. SubSeq(s \o t, zero + 1, zero + n) = SubSeq(s, zero + 1, zero + n)
  BY <1>2, SliceOfPrefix
<1>4. SubSeq(s, 1, Len(s)) = s
  <2>1. \A i \in 1 .. Len(s) : s[i] \in Byte
    BY ElementOfSeq
  <2>2. /\ SubSeq(s, 1, n) \in Seq(Byte)
        /\ Len(SubSeq(s, 1, n)) = IF 1 <= n THEN n - 1 + 1 ELSE 0
        /\ \A i \in 1 .. n - 1 + 1 : SubSeq(s, 1, n)[i] = s[1 + i - 1]
    BY <1>1, <2>1, SubSeqProperties
  <2>3. Len(SubSeq(s, 1, n)) = n
    BY <1>1, <2>2
  <2>4. ASSUME NEW i \in 1 .. n PROVE SubSeq(s, 1, n)[i] = s[i]
    <3>1. i \in 1 .. n - 1 + 1 /\ 1 + i - 1 = i
      BY <1>1
    <3> QED
      BY <2>2, <3>1
  <2> QED
    BY <1>1, <2>2, <2>3, <2>4, SeqEqual
<1> QED
  BY <1>1, <1>2, <1>3, <1>4, SliceOfSuffix

-----------------------------------------------------------------------------
(* The invariant for the checksums: with IInv, a new frame is appended to  *)
(* what is there whenever the frames before it are tracked; that trailers  *)
(* lie inside their frames keeps the slices that ChecksumHolds compares    *)
(* inside the old bytes.                                                   *)
TrailersInside == \A i \in 1 .. Len(frames) : TrailerWidth <= Len(frames[i].bytes)

CInv == IInv /\ TrailersInside /\ TrackedChecksumsHold

LEMMA ChecksumInitially == Init => CInv
<1> SUFFICES ASSUME Init PROVE CInv
  OBVIOUS
<1>1. frames = <<>> /\ 1 .. Len(frames) = {}
  BY DEF Init
<1> QED
  BY <1>1, Initially DEF CInv, TrailersInside, TrackedChecksumsHold

LEMMA ChecksumResetStep == CInv /\ Reset => CInv'
<1> SUFFICES ASSUME CInv, Reset PROVE CInv'
  OBVIOUS
<1>1. frames' = <<>> /\ 1 .. Len(frames') = {}
  BY DEF Reset
<1>2. IInv'
  BY ResetStep DEF CInv
<1> QED
  BY <1>1, <1>2 DEF CInv, TrailersInside, TrackedChecksumsHold

LEMMA ChecksumConsumeStep == \A n \in Reads : CInv /\ Consume(n) => CInv'
<1> SUFFICES ASSUME NEW n \in Reads, CInv, Consume(n) PROVE CInv'
  OBVIOUS
<1>1. /\ buf \in ByteBufs
      /\ buf.reader_index <= Len(buf.buffer)
      /\ n \in Nat
  BY FramedAssumption DEF CInv, IInv, TypeOK, CursorsInside
<1>2. buf'.buffer = buf.buffer
  BY <1>1, ReadBytesType DEF Consume
<1>3. frames' = frames
  BY DEF Consume
<1>4. IInv'
  BY ConsumeStep DEF CInv
<1> QED
  BY <1>2, <1>3, <1>4
  DEF CInv, TrailersInside, TrackedChecksumsHold, AllButLastTracked, ChecksumHolds

LEMMA ChecksumEncodeStep ==
  \A header \in Headers, body \in Bodies : CInv /\ EncodeFrame(header, body) => CInv'
<1> SUFFICES ASSUME NEW header \in Headers, NEW body \in Bodies, CInv,
                    EncodeFrame(header, body)
             PROVE  CInv'
  OBVIOUS
<1> DEFINE r == EncodePatched(buf, Counted(header), LengthWidth, body)
           t == Trailer(r.buf)
           n == Write(r.buf, Counted(t))
           f == FrameAt(Len(buf.buffer), header, body, t)
<1>1. IInv /\ IInv'
  BY EncodeStep DEF CInv
<1>2. /\ buf \in ByteBufs
      /\ buf.writer_index <= Len(buf.buffer)
      /\ frames \in Seq(Frames)
      /\ Len(frames) \in Nat
      /\ buf.buffer \in Seq(Byte)
      /\ Len(buf.buffer) \in Nat
      /\ TrailerWidth \in Nat
  BY <1>1, FramedAssumption DEF IInv, TypeOK, CursorsInside, ByteBufs
<1>3. /\ r.outcome = "ok"
      /\ f \in Frames
      /\ f.at = Len(buf.buffer)
      /\ Len(n.buffer) = Len(buf.buffer) + Len(f.bytes)
      /\ buf.writer_index = Len(buf.buffer) => n.buffer = buf.buffer \o f.bytes
  BY <1>2, EncodedType
<1>4. /\ r.buf.buffer \in Seq(Byte)
      /\ t \in Seq(Byte)
      /\ Len(t) = TrailerWidth
      /\ n.buffer = r.buf.buffer \o t
      /\ TrailerWidth <= Len(f.bytes)
  BY <1>2, TrailerLast
<1>5. buf' = n /\ frames' = Append(frames, f)
  BY <1>3 DEF EncodeFrame
<1>6. t = LittleEndian(SumOf(r.buf.buffer) % Radix, TrailerWidth)
  BY DEF Trailer, SseBin
<1> HIDE DEF r, n, f, t
<1>7. f.bytes \in Seq(Byte) /\ Len(f.bytes) \in Nat
  BY <1>3 DEF Frames
<1>8. /\ Len(frames') = Len(frames) + 1
      /\ \A i \in 1 .. Len(frames) : frames'[i] = frames[i]
      /\ frames'[Len(frames) + 1] = f
      /\ \A i \in 1 .. Len(frames') : i \in 1 .. Len(frames) \/ i = Len(frames) + 1
  BY <1>2, <1>3, <1>5, AppendProperties
<1>9. TrailersInside'
  <2> SUFFICES ASSUME NEW i \in 1 .. Len(frames')
               PROVE  TrailerWidth <= Len(frames'[i].bytes)
    BY DEF TrailersInside
  <2>1. CASE i \in 1 .. Len(frames)
    BY <1>8, <2>1 DEF CInv, TrailersInside
  <2>2. CASE i = Len(frames) + 1
    BY <1>4, <1>8, <2>2
  <2> QED
    BY <1>8, <2>1, <2>2
<1>10. TrackedChecksumsHold'
  <2> SUFFICES ASSUME AllButLastTracked', NEW i \in 1 .. Len(frames')
               PROVE  ChecksumHolds(frames[i])'
    BY DEF TrackedChecksumsHold
  <2>1. CASE i \in 1 .. Len(frames)
    <3>1. /\ \A j \in 1 .. Len(frames) : frames[j].tracked
          /\ AllButLastTracked
      BY <1>2, <1>8 DEF AllButLastTracked
    <3>2. buf'.buffer = buf.buffer \o f.bytes
      BY <1>1, <1>3, <1>5, <3>1 DEF IInv, TrackedAtEnd
    <3>3. ChecksumHolds(frames[i])
      BY <2>1, <3>1 DEF CInv, TrackedChecksumsHold
    <3>4. frames[i] \in Frames
      BY <1>2, <2>1, ElementOfSeq
    <3>5. PICK at \in Nat, len \in Nat, s \in Seq(Byte), u \in Seq(Byte) :
            at = frames[i].at /\ len = Len(frames[i].bytes) /\ s = buf.buffer /\ u = f.bytes
      BY <1>2, <1>7, <3>4 DEF Frames
    <3>6. TrailerWidth <= len /\ at + len <= Len(s)
      BY <1>1, <2>1, <3>5 DEF CInv, TrailersInside, IInv, FramesInside
    <3>7. PICK stop \in Nat : stop = at + len
      OBVIOUS
    <3>8. TrailerWidth <= stop /\ stop <= Len(s)
      BY <1>2, <3>6, <3>7
    <3>9. /\ SubSeq(s \o u, stop - TrailerWidth + 1, stop) =
               SubSeq(s, stop - TrailerWidth + 1, stop)
          /\ SubSeq(s \o u, 1, stop - TrailerWidth) = SubSeq(s, 1, stop - TrailerWidth)
      BY <1>2, <3>8, SlicesKept
    <3>10. SubSeq(s, stop - TrailerWidth + 1, stop) =
             LittleEndian(SumOf(SubSeq(s, 1, stop - TrailerWidth)) % Radix, TrailerWidth)
      BY <3>3, <3>5, <3>7 DEF ChecksumHolds
    <3>11. SubSeq(s \o u, stop - TrailerWidth + 1, stop) =
             LittleEndian(SumOf(SubSeq(s \o u, 1, stop - TrailerWidth)) % Radix, TrailerWidth)
      BY <3>9, <3>10
    <3>12. frames'[i] = frames[i]
      BY <1>8, <2>1
    <3> QED
      BY <3>2, <3>5, <3>7, <3>11, <3>12 DEF ChecksumHolds
  <2>2. CASE i = Len(frames) + 1
    <3>1. frames'[i] = f
      BY <1>8, <2>2
    <3>2. PICK s \in Seq(Byte) : s = r.buf.buffer
      BY <1>4
    <3>3. buf'.buffer = s \o t
      BY <1>4, <1>5, <3>2
    <3>4. /\ SubSeq(s \o t, Len(s) + 1, Len(s) + Len(t)) = t
          /\ SubSeq(s \o t, 1, Len(s)) = s
      BY <1>4, SlicesOfNew
    <3>5. PICK stop \in Nat : stop = f.at + Len(f.bytes)
      <4>1. PICK at \in Nat, len \in Nat : at = f.at /\ len = Len(f.bytes)
        BY <1>2, <1>3, <1>7
      <4>2. at + len \in Nat
        OBVIOUS
      <4> QED
        BY <4>1, <4>2
    <3>6. /\ stop = Len(s) + TrailerWidth
          /\ stop - TrailerWidth = Len(s)
      <4>1. Len(s \o t) = Len(s) + Len(t)
        BY <1>4, ConcatProperties
      <4>2. PICK ls \in Nat : ls = Len(s)
        OBVIOUS
      <4>3. stop = ls + TrailerWidth
        BY <1>3, <1>4, <3>2, <3>5, <4>1, <4>2
      <4> QED
        BY <1>2, <4>2, <4>3
    <3>7. SubSeq(s \o t, stop - TrailerWidth + 1, stop) =
            LittleEndian(SumOf(SubSeq(s \o t, 1, stop - TrailerWidth)) % Radix, TrailerWidth)
      BY <1>4, <1>6, <3>2, <3>4, <3>6
    <3> QED
      BY <3>1, <3>3, <3>5, <3>7 DEF ChecksumHolds
  <2> QED
    BY <1>8, <2>1, <2>2
<1> QED
  BY <1>1, <1>9, <1>10 DEF CInv

LEMMA ChecksumStutterStep == CInv /\ UNCHANGED vars => CInv'
<1> SUFFICES ASSUME CInv, UNCHANGED vars PROVE CInv'
  OBVIOUS
<1>1. IInv'
  BY StutterStep DEF CInv
<1> QED
  BY <1>1 DEF CInv, vars, TrailersInside, TrackedChecksumsHold, AllButLastTracked, ChecksumHolds

(* While writer_index counted every body before the last, each checksum in *)
(* the buffer is the sum of the bytes before it, whatever is encoded or    *)
(* read afterwards.                                                        *)
THEOREM ChecksumsStayValid == Spec => []TrackedChecksumsHold
<1>1. CInv /\ [Next]_vars => CInv'
  BY ChecksumEncodeStep, ChecksumConsumeStep, ChecksumResetStep, ChecksumStutterStep DEF Next
<1>2. CInv => TrackedChecksumsHold
  BY DEF CInv
<1> QED
  BY <1>1, <1>2, ChecksumInitially, PTL DEF Spec
=============================================================================
