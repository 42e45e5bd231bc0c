---------------------------- MODULE FramedBuffer ----------------------------
(***************************************************************************)
(* One ByteBuf into which frames are encoded one after the other, as a     *)
(* sender that batches messages does, while a reader takes bytes from its  *)
(* front, with resets in between.  What a body is, is left open: any       *)
(* chunk, that is, any bytes of which writer_index() counts any number.    *)
(* The trailer is the sum of SseBinary and SzseBinary; with TrailerWidth   *)
(* 0 the frame is that of RcBinary, which has none.                        *)
(***************************************************************************)
EXTENDS Frame, Checksum

CONSTANTS Headers,       \* the byte sequences before the length field
          LengthWidth,   \* sizeof the length field
          Bodies,        \* the chunks that body->encode(buf) may append
          TrailerWidth,  \* sizeof the checksum field
          Reads,         \* how many bytes a reader takes at once
          MaxFrames      \* bound on the frames between two resets

ASSUME FramedAssumption ==
  /\ Headers \subseteq Seq(Byte)
  /\ LengthWidth \in Nat \ {0}
  /\ Bodies \subseteq Chunks
  /\ \A body \in Bodies : body.counted <= Len(body.bytes)
  /\ TrailerWidth \in Nat
  /\ Reads \subseteq Nat
  /\ MaxFrames \in Nat

VARIABLES buf,       \* the object
          frames,    \* history: the frames encoded since the last reset
          outcome    \* whether the last encode returned or threw

vars == <<buf, frames, outcome>>

(* A frame of the history: where its first byte was put, the bytes its     *)
(* sender meant to send, and whether its body counted all its bytes.       *)
FrameAt(at, header, body, trailer) ==
  [at      |-> at,
   bytes   |-> FrameBytes(Counted(header), LengthWidth, body) \o trailer,
   tracked |-> FullyCounted(body)]

Init ==
  /\ buf = EmptyBuf
  /\ frames = <<>>
  /\ outcome = "ok"

Trailer(b) == LittleEndian(SseBin(b), TrailerWidth)

(* encode() of a frame.                                                    *)
EncodeFrame(header, body) ==
  LET patched == EncodePatched(buf, Counted(header), LengthWidth, body)
      trailer == Trailer(patched.buf)
  IN  /\ Len(frames) < MaxFrames
      /\ outcome' = patched.outcome
      /\ IF patched.outcome = "ok"
           THEN /\ buf' = Write(patched.buf, Counted(trailer))
                /\ frames' = Append(frames,
                     FrameAt(Len(buf.buffer), header, body, trailer))
           ELSE /\ buf' = patched.buf
                /\ UNCHANGED frames

(* A reader takes n bytes, or is refused.                                  *)
Consume(n) ==
  /\ buf' = ReadBytes(buf, n).buf
  /\ UNCHANGED <<frames, outcome>>

Reset ==
  /\ buf' = EmptyBuf
  /\ frames' = <<>>
  /\ UNCHANGED outcome

Next ==
  \/ \E header \in Headers, body \in Bodies : EncodeFrame(header, body)
  \/ \E n \in Reads : Consume(n)
  \/ Reset

Spec == Init /\ [][Next]_vars

-----------------------------------------------------------------------------
Frames == [at : Nat, bytes : Seq(Byte), tracked : BOOLEAN]

(* Type correctness of the buffer and of the history; each index of the    *)
(* buffer is a place in it, after a read that was refused too.             *)
TypeOK ==
  /\ buf \in ByteBufs
  /\ buf.reader_index <= Len(buf.buffer)
  /\ buf.writer_index <= Len(buf.buffer)
  /\ frames \in Seq(Frames)
  /\ outcome \in {"ok", "out_of_range"}

(* However far writer_index() lags behind the bytes in the buffer, the     *)
(* position that encode takes from it lies inside the buffer when          *)
(* write_u32_at uses it: encoding a frame never throws.                    *)
EncodeNeverThrows == outcome = "ok"

(* The frames that can be in danger: a patch of a later frame goes astray  *)
(* only after a body that writer_index() did not count completely.         *)
AllButLastTracked == \A i \in 1 .. Len(frames) - 1 : frames[i].tracked

Intact(f) == SubSeq(buf.buffer, f.at + 1, f.at + Len(f.bytes)) = f.bytes

(* As long as writer_index() counted every body but the last, a frame in   *)
(* the buffer stays as its sender wrote it: header, length field, body and *)
(* checksum, whatever is encoded or read after it.                         *)
TrackedFramesIntact ==
  AllButLastTracked => \A i \in 1 .. Len(frames) : Intact(frames[i])

(* The same for every batch of frames, whatever their bodies.              *)
FramesIntact == \A i \in 1 .. Len(frames) : Intact(frames[i])

(* The checksum at the end of frame i, taken from the bytes that precede   *)
(* it in the buffer.                                                       *)
ChecksumHolds(f) ==
  LET stop == f.at + Len(f.bytes)
  IN  SubSeq(buf.buffer, stop - TrailerWidth + 1, stop) =
        LittleEndian(SumOf(SubSeq(buf.buffer, 1, stop - TrailerWidth)) % Radix,
                     TrailerWidth)

(* A checksum once written stays right for the bytes before it: no later   *)
(* patch or read invalidates it while every body but the last is counted.  *)
TrackedChecksumsHold ==
  AllButLastTracked => \A i \in 1 .. Len(frames) : ChecksumHolds(frames[i])

(* The checksum of a frame is that of the frame's own bytes.               *)
ChecksumCoversFrame ==
  \A i \in 1 .. Len(frames) :
    LET f == frames[i]
        n == Len(f.bytes) - TrailerWidth
    IN  SubSeq(f.bytes, n + 1, Len(f.bytes)) =
          LittleEndian(SumOf(SubSeq(f.bytes, 1, n)) % Radix, TrailerWidth)
=============================================================================
