------------------------------- MODULE Frame -------------------------------
(***************************************************************************)
(* The frame that RcBinary, SseBinary, SzseBinary and RootPacket share: a  *)
(* header, a length field whose value is known only when the body has been *)
(* encoded, the body, and a trailer.  The length field is written as zero  *)
(* and patched: its position and the body's extent are both taken from     *)
(* writer_index().                                                         *)
(***************************************************************************)
EXTENDS ByteBuf

(* Wrong variant: the position of the length field taken from              *)
(* writer_index() after the field has been written.                        *)
EncodePatchedLate(b, header, width, body) ==
  LET placed == Write(Write(b, header), Counted(LittleEndian(0, width)))
      filled == Write(placed, body)
      length == filled.writer_index - placed.writer_index
  IN  WriteAt(filled, placed.writer_index, LittleEndian(length, width))

(* From the first write_u32 of encode to write_u32_at.  When write_u32_at  *)
(* throws, the bytes already appended stay in the buffer.                  *)
EncodePatched(b, header, width, body) ==
  LET begun  == Write(b, header)
      placed == Write(begun, Counted(LittleEndian(0, width)))
      filled == Write(placed, body)
      length == filled.writer_index - placed.writer_index
  IN  WriteAt(filled, begun.writer_index, LittleEndian(length, width))

(* The bytes of a frame whose length field counts what `body` counts, as a *)
(* fresh buffer receives them.                                             *)
FrameBytes(header, width, body) ==
  header.bytes \o LittleEndian(body.counted, width) \o body.bytes
=============================================================================
