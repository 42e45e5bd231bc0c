---------------------------- MODULE MessageCodec ----------------------------
(***************************************************************************)
(* How messages are encoded into a ByteBuf and decoded from it, which      *)
(* protocol or class they are of being left open, and what this has to be  *)
(* for a buffer to be a queue of messages: encode() appends bytes that     *)
(* depend on the message alone, and decode() of an object of its kind      *)
(* takes exactly these bytes and gives what was promised, or is refused    *)
(* when the buffer ends before they do.                                    *)
(***************************************************************************)
EXTENDS ByteBuf

CONSTANTS EncodeInto(_, _),   \* message.encode(buf)
          DecodeFrom(_, _),   \* decode(buf) of a fresh object of some kind
          KindOf(_),      \* the kind of object that a message is
          Promised(_),    \* what the receiver of a message should get
          Delivered(_),   \* what it gets, of an object that was decoded
          Messages        \* the objects to send

BytesOf(m) == EncodeInto(m, EmptyBuf).buf.buffer

Appends(r, b, bytes) ==
  /\ r.outcome = "ok"
  /\ r.buf \in ByteBufs
  /\ r.buf.buffer = b.buffer \o bytes
  /\ r.buf.reader_index = b.reader_index

AppendsOwnBytes(m, b) == Appends(EncodeInto(m, b), b, BytesOf(m))

(* From the cursor on, the buffer has the given bytes or the first of them.*)
BeginsWith(bytes, b) ==
  \A k \in 1 .. Len(bytes) :
    b.reader_index + k <= Len(b.buffer) => b.buffer[b.reader_index + k] = bytes[k]

Begins(m, b) == BeginsWith(BytesOf(m), b)

Takes(r, b, m, bytes) ==
  LET end == b.reader_index + Len(bytes)
  IN  /\ r.buf \in ByteBufs
      /\ r.buf.buffer = b.buffer
      /\ r.buf.reader_index \in b.reader_index .. Len(b.buffer)
      /\ end <= Len(b.buffer) =>
           /\ r.outcome = "ok"
           /\ r.buf.reader_index = end
           /\ Delivered(r.value) = Promised(m)
           /\ BytesOf(r.value) = bytes
      /\ end > Len(b.buffer) => r.outcome = "out_of_range"

TakesOwnBytes(m, b) == Takes(DecodeFrom(KindOf(m), b), b, m, BytesOf(m))

SelfContained(m, b) == AppendsOwnBytes(m, b) /\ (Begins(m, b) => TakesOwnBytes(m, b))

CodecIsSelfContained ==
  \A m \in Messages :
    /\ BytesOf(m) \in Seq(Byte) \ {<<>>}
    /\ \A b \in ByteBufs : b.reader_index <= Len(b.buffer) => SelfContained(m, b)
=============================================================================
