------------------------------ MODULE Traffic ------------------------------
(***************************************************************************)
(* Session for the messages of the library: what sender and receiver do    *)
(* with the five protocols, and what the fields that a frame computes tell *)
(* the receiver.                                                           *)
(***************************************************************************)
EXTENDS Session

Lib == INSTANCE Library

TrafficEncode(m, b)    == Lib!EncodeMessage(m, b)
TrafficDecode(kind, b) == Lib!DecodeKind(kind, b)
TrafficKindOf(m)       == Lib!Kind(m)
TrafficPromised(m)     == Lib!CanonicalMessage(m)
TrafficDelivered(m)    == Lib!Given(m)

(* What is sent to test the library: samples of every class, inside a      *)
(* frame when the protocol has a key for the class.                        *)
Unframed ==
  [rc |-> {}, sse |-> {}, root |-> {},
   szse |-> {"Extend101401", "Extend200402", "Extend201202", "Extend203102",
             "Extend200415", "PlatformInfo"},
   bjse |-> {"Quote", "QuoteStatusReport", "QuoteResponse", "AllegeQuote",
             "AllegeQuoteResponse", "TradeCaptureReport",
             "TradeCaptureReportAck", "TradeCaptureConfirm", "BusinessReject",
             "TradingSessionStatus", "PlatformInfo"}]

Catalogue ==
  UNION {UNION {Lib!SamplesOfKind(p, c) : c \in {Lib!FrameOf[p]} \cup Unframed[p]} :
           p \in Lib!Protocols}

Frames(p) == Lib!SamplesOfKind(p, Lib!FrameOf[p])

-----------------------------------------------------------------------------
(* The frames among the messages received, as their place in the sequence. *)
FramesOf(protocols) ==
  {i \in DOMAIN received : Lib!IsFrame(received[i]) /\ Lib!ProtocolOf(received[i]) \in protocols}

Field(i, name) == Lib!ContentOf(received[i])[name]

StartOf(i) == IF i = 1 THEN 0 ELSE ends[i - 1]

SumBetween(from, to) ==
  Lib!Sse!SumOf(SubSeq(buf.buffer, from + 1, to)) % Radix

(* The checksum that the receiver of an sse or szse frame finds at its end *)
(* is that of all bytes before it in the buffer, the patched length field  *)
(* included: it can be verified from the bytes alone.                      *)
ChecksumVerifies ==
  \A i \in FramesOf({"sse", "szse"}) :
    Field(i, "checksum") = SumBetween(0, ends[i] - 4)

(* A message that was received and is forwarded, encoded into a buffer of  *)
(* its own, has the bytes it came in, except for the checksum of an sse or *)
(* szse frame that was not the first in its buffer: that one is of the     *)
(* frames before it, too.                                                  *)
ForwardedUpToChecksum ==
  \A i \in DOMAIN received :
    LET came      == SubSeq(buf.buffer, StartOf(i) + 1, ends[i])
        forwarded == TrafficEncode(received[i], EmptyBuf).buf.buffer
        same      == IF i > 1 /\ i \in FramesOf({"sse", "szse"}) THEN Len(came) - 4 ELSE Len(came)
    IN  /\ Len(forwarded) = Len(came)
        /\ SubSeq(forwarded, 1, same) = SubSeq(came, 1, same)

LengthField ==
  [rc |-> "msgBodyLen", sse |-> "msgBodyLen", szse |-> "bodyLength", root |-> "payloadLen"]

(* How many bytes of a frame are not those of its body.                    *)
Around == [rc |-> 12, sse |-> 20, szse |-> 12, root |-> 10]

(* The length field that encode() computes is the length of the body, as   *)
(* the names msgBodyLen, bodyLength and payloadLen say.                    *)
LengthIsBodyLength ==
  \A i \in FramesOf(DOMAIN Around) :
    LET p == Lib!ProtocolOf(received[i])
    IN  Field(i, LengthField[p]) = ends[i] - StartOf(i) - Around[p]
=============================================================================
