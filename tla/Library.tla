------------------------------ MODULE Library ------------------------------
(***************************************************************************)
(* The five protocols together.  A message is an object and the protocol   *)
(* whose header declares its class, since the classes of different         *)
(* protocols share names.                                                  *)
(***************************************************************************)
EXTENDS Integers, Sequences

CONSTANT Radix

Rc   == INSTANCE RcBinary
Sse  == INSTANCE SseBinary
Szse == INSTANCE SzseBinary
Bjse == INSTANCE BjseBinary
Root == INSTANCE RootPacket

Protocols == {"rc", "sse", "szse", "bjse", "root"}

FrameOf ==
  [rc |-> "RcBinary", sse |-> "SseBinary", szse |-> "SzseBinary",
   bjse |-> "BjseBinary", root |-> "RootPacket"]

Classes ==
  [rc |-> Rc!Classes, sse |-> Sse!Classes, szse |-> Szse!Classes,
   bjse |-> Bjse!Classes, root |-> Root!Classes]

(* The factories of each header by their tags: MessageFactory<Key, Message,*)
(* Tag> is one class, with one instance, wherever the same names meet.     *)
Factories ==
  [rc |-> [RcBinaryTag |-> Rc!RcBinaryMessageFactory],
   sse |-> [SseBinaryTag |-> Sse!SseBinaryMessageFactory],
   root |-> [RootPacketTag |-> Root!RootPacketMessageFactory],
   szse |->
     [SzseBinaryTag       |-> Szse!SzseBinaryMessageFactory,
      NewOrderTag         |-> Szse!NewOrderMessageFactory,
      ExecutionConfirmTag |-> Szse!ExecutionConfirmMessageFactory,
      ExecutionReportTag  |-> Szse!ExecutionReportMessageFactory],
   bjse |->
     [BjseBinaryTag          |-> Bjse!BjseBinaryMessageFactory,
      NewOrderTag            |-> Bjse!NewOrderMessageFactory,
      ExecutionConfirmTag    |-> Bjse!ExecutionConfirmMessageFactory,
      ExecutionReportTag     |-> Bjse!ExecutionReportMessageFactory,
      QuoteTag               |-> Bjse!QuoteMessageFactory,
      QuoteStatusReportTag   |-> Bjse!QuoteStatusReportMessageFactory,
      QuoteResponseTag       |-> Bjse!QuoteResponseMessageFactory,
      AllegeQuoteTag         |-> Bjse!AllegeQuoteMessageFactory,
      TradeCaptureReportTag  |-> Bjse!TradeCaptureReportMessageFactory,
      TradeCaptureReportAckTag |-> Bjse!TradeCaptureReportAckMessageFactory,
      TradeCaptureConfirmTag |-> Bjse!TradeCaptureConfirmMessageFactory]]

Message(protocol, object) == <<protocol, object>>
ProtocolOf(m) == m[1]
ObjectOf(m)   == m[2]
ContentOf(m)  == m[2][2]

IsFrame(m) == ObjectOf(m)[1] = FrameOf[ProtocolOf(m)]

(* What a receiver has to know to decode a message.                        *)
Kind(m) == <<ProtocolOf(m), ObjectOf(m)[1]>>

EncodeMessage(m, b) ==
  CASE ProtocolOf(m) = "rc"   -> Rc!Encode(ObjectOf(m), b)
    [] ProtocolOf(m) = "sse"  -> Sse!Encode(ObjectOf(m), b)
    [] ProtocolOf(m) = "szse" -> Szse!Encode(ObjectOf(m), b)
    [] ProtocolOf(m) = "bjse" -> Bjse!Encode(ObjectOf(m), b)
    [] ProtocolOf(m) = "root" -> Root!Encode(ObjectOf(m), b)

DecodeObject(kind, b) ==
  CASE kind[1] = "rc"   -> Rc!Decode(kind[2], b)
    [] kind[1] = "sse"  -> Sse!Decode(kind[2], b)
    [] kind[1] = "szse" -> Szse!Decode(kind[2], b)
    [] kind[1] = "bjse" -> Bjse!Decode(kind[2], b)
    [] kind[1] = "root" -> Root!Decode(kind[2], b)

AsMessage(protocol, r) == [r EXCEPT !.value = Message(protocol, @)]

DecodeKind(kind, b) == AsMessage(kind[1], DecodeObject(kind, b))

(* The members that encode() computes and does not take from the object.   *)
ComputedBy(m) ==
  CASE ProtocolOf(m) = "rc"   -> Rc!Computed(ObjectOf(m)[1])
    [] ProtocolOf(m) = "sse"  -> Sse!Computed(ObjectOf(m)[1])
    [] ProtocolOf(m) = "szse" -> Szse!Computed(ObjectOf(m)[1])
    [] ProtocolOf(m) = "bjse" -> Bjse!Computed(ObjectOf(m)[1])
    [] ProtocolOf(m) = "root" -> Root!Computed(ObjectOf(m)[1])

(* A message without them, since sender and receiver need not agree there. *)
Given(m) ==
  [m EXCEPT ![2][2] = [name \in DOMAIN @ \ ComputedBy(m) |-> @[name]]]

CanonicalMessage(m) ==
  LET C == INSTANCE Canonical WITH Classes <- Classes[ProtocolOf(m)]
  IN  Given([m EXCEPT ![2] = C!CanonicalObject(@)])

(* Samples of what the class makes of its protocol.                        *)
SamplesOfKind(protocol, class) ==
  LET S == INSTANCE Samples WITH Classes <- Classes[protocol]
  IN  {Message(protocol, object) : object \in S!SamplesOf(class)}
=============================================================================
