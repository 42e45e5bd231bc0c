----------------------------- MODULE RootPacket ------------------------------
(***************************************************************************)
(* The sample protocol of include/root_packet.hpp, which has a member of   *)
(* every type that the code generator knows.                               *)
(***************************************************************************)
EXTENDS WireTypes, Frame, Checksum, TLC

BasicPacket ==
  << <<"fieldI8", I8>>, <<"fieldI16", I16>>, <<"fieldI32", I32>>,
     <<"fieldI64", I64>>, <<"fieldChar", FixedPadded(1, Zero, TRUE)>>,
     <<"fieldU8", U8>>, <<"fieldU16", U16>>, <<"fieldU32", U32>>,
     <<"fieldU64", U64>>, <<"fieldF32", F32>>, <<"fieldF64", F64>>,
     <<"fieldI8List", ListOf(2, Whole(1, TRUE))>>,
     <<"fieldI16List", ListOf(2, I16)>>, <<"fieldI32List", ListOf(2, I32)>>,
     <<"fieldI64List", ListOf(2, I64)>>,
     <<"fieldCharList", ListOf(2, FixedPadded(1, Zero, TRUE))>>,
     <<"fieldU8List", ListOf(2, Whole(1, FALSE))>>,
     <<"fieldU16List", ListOf(2, U16)>>, <<"fieldU32List", ListOf(2, U32)>>,
     <<"fieldU64List", ListOf(2, U64)>>, <<"fieldF32List", ListOf(2, F32)>>,
     <<"fieldF64List", ListOf(2, F64)>> >>

StringPacket ==
  << <<"fieldDynamicString", Text(2)>>, <<"fieldDynamicString1", Text(2)>>,
     <<"fieldFixedString1", FixedPadded(1, Zero, TRUE)>>,
     <<"fieldFixedString10", FixedPadded(10, Zero, TRUE)>>,
     <<"fieldFixedString10Pad", FixedPadded(10, Space, TRUE)>>,
     <<"fieldDynamicStringList", ListOf(2, Text(2))>>,
     <<"fieldDynamicString1List", ListOf(2, Text(2))>>,
     <<"fieldFixedString1List", ListOf(2, FixedPadded(1, Zero, TRUE))>>,
     <<"fieldFixedString10List", ListOf(2, FixedPadded(10, Zero, TRUE))>>,
     <<"fieldFixedString10ListPad", ListOf(2, FixedPadded(10, Zero, FALSE))>> >>

SubPacket ==
  << <<"fieldU32", U32>>, <<"fieldI16List", ListOf(2, I16)>> >>

InerPacket ==
  << <<"fieldU32", U32>>, <<"fieldI16List", ListOf(2, I16)>> >>

NestedPacket ==
  << <<"subPacket", Struct("SubPacket")>>,
     <<"subPacketList", ListOf(2, Struct("SubPacket"))>>,
     <<"inerPacket", Struct("InerPacket")>> >>

EmptyPacket ==
  << >>

RootPacketMessageFactory ==
  Registered({1}, "BasicPacket")
  @@ Registered({2}, "StringPacket")
  @@ Registered({3}, "NestedPacket")
  @@ Registered({4}, "EmptyPacket")

RootPacket ==
  << <<"msgType", U16>>, <<"payloadLen", U32>>,
     <<"payload", Dynamic("msgType", RootPacketMessageFactory)>>,
     <<"checksum", U32>> >>

Classes ==
  [BasicPacket |-> BasicPacket, StringPacket |-> StringPacket,
   SubPacket |-> SubPacket, InerPacket |-> InerPacket,
   NestedPacket |-> NestedPacket, EmptyPacket |-> EmptyPacket,
   RootPacket |-> RootPacket]

Codec == INSTANCE Wire

(* What encode() writes before the length field or body.                   *)
HeaderRootPacket(m) == Counted(LittleEndian(m.msgType, 2))

(* encode() of the frame.  The members payloadLen and checksum are not     *)
(* used: the CRC32 service is always registered.                           *)
EncodeRootPacket(m, b) ==
  Then(EncodePatched(b, HeaderRootPacket(m), 4, Codec!PutObject(m.payload)),
       LAMBDA r : Ok(Write(r.buf, Counted(LittleEndian(Crc32(r.buf), 4))), <<>>))

(* The virtual encode() and decode() of an object of any class.            *)
Encode(object, b) ==
  IF ClassOf(object) = "RootPacket" THEN EncodeRootPacket(ContentOf(object), b)
  ELSE Ok(Write(b, Codec!PutObject(object)), <<>>)

Decode(class, b) == Codec!TakeObject(b, class)

(* The members of a class that encode() computes.                          *)
Computed(class) == IF class = "RootPacket" THEN {"payloadLen", "checksum"} ELSE {}
=============================================================================
