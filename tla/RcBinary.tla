------------------------------ MODULE RcBinary -------------------------------
(***************************************************************************)
(* The risk-control protocol of include/rc_binary.hpp: six messages, in a  *)
(* frame with a length field and no checksum.                              *)
(***************************************************************************)
EXTENDS WireTypes, Frame, Checksum, TLC

NewOrder ==
  << <<"uniqueOrderId", Text(4)>>, <<"clOrdId", Text(4)>>,
     <<"securityId", Text(4)>>, <<"side", Fixed(1)>>, <<"price", U64>>,
     <<"orderQty", U64>>, <<"ordType", Fixed(1)>>, <<"account", Text(4)>> >>

OrderConfirm ==
  << <<"uniqueOrderId", Text(4)>>, <<"uniqueOrigOrderId", Text(4)>>,
     <<"clOrdId", Text(4)>>, <<"execType", Fixed(1)>>, <<"ordRejReason", U32>>,
     <<"ordCnfmId", Text(4)>> >>

ExecutionReport ==
  << <<"uniqueOrderId", Text(4)>>, <<"clOrdId", Text(4)>>,
     <<"ordCnfmId", Text(4)>>, <<"lastPx", U64>>, <<"lastQty", U64>>,
     <<"ordStatus", Fixed(1)>> >>

OrderCancel ==
  << <<"uniqueOrderId", Text(4)>>, <<"uniqueOrigOrderId", Text(4)>>,
     <<"clOrdId", Text(4)>>, <<"origClOrdId", Text(4)>>,
     <<"securityId", Text(4)>> >>

CancelReject ==
  << <<"uniqueOrderId", Text(4)>>, <<"uniqueOrigOrderId", Text(4)>>,
     <<"clOrdId", Text(4)>>, <<"origClOrdId", Text(4)>>,
     <<"cxlRejReason", U32>> >>

RiskResult ==
  << <<"uniqueOrderId", Text(4)>>, <<"riskStatus", U8>>,
     <<"riskReason", Text(4)>> >>

RcBinaryMessageFactory ==
  Registered({100101}, "NewOrder")
  @@ Registered({200102}, "OrderConfirm")
  @@ Registered({200115}, "ExecutionReport")
  @@ Registered({190007}, "OrderCancel")
  @@ Registered({290008}, "CancelReject")
  @@ Registered({800001}, "RiskResult")

RcBinary ==
  << <<"msgType", U32>>, <<"version", U32>>, <<"msgBodyLen", U32>>,
     <<"body", Dynamic("msgType", RcBinaryMessageFactory)>> >>

Classes ==
  [NewOrder |-> NewOrder, OrderConfirm |-> OrderConfirm,
   ExecutionReport |-> ExecutionReport, OrderCancel |-> OrderCancel,
   CancelReject |-> CancelReject, RiskResult |-> RiskResult,
   RcBinary |-> RcBinary]

Codec == INSTANCE Wire

(* What encode() writes before the length field or body.                   *)
HeaderRcBinary(m) == Counted(LittleEndian(m.msgType, 4) \o LittleEndian(m.version, 4))

(* encode() of the frame.  The member msgBodyLen is not used.              *)
EncodeRcBinary(m, b) ==
  EncodePatched(b, HeaderRcBinary(m), 4, Codec!PutObject(m.body))

(* The virtual encode() and decode() of an object of any class.            *)
Encode(object, b) ==
  IF ClassOf(object) = "RcBinary" THEN EncodeRcBinary(ContentOf(object), b)
  ELSE Ok(Write(b, Codec!PutObject(object)), <<>>)

Decode(class, b) == Codec!TakeObject(b, class)

(* The members of a class that encode() computes.                          *)
Computed(class) == IF class = "RcBinary" THEN {"msgBodyLen"} ELSE {}
=============================================================================
