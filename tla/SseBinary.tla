------------------------------ MODULE SseBinary ------------------------------
(***************************************************************************)
(* The Shanghai Stock Exchange protocol of include/sse_binary.hpp.         *)
(***************************************************************************)
EXTENDS WireTypes, Frame, Checksum, TLC

Heartbeat ==
  << >>

Logon ==
  << <<"senderCompId", Fixed(32)>>, <<"targetCompId", Fixed(32)>>,
     <<"heartBtInt", U16>>, <<"prtclVersion", Fixed(8)>>, <<"tradeDate", U32>>,
     <<"qsize", U32>> >>

Logout ==
  << <<"sessionStatus", U32>>, <<"text", Fixed(64)>> >>

NewOrderSingle ==
  << <<"bizId", U32>>, <<"bizPbu", Fixed(8)>>, <<"clOrdId", Fixed(10)>>,
     <<"securityId", Fixed(12)>>, <<"account", Fixed(13)>>,
     <<"ownerType", U8>>, <<"side", Fixed(1)>>, <<"price", I64>>,
     <<"orderQty", I64>>, <<"ordType", Fixed(1)>>, <<"timeInForce", Fixed(1)>>,
     <<"transactTime", U64>>, <<"creditTag", Fixed(2)>>,
     <<"clearingFirm", Fixed(8)>>, <<"branchId", Fixed(8)>>,
     <<"userInfo", Fixed(32)>> >>

OrderCancel ==
  << <<"bizId", U32>>, <<"bizPbu", Fixed(8)>>, <<"clOrdId", Fixed(10)>>,
     <<"securityId", Fixed(12)>>, <<"account", Fixed(13)>>,
     <<"ownerType", U8>>, <<"side", Fixed(1)>>, <<"origClOrdId", Fixed(10)>>,
     <<"transactTime", U64>>, <<"branchId", Fixed(8)>>,
     <<"userInfo", Fixed(32)>> >>

Confirm ==
  << <<"pbu", Fixed(8)>>, <<"setId", U32>>, <<"reportIndex", U64>>,
     <<"bizId", U32>>, <<"execType", Fixed(1)>>, <<"bizPbu", Fixed(8)>>,
     <<"clOrdId", Fixed(10)>>, <<"securityId", Fixed(12)>>,
     <<"account", Fixed(13)>>, <<"ownerType", U8>>, <<"side", Fixed(1)>>,
     <<"price", I64>>, <<"orderQty", I64>>, <<"leavesQty", I64>>,
     <<"cxlQty", I64>>, <<"ordType", Fixed(1)>>, <<"timeInForce", Fixed(1)>>,
     <<"ordStatus", Fixed(1)>>, <<"creditTag", Fixed(2)>>,
     <<"origClOrdId", Fixed(10)>>, <<"clearingFirm", Fixed(8)>>,
     <<"branchId", Fixed(8)>>, <<"ordRejReason", U32>>,
     <<"ordCnfmId", Fixed(16)>>, <<"origOrdCnfmId", Fixed(16)>>,
     <<"tradeDate", U32>>, <<"transactTime", U64>>,
     <<"userInfo", Fixed(32)>> >>

CancelReject ==
  << <<"pbu", Fixed(8)>>, <<"setId", U32>>, <<"reportIndex", U64>>,
     <<"bizId", U32>>, <<"bizPbu", Fixed(8)>>, <<"clOrdId", Fixed(10)>>,
     <<"securityId", Fixed(12)>>, <<"origClOrdId", Fixed(10)>>,
     <<"branchId", Fixed(8)>>, <<"cxlRejReason", U32>>, <<"tradeDate", U32>>,
     <<"transactTime", U64>>, <<"userInfo", Fixed(32)>> >>

Report ==
  << <<"pbu", Fixed(8)>>, <<"setId", U32>>, <<"reportIndex", U64>>,
     <<"bizId", U32>>, <<"execType", Fixed(1)>>, <<"bizPbu", Fixed(8)>>,
     <<"clOrdId", Fixed(10)>>, <<"securityId", Fixed(12)>>,
     <<"account", Fixed(13)>>, <<"ownerType", U8>>, <<"orderEntryTime", U64>>,
     <<"lastPx", I64>>, <<"lastQty", I64>>, <<"grossTradeAmt", I64>>,
     <<"side", Fixed(1)>>, <<"orderQty", I64>>, <<"leavesQty", I64>>,
     <<"ordStatus", Fixed(1)>>, <<"creditTag", Fixed(2)>>,
     <<"clearingFirm", Fixed(8)>>, <<"branchId", Fixed(8)>>,
     <<"trdCnfmId", Fixed(16)>>, <<"ordCnfmId", Fixed(16)>>,
     <<"tradeDate", U32>>, <<"transactTime", U64>>,
     <<"userInfo", Fixed(32)>> >>

OrderReject ==
  << <<"bizId", U32>>, <<"bizPbu", Fixed(8)>>, <<"clOrdId", Fixed(10)>>,
     <<"securityId", Fixed(12)>>, <<"ordRejReason", U32>>,
     <<"tradeDate", U32>>, <<"transactTime", U64>>,
     <<"userInfo", Fixed(32)>> >>

PlatformState ==
  << <<"platformId", U16>>, <<"platformState", U16>> >>

ExecRptInfo ==
  << <<"platformId", U16>>, <<"pbu", ListOf(2, Fixed(8))>>,
     <<"setId", ListOf(2, U32)>> >>

SubExecRptSync ==
  << <<"pbu", Fixed(8)>>, <<"setId", U32>>, <<"beginReportIndex", U64>> >>

ExecRptSync ==
  << <<"subExecRptSync", ListOf(2, Struct("SubExecRptSync"))>> >>

SubExecRptSyncRsp ==
  << <<"pbu", Fixed(8)>>, <<"setId", U32>>, <<"beginReportIndex", U64>>,
     <<"endReportIndex", U64>>, <<"rejReason", U32>>, <<"text", Fixed(64)>> >>

ExecRptSyncRsp ==
  << <<"subExecRptSyncRsp", ListOf(2, Struct("SubExecRptSyncRsp"))>> >>

ExecRptEndOfStream ==
  << <<"pbu", Fixed(8)>>, <<"setId", U32>>, <<"endReportIndex", U64>> >>

SseBinaryMessageFactory ==
  Registered({33}, "Heartbeat")
  @@ Registered({40}, "Logon")
  @@ Registered({41}, "Logout")
  @@ Registered({58}, "NewOrderSingle")
  @@ Registered({61}, "OrderCancel")
  @@ Registered({32}, "Confirm")
  @@ Registered({59}, "CancelReject")
  @@ Registered({103}, "Report")
  @@ Registered({204}, "OrderReject")
  @@ Registered({209}, "PlatformState")
  @@ Registered({208}, "ExecRptInfo")
  @@ Registered({206}, "ExecRptSync")
  @@ Registered({207}, "ExecRptSyncRsp")
  @@ Registered({210}, "ExecRptEndOfStream")

SseBinary ==
  << <<"msgType", U32>>, <<"msgSeqNum", U64>>, <<"msgBodyLen", U32>>,
     <<"body", Dynamic("msgType", SseBinaryMessageFactory)>>,
     <<"checksum", U32>> >>

Classes ==
  [Heartbeat |-> Heartbeat, Logon |-> Logon, Logout |-> Logout,
   NewOrderSingle |-> NewOrderSingle, OrderCancel |-> OrderCancel,
   Confirm |-> Confirm, CancelReject |-> CancelReject, Report |-> Report,
   OrderReject |-> OrderReject, PlatformState |-> PlatformState,
   ExecRptInfo |-> ExecRptInfo, SubExecRptSync |-> SubExecRptSync,
   ExecRptSync |-> ExecRptSync, SubExecRptSyncRsp |-> SubExecRptSyncRsp,
   ExecRptSyncRsp |-> ExecRptSyncRsp,
   ExecRptEndOfStream |-> ExecRptEndOfStream, SseBinary |-> SseBinary]

Codec == INSTANCE Wire

(* What encode() writes before the length field or body.                   *)
HeaderSseBinary(m) == Counted(LittleEndian(m.msgType, 4) \o LittleEndian(m.msgSeqNum, 8))

(* Wrong variant: the checksum taken before the length field is patched.   *)
EncodeSseBinaryEarly(m, b) ==
  LET body   == Codec!PutObject(m.body)
      placed == Write(Write(b, HeaderSseBinary(m)), Counted(LittleEndian(0, 4)))
      r      == EncodePatched(b, HeaderSseBinary(m), 4, body)
  IN  Ok(Write(r.buf, Counted(LittleEndian(SseBin(Write(placed, body)), 4))), <<>>)

(* Wrong variant: without the `else`, the member behind the checksum.      *)
EncodeSseBinaryBoth(m, b) ==
  Then(EncodePatched(b, HeaderSseBinary(m), 4, Codec!PutObject(m.body)),
       LAMBDA r : Ok(Write(r.buf, Counted(LittleEndian(SseBin(r.buf), 4)
                                            \o LittleEndian(m.checksum, 4))), <<>>))

(* encode() of the frame.  The members msgBodyLen and checksum are not     *)
(* used: the SSE_BIN service is always registered.                         *)
EncodeSseBinary(m, b) ==
  Then(EncodePatched(b, HeaderSseBinary(m), 4, Codec!PutObject(m.body)),
       LAMBDA r : Ok(Write(r.buf, Counted(LittleEndian(SseBin(r.buf), 4))), <<>>))

(* The virtual encode() and decode() of an object of any class.            *)
Encode(object, b) ==
  IF ClassOf(object) = "SseBinary" THEN EncodeSseBinary(ContentOf(object), b)
  ELSE Ok(Write(b, Codec!PutObject(object)), <<>>)

Decode(class, b) == Codec!TakeObject(b, class)

(* The members of a class that encode() computes.                          *)
Computed(class) == IF class = "SseBinary" THEN {"msgBodyLen", "checksum"} ELSE {}
=============================================================================
