----------------------------- MODULE SzseBinary ------------------------------
(***************************************************************************)
(* The Shenzhen Stock Exchange protocol of include/szse_binary.hpp. New    *)
(* orders, confirmations and reports end with an extension whose class     *)
(* depends on the application identifier.                                  *)
(***************************************************************************)
EXTENDS WireTypes, Frame, Checksum, TLC

(* ApplId keys, by number.                                                *)
Applications(ns) == {ApplId(n) : n \in ns}

Logon ==
  << <<"senderCompId", Fixed(20)>>, <<"targetCompId", Fixed(20)>>,
     <<"heartBtint", I32>>, <<"password", Fixed(16)>>,
     <<"defaultApplVerId", Fixed(32)>> >>

Logout ==
  << <<"sessionStatus", I32>>, <<"text", Fixed(200)>> >>

Heartbeat ==
  << >>

Extend100101 ==
  << <<"stopPx", I64>>, <<"minQty", I64>>, <<"maxPriceLevels", U16>>,
     <<"timeInForce", Fixed(1)>>, <<"cashMargin", Fixed(1)>> >>

Extend100201 ==
  << <<"stopPx", I64>>, <<"minQty", I64>>, <<"maxPriceLevels", U16>>,
     <<"timeInForce", Fixed(1)>> >>

Extend100301 ==
  << <<"stopPx", I64>>, <<"minQty", I64>>, <<"maxPriceLevels", U16>>,
     <<"timeInForce", Fixed(1)>> >>

Extend100501 ==
  << <<"confirmId", Fixed(8)>>, <<"cashMargin", Fixed(1)>> >>

Extend100601 ==
  << <<"cashMargin", Fixed(1)>> >>

Extend100701 ==
  << <<"expirationDays", U16>>, <<"expirationType", U8>>,
     <<"shareProperty", Fixed(2)>> >>

Extend101501 ==
  << <<"shareProperty", Fixed(2)>> >>

Extend101601 ==
  << <<"contractAccountCode", Fixed(6)>> >>

Extend101701 ==
  << <<"cashOrderQty", I64>> >>

Extend101801 ==
  << <<"tenderer", Fixed(6)>> >>

Extend102701 ==
  << <<"disposalPbu", Fixed(6)>>, <<"disposalAccountId", Fixed(12)>> >>

Extend102801 ==
  << <<"lenderPbu", Fixed(6)>>, <<"lenderAccountId", Fixed(12)>> >>

Extend102901 ==
  << <<"deductionPbu", Fixed(6)>>, <<"deductionAccountId", Fixed(12)>> >>

Extend106301 ==
  << <<"stopPx", I64>>, <<"minQty", I64>>, <<"maxPriceLevels", U16>>,
     <<"timeInForce", Fixed(1)>>, <<"lotType", Fixed(1)>> >>

Extend103501 ==
  << <<"contractAccountCode", Fixed(6)>> >>

Extend103701 ==
  << <<"cashMargin", Fixed(1)>> >>

Extend104101 ==
  << <<"stopPx", I64>>, <<"minQty", I64>>, <<"maxPriceLevels", U16>>,
     <<"timeInForce", Fixed(1)>>, <<"cashMargin", Fixed(1)>> >>

Extend104128 ==
  << <<"memberId", Fixed(6)>>, <<"investorType", Fixed(2)>>,
     <<"investorId", Fixed(10)>>, <<"investorName", Fixed(120)>>,
     <<"traderCode", Fixed(8)>>, <<"secondaryOrderId", Fixed(16)>>,
     <<"bidTransType", U16>>, <<"bidExecInstType", U16>>,
     <<"lowLimitPrice", I64>>, <<"highLimitPrice", I64>>, <<"minQty", I64>>,
     <<"tradeDate", U32>>, <<"settlType", U16>>, <<"settlPeriod", U8>>,
     <<"preTradeAnonymity", U8>>, <<"cashMargin", Fixed(1)>>,
     <<"memo", Fixed(160)>> >>

Extend104701 ==
  << <<"secondaryOrderId", Fixed(16)>> >>

NewOrderMessageFactory ==
  Registered(Applications({10}), "Extend100101")
  @@ Registered(Applications({20}), "Extend100201")
  @@ Registered(Applications({30}), "Extend100301")
  @@ Registered(Applications({51, 52}), "Extend100501")
  @@ Registered(Applications({60, 61}), "Extend100601")
  @@ Registered(Applications({70}), "Extend100701")
  @@ Registered(Applications({150, 151, 152}), "Extend101501")
  @@ Registered(Applications({160}), "Extend101601")
  @@ Registered(Applications({170}), "Extend101701")
  @@ Registered(Applications({180, 181}), "Extend101801")
  @@ Registered(Applications({270, 271}), "Extend102701")
  @@ Registered(Applications({280, 281}), "Extend102801")
  @@ Registered(Applications({290, 291}), "Extend102901")
  @@ Registered(Applications({630}), "Extend106301")
  @@ Registered(Applications({350, 351}), "Extend103501")
  @@ Registered(Applications({370}), "Extend103701")
  @@ Registered(Applications({410}), "Extend104101")
  @@ Registered(Applications({417}), "Extend104128")
  @@ Registered(Applications({470}), "Extend104701")

NewOrder ==
  << <<"applId", Fixed(3)>>, <<"submittingPbuid", Fixed(6)>>,
     <<"securityId", Fixed(8)>>, <<"securityIdsource", Fixed(4)>>,
     <<"ownerType", U16>>, <<"clearingFirm", Fixed(2)>>,
     <<"transactTime", I64>>, <<"userInfo", Fixed(8)>>,
     <<"clOrdId", Fixed(10)>>, <<"accountId", Fixed(12)>>,
     <<"branchId", Fixed(4)>>, <<"orderRestrictions", Fixed(4)>>,
     <<"side", Fixed(1)>>, <<"ordType", Fixed(1)>>, <<"orderQty", I64>>,
     <<"price", I64>>,
     <<"applExtend", Dynamic("applId", NewOrderMessageFactory)>> >>

Extend101401 ==
  << <<"stopPx", I64>>, <<"minQty", I64>>, <<"maxPriceLevels", U16>>,
     <<"timeInForce", Fixed(1)>>, <<"positionEffect", Fixed(1)>>,
     <<"coveredOrUncovered", U8>>, <<"contractAccountCode", Fixed(6)>>,
     <<"secondaryOrderId", Fixed(16)>> >>

Extend200102 ==
  << <<"stopPx", I64>>, <<"minQty", I64>>, <<"maxPriceLevels", U16>>,
     <<"timeInForce", Fixed(1)>>, <<"cashMargin", Fixed(1)>> >>

Extend200202 ==
  << <<"stopPx", I64>>, <<"minQty", I64>>, <<"maxPriceLevels", U16>>,
     <<"timeInForce", Fixed(1)>> >>

Extend200302 ==
  << <<"stopPx", I64>>, <<"minQty", I64>>, <<"maxPriceLevels", U16>>,
     <<"timeInForce", Fixed(1)>> >>

Extend200502 ==
  << <<"confirmId", Fixed(8)>>, <<"cashMargin", Fixed(1)>> >>

Extend200602 ==
  << <<"cashMargin", Fixed(1)>> >>

Extend200702 ==
  << <<"expirationDays", U16>>, <<"expirationType", U8>>,
     <<"shareProperty", Fixed(2)>> >>

Extend201502 ==
  << <<"shareProperty", Fixed(2)>> >>

Extend201602 ==
  << <<"contractAccountCode", Fixed(6)>> >>

Extend201702 ==
  << <<"cashOrderQty", I64>> >>

Extend201802 ==
  << <<"tenderer", Fixed(6)>> >>

Extend202702 ==
  << <<"disposalPbu", Fixed(6)>>, <<"disposalAccountId", Fixed(12)>> >>

Extend202802 ==
  << <<"lenderPbu", Fixed(6)>>, <<"lenderAccountId", Fixed(12)>> >>

Extend202902 ==
  << <<"deductionPbu", Fixed(6)>>, <<"deductionAccountId", Fixed(12)>> >>

Extend206302 ==
  << <<"rejectText", Fixed(16)>>, <<"stopPx", I64>>, <<"minQty", I64>>,
     <<"maxPriceLevels", U16>>, <<"timeInForce", Fixed(1)>>,
     <<"lotType", Fixed(1)>>, <<"imcrejectTextLen", U32>>,
     <<"imcrejectText", Text(4)>> >>

Extend203502 ==
  << <<"contractAccountCode", Fixed(6)>> >>

Extend203702 ==
  << <<"cashMargin", Fixed(1)>> >>

Extend204102 ==
  << <<"stopPx", I64>>, <<"minQty", I64>>, <<"maxPriceLevels", U16>>,
     <<"timeInForce", Fixed(1)>>, <<"cashMargin", Fixed(1)>> >>

Extend204129 ==
  << <<"memberId", Fixed(6)>>, <<"investorType", Fixed(2)>>,
     <<"investorId", Fixed(10)>>, <<"investorName", Fixed(120)>>,
     <<"traderCode", Fixed(8)>>, <<"secondaryOrderId", Fixed(16)>>,
     <<"bidTransType", U16>>, <<"bidExecInstType", U16>>,
     <<"lowLimitPrice", I64>>, <<"highLimitPrice", I64>>, <<"minQty", I64>>,
     <<"tradeDate", U32>>, <<"settlType", U16>>, <<"settlPeriod", U8>>,
     <<"preTradeAnonymity", U8>>, <<"cashMargin", Fixed(1)>>,
     <<"memo", Fixed(160)>> >>

Extend204702 ==
  << <<"secondaryOrderId", Fixed(16)>> >>

ExecutionConfirmMessageFactory ==
  Registered(Applications({10}), "Extend200102")
  @@ Registered(Applications({20}), "Extend200202")
  @@ Registered(Applications({30}), "Extend200302")
  @@ Registered(Applications({51, 52}), "Extend200502")
  @@ Registered(Applications({60, 61}), "Extend200602")
  @@ Registered(Applications({70}), "Extend200702")
  @@ Registered(Applications({150, 151, 152}), "Extend201502")
  @@ Registered(Applications({160}), "Extend201602")
  @@ Registered(Applications({170}), "Extend201702")
  @@ Registered(Applications({180, 181}), "Extend201802")
  @@ Registered(Applications({270, 271}), "Extend202702")
  @@ Registered(Applications({280, 281}), "Extend202802")
  @@ Registered(Applications({290, 291}), "Extend202902")
  @@ Registered(Applications({630}), "Extend206302")
  @@ Registered(Applications({350, 351}), "Extend203502")
  @@ Registered(Applications({370}), "Extend203702")
  @@ Registered(Applications({410}), "Extend204102")
  @@ Registered(Applications({417}), "Extend204129")
  @@ Registered(Applications({470}), "Extend204702")

ExecutionConfirm ==
  << <<"partitionNo", I32>>, <<"reportIndex", I64>>, <<"applId", Fixed(3)>>,
     <<"reportingPbuid", Fixed(6)>>, <<"submittingPbuid", Fixed(6)>>,
     <<"securityId", Fixed(8)>>, <<"securityIdsource", Fixed(4)>>,
     <<"ownerType", U16>>, <<"clearingFirm", Fixed(2)>>,
     <<"transactTime", I64>>, <<"userInfo", Fixed(8)>>,
     <<"orderId", Fixed(16)>>, <<"clOrdId", Fixed(10)>>,
     <<"quoteMsgId", Fixed(10)>>, <<"origClOrdId", Fixed(10)>>,
     <<"execId", Fixed(16)>>, <<"execType", Fixed(1)>>,
     <<"ordStatus", Fixed(1)>>, <<"ordRejReason", U16>>, <<"leavesQty", I64>>,
     <<"cumQty", I64>>, <<"side", Fixed(1)>>, <<"ordType", Fixed(1)>>,
     <<"orderQty", I64>>, <<"price", I64>>, <<"accountId", Fixed(12)>>,
     <<"branchId", Fixed(4)>>, <<"orderRestrictions", Fixed(4)>>,
     <<"applExtend", Dynamic("applId", ExecutionConfirmMessageFactory)>> >>

Extend200402 ==
  << <<"stopPx", I64>>, <<"minQty", I64>>, <<"maxPriceLevels", U16>>,
     <<"timeInForce", Fixed(1)>>, <<"positionEffect", Fixed(1)>>,
     <<"coveredOrUncovered", U8>>, <<"contractAccountCode", Fixed(6)>>,
     <<"secondaryOrderId", Fixed(16)>> >>

Extend201202 ==
  << <<"insufficientSecurityId", Fixed(8)>>, <<"noSecurity", U32>>,
     <<"underlyingSecurityId", Fixed(8)>>,
     <<"underlyingSecurityIdsource", Fixed(4)>>, <<"deliveryQty", I64>>,
     <<"substCash", I64>> >>

Extend203102 ==
  << <<"insufficientSecurityId", Fixed(8)>>, <<"noSecurity", U32>>,
     <<"underlyingSecurityId", Fixed(8)>>,
     <<"underlyingSecurityIdsource", Fixed(4)>>, <<"deliveryQty", I64>> >>

Extend200115 ==
  << <<"cashMargin", Fixed(1)>> >>

Extend200215 ==
  << <<"maturityDate", U32>> >>

Extend200315 ==
  << <<"maturityDate", U32>> >>

Extend200515 ==
  << <<"confirmId", Fixed(8)>>, <<"cashMargin", Fixed(1)>> >>

Extend200615 ==
  << <<"cashMargin", Fixed(1)>> >>

Extend200715 ==
  << <<"expirationDays", U16>>, <<"expirationType", U8>>,
     <<"maturityDate", U32>>, <<"shareProperty", Fixed(2)>> >>

Extend206315 ==
  << <<"cashMargin", Fixed(1)>> >>

Extend203715 ==
  << <<"cashMargin", Fixed(1)>> >>

Extend204115 ==
  << <<"cashMargin", Fixed(1)>>, <<"settlType", U16>>, <<"settlPeriod", U8>>,
     <<"counterpartyMemberId", Fixed(6)>>,
     <<"counterpartyInvestorType", Fixed(2)>>,
     <<"counterpartyInvestorId", Fixed(10)>>,
     <<"counterpartyInvestorName", Fixed(120)>>,
     <<"counterpartyTraderCode", Fixed(8)>> >>

Extend204130 ==
  << <<"memberId", Fixed(6)>>, <<"investorType", Fixed(2)>>,
     <<"investorId", Fixed(10)>>, <<"investorName", Fixed(120)>>,
     <<"traderCode", Fixed(8)>>, <<"counterpartyMemberId", Fixed(6)>>,
     <<"counterpartyInvestorType", Fixed(2)>>,
     <<"counterpartyInvestorId", Fixed(10)>>,
     <<"counterpartyInvestorName", Fixed(120)>>,
     <<"counterpartyTraderCode", Fixed(8)>>, <<"secondaryOrderId", Fixed(16)>>,
     <<"bidTransType", U16>>, <<"bidExecInstType", U16>>, <<"settlType", U16>>,
     <<"settlPeriod", U8>>, <<"cashMargin", Fixed(1)>>,
     <<"memo", Fixed(160)>> >>

Extend204715 ==
  << <<"expirationDays", U16>>, <<"expirationType", U8>>,
     <<"maturityDate", U32>>, <<"shareProperty", Fixed(2)>> >>

ExecutionReportMessageFactory ==
  Registered(Applications({10}), "Extend200115")
  @@ Registered(Applications({20}), "Extend200215")
  @@ Registered(Applications({30}), "Extend200315")
  @@ Registered(Applications({51, 52, 56, 57}), "Extend200515")
  @@ Registered(Applications({60, 61}), "Extend200615")
  @@ Registered(Applications({70}), "Extend200715")
  @@ Registered(Applications({630}), "Extend206315")
  @@ Registered(Applications({370}), "Extend203715")
  @@ Registered(Applications({410, 412, 413, 415, 416}), "Extend204115")
  @@ Registered(Applications({417}), "Extend204130")
  @@ Registered(Applications({470}), "Extend204715")

ExecutionReport ==
  << <<"partitionNo", I32>>, <<"reportIndex", I64>>, <<"applId", Fixed(3)>>,
     <<"reportingPbuid", Fixed(6)>>, <<"submittingPbuid", Fixed(6)>>,
     <<"securityId", Fixed(8)>>, <<"securityIdsource", Fixed(4)>>,
     <<"ownerType", U16>>, <<"clearingFirm", Fixed(2)>>,
     <<"transactTime", I64>>, <<"userInfo", Fixed(8)>>,
     <<"orderId", Fixed(16)>>, <<"clOrdId", Fixed(10)>>,
     <<"quoteMsgId", Fixed(10)>>, <<"execId", Fixed(16)>>,
     <<"execType", Fixed(1)>>, <<"ordStatus", Fixed(1)>>, <<"lastPx", I64>>,
     <<"lastQty", I64>>, <<"leavesQty", I64>>, <<"cumQty", I64>>,
     <<"side", Fixed(1)>>, <<"accountId", Fixed(12)>>,
     <<"branchId", Fixed(4)>>,
     <<"applExtend", Dynamic("applId", ExecutionReportMessageFactory)>> >>

Extend200415 ==
  << <<"positionEffect", Fixed(1)>>, <<"coveredOrUncovered", U8>>,
     <<"contractAccountCode", Fixed(6)>>, <<"secondaryOrderId", Fixed(16)>> >>

OrderCancelRequest ==
  << <<"applId", Fixed(3)>>, <<"submittingPbuid", Fixed(6)>>,
     <<"securityId", Fixed(8)>>, <<"securityIdsource", Fixed(4)>>,
     <<"ownerType", U16>>, <<"clearingFirm", Fixed(2)>>,
     <<"transactTime", I64>>, <<"userInfo", Fixed(8)>>,
     <<"clOrdId", Fixed(10)>>, <<"origClOrdId", Fixed(10)>>,
     <<"side", Fixed(1)>>, <<"orderId", Fixed(16)>>, <<"orderQty", I64>> >>

CancelReject ==
  << <<"partitionNo", I32>>, <<"reportIndex", I64>>, <<"applId", Fixed(3)>>,
     <<"reportingPbuid", Fixed(6)>>, <<"submittingPbuid", Fixed(6)>>,
     <<"securityId", Fixed(8)>>, <<"securityIdsource", Fixed(4)>>,
     <<"ownerType", U16>>, <<"clearingFirm", Fixed(2)>>,
     <<"transactTime", I64>>, <<"userInfo", Fixed(8)>>,
     <<"clOrdId", Fixed(10)>>, <<"origClOrdId", Fixed(10)>>,
     <<"side", Fixed(1)>>, <<"ordStatus", Fixed(1)>>, <<"cxlRejReason", U16>>,
     <<"rejectText", Fixed(16)>>, <<"orderId", Fixed(16)>> >>

BusinessReject ==
  << <<"applId", Fixed(3)>>, <<"transactTime", I64>>,
     <<"submittingPbuid", Fixed(6)>>, <<"securityId", Fixed(8)>>,
     <<"securityIdsource", Fixed(4)>>, <<"refSeqNum", I64>>,
     <<"refMsgType", U32>>, <<"businessRejectRefId", Fixed(10)>>,
     <<"businessRejectReason", U16>>, <<"businessRejectText", Fixed(50)>> >>

PartitionReport ==
  << <<"partitionNo", I32>>, <<"reportIndex", I64>> >>

ReportSynchronization ==
  << <<"partitionReport", ListOf(4, Struct("PartitionReport"))>> >>

PlatformStateInfo ==
  << <<"platformId", U16>>, <<"platformState", U16>> >>

ReportFinished ==
  << <<"partitionNo", I32>>, <<"reportIndex", I64>>, <<"platformId", U16>> >>

PlatformPartition ==
  << <<"partitionNo", I32>> >>

PlatformInfo ==
  << <<"platformId", U16>>,
     <<"platformPartition", ListOf(4, Struct("PlatformPartition"))>> >>

TradingSessionStatus ==
  << <<"marketId", Fixed(8)>>, <<"marketSegmentId", Fixed(8)>>,
     <<"tradingSessionId", Fixed(4)>>, <<"tradingSessionSubId", Fixed(4)>>,
     <<"tradSesStatus", U16>>, <<"tradSesStartTime", I64>>,
     <<"tradSesEndTime", I64>> >>

SzseBinaryMessageFactory ==
  Registered({1}, "Logon")
  @@ Registered({2}, "Logout")
  @@ Registered({3}, "Heartbeat")
  @@ Registered({4}, "BusinessReject")
  @@ Registered({5}, "ReportSynchronization")
  @@ Registered({6}, "PlatformStateInfo")
  @@ Registered({7}, "ReportFinished")
  @@ Registered({9}, "PlatformPartition")
  @@ Registered({10}, "TradingSessionStatus")
  @@ Registered({100101, 100201, 100301, 100401, 100501, 100601, 100701, 101201,
                 101301, 101401, 101501, 101601, 101701, 101801, 101901,
                 102301, 102701, 102801, 102901, 103101, 106301, 103301,
                 103501, 103701, 104101, 104128, 104701}, "NewOrder")
  @@ Registered({200102, 200202, 200302, 200402, 200502, 200602, 200702, 201202,
                 201302, 201402, 201502, 201602, 201702, 201802, 201902,
                 202202, 202302, 202702, 202802, 202902, 203102, 206302,
                 203302, 203502, 203702, 204102, 204129,
                 204702}, "ExecutionConfirm")
  @@ Registered({200115, 200215, 200315, 200415, 200515, 200615, 200715, 206315,
                 203715, 204115, 204130}, "ExecutionReport")
  @@ Registered({190007}, "OrderCancelRequest")
  @@ Registered({290008}, "CancelReject")

SzseBinary ==
  << <<"msgType", U32>>, <<"bodyLength", U32>>,
     <<"body", Dynamic("msgType", SzseBinaryMessageFactory)>>,
     <<"checksum", I32>> >>

Classes ==
  [Logon |-> Logon, Logout |-> Logout, Heartbeat |-> Heartbeat,
   Extend100101 |-> Extend100101, Extend100201 |-> Extend100201,
   Extend100301 |-> Extend100301, Extend100501 |-> Extend100501,
   Extend100601 |-> Extend100601, Extend100701 |-> Extend100701,
   Extend101501 |-> Extend101501, Extend101601 |-> Extend101601,
   Extend101701 |-> Extend101701, Extend101801 |-> Extend101801,
   Extend102701 |-> Extend102701, Extend102801 |-> Extend102801,
   Extend102901 |-> Extend102901, Extend106301 |-> Extend106301,
   Extend103501 |-> Extend103501, Extend103701 |-> Extend103701,
   Extend104101 |-> Extend104101, Extend104128 |-> Extend104128,
   Extend104701 |-> Extend104701, NewOrder |-> NewOrder,
   Extend101401 |-> Extend101401, Extend200102 |-> Extend200102,
   Extend200202 |-> Extend200202, Extend200302 |-> Extend200302,
   Extend200502 |-> Extend200502, Extend200602 |-> Extend200602,
   Extend200702 |-> Extend200702, Extend201502 |-> Extend201502,
   Extend201602 |-> Extend201602, Extend201702 |-> Extend201702,
   Extend201802 |-> Extend201802, Extend202702 |-> Extend202702,
   Extend202802 |-> Extend202802, Extend202902 |-> Extend202902,
   Extend206302 |-> Extend206302, Extend203502 |-> Extend203502,
   Extend203702 |-> Extend203702, Extend204102 |-> Extend204102,
   Extend204129 |-> Extend204129, Extend204702 |-> Extend204702,
   ExecutionConfirm |-> ExecutionConfirm, Extend200402 |-> Extend200402,
   Extend201202 |-> Extend201202, Extend203102 |-> Extend203102,
   Extend200115 |-> Extend200115, Extend200215 |-> Extend200215,
   Extend200315 |-> Extend200315, Extend200515 |-> Extend200515,
   Extend200615 |-> Extend200615, Extend200715 |-> Extend200715,
   Extend206315 |-> Extend206315, Extend203715 |-> Extend203715,
   Extend204115 |-> Extend204115, Extend204130 |-> Extend204130,
   Extend204715 |-> Extend204715, ExecutionReport |-> ExecutionReport,
   Extend200415 |-> Extend200415, OrderCancelRequest |-> OrderCancelRequest,
   CancelReject |-> CancelReject, BusinessReject |-> BusinessReject,
   PartitionReport |-> PartitionReport,
   ReportSynchronization |-> ReportSynchronization,
   PlatformStateInfo |-> PlatformStateInfo, ReportFinished |-> ReportFinished,
   PlatformPartition |-> PlatformPartition, PlatformInfo |-> PlatformInfo,
   TradingSessionStatus |-> TradingSessionStatus, SzseBinary |-> SzseBinary]

Codec == INSTANCE Wire

(* What encode() writes before the length field or body.                   *)
HeaderSzseBinary(m) == Counted(LittleEndian(m.msgType, 4))

(* encode() of the frame.  The members bodyLength and checksum are not     *)
(* used: the SZSE_BIN service is always registered.                        *)
EncodeSzseBinary(m, b) ==
  Then(EncodePatched(b, HeaderSzseBinary(m), 4, Codec!PutObject(m.body)),
       LAMBDA r : Ok(Write(r.buf, Counted(LittleEndian(SzseBin(r.buf), 4))), <<>>))

(* The virtual encode() and decode() of an object of any class.            *)
Encode(object, b) ==
  IF ClassOf(object) = "SzseBinary" THEN EncodeSzseBinary(ContentOf(object), b)
  ELSE Ok(Write(b, Codec!PutObject(object)), <<>>)

Decode(class, b) == Codec!TakeObject(b, class)

(* The members of a class that encode() computes.                          *)
Computed(class) == IF class = "SzseBinary" THEN {"bodyLength", "checksum"} ELSE {}
=============================================================================
