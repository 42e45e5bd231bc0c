----------------------------- MODULE BjseBinary ------------------------------
(***************************************************************************)
(* The Beijing Stock Exchange protocol of include/bjse_binary.hpp. Its     *)
(* frame computes nothing: length and checksum are members that the sender *)
(* sets.                                                                   *)
(***************************************************************************)
EXTENDS WireTypes, Frame, Checksum, TLC

(* ApplId keys, by number.                                                *)
Applications(ns) == {ApplId(n) : n \in ns}

Logon ==
  << <<"senderCompId", Fixed(20)>>, <<"targetCompId", Fixed(20)>>,
     <<"heartBtInt", I32>>, <<"password", Fixed(16)>>,
     <<"defaultApplVerId", Fixed(32)>> >>

Logout ==
  << <<"sessionStatus", I32>>, <<"text", Fixed(200)>> >>

Heartbeat ==
  << >>

ExtendNewOrder010 ==
  << <<"stopPx", I64>>, <<"minQty", I64>>, <<"maxPriceLevels", U16>>,
     <<"timeInForce", Fixed(1)>>, <<"cashMargin", Fixed(1)>>,
     <<"settlType", Fixed(1)>>, <<"settlPeriod", Fixed(1)>> >>

ExtendNewOrder040 ==
  << <<"stopPx", I64>>, <<"minQty", I64>>, <<"maxPriceLevels", U16>>,
     <<"timeInForce", Fixed(1)>>, <<"cashMargin", Fixed(1)>> >>

ExtendNewOrder041 ==
  << >>

ExtendNewOrder042 ==
  << >>

ExtendNewOrder043 ==
  << >>

ExtendNewOrder044 ==
  << >>

ExtendNewOrder045 ==
  << >>

ExtendNewOrder050 ==
  << <<"expirationDays", U16>>, <<"expirationType", U8>>,
     <<"shareProperty", Fixed(2)>> >>

NewOrderMessageFactory ==
  Registered(Applications({10}), "ExtendNewOrder010")
  @@ Registered(Applications({40}), "ExtendNewOrder040")
  @@ Registered(Applications({41}), "ExtendNewOrder041")
  @@ Registered(Applications({42}), "ExtendNewOrder042")
  @@ Registered(Applications({43}), "ExtendNewOrder043")
  @@ Registered(Applications({44}), "ExtendNewOrder044")
  @@ Registered(Applications({45}), "ExtendNewOrder045")
  @@ Registered(Applications({50}), "ExtendNewOrder050")

NewOrder ==
  << <<"applId", Fixed(3)>>, <<"submittingPbuid", Fixed(6)>>,
     <<"securityId", Fixed(8)>>, <<"securityIdsource", Fixed(4)>>,
     <<"ownerType", U16>>, <<"clearingFirm", Fixed(2)>>,
     <<"transactTime", I64>>, <<"userInfo", Fixed(32)>>,
     <<"clOrdId", Fixed(10)>>, <<"accountId", Fixed(10)>>,
     <<"branchId", Fixed(2)>>, <<"orderRestrictions", Fixed(4)>>,
     <<"side", Fixed(1)>>, <<"ordType", Fixed(1)>>, <<"orderQty", I64>>,
     <<"price", I64>>,
     <<"applExtend", Dynamic("applId", NewOrderMessageFactory)>> >>

OrderCancelRequest ==
  << <<"applId", Fixed(3)>>, <<"submittingPbuid", Fixed(6)>>,
     <<"securityId", Fixed(8)>>, <<"securityIdsource", Fixed(4)>>,
     <<"ownerType", U16>>, <<"clearingFirm", Fixed(2)>>,
     <<"transactTime", I64>>, <<"userInfo", Fixed(32)>>,
     <<"clOrdId", Fixed(10)>>, <<"origClOrdId", Fixed(10)>>,
     <<"accountId", Fixed(10)>>, <<"branchId", Fixed(2)>>,
     <<"orderId", Fixed(16)>>, <<"orderQty", I64>> >>

CancelReject ==
  << <<"partitionNo", I32>>, <<"reportIndex", I64>>, <<"applId", Fixed(3)>>,
     <<"reportingPbuid", Fixed(6)>>, <<"submittingPbuid", Fixed(6)>>,
     <<"securityId", Fixed(8)>>, <<"securityIdsource", Fixed(4)>>,
     <<"ownerType", U16>>, <<"clearingFirm", Fixed(2)>>,
     <<"transactTime", I64>>, <<"userInfo", Fixed(32)>>,
     <<"clOrdId", Fixed(10)>>, <<"origClOrdId", Fixed(10)>>,
     <<"accountId", Fixed(10)>>, <<"branchId", Fixed(2)>>,
     <<"ordStatus", Fixed(1)>>, <<"cxlRejReason", U16>>,
     <<"rejectText", Fixed(16)>>, <<"orderId", Fixed(16)>> >>

ConfirmExtend010 ==
  << <<"stopPx", I64>>, <<"minQty", I64>>, <<"maxPriceLevels", U16>>,
     <<"timeInForce", Fixed(1)>>, <<"cashMargin", Fixed(1)>> >>

ConfirmExtend040 ==
  << <<"stopPx", I64>>, <<"minQty", I64>>, <<"maxPriceLevels", U16>>,
     <<"timeInForce", Fixed(1)>>, <<"cashMargin", Fixed(1)>> >>

ConfirmExtend041 ==
  << >>

ConfirmExtend042 ==
  << >>

ConfirmExtend043 ==
  << >>

ConfirmExtend044 ==
  << >>

ConfirmExtend045 ==
  << >>

ConfirmExtend050 ==
  << <<"expirationDays", U16>>, <<"expirationType", U8>>,
     <<"shareProperty", Fixed(2)>> >>

ExecutionConfirmMessageFactory ==
  Registered(Applications({10}), "ConfirmExtend010")
  @@ Registered(Applications({40}), "ConfirmExtend040")
  @@ Registered(Applications({41}), "ConfirmExtend041")
  @@ Registered(Applications({42}), "ConfirmExtend042")
  @@ Registered(Applications({43}), "ConfirmExtend043")
  @@ Registered(Applications({44}), "ConfirmExtend044")
  @@ Registered(Applications({45}), "ConfirmExtend045")
  @@ Registered(Applications({50}), "ConfirmExtend050")

ExecutionConfirm ==
  << <<"partitionNo", I32>>, <<"reportIndex", I64>>, <<"applId", Fixed(3)>>,
     <<"reportingPbuid", Fixed(6)>>, <<"submittingPbuid", Fixed(6)>>,
     <<"securityId", Fixed(8)>>, <<"securityIdsource", Fixed(4)>>,
     <<"ownerType", U16>>, <<"clearingFirm", Fixed(2)>>,
     <<"transactTime", I64>>, <<"userInfo", Fixed(32)>>,
     <<"orderId", Fixed(16)>>, <<"clOrdId", Fixed(10)>>,
     <<"origClOrdId", Fixed(10)>>, <<"execId", Fixed(16)>>,
     <<"execType", Fixed(1)>>, <<"ordStatus", Fixed(1)>>,
     <<"ordRejReason", U16>>, <<"leavesQty", I64>>, <<"cumQty", I64>>,
     <<"side", Fixed(1)>>, <<"ordType", Fixed(1)>>, <<"orderQty", I64>>,
     <<"price", I64>>, <<"accountId", Fixed(10)>>, <<"branchId", Fixed(2)>>,
     <<"orderRestrictions", Fixed(4)>>,
     <<"applExtend", Dynamic("applId", ExecutionConfirmMessageFactory)>> >>

ReportExtend010 ==
  << <<"cashMargin", Fixed(1)>>, <<"settlType", Fixed(1)>>,
     <<"settlPeriod", Fixed(1)>> >>

ReportExtend040 ==
  << <<"cashMargin", Fixed(1)>> >>

ReportExtend050 ==
  << <<"expirationDays", U16>>, <<"expirationType", U8>>,
     <<"maturityDate", U32>>, <<"shareProperty", Fixed(2)>> >>

ExecutionReportMessageFactory ==
  Registered(Applications({10}), "ReportExtend010")
  @@ Registered(Applications({40}), "ReportExtend040")
  @@ Registered(Applications({50}), "ReportExtend050")

ExecutionReport ==
  << <<"partitionNo", I32>>, <<"reportIndex", I64>>, <<"applId", Fixed(3)>>,
     <<"reportingPbuid", Fixed(6)>>, <<"submittingPbuid", Fixed(6)>>,
     <<"securityId", Fixed(8)>>, <<"securityIdsource", Fixed(4)>>,
     <<"ownerType", U16>>, <<"clearingFirm", Fixed(2)>>,
     <<"transactTime", I64>>, <<"userInfo", Fixed(32)>>,
     <<"orderId", Fixed(16)>>, <<"clOrdId", Fixed(10)>>,
     <<"execId", Fixed(16)>>, <<"execType", Fixed(1)>>,
     <<"ordStatus", Fixed(1)>>, <<"lastPx", I64>>, <<"lastQty", I64>>,
     <<"leavesQty", I64>>, <<"cumQty", I64>>, <<"side", Fixed(1)>>,
     <<"accountId", Fixed(10)>>, <<"branchId", Fixed(2)>>,
     <<"applExtend", Dynamic("applId", ExecutionReportMessageFactory)>> >>

QuoteExtend070 ==
  << <<"branchId", Fixed(2)>>, <<"quoteId", Fixed(10)>>,
     <<"quoteRespId", Fixed(10)>>, <<"privateQuote", U8>>,
     <<"validUntilTime", I64>>, <<"priceType", U8>>,
     <<"cashMargin", Fixed(1)>>, <<"counterPartyPbuid", Fixed(6)>>,
     <<"memo", Fixed(120)>> >>

QuoteExtend071 ==
  << >>

QuoteMessageFactory ==
  Registered(Applications({70}), "QuoteExtend070")
  @@ Registered(Applications({71}), "QuoteExtend071")

Quote ==
  << <<"applId", Fixed(3)>>, <<"submittingPbuid", Fixed(6)>>,
     <<"securityId", Fixed(8)>>, <<"securityIdsource", Fixed(4)>>,
     <<"ownerType", U16>>, <<"clearingFirm", Fixed(2)>>,
     <<"transactTime", I64>>, <<"userInfo", Fixed(32)>>,
     <<"quoteMsgId", Fixed(10)>>, <<"accountId", Fixed(10)>>,
     <<"quoteReqId", Fixed(10)>>, <<"quoteType", U8>>, <<"bidPx", I64>>,
     <<"offerPx", I64>>, <<"bidSize", I64>>, <<"offerSize", I64>>,
     <<"applExtend", Dynamic("applId", QuoteMessageFactory)>> >>

Quote1 ==
  << <<"quoteId", Fixed(10)>>, <<"quotePrice", I64>>, <<"quoteQty", I64>> >>

QuoteStatusReportExtend070 ==
  << <<"branchId", Fixed(2)>>, <<"orderId", Fixed(16)>>,
     <<"execId", Fixed(16)>>, <<"quoteRespId", Fixed(10)>>,
     <<"privateQuote", U8>>, <<"side", Fixed(1)>>, <<"priceType", U8>>,
     <<"validUntilTime", I64>>, <<"cashMargin", Fixed(1)>>,
     <<"counterPartyPbuid", Fixed(6)>>, <<"memo", Fixed(120)>>,
     <<"quote1", ListOf(2, Struct("Quote1"))>> >>

QuoteStatusReportMessageFactory ==
  Registered(Applications({70}), "QuoteStatusReportExtend070")

QuoteStatusReport ==
  << <<"partitionNo", I32>>, <<"reportIndex", I64>>, <<"applId", Fixed(3)>>,
     <<"reportingPbuid", Fixed(6)>>, <<"submittingPbuid", Fixed(6)>>,
     <<"securityId", Fixed(8)>>, <<"securityIdsource", Fixed(4)>>,
     <<"ownerType", U16>>, <<"clearingFirm", Fixed(2)>>,
     <<"transactTime", I64>>, <<"userInfo", Fixed(32)>>,
     <<"quoteMsgId", Fixed(10)>>, <<"accountId", Fixed(10)>>,
     <<"quoteReqId", Fixed(10)>>, <<"quoteRjectReason", U64>>,
     <<"quoteType", U8>>, <<"bidPx", I64>>, <<"offerPx", I64>>,
     <<"bidSize", I64>>, <<"offerSize", I64>>,
     <<"applExtend", Dynamic("applId", QuoteStatusReportMessageFactory)>> >>

Quote2 ==
  << <<"quoteId", Fixed(10)>>, <<"quotePrice", I64>>, <<"quoteQty", I64>> >>

QuoteResponseExtend070 ==
  << <<"cashMargin", Fixed(1)>> >>

QuoteResponseMessageFactory ==
  Registered(Applications({70}), "QuoteResponseExtend070")

QuoteResponse ==
  << <<"applId", Fixed(3)>>, <<"reportingPbuid", Fixed(6)>>,
     <<"submittingPbuid", Fixed(6)>>, <<"securityId", Fixed(8)>>,
     <<"securityIdsource", Fixed(4)>>, <<"ownerType", U16>>,
     <<"clearingFirm", Fixed(2)>>, <<"transactTime", I64>>,
     <<"userInfo", Fixed(32)>>, <<"clOrdId", Fixed(10)>>,
     <<"accountId", Fixed(10)>>, <<"branchId", Fixed(2)>>,
     <<"quoteRespId", Fixed(10)>>, <<"quoteRespType", U8>>,
     <<"side", Fixed(1)>>, <<"validUntilTime", I64>>, <<"quoteType", U8>>,
     <<"priceType", U8>>, <<"quote2", ListOf(2, Struct("Quote2"))>>,
     <<"applExtend", Dynamic("applId", QuoteResponseMessageFactory)>> >>

AllegeQuoteExtend070 ==
  << <<"cashMargin", Fixed(1)>>, <<"counterPartyPbuid", Fixed(6)>> >>

AllegeQuoteMessageFactory ==
  Registered(Applications({70}), "AllegeQuoteExtend070")

AllegeQuote ==
  << <<"partitionNo", I32>>, <<"reportIndex", I64>>, <<"applId", Fixed(3)>>,
     <<"reportingPbuid", Fixed(6)>>, <<"submittingPbuid", Fixed(6)>>,
     <<"securityId", Fixed(8)>>, <<"securityIdsource", Fixed(4)>>,
     <<"ownerType", U16>>, <<"clearingFirm", Fixed(2)>>,
     <<"transactTime", I64>>, <<"userInfo", Fixed(32)>>,
     <<"orderId", Fixed(16)>>, <<"execId", Fixed(16)>>,
     <<"clOrdId", Fixed(10)>>, <<"accountId", Fixed(10)>>,
     <<"quoteReqId", Fixed(10)>>, <<"quoteId", Fixed(10)>>,
     <<"quoteRespId", Fixed(10)>>, <<"quoteType", U8>>, <<"bidPx", I64>>,
     <<"offerPx", I64>>, <<"bidSize", I64>>, <<"offerSize", I64>>,
     <<"privateQuote", U8>>, <<"validUntilTime", I64>>, <<"priceType", U8>>,
     <<"memo", Fixed(120)>>,
     <<"applExtend", Dynamic("applId", AllegeQuoteMessageFactory)>> >>

AllegeQuoteResponse ==
  << <<"partitionNo", I32>>, <<"reportIndex", I64>>, <<"applId", Fixed(3)>>,
     <<"reportingPbuid", Fixed(6)>>, <<"submittingPbuid", Fixed(6)>>,
     <<"securityId", Fixed(8)>>, <<"securityIdsource", Fixed(4)>>,
     <<"ownerType", U16>>, <<"clearingFirm", Fixed(2)>>,
     <<"transactTime", I64>>, <<"userInfo", Fixed(32)>>,
     <<"orderId", Fixed(16)>>, <<"execId", Fixed(16)>>,
     <<"clOrdId", Fixed(10)>>, <<"accountId", Fixed(10)>>,
     <<"quoteId", Fixed(10)>>, <<"quoteRespId", Fixed(10)>>,
     <<"quoteRespType", U8>>, <<"privateQuote", U8>>, <<"orderQty", I64>>,
     <<"price", I64>>, <<"validUntilTime", I64>>, <<"quoteType", U8>>,
     <<"priceType", U8>> >>

TradeCaptureReportExtend031 ==
  << <<"memberId", Fixed(6)>>, <<"traderCode", Fixed(5)>>,
     <<"counterPartyMemberId", Fixed(6)>>,
     <<"counterPartyTraderCode", Fixed(5)>>, <<"settlType", Fixed(1)>>,
     <<"settlPeriod", Fixed(1)>>, <<"cashMargin", Fixed(1)>>,
     <<"memo", Fixed(120)>> >>

TradeCaptureReportExtend051 ==
  << <<"expirationDays", U16>>, <<"expirationType", U8>>,
     <<"shareProperty", Fixed(2)>> >>

TradeCaptureReportExtend060 ==
  << >>

TradeCaptureReportExtend061 ==
  << >>

TradeCaptureReportExtend062 ==
  << <<"cashMargin", Fixed(1)>> >>

TradeCaptureReportMessageFactory ==
  Registered(Applications({31}), "TradeCaptureReportExtend031")
  @@ Registered(Applications({51}), "TradeCaptureReportExtend051")
  @@ Registered(Applications({60}), "TradeCaptureReportExtend060")
  @@ Registered(Applications({61}), "TradeCaptureReportExtend061")
  @@ Registered(Applications({62}), "TradeCaptureReportExtend062")

TradeCaptureReport ==
  << <<"applId", Fixed(3)>>, <<"submittingPbuid", Fixed(6)>>,
     <<"securityId", Fixed(8)>>, <<"securityIdsource", Fixed(4)>>,
     <<"ownerType", U16>>, <<"clearingFirm", Fixed(2)>>,
     <<"transactTime", I64>>, <<"userInfo", Fixed(32)>>,
     <<"tradeReportId", Fixed(10)>>, <<"tradeReportType", U8>>,
     <<"tradeReportTransType", U8>>, <<"tradeHandlingInstr", Fixed(1)>>,
     <<"tradeReportRefId", Fixed(10)>>, <<"lastPx", I64>>, <<"lastQty", I64>>,
     <<"trdType", U16>>, <<"trdSubType", U16>>, <<"confirmId", U32>>,
     <<"side", Fixed(1)>>, <<"pbuid", Fixed(6)>>, <<"accountId", Fixed(10)>>,
     <<"branchId", Fixed(2)>>, <<"counterPartyPbuid", Fixed(6)>>,
     <<"counterPartyAccountId", Fixed(10)>>,
     <<"counterPartyBranchId", Fixed(2)>>,
     <<"applExtend", Dynamic("applId", TradeCaptureReportMessageFactory)>> >>

TradeCaptureReportAckExtend031 ==
  << <<"memberId", Fixed(6)>>, <<"traderCode", Fixed(5)>>,
     <<"counterPartyMemberId", Fixed(6)>>,
     <<"counterPartyTraderCode", Fixed(5)>>, <<"settlType", Fixed(1)>>,
     <<"settlPeriod", Fixed(1)>>, <<"cashMargin", Fixed(1)>>,
     <<"memo", Fixed(120)>> >>

TradeCaptureReportAckExtend051 ==
  << <<"expirationDays", U16>>, <<"expirationType", U8>>,
     <<"shareProperty", Fixed(2)>> >>

TradeCaptureReportAckExtend060 ==
  << >>

TradeCaptureReportAckExtend061 ==
  << >>

TradeCaptureReportAckExtend062 ==
  << <<"cashMargin", Fixed(1)>> >>

TradeCaptureReportAckMessageFactory ==
  Registered(Applications({31}), "TradeCaptureReportAckExtend031")
  @@ Registered(Applications({51}), "TradeCaptureReportAckExtend051")
  @@ Registered(Applications({60}), "TradeCaptureReportAckExtend060")
  @@ Registered(Applications({61}), "TradeCaptureReportAckExtend061")
  @@ Registered(Applications({62}), "TradeCaptureReportAckExtend062")

TradeCaptureReportAck ==
  << <<"partitionNo", I32>>, <<"reportIndex", I64>>, <<"applId", Fixed(3)>>,
     <<"reportingPbuid", Fixed(6)>>, <<"submittingPbuid", Fixed(6)>>,
     <<"securityId", Fixed(8)>>, <<"securityIdsource", Fixed(4)>>,
     <<"ownerType", U16>>, <<"clearingFirm", Fixed(2)>>,
     <<"transactTime", I64>>, <<"userInfo", Fixed(32)>>,
     <<"tradeId", Fixed(16)>>, <<"tradeReportId", Fixed(10)>>,
     <<"tradeReportType", U8>>, <<"tradeReportTransType", U8>>,
     <<"tradeHandlingInstr", Fixed(1)>>, <<"tradeReportRefId", Fixed(10)>>,
     <<"trdAckStatus", U8>>, <<"trdRptStatus", U8>>,
     <<"tradeReportRejectReason", U16>>, <<"lastPx", I64>>, <<"lastQty", I64>>,
     <<"trdType", U16>>, <<"trdSubType", U16>>, <<"confirmId", U32>>,
     <<"execId", Fixed(16)>>, <<"side", Fixed(1)>>, <<"pbuid", Fixed(6)>>,
     <<"accountId", Fixed(10)>>, <<"branchId", Fixed(2)>>,
     <<"counterPartyPbuid", Fixed(6)>>, <<"counterPartyAccountId", Fixed(10)>>,
     <<"counterPartyBranchId", Fixed(2)>>,
     <<"applExtend", Dynamic("applId", TradeCaptureReportAckMessageFactory)>> >>

TradeCaptureConfirmExtend031 ==
  << <<"memberId", Fixed(6)>>, <<"traderCode", Fixed(5)>>,
     <<"counterPartyMemberId", Fixed(6)>>,
     <<"counterPartyTraderCode", Fixed(5)>>, <<"settlType", Fixed(1)>>,
     <<"settlPeriod", Fixed(1)>>, <<"cashMargin", Fixed(1)>>,
     <<"memo", Fixed(120)>> >>

TradeCaptureConfirmExtend051 ==
  << <<"expirationDays", U16>>, <<"expirationType", U8>>,
     <<"maturityDate", U32>>, <<"shareProperty", Fixed(2)>> >>

TradeCaptureConfirmExtend060 ==
  << >>

TradeCaptureConfirmExtend061 ==
  << >>

TradeCaptureConfirmExtend062 ==
  << <<"cashMargin", Fixed(1)>> >>

TradeCaptureConfirmMessageFactory ==
  Registered(Applications({31}), "TradeCaptureConfirmExtend031")
  @@ Registered(Applications({51}), "TradeCaptureConfirmExtend051")
  @@ Registered(Applications({60}), "TradeCaptureConfirmExtend060")
  @@ Registered(Applications({61}), "TradeCaptureConfirmExtend061")
  @@ Registered(Applications({62}), "TradeCaptureConfirmExtend062")

TradeCaptureConfirm ==
  << <<"partitionNo", I32>>, <<"reportIndex", I64>>, <<"applId", Fixed(3)>>,
     <<"reportingPbuid", Fixed(6)>>, <<"submittingPbuid", Fixed(6)>>,
     <<"securityId", Fixed(8)>>, <<"securityIdsource", Fixed(4)>>,
     <<"ownerType", U16>>, <<"clearingFirm", Fixed(2)>>,
     <<"transactTime", I64>>, <<"userInfo", Fixed(32)>>,
     <<"tradeId", Fixed(16)>>, <<"tradeReportId", Fixed(10)>>,
     <<"tradeReportType", U8>>, <<"tradeReportTransType", U8>>,
     <<"tradeHandlingInstr", Fixed(1)>>, <<"lastPx", I64>>, <<"lastQty", I64>>,
     <<"trdType", U16>>, <<"trdSubType", U16>>, <<"confirmId", U32>>,
     <<"execId", Fixed(16)>>, <<"side", Fixed(1)>>, <<"pbuid", Fixed(6)>>,
     <<"accountId", Fixed(10)>>, <<"branchId", Fixed(2)>>,
     <<"counterPartyPbuid", Fixed(6)>>, <<"counterPartyAccountId", Fixed(10)>>,
     <<"counterPartyBranchId", Fixed(2)>>,
     <<"applExtend", Dynamic("applId", TradeCaptureConfirmMessageFactory)>> >>

BusinessReject ==
  << <<"applId", Fixed(3)>>, <<"transactTime", I64>>,
     <<"submittingPbuid", Fixed(6)>>, <<"securityId", Fixed(8)>>,
     <<"securityIdsource", Fixed(4)>>, <<"refSeqNum", I64>>,
     <<"refMsgType", U32>>, <<"businessRejectRefId", Fixed(10)>>,
     <<"businessRejectReason", U16>>, <<"businessRejectText", Fixed(50)>> >>

ReportPartitionSync ==
  << <<"partitionNo", I32>>, <<"reportIndex", I64>> >>

ReportSynchronization ==
  << <<"reportPartitionSync", ListOf(2, Struct("ReportPartitionSync"))>> >>

TradingSessionStatus ==
  << <<"marketId", Fixed(3)>>, <<"marketSegmentId", Fixed(3)>>,
     <<"tradingSessionId", Fixed(3)>>, <<"tradingSessionSubId", Fixed(3)>>,
     <<"tradSesStatus", U8>>, <<"tradSesStartTime", I64>> >>

PlatformStateInfo ==
  << <<"platformId", U16>>, <<"platformState", U16>> >>

ReportFinished ==
  << <<"partitionNo", I32>>, <<"reportIndex", I64>>, <<"platformId", U16>> >>

NoPartitions ==
  << <<"partitionNo", I32>>, <<"partitionName", Fixed(20)>> >>

PlatformInfo ==
  << <<"platformId", U16>>,
     <<"noPartitions", ListOf(2, Struct("NoPartitions"))>> >>

BjseBinaryMessageFactory ==
  Registered({1}, "Logon")
  @@ Registered({2}, "Logout")
  @@ Registered({3}, "Heartbeat")
  @@ Registered({101000}, "NewOrder")
  @@ Registered({102000}, "OrderCancelRequest")
  @@ Registered({201000}, "CancelReject")
  @@ Registered({202010}, "ExecutionConfirm")
  @@ Registered({203010}, "ExecutionReport")
  @@ Registered({5}, "ReportSynchronization")
  @@ Registered({6}, "PlatformStateInfo")
  @@ Registered({7}, "ReportFinished")

BjseBinary ==
  << <<"msgType", U32>>, <<"bodyLength", U32>>,
     <<"body", Dynamic("msgType", BjseBinaryMessageFactory)>>,
     <<"checksum", U32>> >>

Classes ==
  [Logon |-> Logon, Logout |-> Logout, Heartbeat |-> Heartbeat,
   ExtendNewOrder010 |-> ExtendNewOrder010,
   ExtendNewOrder040 |-> ExtendNewOrder040,
   ExtendNewOrder041 |-> ExtendNewOrder041,
   ExtendNewOrder042 |-> ExtendNewOrder042,
   ExtendNewOrder043 |-> ExtendNewOrder043,
   ExtendNewOrder044 |-> ExtendNewOrder044,
   ExtendNewOrder045 |-> ExtendNewOrder045,
   ExtendNewOrder050 |-> ExtendNewOrder050, NewOrder |-> NewOrder,
   OrderCancelRequest |-> OrderCancelRequest, CancelReject |-> CancelReject,
   ConfirmExtend010 |-> ConfirmExtend010,
   ConfirmExtend040 |-> ConfirmExtend040,
   ConfirmExtend041 |-> ConfirmExtend041,
   ConfirmExtend042 |-> ConfirmExtend042,
   ConfirmExtend043 |-> ConfirmExtend043,
   ConfirmExtend044 |-> ConfirmExtend044,
   ConfirmExtend045 |-> ConfirmExtend045,
   ConfirmExtend050 |-> ConfirmExtend050,
   ExecutionConfirm |-> ExecutionConfirm, ReportExtend010 |-> ReportExtend010,
   ReportExtend040 |-> ReportExtend040, ReportExtend050 |-> ReportExtend050,
   ExecutionReport |-> ExecutionReport, QuoteExtend070 |-> QuoteExtend070,
   QuoteExtend071 |-> QuoteExtend071, Quote |-> Quote, Quote1 |-> Quote1,
   QuoteStatusReportExtend070 |-> QuoteStatusReportExtend070,
   QuoteStatusReport |-> QuoteStatusReport, Quote2 |-> Quote2,
   QuoteResponseExtend070 |-> QuoteResponseExtend070,
   QuoteResponse |-> QuoteResponse,
   AllegeQuoteExtend070 |-> AllegeQuoteExtend070, AllegeQuote |-> AllegeQuote,
   AllegeQuoteResponse |-> AllegeQuoteResponse,
   TradeCaptureReportExtend031 |-> TradeCaptureReportExtend031,
   TradeCaptureReportExtend051 |-> TradeCaptureReportExtend051,
   TradeCaptureReportExtend060 |-> TradeCaptureReportExtend060,
   TradeCaptureReportExtend061 |-> TradeCaptureReportExtend061,
   TradeCaptureReportExtend062 |-> TradeCaptureReportExtend062,
   TradeCaptureReport |-> TradeCaptureReport,
   TradeCaptureReportAckExtend031 |-> TradeCaptureReportAckExtend031,
   TradeCaptureReportAckExtend051 |-> TradeCaptureReportAckExtend051,
   TradeCaptureReportAckExtend060 |-> TradeCaptureReportAckExtend060,
   TradeCaptureReportAckExtend061 |-> TradeCaptureReportAckExtend061,
   TradeCaptureReportAckExtend062 |-> TradeCaptureReportAckExtend062,
   TradeCaptureReportAck |-> TradeCaptureReportAck,
   TradeCaptureConfirmExtend031 |-> TradeCaptureConfirmExtend031,
   TradeCaptureConfirmExtend051 |-> TradeCaptureConfirmExtend051,
   TradeCaptureConfirmExtend060 |-> TradeCaptureConfirmExtend060,
   TradeCaptureConfirmExtend061 |-> TradeCaptureConfirmExtend061,
   TradeCaptureConfirmExtend062 |-> TradeCaptureConfirmExtend062,
   TradeCaptureConfirm |-> TradeCaptureConfirm,
   BusinessReject |-> BusinessReject,
   ReportPartitionSync |-> ReportPartitionSync,
   ReportSynchronization |-> ReportSynchronization,
   TradingSessionStatus |-> TradingSessionStatus,
   PlatformStateInfo |-> PlatformStateInfo, ReportFinished |-> ReportFinished,
   NoPartitions |-> NoPartitions, PlatformInfo |-> PlatformInfo,
   BjseBinary |-> BjseBinary]

Codec == INSTANCE Wire

(* What encode() writes before the length field or body.                   *)
HeaderBjseBinary(m) == Counted(LittleEndian(m.msgType, 4) \o LittleEndian(m.bodyLength, 4))

(* encode() of the frame: length and checksum as given.                    *)
EncodeBjseBinary(m, b) ==
  LET begun  == Write(b, HeaderBjseBinary(m))
      filled == Write(begun, Codec!PutObject(m.body))
  IN  Ok(Write(filled, Counted(LittleEndian(m.checksum, 4))), <<>>)

(* The virtual encode() and decode() of an object of any class.            *)
Encode(object, b) ==
  IF ClassOf(object) = "BjseBinary" THEN EncodeBjseBinary(ContentOf(object), b)
  ELSE Ok(Write(b, Codec!PutObject(object)), <<>>)

Decode(class, b) == Codec!TakeObject(b, class)

(* The members of a class that encode() computes.                          *)
Computed(class) == {}
=============================================================================
