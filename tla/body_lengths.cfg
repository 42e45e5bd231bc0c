CONSTANTS
  Radix = 256
  MaxQueue = 1
  CutEvery = 100
  Messages <- MCRiskBatch
  Contents <- MCRiskBatchContents
  Follows <- MCAnyFollows
  EncodeInto <- TrafficEncode
  DecodeFrom <- TrafficDecode
  KindOf <- TrafficKindOf
  Promised <- TrafficPromised
  Delivered <- TrafficDelivered
SPECIFICATION Spec
INVARIANT LengthIsBodyLength
