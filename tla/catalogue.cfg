CONSTANTS
  Radix = 256
  MaxQueue = 3
  CutEvery = 120
  Messages <- Catalogue
  Contents <- MCCatalogueContents
  Follows <- MCFollows
  EncodeInto <- TrafficEncode
  DecodeFrom <- TrafficDecode
  KindOf <- TrafficKindOf
  Promised <- TrafficPromised
  Delivered <- TrafficDelivered
SPECIFICATION Spec
INVARIANTS
  TypeOK
  InOrder
  ExactlyConsumed
  RefusedWhenIncomplete
  ForwardedUpToChecksum
  ChecksumVerifies
  BatchIsSelfContained
PROPERTY ImplementsMessageQueue
