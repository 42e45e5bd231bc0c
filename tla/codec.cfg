CONSTANTS
  Radix = 4
  MaxQueue = 1
  CutEvery = 1
  Messages <- MCMessages
  Contents <- MCContents
  Follows <- MCFollows
  EncodeInto <- MCEncode
  DecodeFrom <- MCDecode
  KindOf <- MCKindOf
  Promised <- MCPromised
  Delivered <- MCDelivered
SPECIFICATION Spec
INVARIANTS
  InOrder
  ExactlyConsumed
  RefusedWhenIncomplete
  ForwardedUnchanged
