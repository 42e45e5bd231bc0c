CONSTANTS
  Radix = 4
  MaxQueue = 1
  CutEvery = 1
  Messages <- MCLongLists
  Contents <- MCLongListsContents
  Follows <- MCFollows
  EncodeInto <- MCEncode
  DecodeFrom <- MCDecode
  KindOf <- MCKindOf
  Promised <- MCPromised
  Delivered <- MCDelivered
SPECIFICATION Spec
INVARIANT InOrder
