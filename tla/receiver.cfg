CONSTANTS
  Radix = 3
  Classes <- MCClasses
  Encoded <- MCEncoded
  DecodedInto <- MCDecodedInto
  NewObject <- MCNewObject
  IsWhole <- MCIsWhole
  Paths <- MCPaths
  FrameClass = "Frame"
  Indeterminate = Indeterminate
  MaxBytes = 7
SPECIFICATION Spec
INVARIANTS
  TypeOK
  DecodesAsIfNew
  OneEncoding
  StaysUsable
  KeyNamesBody
PROPERTY VerdictStands
