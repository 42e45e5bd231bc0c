CONSTANTS
  Radix = 4
  LengthWidth = 1
  TrailerWidth = 1
  Reads = {1, 3}
  MaxFrames = 3
  Headers <- MCHeaders
  Bodies <- MCBodies
SPECIFICATION Spec
INVARIANTS
  TypeOK
  EncodeNeverThrows
  TrackedFramesIntact
  TrackedChecksumsHold
