CONSTANTS
  Radix = 2
  MaxLen = 5
  Widths = {1, 2, 3}
  Values <- MCValues
  Payloads <- MCPayloads
  MaxPosition = 4
  Counts <- MCCounts
SPECIFICATION Spec
INVARIANTS
  CursorsInBounds
  IntegersSurvive
PROPERTIES
  ImplementsQueue
  DataKept
