SPECIFICATION Spec
CONSTANTS
  Radix = 256
  Writes <- MCWrites
  Damages <- MCDamages
  MaxBytes = 3
INVARIANTS
  TypeOK
  AnswersAsNamed
  DamageIsFound
CHECK_DEADLOCK FALSE
