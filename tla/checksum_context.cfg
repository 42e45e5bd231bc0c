CONSTANTS
  Threads = {t1, t2}
  Algorithms = {"ADLER"}
  Types = {"uint16_t", "uint32_t", "int32_t"}
  BuiltInType <- MCBuiltInType
  MaxCalls = 1
  None = None
SPECIFICATION Spec
INVARIANTS
  TypeOK
  BuiltInsAnswer
  AcceptedStay
PROPERTIES
  ImplementsRegistry
  CallsReturn
CHECK_DEADLOCK FALSE
