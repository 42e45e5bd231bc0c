CONSTANTS
  Radix = 256
  Units = {"gateway", "archive", "sample"}
  HeaderOf <- OneProtocol
  Registrations <- MCRegistrations
  Probes <- MCProbes
  UserClass = "UserMessage"
  None = None
SPECIFICATION Spec
INVARIANTS
  TypeOK
  HeaderAnswers
  LastWordStands
