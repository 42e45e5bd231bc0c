CONSTANTS
  Radix = 256
  Units = {"shenzhen", "beijing"}
  HeaderOf <- Extensions
  Registrations <- MCRegistrations
  Probes <- ExtensionProbe
  UserClass = "UserMessage"
  None = None
SPECIFICATION Spec
INVARIANT HeaderAnswers
