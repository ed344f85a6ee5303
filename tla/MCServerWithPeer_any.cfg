SPECIFICATION Spec
CONSTANTS
  HashOf <- MCHashOf
  Services <- MCServices
  ServerContexts <- MCServerContexts
  Hellos <- MCHellosTo
  Verdicts = {TRUE, FALSE}
  TicketResults = {"ticket", "none", "fails"}
  MaxRequests = 2
  MaxRecords <- MCMaxRecords
  MaxAsked <- MCMaxAsked
CHECK_DEADLOCK FALSE
INVARIANTS
  RetryIsHonoured
  EarlyDataIsGuarded
  SkippingIsJustified
  ClientAuthEnforced
  WritesAreSound
PROPERTIES
  DataUnderDataKeys
