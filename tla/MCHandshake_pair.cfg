SPECIFICATION LiveSpec
CONSTANTS
  HashOf <- MCHashOf
  Services <- MCServices
  Verdicts = {TRUE}
  TicketResults = {"ticket", "none"}
  Configurations <- MCConfigurations
  ClientRequests = 2
  ServerRequests = 1
  MayClose = TRUE
CHECK_DEADLOCK FALSE
INVARIANTS
  Agreement
  NoSpuriousError
PROPERTIES
  IsSecureChannel
  DataArrives
