SPECIFICATION Spec
CONSTANTS
  HashOf <- MCHashOf
  Services <- MCServices
  Verdicts = {TRUE}
  TicketResults = {"ticket", "none"}
  Configurations <- PlainConfigurations
  ClientRequests = 1
  ServerRequests = 1
  MayClose = TRUE
CHECK_DEADLOCK FALSE
PROPERTY
  GracefulCloseWaits
