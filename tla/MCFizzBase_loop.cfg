SPECIFICATION LiveSpec
CONSTANTS
  t1 = t1
  Token <- MCToken
  NoToken = NoToken
  Role = "server"
  FutureMayFail = TRUE
  MaxSubmitted = 2
  MaxUnread = 1
CHECK_DEADLOCK FALSE
INVARIANTS
  QueueIsSuffix
  FailedAreDropped
  NoLostWakeup
PROPERTIES
  TerminalIsAbsorbing
  OneEventInFlight
  EventsSettle
  ErrorReachesWriters
