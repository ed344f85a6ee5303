CONSTANT Configs <- SafetyConfigs
SPECIFICATION Spec
CHECK_DEADLOCK FALSE
INVARIANTS
  WritesAnswered StreamInOrder ChainHasOneOwner
  HandshakeReportedOnce NoDataLost ReadsResumed
