CONSTANT Configs <- HalfOpenConfigs
SPECIFICATION Spec
CHECK_DEADLOCK FALSE
INVARIANT RekeyIsInitiated
