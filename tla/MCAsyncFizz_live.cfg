CONSTANT Configs <- LiveConfigs
SPECIFICATION FairSpec
CHECK_DEADLOCK FALSE
PROPERTIES HandshakeSettles WritesSettle
