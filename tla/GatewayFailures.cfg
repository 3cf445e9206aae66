CONSTANTS
    MaxItems = 2
    MaxSignals = 0
    Faults = {"port", "map", "malloc", "open", "create", "insert"}
SPECIFICATION GatewaySpec
INVARIANT CountMatches
INVARIANT NoBlindRead
INVARIANT GInv
CHECK_DEADLOCK FALSE
