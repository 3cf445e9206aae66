CONSTANTS
    MaxItems = 1
    MaxSignals = 1
    Faults = {}
SPECIFICATION GatewayFairSpec
INVARIANT CleanExit
PROPERTY StopsUnlessAbandoned
CHECK_DEADLOCK FALSE
