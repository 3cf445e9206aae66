CONSTANTS
    MaxItems = 2
    MaxSignals = 0
    Faults = {}
SPECIFICATION GatewaySpec
INVARIANT RemovedOnlyWhenRead
