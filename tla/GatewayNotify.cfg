CONSTANTS
    MaxItems = 1
    MaxSignals = 0
    Faults = {"open"}
SPECIFICATION GatewayFairSpec
PROPERTY Notified
CHECK_DEADLOCK FALSE
