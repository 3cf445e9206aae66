CONSTANTS
    MaxItems = 2
    MaxSignals = 0
    Faults = {}
SPECIFICATION GatewayFairSpec
PROPERTY Delivered
PROPERTY Stops
