CONSTANTS
    Nodes = {n1, n2}
    NOBODY = NOBODY
    IdSize = 1
    ValueSize = 2
    TsSize = 1
    MaxRecords = 3
    MaxLost = 1
SPECIFICATION Spec
INVARIANT RecordsWhole
INVARIANT DescriptorsOwned
PROPERTY TurnEnds
CHECK_DEADLOCK FALSE
