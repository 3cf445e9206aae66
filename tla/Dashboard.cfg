CONSTANTS
    Rooms = {r1, r2}
    NoRoom = NoRoom
    PerRoom = 2
    MaxDraws = 3
    MaxUpdates = 1
SPECIFICATION Spec
INVARIANT ViewExplained
INVARIANT ChartsAccounted
INVARIANT TimerRight
INVARIANT KpiRight
