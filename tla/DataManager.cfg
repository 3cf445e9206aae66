CONSTANTS
    Maps <- MCMaps
    Ids <- MCIds
    Values = {20, 40}
    Times = {1, 2}
    RUN_AVG_LENGTH = 3
    SET_MIN_TEMP = 25
    SET_MAX_TEMP = 35
    Fresh <- MCFresh
SPECIFICATION Spec
INVARIANT MeanOfLast
INVARIANT RoomsRight
INVARIANT StaysInside
PROPERTY WarnsRightly
