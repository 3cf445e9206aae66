CONSTANTS
    s1 = s1
    s2 = s2
    Sensors = {s1, s2}
    SERVER = SERVER
    TIMEOUT = 1
    MaxTime = 4
    MaxFiles = 2
SPECIFICATION Spec
INVARIANT ListMatches
INVARIANT IndexInRange
PROPERTY ServedUntilOvershot
PROPERTY NotLeftQueued
PROPERTY EndsWhenIdle
