SPECIFICATION Spec
CONSTANTS
    Changes = {c1, c2, c3}
    Seed = Seed
    Torn = Torn
    MaxSaves = 3
    MaxDeaths = 1
    MaxFailures = 1
CHECK_DEADLOCK FALSE
INVARIANTS
    AckedOnTheWay
    OrderlyKeepsAcked
PROPERTIES
    CrashKeepsPrefix
