SPECIFICATION FairSpec
CONSTANTS
    c1 = c1
    Conns = {c1}
    MaxEvents = 3
    MaxTries = 1
CHECK_DEADLOCK FALSE
INVARIANTS
    NoChangeLost
    TruthfulStatus
PROPERTIES
    ChoiceReachesRiot
    ProxyStays
    ExitKeepsChat
