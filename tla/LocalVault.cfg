SPECIFICATION Spec
CONSTANTS
    Ids = {i1, i2}
    Puuids = {p1, p2}
    Kinds = {"rank", "icon"}
    None = None
    MaxCommands = 2
    MaxSyncs = 1
    MaxRestarts = 1
SYMMETRY Symmetry
CHECK_DEADLOCK FALSE
INVARIANTS
    LoginsSurvive
    OnlyOldTwins
    LoginMatchesIdentity
    LiveValuesOwn
    RosterFresh
PROPERTIES
    LiveValuesKept
