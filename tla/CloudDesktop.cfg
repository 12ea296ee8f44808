SPECIFICATION FairSpec
CONSTANTS
    me = me
    rival = rival
    Users = {me, rival}
    Me = me
    Managed = {me}
    Accounts = {a1}
    MaxLeases = 2
    None = None
    Here = Here
    Local = Local
    MaxEvents = 2
    MaxMissed = 2
CHECK_DEADLOCK FALSE
PROPERTIES
    OneHolder
    LeaseRecorded
    LocalSessionKept
    QuitLeavesNothing
    LossNoticed
    OrphansEnd
    EntitlementEnds
