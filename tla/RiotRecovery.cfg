CONSTANTS
    Instances = {i1}
    N = 2
    Personal = {mine}
    Accounts = {acct}
    Dirs = {d1, d2}
    None = None
    Faults = {}
    Early = "nothing"
    RiotWaits = TRUE
    MaxMishaps = 2
SPECIFICATION FairSpec
INVARIANTS CapturedIsSandboxLogin
PROPERTIES RecoverySparesLaunch EventuallyRestored
