CONSTANTS
    Instances = {i1}
    N = 2
    Personal = {mine}
    Accounts = {acct}
    Dirs = {d1, d2}
    None = None
    Faults = {}
    Early = "riot"
    RiotWaits = TRUE
    MaxMishaps = 1
SPECIFICATION Spec
SYMMETRY Symmetry
PROPERTIES CleanupRestoresOriginals
