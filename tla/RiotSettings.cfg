CONSTANTS
    Instances = {i1, i2}
    N = 2
    Personal = {p1, p2}
    Accounts = {acct}
    Dirs = {d1, d2}
    None = None
    Faults = {"write"}
    Early = "nothing"
    RiotWaits = TRUE
    MaxMishaps = 2
SPECIFICATION Spec
SYMMETRY Symmetry
INVARIANTS Recoverable NewestUntilMishap OriginalsKept CleanMeansOriginal
