CONSTANTS
    Instances = {i1, i2}
    N = 1
    Personal = {mine}
    Accounts = {acct}
    Dirs = {d1, d2}
    None = None
    Faults = {"write", "delete", "tear"}
    Early = "anything"
    RiotWaits = FALSE
    MaxMishaps = 2
SPECIFICATION Spec
SYMMETRY Symmetry
INVARIANTS OneSandbox
