CONSTANTS
    root = root
    mia = mia
    pc1 = pc1
    pc2 = pc2
    Users = {root, mia}
    Root = root
    Accounts = {acc}
    Devices = {pc1, pc2}
    Owner <- MCOwner
    Leases = {l1, l2}
    None = None
    StaleAfter = 0
    Grace = 1
    Limit = 2
SPECIFICATION FairSpec
INVARIANTS LeasedInService LeasedFromTrusted AdminRemains
PROPERTIES OneHolder SilentLeaseEnds LostEntitlementEnds SuspensionEnds
