SPECIFICATION FairSpec
CONSTANTS
    Persons = {p1, p2}
    First = p1
    Grants = {g1, g2}
    Slots = {s1, s2}
    None = None
    MaxElsewhere = 1
    MaxJobs = 2
    MaxFaults = 1
INVARIANTS
    OwnChangeShown
    FormsFree
PROPERTIES
    ListNeverBackwards
    ListCatchesUp
