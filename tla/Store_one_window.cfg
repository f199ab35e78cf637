SPECIFICATION FairSpec

CONSTANTS
    Instances = {w1}
    Names = {guest, ann}
    Guest = guest
    Unquotable = {}
    Passwords = {p1, p2}
    Modes = {FF, MAT}
    Awards = {1, 2}
    IntMax = 100
    Faults = {}
    None = None
    MaxEarned = 2
    MaxRows = 2

INVARIANT UniqueUsernames
INVARIANT SessionOnRecord
INVARIANT ExactCredit
INVARIANT NoCrash
PROPERTY AwardReachesBoard
