SPECIFICATION LbSpec

CONSTANTS
    ann = ann
    bob = bob
    guest = guest
    Instances = {w1, w2}
    Names = {ann, bob, guest}
    Enrolled = {ann, bob}
    Guest = guest
    Unquotable = {}
    Passwords = {p1}
    Modes = {FF}
    Awards = {1}
    IntMax = 100
    Faults = {"close"}
    None = None
    MaxEarned = 2
    MaxRows = 1
    Alphabet <- InOrder
    Limit = 2

INVARIANT LinesAreOneMoment
INVARIANT DisplayIsComplete
PROPERTY DisplayStopsForOthers
INVARIANT NeverOverCredited
SYMMETRY WindowSymmetry
