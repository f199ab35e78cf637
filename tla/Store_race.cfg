SPECIFICATION Spec

CONSTANTS
    Instances = {w1, w2}
    Names = {guest, ann}
    Guest = guest
    Unquotable = {}
    Passwords = {p1, p2}
    Modes = {FF, MAT}
    Awards = {1}
    IntMax = 100
    Faults = {}
    None = None
    MaxEarned = 1
    MaxRows = 2

SYMMETRY WindowSymmetry
INVARIANT UniqueUsernames
