SPECIFICATION Spec

CONSTANTS
    Instances = {w1}
    Names = {guest, ann, quoted}
    Guest = guest
    Unquotable = {quoted}
    Passwords = {p1}
    Modes = {FF}
    Awards = {1}
    IntMax = 1
    Faults = {"open", "io", "close"}
    None = None
    MaxEarned = 3
    MaxRows = 2

PROPERTY PointsNeverFall
PROPERTY NoCreditPastIntMax
