SPECIFICATION GameSpec

CONSTANTS
    Window = w1
    Instances = {w1}
    Names = {guest, ann}
    Guest = guest
    Unquotable = {}
    Passwords = {p1}
    FrogsAndFlies = FF
    MathTrivia = MAT
    Modes = {FF, MAT}
    Awards = {0, 1, 2}
    IntMax = 100
    Faults = {"open", "close"}
    None = None
    MaxEarned = 2
    MaxRows = 1
    Options <- TypedOptions
    UIntSize <- NarrowUInt
    Top <- TwoLevels
    Size <- OneQuestion
    Worth <- OneAndTwo

INVARIANT GameTypeOK
INVARIANT StepsMatch
INVARIANT SamePlayer
PROPERTY PointsFromOwnRound
PROPERTY ImplementsLedger
