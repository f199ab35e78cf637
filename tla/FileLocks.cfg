SPECIFICATION Spec

CONSTANTS
    Connections = {c1, c2, c3}
    NumPages = 2
    None = None
    MaxWrites = 2

SYMMETRY ConnectionSymmetry
INVARIANT TypeOK
INVARIANT ReadsTheCommitted
INVARIANT ReadLockIsRegained
INVARIANT JournalHasOneOwner
PROPERTY ImplementsFile
