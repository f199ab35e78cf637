SPECIFICATION Spec

CONSTANTS
    Accounts = {ann, bob, cid}
    Guest = guest
    Options <- TypedOptions
    UIntSize <- NarrowUInt
    DatabaseThrows = TRUE

INVARIANT StaleCodeIsHarmless
PROPERTY OffMenuChangesNothing
INVARIANT MusicFlagIsTrue
