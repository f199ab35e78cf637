SPECIFICATION Spec

CONSTANTS
    playersDb = playersDb
    leaderboardDb = leaderboardDb
    missingDb = missingDb
    None = None
    Files <- AllFiles
    Openable <- Databases
    Statements <- ClientStatements

INVARIANT RowNeedsStatement
INVARIANT CountIsComplete
INVARIANT CountThenIterate
INVARIANT RowIsHeld
