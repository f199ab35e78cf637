SPECIFICATION FairSpec

CONSTANTS
    Wanteds <- AskedFor
    Tables <- TableSizes
    Database = Database
    Missing = Missing
    None = None

INVARIANT TypeOK
INVARIANT WholeOrEmpty
INVARIANT QuestionsAreTheDrawn
INVARIANT ReliableNeverStops
PROPERTY SetArrives
