CONSTANTS
    BlockCount = 4
    Entry = 1
    Graph <- MCGraph
SPECIFICATION Spec
INVARIANTS
    OrderPromised
    ClimbsEnd
    NoDominatorLost
    IdomCorrect
    QueryAnswersDominance
    EdgesSorted
    LoopsNatural
    LoopsNest
PROPERTIES
    Terminates
