CONSTANTS
    ValueCount = 4
    BlockCount = 5
    Entry = 1
    MaxDepth = 4
    Program <- Programs
SPECIFICATION BodySpec
INVARIANTS
    BranchesEnclosed
    EmittedInOrder
    GivesUpOnlyThen
    OrderedEdgesBind
PROPERTIES
    Implements
