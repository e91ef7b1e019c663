CONSTANTS
    BlockCount = 5
    Entry = 1
    MaxDepth = 8
    MaxDuplicated = 4
    MaxEvents = 4
    MaxSteps = 24
    MaxCalls = 3
    Program <- TrapHelperPrograms
SPECIFICATION Spec
INVARIANT PureTrapsDiverge
