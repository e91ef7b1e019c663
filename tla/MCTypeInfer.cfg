CONSTANTS
    UseDepth = 3
    AwaitDepth = 6
    MaxRounds = 8
    MaxModuleRounds = 16
    Programs <- MCPrograms
SPECIFICATION Spec
INVARIANTS
    TypeOK
    Sound
    Resolved
    CallersInAnyOrder
