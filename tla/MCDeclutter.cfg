CONSTANTS
    BlockCount = 4
    Entry = 1
    MaxChain = 2
    MaxHops = 2
    MaxEvents = 4
    MaxSteps = 24
    MaxTrips = 2
    Callee <- MCCallee
    Table = {1, 4}
    Function <- Functions
SPECIFICATION Spec
INVARIANTS
    TypeOK
    ArityKept
    SsaKept
    BehaviourKept
    Swept
    Unified
    PromotedOnce
PROPERTIES
    Implements
    Terminates
