CONSTANTS
    Word = 16
    U32Tag = 4
    SymbolTag = 14
    Tags = 16
    ResolveDepth = 4
    MaxQueries = 2
    Modules <- Programs
SPECIFICATION Spec
INVARIANTS
    Sound
    MeetOverPaths
    MemoIsFinal
