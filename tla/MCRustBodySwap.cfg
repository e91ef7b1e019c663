CONSTANTS
    ValueCount = 4
    BlockCount = 5
    Entry = 1
    MaxDepth = 4
    Program <- CarriedPrograms
SPECIFICATION BodySpec
INVARIANTS
    LocalsHoldValues
