SPECIFICATION Spec
CONSTANTS
    a = a
    b = b
    c = c
    Domains <- AllThree
    Ops <- FiveOps
    Groups <- OneGroup
    MaxSubmits = 3
    Buffers = 2
    MaxFaults = 1
INVARIANTS
    PostedProperly
    WaitsForHandshake
    CleanAtRest
