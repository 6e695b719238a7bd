SPECIFICATION Spec
CONSTANTS
    World = 2
    NodeSizes = {1, 2}
    Nets = 2
    MaxOverflow = 1
    MaxRounds = 2
INVARIANTS
    BuffersKept
    KernelsReadAll
PROPERTIES
    AllJoined
