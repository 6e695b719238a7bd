SPECIFICATION Spec
CONSTANTS
    Writes = {1, 2, 3}
    Peers = {p1, p2}
    p1 = p1
    p2 = p2
    MaxOps = 2
    Depth = 1
    MaxBroken = 1
INVARIANTS
    PointersOwned
PROPERTIES
    ReportMeansOver
    ImplementsWriteReporting
