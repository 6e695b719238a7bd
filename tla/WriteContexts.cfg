SPECIFICATION Spec
CONSTANTS
    Writes = {w1, w2}
    w1 = w1
    w2 = w2
    MaxOps = 3
    PostBatch = 2
INVARIANTS
    NoUseAfterFree
    TransferMeansFinished
PROPERTIES
    ImplementsWriteReporting
