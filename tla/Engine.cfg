SPECIFICATION Spec
CONSTANTS
    Transfers = {t1}
    Sends = {s1}
    Recvs = {r1}
    CmdCap = 1
    CqCap = 6
    MaxUses = 2
    MaxMessages = 2
    MaxValue = 2
INVARIANTS
    HandledOnce
    RecvHeldOnce
    WatchChain
PROPERTIES
    EventuallyCalled
    LastValueSeen
    StopJoins
