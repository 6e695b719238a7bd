SPECIFICATION OpsSpec
CONSTANTS
    MaxSize = 16
    MaxShards = 5
    MinSize = 4
    ChainLen = 4
    U32 = 15
    Targets = 2
    SrcPtr = 100
    DstPtr = 200
    Stride = 3
    PageLen = 2
INVARIANTS
    ShardsExact
    RequestWritten
    ChainIsPending
