SPECIFICATION MCSpec
CONSTANTS
    gpu0 = gpu0
    gpu1 = gpu1
    Workers = {gpu0, gpu1}
    Expected = 2
    MaxImms = 9
    MaxTarget = 6
    MaxRounds = 3
INVARIANTS
    EachImmOnce
    CallbackPerCount
    WaitsSeparate
PROPERTIES
    EveryWaitEnds
