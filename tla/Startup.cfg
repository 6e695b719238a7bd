SPECIFICATION Spec
CONSTANTS
    NumWorkers = 3
    Nets = {2, 3}
    Providers = {"efa", "verbs"}
    MaxFailures = 1
CHECK_DEADLOCK FALSE
INVARIANTS ClosedWhenEnded
PROPERTIES ConstructorReturns ThreadsEnd
