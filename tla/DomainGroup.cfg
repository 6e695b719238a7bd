SPECIFICATION Spec
CONSTANTS
    N = 2
    t1 = t1
    t2 = t2
    Ids = {t1, t2}
    Requests <- EveryKind
INVARIANTS
    OutcomeSound
    TrackedIsPending
PROPERTIES
    ImplementsTransferOutcome
