SPECIFICATION Spec
CONSTANTS
    e1 = e1
    e2 = e2
    Event = {e1, e2}
    Anonymous = {e2}
    Batch <- BatchDef
    Task = {t1, t2}
    Attempts = 2
    Faults = {"crash", "dedupe", "handler", "lookup", "correct", "rollback"}
    MaxDeliveries = 2
    MaxCrashes = 1
SYMMETRY TaskSymmetry
INVARIANTS
    TypeOK
    ExclusiveRun
    HandledIffReached
    StoredOrCasualty
    NotifiedIsTrue
PROPERTIES
    RepliedIsFinal
    KeepsPromise
CHECK_DEADLOCK FALSE
