SPECIFICATION DeskSpec
CONSTANTS
    e1 = e1
    e2 = e2
    Event = {e1}
    Anonymous = {}
    Batch <- SingleDef
    Task = {t1}
    Attempts = 1
    Faults = {"crash", "correct"}
    MaxDeliveries = 2
    MaxCrashes = 1
    Owner = {o1, o2}
    Limit = 2
    DeskFaults = {"close", "mark"}
    Nights = 1
SYMMETRY OwnerSymmetry
INVARIANTS
    DeskTypeOK
    BacklogIsHonest
    DigestOncePerFault
PROPERTIES
    ClosedStaysClosed
    DeskKeepsPromise
