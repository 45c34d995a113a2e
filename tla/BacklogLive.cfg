SPECIFICATION FairDeskSpec
CONSTANTS
    e1 = e1
    e2 = e2
    Event = {e1, e2}
    Anonymous = {}
    Batch <- RepeatedDef
    Task = {t1}
    Attempts = 2
    Faults = {"crash", "handler", "dedupe", "rollback"}
    MaxDeliveries = 2
    MaxCrashes = 1
    Owner = {o1}
    Limit = 2
    DeskFaults = {}
    Nights = 0
PROPERTIES
    PendingIsShown
    EventuallyAccounted
