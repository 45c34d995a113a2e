SPECIFICATION Spec
CONSTANTS
    boot = boot
    worker = worker
    YearLength = 5
    LastYear = 2
    Saturdays <- SaturdaysDef
    OwnSpecial <- OwnDef
    Rules <- RulesDef
    MaxGuests = 16
    Rate <- RateDef
    LongStayOff = 0
    PetFee = 1
    BbqFee = 1
    PersonFee = 1
    Thread = {boot, worker}
    Boot = boot
    Warm <- WarmDef
    Job <- JobDef
    Published <- PublishedDef
    Backoff = 1
    Bookable <- BookableDef
    MaxBooked = 1
INVARIANTS
    QuoteTypeOK
    NightsTrueInReach
    QuoteHonoursBookings
    FewTimeouts
    GatesAgree
