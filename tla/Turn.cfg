SPECIFICATION Spec
CONSTANTS
    Message <- MessageDef
    Reads <- ReadsDef
INVARIANTS
    TurnTypeOK
    QuietUnlessOn
    SomebodyHears
    FaqYieldsToBooking
    StaleIsReconfirmed
    AskingIsRemembered
