SPECIFICATION Spec
CONSTANTS
    Day = 3
    NightWindow <- NightDef
    Reader = {r1}
    Writer = {w1, w2, w3}
    MaxNow = 6
SYMMETRY Symmetry
INVARIANTS
    ModeTypeOK
    ScheduleAgrees
    CommandStandsUnlessRaced
    AnswerWasTrue
