SPECIFICATION Spec
CONSTANTS
    Thread = {t1, t2}
    Message <- MessageDef
    MaxRuns = 3
    MaxTimeouts = 1
    MaxCrashes = 1
SYMMETRY ThreadSymmetry
INVARIANTS
    StateTypeOK
    HandIsRow
    RefusedOnlyInRace
    RowIsItsMessages
    DueNudgeIsFlagged
PROPERTIES
    EndedStaysEnded
CHECK_DEADLOCK FALSE
