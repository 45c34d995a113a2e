SPECIFICATION Spec
CONSTANTS
    YearLength = 6
    MaxNights = 2
    Today <- TodayDef
    Text <- TextDef
    Follow <- FollowDef
INVARIANT GuessIsPlausible
