SPECIFICATION Spec
CONSTANTS
    c1 = c1
    c2 = c2
    c3 = c3
    wendy = wendy
    wide = wide
    status = status
    Customer = {c1, c2, c3}
    Renamer = {c1}
    Word <- WordDef
    Folded <- FoldedDef
    Profile <- ProfileDef
    Command <- CommandDef
    Fixed <- FixedDef
INVARIANTS
    NumberPicksTheListed
