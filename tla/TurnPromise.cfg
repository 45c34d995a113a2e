SPECIFICATION Spec
CONSTANTS
    Message <- MessageDef
    Reads <- ReadsDef
INVARIANT StaffPromiseIsKept
