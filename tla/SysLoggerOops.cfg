SPECIFICATION Spec
CONSTANTS
    w1 = w1
    Writers = {w1}
    NoWriter = NoWriter
    Junk = Junk
INVARIANTS
    UnloadedCleanly
CHECK_DEADLOCK FALSE
