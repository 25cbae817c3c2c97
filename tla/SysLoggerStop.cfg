SPECIFICATION FairSpec
CONSTANTS
    w1 = w1
    Writers = {w1}
    NoWriter = NoWriter
    Junk = Junk
PROPERTIES
    StopAlwaysEndsRun
CHECK_DEADLOCK FALSE
