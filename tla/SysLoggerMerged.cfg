SPECIFICATION Spec
CONSTANTS
    w1 = w1
    Writers = {w1}
    NoWriter = NoWriter
    Junk = Junk
PROPERTIES
    OneRunPerRequest
CHECK_DEADLOCK FALSE
