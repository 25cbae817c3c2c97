SPECIFICATION FairSpec
CONSTANTS
    w1 = w1
    w2 = w2
    Writers = {w1, w2}
    NoWriter = NoWriter
    Junk = Junk
INVARIANTS
    TypeOK
    TimerAlive
    LateBound
    NoOpenRunLeft
    QuietAfterCancel
PROPERTIES
    RunProtocol
    UnloadEnds
    MeasuresWhileEnabled
    StopEndsRun
CHECK_DEADLOCK FALSE
