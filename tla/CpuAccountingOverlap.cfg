SPECIFICATION Spec
CONSTANTS
    Threads = {t1}
    t1 = t1
    CPUs = {0, 1}
    Cpu0 = 0
    MaxTime = 4
    MaxEvents = 3
    TailInterval = 2
INVARIANTS
    RunningFits
CHECK_DEADLOCK FALSE
