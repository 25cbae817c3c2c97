SPECIFICATION PipeSpec
CONSTANTS
    CPUs = {0, 1}
    FreqCPUs = {0}
    MaxRuns = 2
    MaxIterations = 3
    MaxForeign = 3
INVARIANTS
    TypeOK
    NoIndexError
    FrameLinks
    CompleteIsRead
    RunsMatch
    ForeignMatch
    LossOnlyMerges
CHECK_DEADLOCK FALSE
