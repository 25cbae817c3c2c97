CONSTANTS
    Pids = {p1, p2, p3}
    NoPid = NoPid
    Names = {"", "dboxed_process", "sh"}
    CPUs = {0, 1}
    TimeColumn = "Raw Time [s]"
    Phases = {0, 1}
    Powers = {1}
    TailInterval = 2
    Budgets <- MCBudgets
    MaxTime = 3
SYMMETRY MCSymmetry
SPECIFICATION Spec
CHECK_DEADLOCK FALSE
INVARIANT HeadingsKnown
