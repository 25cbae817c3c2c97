SPECIFICATION Spec
CONSTANTS
    a1 = a1
    a2 = a2
    Apps = {a1, a2}
    Target = 5
    MicroSec = 2
    Works = {1}
    Cuts = {1}
    MaxFrames = 3
SYMMETRY Symmetry
INVARIANTS
    TypeOK
    FrameTracedOnce
    MixedOnlyByRace
    LeaksOnlyBySharing
    LimiterPairs
CHECK_DEADLOCK FALSE
