SPECIFICATION FairSpec
CONSTANTS
    Words = 4
    Reference = 2
    CpuScale = 1
    Horizon = 9
INVARIANTS
    ArmedWhileEnabled
    DeadlineNear
PROPERTIES
    CountsDown
    RunEnds
