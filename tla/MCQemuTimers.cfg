SPECIFICATION Spec
SYMMETRY MCSymmetry
CONSTANTS
    VmTimers = {systick, other}
    RtTimers = {gui}
    Delays <- MCDelays
    MinRearm = 1
    SelectTimeout = 2
    MaxRun = 1
    MaxTime = 5
    MaxStops = 1
INVARIANTS
    Sorted
    AlarmCovers
    Prompt
