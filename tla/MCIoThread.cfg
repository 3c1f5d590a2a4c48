SPECIFICATION FairSpec
CONSTANT MaxSpurious = 1
INVARIANTS
    KickNotLost
    NoGuestCodeWhileStopped
    ResetFindsCpuOut
    NoLostWakeup
PROPERTIES
    IoGetsMutex
    PauseReturns
