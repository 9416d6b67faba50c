\* A driver that releases firmware before it boots it again.
SPECIFICATION Spec
CONSTANTS
    NumCtx = 2
    IdMod = 6
    NoHeap = NoHeap
    MgmtChans = {0}
    Restarts = FALSE
INVARIANTS
    HeapOwned
    DriverAgrees
    NoAvailOnlyWhenFull
