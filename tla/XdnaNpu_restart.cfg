\* A driver that starts over without PSP_CMD_RELEASE_TMR.
SPECIFICATION Spec
CONSTANTS
    NumCtx = 2
    IdMod = 5
    NoHeap = NoHeap
    MgmtChans = {0}
    Restarts = TRUE
INVARIANTS
    NoAvailOnlyWhenFull
