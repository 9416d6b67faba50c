\* Requests on every channel, boots at any time.
SPECIFICATION Spec
CONSTANTS
    NumCtx = 2
    IdMod = 3
    NoHeap = NoHeap
    MgmtChans = {0, 1, 2}
    Restarts = TRUE
INVARIANTS
    TypeOK
    Coherent
    CountMatches
    IdsFresh
