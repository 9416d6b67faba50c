\* Up to two requests per write of the tail register, some of them empty; two of
\* them with a tombstone in between are one iteration more than the loop makes.
SPECIFICATION Spec
CONSTANTS
    RingSize = 20
    PayloadSizes = {0, 2}
    MaxPkg = 6
    InFlight = 2
    MaxPerKick = 2
    Ids = {i1, i2}
    TOMBSTONE = TOMBSTONE
    Blank = Blank
SYMMETRY IdSymmetry
INVARIANTS
    TypeOK
    Drained
    NeverRefused
    CutShortOnlyBeyond
PROPERTY
    HandlesInOrder
