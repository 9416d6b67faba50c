\* One more request in flight than the ring has room for.
SPECIFICATION Spec
CONSTANTS
    RingSize = 16
    PayloadSizes = {1, 2}
    MaxPkg = 6
    InFlight = 3
    Ids = {i1, i2, i3}
    TOMBSTONE = TOMBSTONE
    Blank = Blank
SYMMETRY IdSymmetry
INVARIANTS
    UnreadIntact
