\* The driver keeps (InFlight + 1) * MaxPkg within the ring: nothing is lost.
SPECIFICATION Spec
CONSTANTS
    RingSize = 22
    PayloadSizes = {1, 3}
    MaxPkg = 7
    InFlight = 2
    Ids = {i1, i2, i3}
    TOMBSTONE = TOMBSTONE
    Blank = Blank
SYMMETRY IdSymmetry
INVARIANTS
    TypeOK
    UnreadIntact
    RingInv
    NoReplyLost
    NoLostWakeup
