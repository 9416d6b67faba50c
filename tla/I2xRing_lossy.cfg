\* InFlight * MaxPkg words fit, (InFlight + 1) * MaxPkg do not: replies may be
\* refused, and then the driver waits for an answer that never comes.  Liveness
\* needs the unreduced state graph: no symmetry.
SPECIFICATION FairSpec
CONSTANTS
    RingSize = 13
    PayloadSizes = {1, 2}
    MaxPkg = 6
    InFlight = 2
    Ids = {i1, i2, i3}
    TOMBSTONE = TOMBSTONE
    Blank = Blank
PROPERTIES
    DeliversInOrder
    EventuallyReceived
CHECK_DEADLOCK FALSE
