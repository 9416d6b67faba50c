\* Three in flight and three iterations: with a tombstone among three requests the
\* loop is cut short, with one among two it just is not.  One size, since liveness
\* needs the unreduced state graph; X2iRing_batch.cfg has empty requests.
SPECIFICATION FairSpec
CONSTANTS
    RingSize = 21
    PayloadSizes = {1}
    MaxPkg = 5
    InFlight = 3
    MaxPerKick = 3
    Ids = {i1, i2, i3}
    TOMBSTONE = TOMBSTONE
    Blank = Blank
PROPERTY
    EventuallyHandled
