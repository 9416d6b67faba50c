\* Three channels, and a vector more than that.
SPECIFICATION FairSpec
CONSTANTS
    NumVec = 4
    NumChan = 3
INVARIANTS
    TypeOK
    AllOrNothing
    NoticeKept
PROPERTY
    Noticed
