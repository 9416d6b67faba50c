\* Two calls at a time; buffers of up to two pieces and a rest.
SPECIFICATION FairSpec
CONSTANTS
    Callers = {c1, c2}
    NumCfg = 2
    Values = {0, 1}
    Pasids = {0, 1}
    Chunk = 2
    Buffers <- MCBuffers
    HasDma = TRUE
    NoReq = NoReq
INVARIANTS
    TypeOK
    RepliesReadable
    ConfigAsWanted
    DumpExact
    AnsweredOnce
PROPERTY
    EveryCallReturns
