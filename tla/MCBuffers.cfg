\* The connection buffers over the pool, with another loop using the pool.
CONSTANTS
    InitCount <- MCInitCount
    MaxPoolSize <- MCMaxPoolSize
    PeerSizes <- MCPeerSizes
    SendSizes <- MCSendSizes
    MaxIn <- MCMaxIn
    MaxSends <- MCMaxSends
    MaxOther <- MCMaxOther
SPECIFICATION Spec
INVARIANT TypeOK
INVARIANT RoundUpIsSmallestClass
INVARIANT ChunkFits
INVARIANT BytesConserved
INVARIANT PoolConservation
INVARIANT InterestMirrorsMap
INVARIANT WriteInterestIffPending
PROPERTY OutputDrained
\* After exit(1), or once the connection is closed and the bounds are
\* spent, nothing is left to do.
CHECK_DEADLOCK FALSE
