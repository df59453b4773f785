CONSTANTS
    j1 = j1
    Jobs = {j1, j2}
    Sensors = {s1, s2}
    NoSensorJob = NoSensorJob
    KeyOf <- MCKeyOf
    TTL <- MCTTL
    MaxAge = 3
    Cooldown = 2
    Redeliver = 1
    SaveFaults = TRUE
    Width <- SmallWidth
    V4InV6 <- SmallV4InV6
    Ranges <- SmallRanges
    Siblings <- SmallSiblings
SPECIFICATION FairDispatchSpec
INVARIANTS
    DispatchInv
    AckedIsReported
    HandedIsInScope
PROPERTIES
    NoWorkAfterExpiry
    EveryJobEnds
