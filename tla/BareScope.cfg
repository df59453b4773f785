CONSTANTS
    j1 = j1
    Jobs = {j1}
    Sensors = {s1}
    NoSensorJob = NoSensorJob
    KeyOf <- MCKeyOf
    TTL <- MCTTL
    MaxAge = 3
    Cooldown = 2
    Redeliver = 1
    SaveFaults = FALSE
    Width <- SmallWidth
    V4InV6 <- SmallV4InV6
    Ranges <- SmallRanges
    Siblings <- SmallSiblings
SPECIFICATION DispatchSpec
INVARIANT BareIsOwn
