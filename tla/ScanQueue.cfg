CONSTANTS
    Scans = {s1, s2}
    TargetOf <- MCOneTarget
    MaxConcurrent = 1
    RescanWindow = 1
    MaxDuration = 0
    Retention = 2
    MaxClock = 2
    Unwanted = {s1}
    Administered = {}
    DiskFaults = FALSE
    BridgeFaults = TRUE
SPECIFICATION FairScanSpec
INVARIANTS
    ReadIsCurrent
    RunningWithinCap
PROPERTIES
    EveryScanEnds
