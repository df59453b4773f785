CONSTANTS
    Scans = {s1}
    TargetOf <- MCOneTarget
    MaxConcurrent = 1
    RescanWindow = 1
    MaxDuration = 0
    Retention = 0
    MaxClock = 3
    Unwanted = {s1}
    Administered = {s1}
    DiskFaults = TRUE
    BridgeFaults = TRUE
SPECIFICATION FairScanSpec
INVARIANTS
    ScanInv
PROPERTIES
    StopIsNotForgotten
    EveryScanEnds
