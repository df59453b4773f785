CONSTANTS
    Jobs = {j1}
    Agents = {a1}
    Operators = {o1}
    None = None
    Lifetimes = {1, 2}
    Windows <- MCWindows
    Redeliver = 0
    Retention = 2
    MaxClock = 5
    DiskFaults = TRUE
    Skew = 1
    Drift <- MCDrift
    MaxStops = 2
    JournalFaults = TRUE
SPECIFICATION FairSystemSpec
INVARIANTS
    SystemInv
    AtMostOnce
PROPERTIES
    NoJobStaysOpen
    KeepsPromise
