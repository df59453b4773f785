CONSTANTS
    Jobs = {j1, j2}
    Agents = {a1, a2}
    Operators = {o1}
    None = None
    Lifetimes = {1}
    Windows <- MCWindows
    Redeliver = 0
    Retention = 1
    MaxClock = 4
    DiskFaults = TRUE
SPECIFICATION QueueSpec
SYMMETRY MCSymmetry
INVARIANTS
    QueueTypeOK
    ApprovalGate
    HandedIsDurable
    DiskBehindMemory
PROPERTIES
    ForwardOnly
    ClosedNeverDelivered
