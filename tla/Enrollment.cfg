CONSTANTS
    t1 = t1
    a1 = a1
    Coded = {"xE9"}
    Hex <- MCHex
    Tokens = {t1, t2}
    Agents = {a1, a2}
    Certs = {c1, c2}
    MaxUses <- MCMaxUses
    NoToken = NoToken
    StoreFaults = TRUE
    CRLFaults = FALSE
SPECIFICATION FairEnrollSpec
INVARIANTS
    EnrollInv
    KillSwitch
    HoldersAreKnown
PROPERTIES
    FirstEnrollmentWins
    KilledEverywhere
