CONSTANTS
    t1 = t1
    a1 = a1
    Coded = {"xE9"}
    Hex <- MCHex
    Tokens = {t1}
    Agents = {a1}
    Certs = {c1, c2}
    MaxUses <- MCMaxUses
    NoToken = NoToken
    StoreFaults = FALSE
    CRLFaults = FALSE
SPECIFICATION EnrollSpec
INVARIANTS
    RevokedIsKilled
