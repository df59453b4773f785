CONSTANTS
    Pairs = {p1, p2}
    FeedKeys = {k1, k2}
    CAKey = ca
    None = None
    Torn = Torn
SPECIFICATION IdentitySpec
INVARIANTS
    IdentityInv
PROPERTIES
    IsSensorProcess
