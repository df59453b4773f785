CONSTANTS
    FeedKeys = {k1, k2}
    CAKey = ca
    None = None
    Torn = Torn
    LastPath = 2
    Contents = {c1, c2, None}
    Versions = {v1, v2}
    ClientHasCert = FALSE
SPECIFICATION FairNodeSpec
PROPERTIES
    FeedConverges
