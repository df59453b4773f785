CONSTANTS
    Versions <- MCVersions
    Bad <- MCBad
    None = None
    Torn = Torn
    Refused = {TRUE, FALSE}
    WriteFaults = TRUE
SPECIFICATION FairUpdateSpec
INVARIANTS
    UpdateInv
PROPERTIES
    NoChurn
    EveryUpdateSettles
CHECK_DEADLOCK FALSE
