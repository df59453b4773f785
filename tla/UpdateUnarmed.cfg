CONSTANTS
    Versions <- MCVersions
    Bad <- MCBad
    None = None
    Torn = Torn
    Refused = {FALSE}
    WriteFaults = FALSE
SPECIFICATION UpdateSpec
INVARIANTS
    UnprovenIsStaged
CHECK_DEADLOCK FALSE
