CONSTANTS
    Versions <- MCVersions
    Bad <- MCBad
    None = None
    Torn = Torn
    Refused = {FALSE}
    WriteFaults = FALSE
SPECIFICATION UpdateSpec
INVARIANTS
    BackupIsGood
CHECK_DEADLOCK FALSE
