CONSTANTS
    Versions <- MCOneRelease
    Bad <- MCBad
    None = None
    Torn = Torn
    Refused = {TRUE}
    WriteFaults = FALSE
SPECIFICATION FairUpdateSpec
PROPERTIES
    BootsAreBounded
CHECK_DEADLOCK FALSE
