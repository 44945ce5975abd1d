SPECIFICATION FairSpec
CONSTANTS
    Handles = {h1}
    MaxActiveUse = 2
    MaxVersion = 2
    MaxUpdates = 2
    FaultKinds <- Interruptions
    MaxFaults = 1
    StartsOpen = {TRUE}
    AdminOps = {}
    MaxTimeline = 30
PROPERTY ServiceComesBack
CHECK_DEADLOCK FALSE
