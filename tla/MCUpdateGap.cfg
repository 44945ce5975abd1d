SPECIFICATION FairSpec
CONSTANTS
    Handles = {h1}
    MaxActiveUse = 2
    MaxVersion = 2
    MaxUpdates = 2
    FaultKinds = {"service_crash"}
    MaxFaults = 1
    StartsOpen = {TRUE}
    AdminOps = {}
    MaxTimeline = 20
PROPERTY ServiceComesBack
CHECK_DEADLOCK FALSE
