SPECIFICATION Spec
CONSTANTS
    Handles = {h1}
    MaxActiveUse = 2
    MaxVersion = 2
    MaxUpdates = 2
    FaultKinds = {"service_crash", "helper_crash"}
    MaxFaults = 2
    StartsOpen = {TRUE}
    AdminOps = {}
    MaxTimeline = 20
INVARIANT SettledConfiguration
CHECK_DEADLOCK FALSE
