SPECIFICATION Spec
CONSTANTS
    Handles = {h1}
    MaxActiveUse = 2
    MaxVersion = 2
    MaxUpdates = 2
    FaultKinds <- AnyFault
    MaxFaults = 2
    StartsOpen = {TRUE, FALSE}
    AdminOps <- AnyRequest
    MaxTimeline = 8
INVARIANT TypeOK
INVARIANT PendingIsDurable
INVARIANT OpenMeansNoUpdate
INVARIANT SealHasAnOwner
INVARIANT ConfigurationBelongs
CHECK_DEADLOCK FALSE
