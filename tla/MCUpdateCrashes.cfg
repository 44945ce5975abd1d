SPECIFICATION FairSpec
CONSTANTS
    Handles = {h1}
    MaxActiveUse = 2
    MaxVersion = 2
    MaxUpdates = 2
    FaultKinds <- Crashes
    MaxFaults = 3
    StartsOpen = {TRUE}
    AdminOps = {}
    MaxTimeline = 20
INVARIANT RecoveryBeforeWork
PROPERTY CommitIsLast
PROPERTY StopsOnlyHealthOnly
 
 
CHECK_DEADLOCK FALSE
PROPERTY TransactionEnds
