SPECIFICATION FairSpec
CONSTANTS
    NoDoc = NoDoc
    d1 = d1
    d2 = d2
    Docs = {d1, d2}
    MaxDocuments = 3
    MaxFaults = 3
INVARIANTS
    TypeOK
    ResourcesAreLedgered
    
PROPERTIES
    NothingUnprovenIsRemoved
    
    NoDiskRemovedUnderVm
    StartupFinishes
