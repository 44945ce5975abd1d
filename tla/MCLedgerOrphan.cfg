SPECIFICATION Spec
CONSTANTS
    NoDoc = NoDoc
    d1 = d1
    d2 = d2
    Docs = {d1}
    MaxDocuments = 2
    MaxFaults = 1
INVARIANT
    NoChildOutlivesTheService
