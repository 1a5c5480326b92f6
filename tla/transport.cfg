SPECIFICATION Spec
CONSTANTS
    DedupeMax = 2
    FromHandle = "self"
    ChanCap = 1
    PageMax = 2
    MaxLog = 3
    MaxReceived = 10
    Max429 = 1
    Authors <- AllAuthors
    Faults <- AnyReason
INVARIANTS TypeOK WindowConsistent NoEarlyDuplicate NoEcho NothingSkipped
