SPECIFICATION Spec
CONSTANTS
    DedupeMax = 1
    FromHandle = "self"
    ChanCap = 1
    PageMax = 1
    MaxLog = 1
    MaxReceived = 4
    Max429 = 1
    Authors <- WithIDs
    Faults <- AnyReason
INVARIANT StopsOnPurpose
