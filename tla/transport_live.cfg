SPECIFICATION FairSpec
CONSTANTS
    DedupeMax = 1
    FromHandle = ""
    ChanCap = 1
    PageMax = 2
    MaxLog = 3
    MaxReceived = 20
    Max429 = 1
    Authors <- WithIDs
    Faults <- Stopping
PROPERTIES CloseStops EventuallyDelivered
