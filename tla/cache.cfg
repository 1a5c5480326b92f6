SPECIFICATION Spec
CONSTANTS
    k1 = k1
    k2 = k2
    k3 = k3
    k4 = k4
    None = None
    Keys <- FourKeys
    Sizes <- SomeSizes
    Expiries <- SomeExpiries
    MaxEntries = 3
    MaxBytes = 3
    MaxEntryBytes = 2
    MaxNow = 2
SYMMETRY Symmetry
INVARIANTS TypeOK ListMatchesMap BytesExact ListIsRecency
PROPERTIES EvictsOnlyAsNeeded ImplementsCache
