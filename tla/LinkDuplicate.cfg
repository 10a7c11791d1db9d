CONSTANTS
    d = d
    lk = lk
    NameCalls = {}
    LocIns = {}
    LinkCalls <- MC_LinkAdd
    RenIns = {}
    Links <- MC_Links
    NoPort <- MC_NoPort
    Faults = TRUE
    EntLoc <- MC_EntLoc
    LookIns = {}
    MaxCalls = 2
    MaxLookups = 0
SPECIFICATION LookupSpec
INVARIANT LinkRowsUnique
