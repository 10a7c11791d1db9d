CONSTANTS
    d = d
    lk = lk
    NameCalls <- MC_NameCalls
    LocIns <- MC_LocIns
    LinkCalls <- MC_LinkCalls
    RenIns = {}
    Links <- MC_Links
    NoPort <- MC_NoPort
    Faults = FALSE
    EntLoc <- MC_EntLoc
    LookIns <- MC_LookHost
    MaxCalls = 4
    MaxLookups = 1
SPECIFICATION LookupSpec
INVARIANTS
    TypeOK
    LookupAnswerExact
PROPERTIES
    AtomicLookupSpec
