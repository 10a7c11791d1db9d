CONSTANTS
    d = d
    lk = lk
    NameCalls <- MC_UserCalls
    LocIns <- MC_LocSome
    LinkCalls <- MC_LinkCalls
    RenIns <- MC_RenIns
    Links <- MC_Links
    NoPort <- MC_NoPort
    Faults = TRUE
    EntLoc <- MC_EntLoc
    LookIns <- MC_LookIns
    MaxCalls = 3
    MaxLookups = 1
SPECIFICATION LookupSpec
INVARIANTS
    LookupTypeOK
    LookupAnswerExact
    NamesHaveIds
PROPERTIES
    OpsComplete
    LookupsAnswered
