CONSTANTS
    d1 = d1
    DP <- MC_DP
    Port <- MC_Port
    SwitchNames = {"s1"}
    LocNames = {"l1"}
    HostNames = {"h1", "h2"}
    GroupNames = {"g1"}
    JoinIns = {}
    LeaveIns = {}
    PortIns = {}
    RenameIns <- MC_RenameHosts
    DelnameIns = {}
    GroupIns = {}
    ChangeIns = {}
    MaxId = 5
    MaxExternal = 7
    DPInt <- MC_DPInt
    PacketIns = {}
    Shift = 4
    Wrap = 64
    MaxEvents = 1
SPECIFICATION NSSpec
INVARIANTS
    TypeOK
    RefcountExact
    NamesResolve
PROPERTIES
    NameBindingStable
    GetIdResult
