CONSTANTS
    d1 = d1
    DP <- MC_DP
    Port <- MC_Port
    SwitchNames = {"s1"}
    LocNames = {"l1"}
    HostNames = {}
    GroupNames = {"g1"}
    JoinIns <- MC_JoinIns
    LeaveIns <- MC_DP
    PortIns <- MC_PortIns
    RenameIns <- MC_RenameSwitch
    DelnameIns <- MC_DelnameIns
    GroupIns <- MC_GroupIns
    ChangeIns <- MC_ChangeIns
    MaxId = 5
    MaxExternal = 2
    DPInt <- MC_DPInt
    PacketIns <- MC_Loc
    Shift = 4
    Wrap = 64
    MaxEvents = 1
SPECIFICATION NSSpec
INVARIANTS
    RefcountExact
    NamesResolve
    PendingInfoLive
    SwitchCountsExact
PROPERTIES
    InfoUnlocked
