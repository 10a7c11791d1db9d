CONSTANTS
    a = a
    b = b
    bc = bc
    l1 = l1
    l2 = l2
    NoPkt = NoPkt
    DL <- MC_DL
    Bcast = bc
    IP <- MC_IP
    Loc <- MC_Loc
    InternalLoc = {}
    InternalIP = {}
    InternalMAC = {}
    OnPath = {}
    AutoAuth = FALSE
    HostNames <- MC_HostNames
    UserNames <- MC_UserNames
    PacketIns <- MC_PacketIns
    AuthIns <- MC_AuthIns
    DeauthIns <- MC_DeauthIns
    NetinfoIns <- MC_NetinfoIns
    LocRemovals <- MC_LocRemovals
    MaxExternal = 3
SPECIFICATION Spec
INVARIANTS
    TypeOK
    LockOwnedByCall
    BindingCount
    ZeroPointer
    NWHostsIndex
    AnnouncedBindings
PROPERTIES
    PacketsForwarded
