CONSTANTS
    Ids = {0}
    Sizeof <- MC_Sizeof
    OFP_VERSION = 1
    U32 = 16
    Msgs <- MC_ShortMsgs
SPECIFICATION Spec
INVARIANT DispatchedMessagesComplete
CHECK_DEADLOCK FALSE
