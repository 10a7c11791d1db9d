CONSTANTS
    Ids = {0, 1, 2, 3}
    Sizeof <- MC_Sizeof
    OFP_VERSION = 1
    U32 = 16
    Msgs <- MC_StatsMsgs
SPECIFICATION Spec
INVARIANTS MergeIsSortedUnion InsertKeepsSortedSet  InGroupsOnMerged MatchesConjunction
CHECK_DEADLOCK FALSE
