SPECIFICATION FairSpec
CONSTANTS
    Dbs = {0, 1}
    Names = {"k1", "k2"}
    Types = {"string", "hash"}
    Texts = {"a", "b"}
    Nothing = ""
    MaxLeft = 1
    Initial <- MCInitial
    Shared <- MCShared
    Foreign <- MCForeign
    NewKeys <- MCNewKeys
    Slots = {1, 2}
    MaxOutside = 1
    MaxActs = 2
    Absent = Absent
    None = None
CHECK_DEADLOCK FALSE
INVARIANTS
    ConflictsAreReal
PROPERTIES
    
    PageFollowsTheStore
