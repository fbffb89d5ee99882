SPECIFICATION Spec
CONSTANTS
    External = {"e"}
    Transformation = {"t1", "t2"}
    Direct <- MCDirect
    Values = {"", "1"}
    Unset = ""
    Blocks = {"b", "{}"}
    EmptyBlock = "{}"
    NoBlock = NoBlock
    Missing = Missing
    InitialFiles <- MCInitialFiles
    InitialDisk <- MCInitialDisk
    Slots = {1, 2}
    MaxActs = 4
INVARIANTS
    
    FixesAgree
    SettledConfigsAreCurrent
    TextsAreOwn
CHECK_DEADLOCK FALSE
