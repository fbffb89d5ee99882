SPECIFICATION FairSpec
CONSTANTS
    cc = cc
    c1 = c1
    c2 = c2
    Managers = {cc}
    Clients = {c1, c2}
    Home <- HomeServerOnly
    Names = {"engine"}
    Pids = {p1, p2}
    NoEntry = NoEntry
    NoFile = NoFile
    Torn = Torn
    NoPid = NoPid
    NoName = NoName
    NoManager = NoManager
    Free = Free
INVARIANT StartedEntriesAreWatched
PROPERTIES
    LiveEntriesAreOnlyLostToMonitors
    CallsReturn
    ExitedProcessesLeave
