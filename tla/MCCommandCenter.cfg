SPECIFICATION CenterFairSpec
CONSTANTS
    Names = {engine}
    Streams = {s1, s2}
    MaxLines = 1
    None = None
INVARIANTS
    CrashesOnlyWhenStopping
    StreamsAreTracked
PROPERTIES
    RunningIsFollowed
    
CHECK_DEADLOCK FALSE
