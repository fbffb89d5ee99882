SPECIFICATION DashboardSpec
CONSTANTS
    MaxRequests = 2
    MaxConnections = 2
    MaxInputs = 3
    Capacity = 2
INVARIANTS
    SettledPageIsRight
PROPERTY ConnectionsAreLetGo
CHECK_DEADLOCK FALSE
