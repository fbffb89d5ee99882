SPECIFICATION FairSpec
CONSTANT MaxRequests = 4
INVARIANTS
    ExclusiveUnlessOverlapped
    
PROPERTIES
    OperationsSettle
    ImplementsStackOps
CHECK_DEADLOCK FALSE
