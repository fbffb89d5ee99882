SPECIFICATION SessionFairSpec
CONSTANTS
    MaxTurns = 2
    MaxInterrupts = 1
    Capacity = 1
INVARIANTS
    AnswersAreOwn
    AnswersAreShownOnce
PROPERTIES
    CloseReturns
    
CHECK_DEADLOCK FALSE
