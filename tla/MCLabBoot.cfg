SPECIFICATION BootFairSpec
CONSTANTS
    Networks <- TwoNetworks
    None = None
    MaxEdits = 1
INVARIANTS
    MigratedUnlessCutShort
    
PROPERTY BootReturns
