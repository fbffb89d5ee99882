SPECIFICATION Spec
CONSTANTS
    Instances = {lab, worktree}
    Procs = {p1, p2}
    MaxSlots = 2
    NoInstance = NoInstance
    NoManifest = NoManifest
    Free = Free
SYMMETRY Symmetry
CONSTRAINT Ordered
INVARIANTS
    FreshReservationsAreExclusive
    SlotClaimsDiffer
    UpsHaveTheirSlot
