CONSTANTS
    Networks <- MCNetworks
    MaxEdits = 1
    None = None
    Neighbour = Neighbour
SPECIFICATION Spec
INVARIANTS
    SuccessIsCurrent
    NoServiceLostSilently
PROPERTIES
    TypesFollowTheBuild
