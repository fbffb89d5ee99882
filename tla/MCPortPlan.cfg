CONSTANTS
    Instances = {a, b}
    Networks <- MCNetworks
    Configs = {"both", "custom"}
    Says <- MCSays
    ForeignPorts <- MCForeignPorts
    MaxSlots = 2
    PortStride = 1000
    MaxPort = 65535
    NoManifest = NoManifest
SPECIFICATION Spec
SYMMETRY Symmetry
INVARIANTS
    
    BlockersAreListed
    
