SPECIFICATION FairSpec
CONSTANTS
    Projects = {"cbt", "xatu-cbt", "cbt-api"}
    Semver = {"cbt", "cbt-api"}
    Dependencies <- MCDependencies
    MaxOthers = 1
    None = None
    Unknown = Unknown
INVARIANTS
    DependentsFollow
    NoFailureIsSwallowed

    
