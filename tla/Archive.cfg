SPECIFICATION Spec
CONSTANTS
    Builders = {keeping, replacing}
    Overwriting = {replacing}
    Names <- NamesDef
    Portable <- PortableDef
    Fold <- FoldDef
    Suffix <- SuffixDef
    Contents = {1, 2}
    Link = 0
    Allowlists <- AllowlistsDef
    MaxEdits = 2
INVARIANTS
    PublishedIsAllowed
    SuccessIsCurrent
    UnhinderedBuildSucceeds
    AcceptsOnlyCanonical
PROPERTIES
    NeverReplacedUnasked
