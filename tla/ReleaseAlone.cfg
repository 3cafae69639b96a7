SPECIFICATION Spec
CONSTANTS
    Builders = {b1}
    Rebuild = rebuild
    Arguments <- AllArguments
    Variants = {1}
    Logs = {1, 2, 3}
    PinnedLogs = {1, 2}
    Toolchains = {"pinned", "other"}
    Reviewed <- AllLists
    MaxStarts = 1
    MaxEdits = 2
INVARIANTS
    
    RebuildSatisfiesVerifier
    FailedRebuildIsCurrent
