SPECIFICATION Spec
CONSTANTS
    Builders = {b1}
    Rebuild = rebuild
    Arguments <- TwoPhases
    Variants = {1}
    Logs = {1}
    PinnedLogs = {1}
    Toolchains = {"pinned"}
    Reviewed <- AllLists
    MaxStarts = 1
    MaxEdits = 1
INVARIANTS
    FailedRebuildKeepsFiles
