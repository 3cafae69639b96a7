SPECIFICATION Spec
CONSTANTS
    Builders = {b1, b2}
    Rebuild = rebuild
    Arguments <- TwoPhases
    Variants = {1, 2}
    Logs = {1}
    PinnedLogs = {1}
    Toolchains = {"pinned"}
    Reviewed <- ThreeLists
    MaxStarts = 2
    MaxEdits = 1
SYMMETRY Interchangeable
INVARIANTS
    AcceptedIsConsistent
PROPERTIES
    ReceiptLast
