SPECIFICATION ResultsSpec
CONSTANTS
    Runs = {r1, r2}
    Outputs = {o1, o2}
    REPETITIONS = 2
    WARMUPS = 1
    Orders <- BothWays
SYMMETRY Interchangeable
INVARIANTS
    OneCampaignAtATime
    CheckpointSound
PROPERTIES
    RawIsComplete
    PublishedResultsHold
    DamageIsRejected
    ComparisonExact
