SPECIFICATION Spec
CONSTANTS
    NoLease = NoLease
    U64_MAX = 1000
    Schedule <- DemoSchedule
    LeaseDuration = 2
    FirstCertificate = 100
    Faults = {"io", "child", "hang", "garble", "duplicate", "parent"}
    MaxTime = 3
    MaxIdleRollbacks = 0
INVARIANTS
    TypeOK
    EffectsAccounted
    LeasesAudited
    LoopSynchronized
    DoneIsClean
PROPERTIES
    EffectUnderAuthority
    Termination
    NoOrphan
