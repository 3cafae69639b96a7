SPECIFICATION Spec
CONSTANTS
    NoLease = NoLease
    U64_MAX = 1000
    Schedule <- DemoSchedule
    LeaseDuration = 2
    FirstCertificate = 100
    Faults = {}
    MaxTime = 5
    MaxIdleRollbacks = 0
PROPERTY CommitWithinLease
