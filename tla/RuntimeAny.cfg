SPECIFICATION Spec
CONSTANTS
    NoLease = NoLease
    U64_MAX = 4
    Schedule <- Any5
    LeaseDuration = 2
    FirstCertificate = 3
    Faults = {}
    MaxTime = 3
    MaxIdleRollbacks = 2
INVARIANTS
    CommitsAudited
    AuthorityCoherent
    CountersFit
    UnconfirmedEffectReported
