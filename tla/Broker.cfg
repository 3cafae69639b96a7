SPECIFICATION Spec
CONSTANTS
    Brokers = {b1, b2, b3}
    NoSeal = NoSeal
SYMMETRY Interchangeable
INVARIANTS
    TypeOK
    AtMostOneEffect
    ConsumedBeforeEffect
    AdviceSound
    DoneIsTerminal
    SealExplained
PROPERTY
    LedgerForward
    OneAttempt
