SPECIFICATION Spec
INVARIANTS
    ChecksHold
    DispositionTruthful
    BaselineGuarantee
PROPERTY
    OneAttempt
