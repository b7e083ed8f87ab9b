SPECIFICATION Spec
CONSTANTS
    Escrows = {e1, e2}
    Disputes = {d1, d2}
    Requests = {r1, r2, r3, r4}
    Payers = {}
    Sweepers = {s1, s2}
SYMMETRY Interchangeable
INVARIANTS
    TypeOK
    PaidOncePerReopening
    FrozenCanBeSettled
    ResolutionWasPaid
    PayoutsRecorded
PROPERTIES
    DisputeFreezesRelease
CHECK_DEADLOCK FALSE
