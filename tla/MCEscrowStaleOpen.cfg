SPECIFICATION Spec
CONSTANTS
    Escrows = {e1}
    Disputes = {d1}
    Requests = {r1, r2}
    Payers = {}
    Sweepers = {s1}
INVARIANTS
    NeverPaidTwice
CHECK_DEADLOCK FALSE
