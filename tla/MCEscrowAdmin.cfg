SPECIFICATION Spec
CONSTANTS
    Escrows = {e1}
    Disputes = {d1}
    Requests = {r1, r2}
    Payers = {p1}
    Sweepers = {s1}
PROPERTIES
    DisputeFreezesRelease
CHECK_DEADLOCK FALSE
