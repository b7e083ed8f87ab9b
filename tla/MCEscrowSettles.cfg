SPECIFICATION FairSpec
CONSTANTS
    Escrows = {e1, e2}
    Disputes = {d1}
    Requests = {r1, r2}
    Payers = {p1}
    Sweepers = {s1}
INVARIANTS
    AnnouncedMeansPaid
PROPERTIES
    HeldIsSettled
CHECK_DEADLOCK FALSE
