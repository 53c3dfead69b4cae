\* Two campaigns of one model share the ledger; calls may crash and leak.
SPECIFICATION Spec
CONSTANTS
    c1 = c1
    c2 = c2
    k1 = k1
    k2 = k2
    Callers = {c1, c2}
    Keys = {k1}
    KeyOf <- SameKey
    Reservations = {1, 2}
    Cap = 3
    MaxAttempts = 2
    MaxCalls = 3
    Overrun = 0
    LostBills = FALSE
INVARIANTS
    TypeOK
    CapRespected
    ReservationsBacked
    RecordedSpendMatchesBilled
PROPERTY
    SettledIsFinal
SYMMETRY CallerSymmetry
CHECK_DEADLOCK FALSE
