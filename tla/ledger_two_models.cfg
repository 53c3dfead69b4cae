\* Two campaigns of different models whose worst cases are equal; a bill may
\* exceed its reservation by one unit.
SPECIFICATION FairSpec
CONSTANTS
    c1 = c1
    c2 = c2
    k1 = k1
    k2 = k2
    Callers = {c1, c2}
    Keys = {k1, k2}
    KeyOf <- TwoKeys
    Reservations = {1}
    Cap = 3
    MaxAttempts = 2
    MaxCalls = 2
    Overrun = 1
    LostBills = TRUE
INVARIANTS
    CapRespected
    UsageRecorded
    BilledCovered
    SettlementFindsReservation
PROPERTY
    EveryCallEnds
CHECK_DEADLOCK FALSE
