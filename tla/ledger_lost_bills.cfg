\* A provider may bill an answer that never arrives.
SPECIFICATION Spec
CONSTANTS
    c1 = c1
    c2 = c2
    k1 = k1
    k2 = k2
    Callers = {c1, c2}
    Keys = {k1}
    KeyOf <- SameKey
    Reservations = {1}
    Cap = 2
    MaxAttempts = 2
    MaxCalls = 1
    Overrun = 0
    LostBills = TRUE
INVARIANT
    RetrySequenceMatchesBilled
CHECK_DEADLOCK FALSE
