\* Two processes update the spend ledger under its lock, a third reads it.
SPECIFICATION FairSpec
CONSTANTS
    w1 = w1
    w2 = w2
    r1 = r1
    NoWriter = NoWriter
    Writers = {w1, w2}
    Readers = {r1}
    ReadModifyWrite = TRUE
    MaxFiles = 3
INVARIANTS
    NeverPartial
    TempsRemoved
PROPERTY
    ImplementsStore
    LockReleased
