SPECIFICATION Spec
CONSTANTS
    t1 = t1
    t2 = t2
    data = data
    corner = corner
    byData = byData
    byCorner = byCorner
    early = early
    late = late
    Nothing = Nothing
    Tasks <- BothTasks
    NTasks = 2
    TaskAt <- InOrder
    Smoke <- SmokeTests
    Deep <- DeepTests
    ReviewLines <- TwoReviews
    TrackA <- OnlyFirst
    NTrackA = 1
    Mutants <- SomeMutants
    Catches <- CaughtBy
    MaxEdits <- FewEdits
    MaxMounts = 2
    MaxSummaries = 1
INVARIANTS
    NoHiddenTestLost
    FinishedExtractionIsComplete
    KillsAreCaused
    FreshRowIsTrue
PROPERTIES
    UnusableTestsNeverKill
