SPECIFICATION Spec
CONSTANTS
    Nothing = Nothing
    NModels = 2
    NTasks = 2
    Ppa <- SomeRatios
    Cap = 50
    Expected <- SomeMeans
    Tolerance = 1
    MaxRef = 3
    MaxCrashes = 2
CHECK_DEADLOCK FALSE
INVARIANTS
    FinishedRescoringConverges
    LiveSiteIsWhole
    SiteSurvivesOneCrash
