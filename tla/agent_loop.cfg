SPECIFICATION FairSpec
CONSTANTS
    t1 = t1
    t2 = t2
    good = good
    cheat = cheat
    Nothing = Nothing
    Designs <- BothDesigns
    Tasks <- BothTasks
    TaskAt <- OneAfterTheOther
    NTasks = 2
    Preserving <- Preserves
    Sound <- SoundDesigns
    Shipped <- ShippedDesign
    ReviewStates <- Reviews
    MaxChanges = 1
    Budget = 2
    ToolBudget = 2
    Estimates = {1}
    MaxPrompt = 2
    MaxOutput = 2
    Attempts = 2
    MaxRuns = 2
INVARIANTS
    ObjectiveMeansEveryGate
    RulesAgree
    TaskStaysNearBudget
    FlagTellsTheLimit
    RowsAccountForAllTokens
    SummaryTellsTheCampaign
PROPERTY
    CampaignEnds
CHECK_DEADLOCK FALSE
