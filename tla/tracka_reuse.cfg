\* Three runs in one directory, stopped anywhere, one after the other.
SPECIFICATION Spec
CONSTANTS
    a = a
    b = b
    t1 = t1
    r1 = r1
    r2 = r2
    p1 = p1
    NoAnswer = NoAnswer
    ProviderOf <- OneProvider
    NSlots = 2
    Tasks = {t1}
    TaskOf <- OneTask
    Answers = {a, b}
    Routes = {r1}
    TokenLimits = {4}
    ReviewStates = {{}, {t1}}
    Overlap = FALSE
    MaxRuns = 3
INVARIANTS
    ScoredItsOwnAnswer
    OfficialMeansReviewed
    SkippedAsAWhole
    CompleteGenerationIsScorable
SYMMETRY AnswerSymmetry
CHECK_DEADLOCK FALSE
