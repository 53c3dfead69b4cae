\* A generation with another output limit is interrupted, then scored.
SPECIFICATION Spec
CONSTANTS
    a = a
    b = b
    t1 = t1
    r1 = r1
    r2 = r2
    p1 = p1
    NoAnswer = NoAnswer
    ProviderOf <- OneProvider
    NSlots = 2
    Tasks = {t1}
    TaskOf <- OneTask
    Answers = {a}
    Routes = {r1}
    TokenLimits = {4, 16}
    ReviewStates = {{}}
    Overlap = FALSE
    MaxRuns = 3
INVARIANT
    SummaryIsOfOneCampaign
SYMMETRY AnswerSymmetry
CHECK_DEADLOCK FALSE
