\* Two temperatures of one provider; generation and scoring overlap.
SPECIFICATION Spec
CONSTANTS
    a = a
    b = b
    t1 = t1
    r1 = r1
    r2 = r2
    p1 = p1
    NoAnswer = NoAnswer
    ProviderOf <- OneProvider
    NSlots = 2
    Tasks = {t1}
    TaskOf <- OneTask
    Answers = {a}
    Routes = {r1, r2}
    TokenLimits = {4}
    ReviewStates = {{}, {t1}}
    Overlap = TRUE
    MaxRuns = 3
INVARIANTS
    PublishedIsUniform
SYMMETRY AnswerSymmetry
CHECK_DEADLOCK FALSE
