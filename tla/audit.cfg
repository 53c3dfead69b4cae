SPECIFICATION Spec
CONSTANTS
    flip = flip
    g2001 = g2001
    g2012 = g2012
    Nothing = Nothing
    Torn = Torn
    NDesigns = 2
    Mutants <- OneMutant
    Caught <- CaughtBy
    Flags <- BothFlags
    PaperFlag = g2012
    Accepted <- PassesUnder
    Seeds <- OneSeed
    Requests <- AllOrSome
    MaxPin = 2
    Budgets <- FourBudgets
CHECK_DEADLOCK FALSE
INVARIANTS
    ReportsAreOfTheirCommit
    AppendixIsEarned
    SampleIsReproduced
