\* Runs and rescorings with files replaced under way.
SPECIFICATION Spec
CONSTANTS
    good = good
    cheat = cheat
    tight = tight
    slow = slow
    bare = bare
    huge = huge
    h1 = h1
    Nothing = Nothing
    Designs = {good, cheat, tight, slow, bare, huge}
    Sound <- MCSound
    Report <- MCReport
    Revisions = {h1}
    References <- MCReferences
    Clock = 2
    MaxRuns = 2
    MaxChanges = 1
INVARIANTS
    ScoreMeansEveryGate
    NoScoreWithoutAGate
    ScoresSettled
CHECK_DEADLOCK FALSE
