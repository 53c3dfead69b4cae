------------------------------ MODULE Rescore -------------------------------
(***************************************************************************)
(* The offline rescoring of the official results                           *)
(* (scripts/rescore_official.py): all summaries and manifests are read and *)
(* scored again from their stored metrics, then the files that differ are  *)
(* written one by one, and the tables of the paper last.  The reference    *)
(* metrics may be measured again meanwhile; one rescoring runs at a time.  *)
(*                                                                         *)
(* A manifest is the ratio its score comes from, 0 if its design failed a   *)
(* gate; all else that rescoring writes into it, its signature included,    *)
(* follows from that.                                                      *)
(***************************************************************************)
EXTENDS Integers, Functions

CONSTANTS
    NModels, NTasks,   \* models and tasks in the order of their files
    MaxRef,            \* bound on the versions of the reference metrics
    Ppa,               \* Ppa[v][m][t]: the ratio of that design under version v
    Cap,               \* PPA_CAP: a ratio above it scores no more
    Expected,          \* Expected[v][m]: EXPECTED_SCORES as written for version v
    Tolerance,         \* the difference between means that is accepted
    Nothing            \* no such process or directory

Models == 1 .. NModels
TaskIds == 1 .. NTasks
Versions == 1 .. MaxRef
Scores == [TaskIds -> Nat]

\* The aggregate mean of a model, times the number of its tasks.
Mean(row) == SumFunction([t \in TaskIds |-> IF row[t] <= Cap THEN row[t] ELSE Cap])

\* math.isclose(actual, expected, abs_tol=0.01), for one model.
ExpectedMean(row, m, v) == Mean(row) - Expected[v][m] \in -Tolerance .. Tolerance

ASSUME OfficialAssumption ==
    /\ NModels \in Nat \ {0} /\ NTasks \in Nat \ {0} /\ MaxRef \in Nat \ {0}
    /\ Ppa \in [Versions -> [Models -> Scores]]
    /\ Tolerance \in Nat

\* What is written for a version are the means of its scores, rounded.
ASSUME ExpectedAssumption ==
    \A v \in Versions, m \in Models : ExpectedMean(Ppa[v][m], m, v)

VARIABLES
    ref,         \* reference_metrics.json
    expected,    \* the version for which EXPECTED_SCORES was written
    manifests,   \* manifests[m][t]
    summaries,   \* summaries[m]: the score and signature of each manifest
    tables,      \* the tables of the paper
    rescore,     \* the rescoring process
    unsettled    \* history: a rescoring has begun to write and none has finished

scoring == <<ref, expected>>
official == <<manifests, summaries>>
rescoreVars == <<scoring, official, tables, rescore, unsettled>>

RescoreInit ==
    /\ ref = 1 /\ expected = 1
    /\ manifests = Ppa[1] /\ summaries = Ppa[1] /\ tables = Ppa[1]
    /\ rescore = Nothing
    /\ unsettled = FALSE

\* generate_reference_metrics.py: the reference designs are measured again.
Recalibrate ==
    /\ ref < MaxRef
    /\ ref' = ref + 1
    /\ UNCHANGED <<expected, official, tables, rescore, unsettled>>

\* The scores that the next rescoring has to give are written into the script.
ExpectScores ==
    /\ expected # ref
    /\ expected' = ref
    /\ UNCHANGED <<ref, official, tables, rescore, unsettled>>

\* `updates': the manifests of a model, then its summary, then the next model.
Summary == NTasks + 1
Manifests == Models \X TaskIds
Files == Models \X (1 .. Summary)

Before(f, g) == f[1] < g[1] \/ (f[1] = g[1] /\ f[2] < g[2])
First(files) == {f \in files : \A g \in files \ {f} : Before(f, g)}

\* A manifest differs in its own score, a summary in that of any of its samples.
Differs(file, desired) ==
    IF file[2] = Summary THEN summaries[file[1]] # desired[file[1]]
    ELSE manifests[file[1]][file[2]] # desired[file[1]][file[2]]

\* Nothing has been read.
EmptyBoard == [m \in Models |-> [t \in TaskIds |-> 0]]

StartRescore ==
    /\ rescore = Nothing
    /\ rescore' = [pc |-> "read", expected |-> expected, desired |-> EmptyBoard,
                   unread |-> Manifests, stale |-> {}]
    /\ UNCHANGED <<scoring, official, tables, unsettled>>

\* A design that has failed, at its evaluation or in an earlier rescoring, whose
\* clock its slack did not fit, has no metrics to be scored by any more.
Rescored(m, t) == IF manifests[m][t] = 0 THEN 0 ELSE Ppa[ref][m][t]

\* rescore_manifest: the reference metrics are read anew for each manifest.
RescoreManifest ==
    /\ rescore # Nothing /\ rescore.pc = "read"
    /\ \E file \in First(rescore.unread) :
         rescore' = [rescore EXCEPT !.desired[file[1]][file[2]] = Rescored(file[1], file[2]),
                                    !.unread = @ \ {file}]
    /\ UNCHANGED <<scoring, official, tables, unsettled>>

\* Mutant: the scores are not compared with the expected ones.
AnyScores(desired, v) == TRUE

\* Only the mean of each model is compared: scores under several versions pass if
\* their means are near enough.
ExpectedScores(desired, v) == \A m \in Models : ExpectedMean(desired[m], m, v)

\* _check_expected_scores, and the list of the stale files.
ListStale ==
    /\ rescore # Nothing /\ rescore.pc = "read" /\ rescore.unread = {}
    /\ rescore' = IF ExpectedScores(rescore.desired, rescore.expected)
                  THEN [rescore EXCEPT !.pc = "write",
                                       !.stale = {file \in Files : Differs(file, rescore.desired)}]
                  ELSE Nothing
    /\ UNCHANGED <<scoring, official, tables, unsettled>>

Write(file) ==
    LET m == file[1]  t == file[2]
    IN  IF t = Summary
        THEN /\ summaries' = [summaries EXCEPT ![m] = rescore.desired[m]]
             /\ UNCHANGED manifests
        ELSE /\ manifests' = [manifests EXCEPT ![m][t] = rescore.desired[m][t]]
             /\ UNCHANGED summaries

\* Each stale file is replaced atomically, in the order in which it was read.
WriteStale ==
    /\ rescore # Nothing
    /\ \E file \in First(rescore.stale) :
         /\ Write(file)
         /\ rescore' = [rescore EXCEPT !.stale = @ \ {file}]
    /\ unsettled' = TRUE
    /\ UNCHANGED <<scoring, tables>>

\* The tables are made from the files on disk.
FinishRescore ==
    /\ rescore # Nothing /\ rescore.pc = "write" /\ rescore.stale = {}
    /\ tables' = summaries
    /\ rescore' = Nothing
    /\ unsettled' = FALSE
    /\ UNCHANGED <<scoring, official>>

CrashRescore ==
    /\ rescore # Nothing
    /\ rescore' = Nothing
    /\ UNCHANGED <<scoring, official, tables, unsettled>>

RescoreNext ==
    \/ Recalibrate \/ ExpectScores
    \/ StartRescore \/ RescoreManifest \/ ListStale
    \/ WriteStale \/ FinishRescore \/ CrashRescore

-----------------------------------------------------------------------------
(* Properties *)

\* The means of a board are those expected under one version of the metrics.
MeansOfOneVersion(board) ==
    \E v \in Versions : \A m \in Models : ExpectedMean(board[m], m, v)

\* The mean of each row is, one model's perhaps under another than the next's.
RowsOfOneVersion(board) ==
    \A m \in Models : \E v \in Versions : ExpectedMean(board[m], m, v)

Rescorings ==
    [pc : {"read", "write"}, expected : Versions, desired : [Models -> Scores],
     unread : SUBSET Manifests, stale : SUBSET Files]

RescoreTypeOK ==
    /\ ref \in Versions /\ expected \in Versions
    /\ manifests \in [Models -> Scores]
    /\ summaries \in [Models -> Scores]
    /\ tables \in [Models -> Scores]
    /\ rescore # Nothing => rescore \in Rescorings
    /\ unsettled \in BOOLEAN

\* However often it was interrupted, and whatever was calibrated meanwhile, a
\* rescoring that finishes leaves the same scores in manifests, summaries and
\* tables, and the mean of every model is the one expected under one version of
\* the reference metrics, the same for all.  The scores of a model may yet come
\* from several versions, if their mean is near enough.
FinishedRescoringConverges ==
    ~unsettled =>
        /\ MeansOfOneVersion(manifests)
        /\ summaries = manifests
        /\ tables = summaries
=============================================================================
