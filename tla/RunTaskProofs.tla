--------------------------- MODULE RunTaskProofs ----------------------------
(* Theorems about RunTask, for every set of designs, tests and references. *)
EXTENDS RunTask, TLAPS

USE GateAssumption, ReportAssumption, ReferenceAssumption, NothingAssumption,
    BoundAssumption

LEMMA NoMetricsType ==
    NoMetrics \in Metrics
BY DEF NoMetrics, Metrics

\* A cubed ppa ratio is a pair of integers, and so is the score made of it.
LEMMA PpaType ==
    ASSUME NEW ref \in References, NEW clock \in Int,
           NEW m \in [area : Int, wns : Int, power : Int]
    PROVE  Ppa(ref, clock, m) \in Int \X Int
<1>1. ref.area * ref.delay * ref.power \in Int
  OBVIOUS
<1>2. m.area * (clock - m.wns) * m.power \in Int
  OBVIOUS
<1> QED BY <1>1, <1>2 DEF Ppa

LEMMA TaskScoreType ==
    ASSUME NEW ppa \in Int \X Int
    PROVE  TaskScore(ppa) \in Int \X Int
BY DEF TaskScore, Cap

LEMMA LegacyType == ASSUME NEW m \in LegacyManifests PROVE m \in Manifest
<1>1. PICK d \in Designs : m.metrics = Report[d]
  BY DEF LegacyManifests
<1>2. m.stages \in [Stages -> Status]
  BY DEF LegacyManifests, Status
<1>3. m.ppa \in Int \X Int /\ m.score \in Int \X Int
  BY DEF LegacyManifests
<1>4. m = [stages |-> m.stages, metrics |-> m.metrics, ppa |-> m.ppa,
           score |-> m.score, submission |-> Nothing, hidden |-> Nothing,
           judged |-> Nothing, official |-> TRUE, scoredWith |-> Nothing,
           by |-> "legacy"]
  BY DEF LegacyManifests
<1>5. m.metrics \in Metrics
  BY <1>1 DEF Metrics
<1>6. [stages |-> m.stages, metrics |-> m.metrics, ppa |-> m.ppa,
       score |-> m.score, submission |-> Nothing, hidden |-> Nothing,
       judged |-> Nothing, official |-> TRUE, scoredWith |-> Nothing,
       by |-> "legacy"] \in Manifest
  BY <1>2, <1>3, <1>5, Zenon DEF Manifest
<1> QED BY <1>4, <1>6

LEMMA NewRunType ==
    ASSUME NEW official \in BOOLEAN, NEW hashed \in Designs \cup {Nothing}
    PROVE  NewRun(official, hashed) \in Run
<1>1. AllFail \in [Stages -> Status] /\ Zero \in Int \X Int
  BY DEF AllFail, Status, Zero
<1> QED BY <1>1, NoMetricsType DEF NewRun, Run

LEMMA NoRunType == NoRun \in Run
BY NewRunType DEF NoRun

LEMMA TypeInit == Init => TypeOK
<1> SUFFICES ASSUME Init PROVE TypeOK
  OBVIOUS
<1>1. out \in Manifest \cup {Nothing}
  BY LegacyType DEF Init
<1>2. run \in Run
  BY NoRunType DEF Init
<1> QED BY <1>1, <1>2 DEF Init, TypeOK


LEMMA SetType ==
    ASSUME run \in Run, NEW s \in Stages, NEW status \in Status
    PROVE  Set(s, status) \in [Stages -> Status]
BY DEF Set, Run

-----------------------------------------------------------------------------
(* The inductive invariant. *)

PassedStages == {s \in Physical : run.stages[s] = "pass"}

\* Where run_task is tells which stages are still open.
Staged ==
    /\ pc \in {"lint", "prepare", "sim", "formal", "flows"} => run.design \in Designs
    /\ pc = "sim" => (run.tests \in Revisions <=> HiddenDue)
                     /\ run.tests \in Revisions \cup {Public}
    /\ pc \in {"idle", "refused", "validate", "copy"} => run.stages = AllFail
    /\ pc \notin {"score", "write"} => PassedStages = {}

\* What a stage says of the design, and the metrics and the score it led to.
Earned ==
    /\ \A s \in Stages \ {2} : run.stages[s] # "skip"
    /\ run.stages[0] = "pass" => run.design \in Designs \cap Sound["lint"]
    /\ run.stages[1] = "pass" =>
        /\ run.design \in Sound[Public]
        /\ HiddenDue => run.hidden \in Revisions /\ run.design \in Sound[run.hidden]
    /\ run.stages[2] = "pass" => run.design \in Sound["formal"]
    /\ run.stages[2] = "skip" => ~task.formal
    /\ PassedStages # {} => /\ run.design \in Designs
                            /\ PassedStages \subseteq FlowPasses(Report[run.design])
    /\ run.metrics = Reported(Report[run.design], PassedStages)

\* The score is computed once, from the metrics and one reading of the reference.
Scored ==
    IF pc = "write" /\ RunGatesPassed
    THEN run.reference \in References /\ run.ppa = Ppa(run.reference, Clock, run.metrics)
    ELSE run.reference = Nothing /\ run.ppa = Zero

\* The clock the score of a manifest was computed with.
ClockOf(m) == IF m.by = "run" THEN Clock ELSE m.scoredWith.clock

SettledManifest(m) ==
    IF GatesPassed(m)
    THEN /\ m.scoredWith \in References
         /\ Measurable(ClockOf(m), m.metrics)
         /\ m.ppa = Ppa(m.scoredWith, ClockOf(m), m.metrics)
         /\ m.score = TaskScore(m.ppa)
    ELSE m.ppa = Zero /\ m.score = Zero

OutInv ==
    out # Nothing =>
        /\ SchemaAccepts(out)
        /\ out.by = "legacy" => out.judged = Nothing
        /\ out.by # "legacy" => SettledManifest(out)
        /\ out.judged # Nothing /\ GatesPassed(out) => Passed(out, out.judged)

Inv == TypeOK /\ Staged /\ Earned /\ Scored /\ OutInv /\ pc # "refused"

\* When every physical stage has passed, all metrics are there and usable.
LEMMA RunMetrics ==
    ASSUME Inv, RunGatesPassed
    PROVE  /\ run.design \in Designs
           /\ run.metrics = Report[run.design]
           /\ run.metrics \in [area : Int, wns : Int, power : Int]
           /\ Measurable(Clock, run.metrics)
           /\ run.metrics.wns >= 0
<1>1. PassedStages = Physical
  BY DEF RunGatesPassed, PassedStages
<1>2. run.design \in Designs /\ Physical \subseteq FlowPasses(Report[run.design])
  BY <1>1 DEF Inv, Earned, Physical
<1>3. run.metrics = Report[run.design]
  BY <1>1, <1>2 DEF Inv, Earned, Reported, Physical
<1> QED BY <1>2, <1>3 DEF FlowPasses, Measurable, Physical

\* The schema asks for the metrics of a manifest that passed everything.
LEMMA ManifestMetrics ==
    ASSUME NEW m \in Manifest, SchemaAccepts(m), GatesPassed(m)
    PROVE  m.metrics \in [area : Int, wns : Int, power : Int]
BY DEF SchemaAccepts, GatesPassed, ppa_gates_passed, MetricOf, Physical, Manifest,
       Metrics

LEMMA ManifestOfType == ASSUME Inv PROVE ManifestOf(run) \in Manifest
<1>1. run \in Run /\ task.registered \in BOOLEAN
  BY DEF Inv, TypeOK
<1>2. TaskScore(run.ppa) \in Int \X Int
  BY <1>1, TaskScoreType DEF Run
<1>3. (run.official /\ task.registered) \in BOOLEAN
  OBVIOUS
<1>4. /\ run.stages \in [Stages -> Status] /\ run.metrics \in Metrics
      /\ run.ppa \in Int \X Int /\ run.submission \in Designs \cup {Nothing}
      /\ run.hidden \in Revisions \cup {Nothing}
      /\ run.design \in Designs \cup {Nothing}
      /\ run.reference \in References \cup {Nothing}
  BY <1>1 DEF Run
<1> QED BY <1>2, <1>3, <1>4, Zenon DEF ManifestOf, Manifest

LEMMA RescoredType ==
    ASSUME NEW m \in Manifest, SchemaAccepts(m), NEW ref \in References \cup {Nothing},
           GatesPassed(m) => ref # Nothing
    PROVE  [Rescored(m, ref) EXCEPT
               !.scoredWith = IF GatesPassed(m) THEN ref ELSE Nothing,
               !.by = "rescore"] \in Manifest
<1>1. Zero \in Int \X Int /\ NoMetrics \in Metrics
  BY NoMetricsType DEF Zero
<1>2. GatesPassed(m) => /\ Ppa(ref, ref.clock, m.metrics) \in Int \X Int
                        /\ TaskScore(Ppa(ref, ref.clock, m.metrics)) \in Int \X Int
  BY ManifestMetrics, PpaType, TaskScoreType
<1>3. [s \in Stages |-> IF s \in Physical THEN "fail" ELSE m.stages[s]]
        \in [Stages -> Status]
  BY DEF Manifest, Status
<1>4. Rescored(m, ref) \in Manifest
  BY <1>1, <1>2, <1>3 DEF Rescored, Manifest
<1>5. (IF GatesPassed(m) THEN ref ELSE Nothing) \in References \cup {Nothing}
  OBVIOUS
<1>6. \A n \in Manifest, r \in References \cup {Nothing} :
        [n EXCEPT !.scoredWith = r, !.by = "rescore"] \in Manifest
  BY DEF Manifest
<1> QED BY <1>4, <1>5, <1>6

LEMMA TypeNext == Inv /\ [Next]_vars => TypeOK'
<1> SUFFICES ASSUME Inv, [Next]_vars PROVE TypeOK'
  OBVIOUS
<1> USE DEF TypeOK, Inv
<1>1. CASE StartRun
  <2>1. run' \in Run
    BY <1>1, NewRunType DEF StartRun
  <2> QED BY <1>1, <2>1 DEF StartRun
<1>2. CASE Validate
  BY <1>2 DEF Validate, Continue
<1>3. CASE CopySubmission
  <2>1. run' \in Run
    BY <1>3 DEF CopySubmission, Run
  <2> QED BY <1>3, <2>1 DEF CopySubmission, Continue
<1>4. CASE Lint
  <2>1. run' \in Run
    BY <1>4, SetType DEF Lint, Run, Stages, Status
  <2> QED BY <1>4, <2>1 DEF Lint, Continue
<1>5. CASE PrepareSimTests
  <2>1. run' \in Run
    BY <1>5 DEF PrepareSimTests, Run
  <2> QED BY <1>5, <2>1 DEF PrepareSimTests, Continue
<1>6. CASE Sim
  <2>1. Set(1, "pass") \in [Stages -> Status]
    BY SetType DEF Stages, Status
  <2>2. pc = "sim" /\ HiddenDue => run.tests \in Revisions
    BY DEF Staged
  <2>3. /\ (IF HiddenDue THEN run.tests ELSE Nothing) \in Revisions \cup {Nothing}
        /\ run \in Run
    BY <1>6, <2>2 DEF Sim
  <2>4. [run EXCEPT !.stages = Set(1, "pass"),
                    !.hidden = IF HiddenDue THEN run.tests ELSE Nothing] \in Run
    BY <2>1, <2>3 DEF Run
  <2>5. run' \in Run
    BY <1>6, <2>4 DEF Sim
  <2> QED BY <1>6, <2>5 DEF Sim, Continue
<1>7. CASE Formal
  <2>1. run' \in Run
    BY <1>7, SetType DEF Formal, Run, Stages, Status
  <2> QED BY <1>7, <2>1 DEF Formal, Continue
<1>8. CASE PpaFlows
  <2>1. run.design \in Designs
    BY <1>8 DEF PpaFlows, Staged
  <2>2. \A passed : Reported(Report[run.design], passed) \in Metrics
    BY <2>1 DEF Reported, Metrics
  <2>3. \A passed : [s \in Stages |-> IF s \in passed THEN "pass" ELSE run.stages[s]]
                        \in [Stages -> Status]
    BY DEF Run, Status
  <2>4. \A passed : [run EXCEPT
            !.stages = [s \in Stages |-> IF s \in passed THEN "pass" ELSE @[s]],
            !.metrics = Reported(Report[run.design], passed)] \in Run
    BY <2>2, <2>3 DEF Run
  <2>5. CASE UNCHANGED run
    BY <1>8, <2>5 DEF PpaFlows, Continue
  <2>6. CASE run' = [run EXCEPT
            !.stages = [s \in Stages |-> IF s \in FlowPasses(Report[run.design])
                                         THEN "pass" ELSE @[s]],
            !.metrics = Reported(Report[run.design],
                                 FlowPasses(Report[run.design]))]
    <3>1. run' \in Run
      BY <2>4, <2>6
    <3> QED BY <1>8, <3>1 DEF PpaFlows, Continue
  <2> QED BY <1>8, <2>5, <2>6 DEF PpaFlows
<1>9. CASE Score
  <2>1. RunGatesPassed => Ppa(reference, Clock, run.metrics) \in Int \X Int
    BY <1>9, RunMetrics, PpaType DEF Score
  <2>2. run' \in Run
    BY <1>9, <2>1 DEF Score, Run
  <2> QED BY <1>9, <2>2 DEF Score, Continue
<1>10. CASE WriteManifest
  <2>1. ManifestOf(run) \in Manifest
    BY ManifestOfType
  <2> QED BY <1>10, <2>1, NoRunType DEF WriteManifest
<1>11. CASE Abort
  BY <1>11, NoRunType DEF Abort, Continue
<1>12. CASE Rescore
  <2>1. out' \in Manifest
    BY <1>12, RescoredType DEF Rescore, OutInv
  <2> QED BY <1>12, <2>1 DEF Rescore
<1>13. CASE ChangeFile
  BY <1>13 DEF ChangeFile
<1>14. CASE UNCHANGED vars
  BY <1>14 DEF vars
<1> QED BY <1>1, <1>2, <1>3, <1>4, <1>5, <1>6, <1>7, <1>8, <1>9, <1>10, <1>11,
           <1>12, <1>13, <1>14 DEF Next

-----------------------------------------------------------------------------
(* The steps of run_task. *)

RunInv == Staged /\ Earned /\ Scored

\* Nothing has been earned by a run that has not started the tools.
LEMMA NothingEarned ==
    ASSUME run.stages = AllFail, run.metrics = NoMetrics, run.ppa = Zero,
           run.reference = Nothing,
           pc \notin {"lint", "prepare", "sim", "formal", "flows"}
    PROVE  RunInv
<1>1. PassedStages = {}
  BY DEF PassedStages, AllFail, Physical, Stages
<1>2. ~RunGatesPassed
  BY DEF RunGatesPassed, AllFail, Physical, Stages
<1>3. run.metrics = Reported(Report[run.design], PassedStages)
  BY <1>1 DEF Reported, NoMetrics
<1> QED BY <1>1, <1>2, <1>3 DEF RunInv, Staged, Earned, Scored, AllFail, Stages

LEMMA NewRunEarnsNothing ==
    ASSUME NEW official, NEW hashed
    PROVE  /\ NewRun(official, hashed).stages = AllFail
           /\ NewRun(official, hashed).metrics = NoMetrics
           /\ NewRun(official, hashed).ppa = Zero
           /\ NewRun(official, hashed).reference = Nothing
BY DEF NewRun

\* The same, one step later.
LEMMA NothingEarnedNext ==
    ASSUME run'.stages = AllFail, run'.metrics = NoMetrics, run'.ppa = Zero,
           run'.reference = Nothing,
           pc' \notin {"lint", "prepare", "sim", "formal", "flows"}
    PROVE  RunInv'
<1>1. PassedStages' = {}
  BY DEF PassedStages, AllFail, Physical, Stages
<1>2. ~RunGatesPassed'
  BY DEF RunGatesPassed, AllFail, Physical, Stages
<1>3. run'.metrics = Reported(Report[run'.design], PassedStages')
  BY <1>1 DEF Reported, NoMetrics
<1> QED BY <1>1, <1>2, <1>3 DEF RunInv, Staged, Earned, Scored, AllFail, Stages

LEMMA NewRunStep ==
    ASSUME pc' \in {"idle", "validate"},
           NEW official, NEW hashed, run' = NewRun(official, hashed)
    PROVE  RunInv'
BY NewRunEarnsNothing, NothingEarnedNext

\* The run may move on without having passed the stage.
LEMMA StageFailed ==
    ASSUME Inv, UNCHANGED <<task, run>>, pc # "write", pc' = "score"
    PROVE  RunInv'
BY DEF Inv, RunInv, Staged, Earned, Scored, PassedStages, RunGatesPassed, HiddenDue,
       Reported, FlowPasses

\* Before the flows, no metrics are recorded.
LEMMA NoMetricsYet ==
    ASSUME Inv, pc \notin {"score", "write"}
    PROVE  /\ PassedStages = {}
           /\ run.metrics = NoMetrics
           /\ run.ppa = Zero /\ run.reference = Nothing
<1>1. PassedStages = {}
  BY DEF Inv, Staged
<1> QED BY <1>1 DEF Inv, Earned, Scored, Reported, NoMetrics

\* A correctness stage that passes or is skipped leaves the rest as it is.
LEMMA StagePassed ==
    ASSUME Inv, NEW s \in Correctness, NEW status \in {"pass", "skip"},
           run'.stages = Set(s, status), pc \notin {"score", "write"},
           run'.metrics = run.metrics
    PROVE  /\ run'.stages[s] = status
           /\ \A t \in Stages \ {s} : run'.stages[t] = run.stages[t]
           /\ PassedStages' = {}
           /\ ~RunGatesPassed'
           /\ run'.metrics = Reported(Report[run'.design], PassedStages')
<1>1. run.stages \in [Stages -> Status]
  BY DEF Inv, TypeOK, Run
<1>2. /\ run'.stages[s] = status
      /\ \A t \in Stages \ {s} : run'.stages[t] = run.stages[t]
  BY <1>1 DEF Set, Correctness, Stages
<1>3. PassedStages' = {}
  BY <1>2, NoMetricsYet DEF PassedStages, Physical, Correctness, Stages
<1>4. ~RunGatesPassed'
  BY <1>3 DEF RunGatesPassed, PassedStages, Physical
<1>5. run'.metrics = Reported(Report[run'.design], PassedStages')
  BY <1>3, NoMetricsYet DEF Reported, NoMetrics
<1> QED BY <1>2, <1>3, <1>4, <1>5

LEMMA CopyStep == ASSUME Inv, CopySubmission PROVE RunInv'
<1>1. /\ run'.stages = AllFail /\ run'.metrics = NoMetrics /\ run'.ppa = Zero
      /\ run'.reference = Nothing /\ run'.design \in Designs /\ pc' = "lint"
  BY NoMetricsYet DEF CopySubmission, Continue, Inv, Staged, TypeOK, Run
<1>2. PassedStages' = {} /\ ~RunGatesPassed'
  BY <1>1 DEF PassedStages, RunGatesPassed, AllFail, Physical, Stages
<1>3. run'.metrics = Reported(Report[run'.design], PassedStages')
  BY <1>1, <1>2 DEF Reported, NoMetrics
<1> QED BY <1>1, <1>2, <1>3 DEF RunInv, Staged, Earned, Scored, AllFail, Stages

LEMMA LintStep == ASSUME Inv, Lint PROVE RunInv'
<1>1. CASE UNCHANGED run /\ Continue("score")
  BY <1>1, StageFailed DEF Lint, Continue
<1>2. CASE /\ run.design \in Sound["lint"]
           /\ run' = [run EXCEPT !.stages = Set(0, "pass")]
           /\ Continue("prepare")
  <2>1. /\ run'.stages = Set(0, "pass") /\ run'.metrics = run.metrics
        /\ run'.design = run.design /\ run'.ppa = run.ppa
        /\ run'.reference = run.reference /\ run'.hidden = run.hidden
        /\ pc = "lint" /\ pc' = "prepare" /\ UNCHANGED task /\ run.design \in Designs
    BY <1>2 DEF Lint, Continue, Inv, TypeOK, Run, Staged
  <2>2. /\ run'.stages[0] = "pass"
        /\ \A t \in Stages \ {0} : run'.stages[t] = run.stages[t]
        /\ PassedStages' = {} /\ ~RunGatesPassed'
        /\ run'.metrics = Reported(Report[run'.design], PassedStages')
    BY <2>1, StagePassed DEF Correctness
  <2>3. Staged' /\ Scored'
    BY <2>1, <2>2, NoMetricsYet DEF Staged, Scored
  <2>4. Earned'
    BY <1>2, <2>1, <2>2 DEF Inv, Earned, Stages, HiddenDue
  <2> QED BY <2>3, <2>4 DEF RunInv
<1> QED BY <1>1, <1>2 DEF Lint

LEMMA PrepareStep == ASSUME Inv, PrepareSimTests PROVE RunInv'
<1>1. CASE UNCHANGED run /\ Continue("score")
  BY <1>1, StageFailed DEF PrepareSimTests, Continue
<1>2. CASE /\ run' = [run EXCEPT !.tests = IF HiddenDue THEN hidden ELSE Public]
           /\ HiddenDue => hidden \in Revisions
           /\ Continue("sim")
  <2>1. /\ run'.stages = run.stages /\ run'.metrics = run.metrics
        /\ run'.design = run.design /\ run'.ppa = run.ppa
        /\ run'.reference = run.reference /\ run'.hidden = run.hidden
        /\ run'.official = run.official
        /\ run'.tests = IF HiddenDue THEN hidden ELSE Public
        /\ pc = "prepare" /\ pc' = "sim" /\ UNCHANGED task /\ run.design \in Designs
    BY <1>2 DEF PrepareSimTests, Continue, Inv, TypeOK, Run, Staged
  <2>2. PassedStages' = PassedStages /\ (HiddenDue' <=> HiddenDue)
    BY <2>1 DEF PassedStages, HiddenDue
  <2>3. Staged' /\ Scored'
    BY <1>2, <2>1, <2>2, NoMetricsYet DEF Staged, Scored
  <2>4. Earned'
    BY <2>1, <2>2 DEF Inv, Earned
  <2> QED BY <2>3, <2>4 DEF RunInv
<1> QED BY <1>1, <1>2 DEF PrepareSimTests

LEMMA SimStep == ASSUME Inv, Sim PROVE RunInv'
<1>1. CASE UNCHANGED run /\ Continue("score")
  BY <1>1, StageFailed DEF Sim, Continue
<1>2. CASE /\ Simulates(run.design)
           /\ run' = [run EXCEPT !.stages = Set(1, "pass"),
                                 !.hidden = IF HiddenDue THEN run.tests ELSE Nothing]
           /\ Continue("formal")
  <2>1. /\ run'.stages = Set(1, "pass") /\ run'.metrics = run.metrics
        /\ run'.design = run.design /\ run'.ppa = run.ppa
        /\ run'.reference = run.reference /\ run'.official = run.official
        /\ run'.hidden = IF HiddenDue THEN run.tests ELSE Nothing
        /\ pc = "sim" /\ pc' = "formal" /\ UNCHANGED task /\ run.design \in Designs
    BY <1>2 DEF Sim, Continue, Inv, TypeOK, Run, Staged
  <2>2. /\ run'.stages[1] = "pass"
        /\ \A t \in Stages \ {1} : run'.stages[t] = run.stages[t]
        /\ PassedStages' = {} /\ ~RunGatesPassed'
        /\ run'.metrics = Reported(Report[run'.design], PassedStages')
    BY <2>1, StagePassed DEF Correctness
  <2>3. (HiddenDue' <=> HiddenDue) /\ (HiddenDue => run.tests \in Revisions)
    BY <2>1 DEF HiddenDue, Inv, Staged
  <2>4. Staged' /\ Scored'
    BY <2>1, <2>2, NoMetricsYet DEF Staged, Scored
  <2>5. Earned'
    BY <1>2, <2>1, <2>2, <2>3 DEF Inv, Earned, Stages, Simulates
  <2> QED BY <2>4, <2>5 DEF RunInv
<1> QED BY <1>1, <1>2 DEF Sim

LEMMA FormalStep == ASSUME Inv, Formal PROVE RunInv'
<1>1. CASE UNCHANGED run /\ Continue("score")
  BY <1>1, StageFailed DEF Formal, Continue
<1>2. ASSUME NEW status \in {"pass", "skip"},
             run' = [run EXCEPT !.stages = Set(2, status)], Continue("flows"),
             status = "skip" => ~task.formal,
             status = "pass" => run.design \in Sound["formal"]
      PROVE  RunInv'
  <2>1. /\ run'.stages = Set(2, status) /\ run'.metrics = run.metrics
        /\ run'.design = run.design /\ run'.ppa = run.ppa
        /\ run'.reference = run.reference /\ run'.hidden = run.hidden
        /\ run'.official = run.official
        /\ pc = "formal" /\ pc' = "flows" /\ UNCHANGED task /\ run.design \in Designs
    BY <1>2 DEF Formal, Continue, Inv, TypeOK, Run, Staged
  <2>2. /\ run'.stages[2] = status
        /\ \A t \in Stages \ {2} : run'.stages[t] = run.stages[t]
        /\ PassedStages' = {} /\ ~RunGatesPassed'
        /\ run'.metrics = Reported(Report[run'.design], PassedStages')
    BY <2>1, StagePassed DEF Correctness
  <2>3. Staged' /\ Scored'
    BY <2>1, <2>2, NoMetricsYet DEF Staged, Scored
  <2>4. Earned'
    BY <1>2, <2>1, <2>2 DEF Inv, Earned, Stages, HiddenDue
  <2> QED BY <2>3, <2>4 DEF RunInv
<1> QED BY <1>1, <1>2 DEF Formal

LEMMA FlowsStep == ASSUME Inv, PpaFlows PROVE RunInv'
<1> DEFINE passed == FlowPasses(Report[run.design])
<1>1. CASE UNCHANGED run
  BY <1>1, StageFailed DEF PpaFlows, Continue
<1>2. CASE run' = [run EXCEPT
            !.stages = [s \in Stages |-> IF s \in passed THEN "pass" ELSE @[s]],
            !.metrics = Reported(Report[run.design], passed)]
  <2>1. /\ run'.stages = [s \in Stages |-> IF s \in passed THEN "pass" ELSE run.stages[s]]
        /\ run'.metrics = Reported(Report[run.design], passed)
        /\ run'.design = run.design /\ run'.ppa = run.ppa
        /\ run'.reference = run.reference /\ run'.hidden = run.hidden
        /\ run'.official = run.official
        /\ pc = "flows" /\ pc' = "score" /\ UNCHANGED task /\ run.design \in Designs
    BY <1>2 DEF PpaFlows, Continue, Inv, TypeOK, Run, Staged
  <2>2. passed \subseteq Physical
    BY DEF FlowPasses
  <2> HIDE DEF passed
  <2>3. /\ \A t \in Stages \ Physical : run'.stages[t] = run.stages[t]
        /\ \A t \in Physical : run'.stages[t] \in {"pass", run.stages[t]}
        /\ PassedStages' = passed
    <3>1. \A t \in Physical : run.stages[t] # "pass"
      BY <2>1, NoMetricsYet DEF PassedStages
    <3>2. \A t \in Stages :
             run'.stages[t] = IF t \in passed THEN "pass" ELSE run.stages[t]
      BY <2>1
    <3>3. Physical \subseteq Stages
      BY DEF Physical, Stages
    <3>4. \A t \in Physical : (run'.stages[t] = "pass") <=> t \in passed
      BY <3>1, <3>2, <3>3
    <3>5. PassedStages' = passed
      BY <2>2, <3>4 DEF PassedStages
    <3> QED BY <2>2, <3>2, <3>3, <3>5
  <2>4. Staged' /\ Scored'
    BY <2>1, NoMetricsYet DEF Staged, Scored
  <2>5. Earned'
    <3>1. \A t \in Stages : run'.stages[t] = "pass" \/ run'.stages[t] = run.stages[t]
      BY <2>3
    <3>2. \A t \in {0, 1, 2} : run'.stages[t] = run.stages[t]
      BY <2>3 DEF Stages, Physical
    <3>3. PassedStages' \subseteq FlowPasses(Report[run'.design])
      BY <2>1, <2>3 DEF passed
    <3>4. run'.metrics = Reported(Report[run'.design], PassedStages')
      BY <2>1, <2>3
    <3>5. HiddenDue' <=> HiddenDue
      BY <2>1 DEF HiddenDue
    <3> QED BY <2>1, <3>1, <3>2, <3>3, <3>4, <3>5 DEF Inv, Earned
  <2> QED BY <2>4, <2>5 DEF RunInv
<1> QED BY <1>1, <1>2 DEF PpaFlows

LEMMA ScoreStep == ASSUME Inv, Score PROVE RunInv'
<1>1. /\ run'.stages = run.stages /\ run'.metrics = run.metrics
      /\ run'.design = run.design /\ run'.hidden = run.hidden
      /\ run'.official = run.official
      /\ pc = "score" /\ pc' = "write" /\ UNCHANGED task
  BY DEF Score, Continue, Inv, TypeOK, Run
<1>2. /\ PassedStages' = PassedStages /\ (HiddenDue' <=> HiddenDue)
      /\ RunGatesPassed' <=> RunGatesPassed
  BY <1>1 DEF PassedStages, HiddenDue, RunGatesPassed
<1>3. Staged' /\ Earned'
  BY <1>1, <1>2 DEF Inv, Staged, Earned
<1>4. CASE RunGatesPassed
  <2>1. /\ run'.reference = reference /\ reference \in References
        /\ run'.ppa = Ppa(reference, Clock, run.metrics)
    BY <1>4 DEF Score, Inv, TypeOK, Run
  <2> QED BY <1>1, <1>2, <1>3, <1>4, <2>1 DEF RunInv, Scored
<1>5. CASE ~RunGatesPassed
  BY <1>1, <1>2, <1>3, <1>5 DEF RunInv, Score, Scored, Inv
<1> QED BY <1>4, <1>5

-----------------------------------------------------------------------------
(* The manifests that are written. *)

LEMMA ZeroScore == Zero[1] = 0 /\ TaskScore(Zero) = Zero
BY DEF Zero, TaskScore

\* A record of what the run has measured, with the score its gates allow.
LEMMA RunManifest ==
    ASSUME Inv, pc = "write"
    PROVE  LET m == ManifestOf(run)
           IN /\ SchemaAccepts(m)
              /\ GatesPassed(m) <=> RunGatesPassed
              /\ SettledManifest(m)
              /\ GatesPassed(m) => Passed(m, m.judged)
<1> DEFINE m == ManifestOf(run)
<1>1. /\ m.stages = run.stages /\ m.metrics = run.metrics /\ m.ppa = run.ppa
      /\ m.score = TaskScore(run.ppa) /\ m.hidden = run.hidden
      /\ m.judged = run.design /\ m.official = (run.official /\ task.registered)
      /\ m.scoredWith = run.reference /\ m.by = "run"
  BY DEF ManifestOf
<1> HIDE DEF m
<1>2. run.stages \in [Stages -> Status]
  BY DEF Inv, TypeOK, Run
<1>3. GatesPassed(m) <=> RunGatesPassed
  BY <1>1, <1>2 DEF GatesPassed, correctness_gates_passed, ppa_gates_passed,
     RunGatesPassed, Inv, Earned, Correctness, Physical, Stages, Status
<1>4. ~RunGatesPassed => m.ppa = Zero /\ m.score = Zero
  BY <1>1, ZeroScore DEF Inv, Scored
<1>5. RunGatesPassed =>
        /\ run.reference \in References
        /\ m.ppa = Ppa(run.reference, Clock, m.metrics)
        /\ m.score = TaskScore(m.ppa)
        /\ Measurable(Clock, m.metrics)
  BY <1>1, RunMetrics DEF Inv, Scored
<1>6. SettledManifest(m)
  BY <1>1, <1>3, <1>4, <1>5 DEF SettledManifest, ClockOf
<1>7. SchemaAccepts(m)
  <2>1. \A s \in Physical : (MetricOf(m, s) # Nothing) <=> (m.stages[s] = "pass")
    <3>1. \A s \in Physical : s \in PassedStages <=> m.stages[s] = "pass"
      BY <1>1 DEF PassedStages
    <3>2. m.metrics = Reported(Report[run.design], PassedStages)
      BY <1>1 DEF Inv, Earned
    <3>3. PassedStages # {} =>
            Report[run.design] \in [area : Int, wns : Int, power : Int]
      BY DEF Inv, Earned
    <3> QED BY <3>1, <3>2, <3>3 DEF MetricOf, Reported, Physical
  <2>2. /\ m.stages[3] = "pass" => m.metrics.area > 0
        /\ m.stages[5] = "pass" => m.metrics.power >= 0
    <3>1. m.metrics = Reported(Report[run.design], PassedStages)
      BY <1>1 DEF Inv, Earned
    <3>2. PassedStages # {} =>
            /\ Report[run.design] \in [area : Int, wns : Int, power : Int]
            /\ PassedStages \subseteq FlowPasses(Report[run.design])
      BY DEF Inv, Earned
    <3> QED BY <1>1, <3>1, <3>2 DEF Reported, PassedStages, FlowPasses, Physical
  <2>3. (\E s \in Correctness : m.stages[s] = "fail") => ~RunGatesPassed
    BY <1>1 DEF RunGatesPassed
  <2>4. (\E s \in Physical : m.stages[s] # "pass") => ~RunGatesPassed
    BY <1>1 DEF RunGatesPassed
  <2> QED BY <1>4, <2>1, <2>2, <2>3, <2>4, ZeroScore DEF SchemaAccepts
<1>8. GatesPassed(m) => Passed(m, m.judged)
  <2> SUFFICES ASSUME GatesPassed(m) PROVE Passed(m, m.judged)
    OBVIOUS
  <2>1. /\ run.design \in Designs /\ run.metrics = Report[run.design]
        /\ Report[run.design].wns >= 0 /\ Report[run.design].area > 0
        /\ Report[run.design].power > 0
    BY <1>3, RunMetrics DEF Measurable
  <2>2. /\ run.stages[0] = "pass" /\ run.stages[1] = "pass"
        /\ run.stages[2] \in {"pass", "skip"}
    BY <1>1 DEF GatesPassed, correctness_gates_passed
  <2>3. /\ run.design \in Sound["lint"] \cap Sound[Public]
        /\ HiddenDue => run.hidden \in Revisions /\ run.design \in Sound[run.hidden]
        /\ task.formal => run.design \in Sound["formal"]
    BY <2>2 DEF Inv, Earned
  <2> QED BY <1>1, <2>1, <2>3 DEF Passed, HiddenDue
<1> QED BY <1>3, <1>6, <1>7, <1>8 DEF m

LEMMA WriteStep == ASSUME Inv, WriteManifest PROVE OutInv' /\ pc' = "idle" /\ RunInv'
<1>1. pc = "write" /\ SchemaAccepts(ManifestOf(run))
  BY RunManifest DEF WriteManifest
<1>2. out' = ManifestOf(run) /\ pc' = "idle" /\ run' = NoRun /\ UNCHANGED task
  BY <1>1 DEF WriteManifest
<1>3. ManifestOf(run).by = "run"
  BY DEF ManifestOf
<1>4. RunInv'
  BY <1>2, NewRunStep DEF NoRun
<1>5. OutInv'
  BY <1>1, <1>2, <1>3, RunManifest DEF OutInv, Passed
<1> QED BY <1>2, <1>4, <1>5

\* The manifest the rescoring leaves.
AfterRescore(m, ref) ==
    [Rescored(m, ref) EXCEPT !.scoredWith = IF GatesPassed(m) THEN ref ELSE Nothing,
                             !.by = "rescore"]

\* What rescoring does to the parts of a manifest.
LEMMA RescoredParts ==
    ASSUME NEW m \in Manifest, SchemaAccepts(m), NEW ref \in References \cup {Nothing},
           GatesPassed(m) => ref # Nothing
    PROVE  LET n == AfterRescore(m, ref)
           IN /\ SchemaAccepts(n)
              /\ SettledManifest(n)
              /\ n.by = "rescore" /\ n.judged = m.judged
              /\ GatesPassed(n) => /\ GatesPassed(m) /\ n.metrics = m.metrics
                                   /\ n.official = m.official /\ n.hidden = m.hidden
<1> DEFINE n == AfterRescore(m, ref)
<1>1. Rescored(m, ref) \in Manifest /\ n \in Manifest
  <2>1. n \in Manifest
    BY RescoredType DEF AfterRescore
  <2>2. Zero \in Int \X Int /\ NoMetrics \in Metrics
    BY NoMetricsType DEF Zero
  <2>3. GatesPassed(m) => /\ Ppa(ref, ref.clock, m.metrics) \in Int \X Int
                          /\ TaskScore(Ppa(ref, ref.clock, m.metrics)) \in Int \X Int
    BY ManifestMetrics, PpaType, TaskScoreType
  <2>4. [s \in Stages |-> IF s \in Physical THEN "fail" ELSE m.stages[s]]
          \in [Stages -> Status]
    BY DEF Manifest, Status
  <2> QED BY <2>1, <2>2, <2>3, <2>4 DEF Rescored, Manifest
<1>2. /\ n.stages = Rescored(m, ref).stages /\ n.metrics = Rescored(m, ref).metrics
      /\ n.ppa = Rescored(m, ref).ppa /\ n.score = Rescored(m, ref).score
      /\ n.official = m.official /\ n.hidden = m.hidden
      /\ n.judged = m.judged /\ n.by = "rescore"
      /\ n.scoredWith = IF GatesPassed(m) THEN ref ELSE Nothing
  <2> DEFINE q == Rescored(m, ref)
  <2>1. q.official = m.official /\ q.hidden = m.hidden /\ q.judged = m.judged
    BY DEF Rescored, Manifest
  <2>2. q \in Manifest
    BY <1>1
  <2>3. n = [q EXCEPT !.scoredWith = IF GatesPassed(m) THEN ref ELSE Nothing,
                      !.by = "rescore"]
    BY DEF AfterRescore
  <2> HIDE DEF q
  <2>4. /\ n.stages = q.stages /\ n.metrics = q.metrics /\ n.ppa = q.ppa
        /\ n.score = q.score /\ n.official = q.official /\ n.hidden = q.hidden
        /\ n.judged = q.judged /\ n.by = "rescore"
        /\ n.scoredWith = IF GatesPassed(m) THEN ref ELSE Nothing
    BY <2>2, <2>3 DEF Manifest
  <2> QED BY <2>1, <2>4 DEF q
<1> HIDE DEF n
<1>3. CASE ~GatesPassed(m)
  <2>1. /\ n.stages = m.stages /\ n.metrics = m.metrics
        /\ n.ppa = Zero /\ n.score = Zero
    BY <1>2, <1>3 DEF Rescored, Manifest
  <2>2. ~GatesPassed(n)
    BY <1>3, <2>1 DEF GatesPassed, correctness_gates_passed, ppa_gates_passed
  <2>3. SchemaAccepts(n)
    BY <2>1, ZeroScore DEF SchemaAccepts, MetricOf
  <2> QED BY <1>2, <2>1, <2>2, <2>3 DEF SettledManifest, n
<1>4. CASE GatesPassed(m) /\ Measurable(ref.clock, m.metrics)
  <2>1. /\ n.stages = m.stages /\ n.metrics = m.metrics
        /\ n.ppa = Ppa(ref, ref.clock, m.metrics) /\ n.score = TaskScore(n.ppa)
    BY <1>2, <1>4 DEF Rescored, Manifest
  <2>2. GatesPassed(n)
    BY <1>4, <2>1 DEF GatesPassed, correctness_gates_passed, ppa_gates_passed
  <2>3. SchemaAccepts(n)
    BY <1>4, <2>1 DEF SchemaAccepts, MetricOf, GatesPassed, ppa_gates_passed,
       correctness_gates_passed, Correctness
  <2> QED BY <1>2, <1>4, <2>1, <2>2, <2>3 DEF SettledManifest, ClockOf, n
<1>5. CASE GatesPassed(m) /\ ~Measurable(ref.clock, m.metrics)
  <2>1. /\ n.stages = [s \in Stages |-> IF s \in Physical THEN "fail" ELSE m.stages[s]]
        /\ n.metrics = NoMetrics /\ n.ppa = Zero /\ n.score = Zero
    BY <1>2, <1>5 DEF Rescored, Manifest
  <2>2. \A s \in Physical : n.stages[s] = "fail"
    BY <2>1 DEF Physical, Stages
  <2>3. ~GatesPassed(n)
    BY <2>2 DEF GatesPassed, ppa_gates_passed, Physical
  <2>4. SchemaAccepts(n)
    BY <2>1, <2>2, ZeroScore DEF SchemaAccepts, MetricOf, NoMetrics, Physical
  <2> QED BY <1>2, <2>1, <2>3, <2>4 DEF SettledManifest, n
<1> QED BY <1>2, <1>3, <1>4, <1>5 DEF n

LEMMA RescoreStep == ASSUME Inv, Rescore PROVE OutInv'
<1>1. /\ out \in Manifest /\ SchemaAccepts(out) /\ reference \in References \cup {Nothing}
      /\ GatesPassed(out) => reference # Nothing
      /\ UNCHANGED task /\ out # Nothing
  BY DEF Rescore, Inv, TypeOK
<1>2. out' = AfterRescore(out, reference)
  BY DEF Rescore, AfterRescore
<1>3. /\ SchemaAccepts(out') /\ SettledManifest(out')
      /\ out'.by = "rescore" /\ out'.judged = out.judged
      /\ GatesPassed(out') => /\ GatesPassed(out) /\ out'.metrics = out.metrics
                              /\ out'.official = out.official
                              /\ out'.hidden = out.hidden
  BY <1>1, <1>2, RescoredParts
<1>4. (out'.judged # Nothing /\ GatesPassed(out')) => Passed(out, out'.judged)
  BY <1>1, <1>3 DEF Inv, OutInv
<1>5. (out'.judged # Nothing /\ GatesPassed(out')) => Passed(out, out.judged)'
  BY <1>1, <1>3, <1>4 DEF Passed
<1> QED BY <1>3, <1>5 DEF OutInv

-----------------------------------------------------------------------------
(* The induction. *)

LEMMA InvInit == Init => Inv
<1> SUFFICES ASSUME Init PROVE Inv
  OBVIOUS
<1>1. RunInv
  BY NewRunEarnsNothing, NothingEarned DEF Init, NoRun
<1>2. out # Nothing => /\ SchemaAccepts(out) /\ out.by = "legacy"
                       /\ out.judged = Nothing
  BY DEF Init, LegacyManifests
<1> QED BY <1>1, <1>2, TypeInit DEF Init, Inv, RunInv, OutInv

LEMMA OutKept ==
    ASSUME OutInv, UNCHANGED <<out, task>>
    PROVE  OutInv'
BY DEF OutInv, Passed, SettledManifest, ClockOf

LEMMA RunKept ==
    ASSUME RunInv, UNCHANGED <<run, task, pc>>
    PROVE  RunInv'
BY DEF RunInv, Staged, Earned, Scored, HiddenDue, PassedStages, RunGatesPassed

LEMMA InvNext == Inv /\ [Next]_vars => Inv'
<1> SUFFICES ASSUME Inv, [Next]_vars PROVE Inv'
  OBVIOUS
<1> USE DEF Inv
<1>1. TypeOK'
  BY TypeNext
<1>2. RunInv
  BY DEF RunInv
<1>3. RunInv' /\ OutInv' /\ pc' # "refused" => Inv'
  BY <1>1 DEF RunInv
<1>4. CASE StartRun
  BY <1>3, <1>4, NewRunStep, OutKept DEF StartRun
<1>5. CASE Validate
  <2>1. pc = "validate" /\ pc' \in {"copy", "score"} /\ UNCHANGED <<run, task, out>>
    BY <1>5 DEF Validate, Continue
  <2>2. run.stages = AllFail /\ run.metrics = NoMetrics /\ run.ppa = Zero
        /\ run.reference = Nothing
    BY <2>1, NoMetricsYet DEF Staged
  <2>3. RunInv'
    BY <2>1, <2>2, NothingEarnedNext
  <2> QED BY <1>3, <2>1, <2>3, OutKept
<1>6. CASE CopySubmission
  BY <1>3, <1>6, CopyStep, OutKept DEF CopySubmission, Continue
<1>7. CASE Lint
  BY <1>3, <1>7, LintStep, OutKept DEF Lint, Continue
<1>8. CASE PrepareSimTests
  BY <1>3, <1>8, PrepareStep, OutKept DEF PrepareSimTests, Continue
<1>9. CASE Sim
  BY <1>3, <1>9, SimStep, OutKept DEF Sim, Continue
<1>10. CASE Formal
  BY <1>3, <1>10, FormalStep, OutKept DEF Formal, Continue
<1>11. CASE PpaFlows
  BY <1>3, <1>11, FlowsStep, OutKept DEF PpaFlows, Continue
<1>12. CASE Score
  BY <1>3, <1>12, ScoreStep, OutKept DEF Score, Continue
<1>13. CASE WriteManifest
  BY <1>3, <1>13, WriteStep
<1>14. CASE Abort
  BY <1>3, <1>14, NewRunStep, OutKept DEF Abort, Continue, NoRun
<1>15. CASE Rescore
  BY <1>2, <1>3, <1>15, RescoreStep, RunKept DEF Rescore
<1>16. CASE ChangeFile
  BY <1>2, <1>3, <1>16, RunKept, OutKept DEF ChangeFile
<1>17. CASE UNCHANGED vars
  BY <1>2, <1>3, <1>17, RunKept, OutKept DEF vars
<1> QED BY <1>4, <1>5, <1>6, <1>7, <1>8, <1>9, <1>10, <1>11, <1>12, <1>13, <1>14,
           <1>15, <1>16, <1>17 DEF Next

LEMMA Invariance == Spec => []Inv
BY InvInit, InvNext, PTL DEF Spec

-----------------------------------------------------------------------------
\* Every variable keeps its type: in particular the ratios of the score are
\* computed only from values that are there.
THEOREM TypeCorrect == Spec => []TypeOK
<1>1. Inv => TypeOK
  BY DEF Inv
<1> QED BY <1>1, Invariance, PTL

\* Whatever is replaced while run_task works, a score means that the design its
\* tools saw passed every gate that was due.
THEOREM ScoresAreEarned == Spec => []ScoreMeansEveryGate
<1>1. Inv => ScoreMeansEveryGate
  <2> SUFFICES ASSUME Inv, out # Nothing, out.judged # Nothing, out.score[1] > 0
               PROVE  Passed(out, out.judged)
    BY DEF ScoreMeansEveryGate
  <2>1. SettledManifest(out)
    BY DEF Inv, OutInv
  <2>2. GatesPassed(out)
    BY <2>1, ZeroScore DEF SettledManifest
  <2> QED BY <2>2 DEF Inv, OutInv
<1> QED BY <1>1, Invariance, PTL

\* No manifest written or rescored by this version of the harness has a score
\* without lint, simulation and the three flows having been run and passed.
THEOREM ScoresNeedGates == Spec => []NoScoreWithoutAGate
<1>1. Inv => NoScoreWithoutAGate
  <2> SUFFICES ASSUME Inv, out # Nothing, out.by # "legacy", out.score[1] > 0
               PROVE  /\ \A s \in {0, 1, 3, 4, 5} : out.stages[s] = "pass"
                      /\ out.stages[2] # "fail"
    BY DEF NoScoreWithoutAGate
  <2>1. SettledManifest(out)
    BY DEF Inv, OutInv
  <2>2. GatesPassed(out)
    BY <2>1, ZeroScore DEF SettledManifest
  <2> QED BY <2>2 DEF GatesPassed, correctness_gates_passed, ppa_gates_passed, Physical
<1> QED BY <1>1, Invariance, PTL

\* Runner, schema, scorer and rescoring agree on every manifest.
THEOREM RulesAgree == Spec => []ScoresSettled
<1>1. Inv => ScoresSettled
  <2> SUFFICES ASSUME Inv, out # Nothing, out.by # "legacy",
                      GatesPassed(out) => out.scoredWith = reference,
                      out.by = "run" /\ GatesPassed(out) => reference.clock = Clock
               PROVE  /\ SchemaAccepts(out)
                      /\ ScorerAccepts(out, reference)
                      /\ Rescored(out, reference) = out
    BY DEF ScoresSettled, Inv
  <2>1. out \in Manifest /\ SchemaAccepts(out) /\ SettledManifest(out)
    BY DEF Inv, TypeOK, OutInv
  <2>2. CASE GatesPassed(out)
    <3>1. ClockOf(out) = reference.clock
      BY <2>2 DEF ClockOf
    <3>2. /\ reference \in References /\ Measurable(reference.clock, out.metrics)
          /\ out.ppa = Ppa(reference, reference.clock, out.metrics)
          /\ out.score = TaskScore(out.ppa)
      BY <2>1, <2>2, <3>1 DEF SettledManifest
    <3>3. Rescored(out, reference) = [out EXCEPT !.ppa = out.ppa, !.score = out.score]
      BY <2>2, <3>2 DEF Rescored
    <3>4. [out EXCEPT !.ppa = out.ppa, !.score = out.score] = out
      BY <2>1 DEF Manifest
    <3> QED BY <2>1, <2>2, <3>2, <3>3, <3>4 DEF ScorerAccepts
  <2>3. CASE ~GatesPassed(out)
    <3>1. out.ppa = Zero /\ out.score = Zero
      BY <2>1, <2>3 DEF SettledManifest
    <3>2. [out EXCEPT !.ppa = Zero, !.score = Zero] = out
      BY <2>1, <3>1 DEF Manifest
    <3> QED BY <2>1, <2>3, <3>1, <3>2, ZeroScore DEF ScorerAccepts, Rescored
  <2> QED BY <2>2, <2>3
<1> QED BY <1>1, Invariance, PTL
=============================================================================
