--------------------------- MODULE AgentLoopProofs --------------------------
(* Theorems about AgentLoop and the evaluator TrackB it runs, for every set *)
(* of tasks and designs and every budget.                                  *)
EXTENDS AgentLoop, TLAPS

USE DesignAssumption, TasksAssumption, SoundAssumption, ChangeAssumption,
    NoManifestAssumption, TaskAssumption, BudgetAssumption, NoLimitAssumption

-----------------------------------------------------------------------------
(* The inductive invariant of the evaluator *)

\* What the manifest m of task t says was earned, and is told by the rules.
Earned(t, m) ==
    m.score = 100 =>
        /\ \A g \in {"guard", "lint", "public", "objective"} : m.sha \in Sound[g]
        /\ m.official => m.hidden /\ m.sha \in Sound["hidden"]
        /\ t \in Preserving => m.sha \in Sound["sec"]

ManifestGood(t, m) ==
    /\ Earned(t, m)
    /\ (m.disqualified => RefusedByPreflight(m)) => Validates(t, m)
    /\ m.hidden => m.official

ManifestsInv == \A t \in Written : ManifestGood(t, manifest[t])

\* What the gates already behind an evaluation have established.
BehindGuard == ev.sha \in Sound["guard"]
BehindLint == BehindGuard /\ ev.sha \in Sound["lint"] /\ ev.stages[0] = "pass"
BehindSim ==
    /\ BehindLint /\ ev.sha \in Sound["public"] /\ ev.stages[1] = "pass"
    /\ ev.official => ev.hidden /\ ev.sha \in Sound["hidden"]
BehindCorrectness ==
    /\ BehindSim
    /\ IF ev.task \in Preserving
       THEN /\ ev.third = "sec" /\ ev.sec = "pass" /\ ev.stages[2] = "pass"
            /\ ev.sha \in Sound["sec"]
       ELSE ev.third = "correctness" /\ ev.sec = "skip" /\ ev.stages[2] = "skip"

\* Stage 2 is untouched until the equivalence check.
Untouched == ev.third = "correctness" /\ ev.sec = "skip" /\ ev.stages[2] = "skip"

EvaluationInv ==
    /\ ev.hidden => ev.official
    /\ epc # "write" => ~ev.disqualified /\ ~ev.objective
    /\ epc \in {"preflight", "guard", "lint"} => \A s \in Stages : ev.stages[s] = "skip"
    /\ epc \in {"preflight", "guard", "lint", "sim", "correctness"} => Untouched
    /\ epc \in {"lint", "sim", "correctness", "objective"} => BehindGuard
    /\ epc \in {"sim", "correctness", "objective"} => BehindLint
    /\ epc \in {"correctness", "objective"} => BehindSim
    /\ epc = "objective" => BehindCorrectness
    /\ epc = "write" => ManifestGood(ev.task, ManifestOf(ev))

-----------------------------------------------------------------------------
(* The inductive invariant of the campaign *)

\* In the loop no limit has been hit, and an attempt of the call in hand cannot
\* cost more than its own input beyond the budget.
LoopInv ==
    /\ pc = "turn" => /\ Tokens < Budget /\ calls < ToolBudget
                      /\ exceeded = Nothing /\ ~failed
    /\ pc = "call" => /\ Tokens + ceiling <= Budget + MaxPrompt + wasted
                      /\ calls < ToolBudget /\ exceeded = Nothing /\ ~failed
    /\ pc = "act" => /\ Tokens <= Budget + MaxPrompt + wasted
                     /\ calls < ToolBudget /\ ~failed
    /\ pc = "evaluate" => TaskStaysNearBudget /\ FlagTellsTheLimit

\* Between tasks the rows account for all tokens, in a task for those before it.
RowsInv ==
    /\ pc = "task" => total = counter
    /\ pc \notin {"task", "off"} => total = start
    /\ pc = "off" => at = 1 /\ counter = 0 /\ start = 0 /\ total = 0

\* The campaign has left manifest and design of task t, and they belong together.
Done(t) ==
    /\ manifest[t] # Nothing
    /\ manifest[t].by = run
    /\ sv[t] = manifest[t].sha
    /\ manifest[t].hidden => manifest[t].official

\* Where the campaign is in its task: the design it judges is the sandbox's.
TaskInv ==
    /\ pc \notin {"off", "task"} => at \in Positions /\ Task \notin Skipped
    /\ pc = "judging" => ev.task = Task /\ ev.sha = design
    /\ pc \in {"sign", "save"} => manifest[Task] # Nothing /\ manifest[Task].sha = design
    /\ pc = "save" => manifest[Task].by = run

CampaignInv ==
    /\ run >= 1 /\ summary.by <= run
    /\ pc # "off" => summary.by < run
    /\ pc # "off" => \A i \in Positions :
                        i < at /\ TaskAt[i] \notin Skipped => Done(TaskAt[i])
    /\ pc = "off" /\ summary.by = run =>
          \A i \in Positions : TaskAt[i] \notin summary.skipped => Done(TaskAt[i])

Inv ==
    /\ TypeOK
    /\ ManifestsInv /\ EvaluationInv
    /\ LoopInv /\ RowsInv
    /\ TaskInv /\ CampaignInv

-----------------------------------------------------------------------------
(* The evaluator *)

LEMMA NewEvaluationType ==
    ASSUME NEW t \in Tasks, NEW o \in BOOLEAN, NEW d \in Designs
    PROVE  NewEvaluation(t, o, d) \in Evaluation
BY DEF NewEvaluation, Evaluation, Stages, Status, SecStatus

LEMMA NoEvaluationType ==
    /\ NoEvaluation \in Evaluation
    /\ ~NoEvaluation.hidden /\ ~NoEvaluation.disqualified /\ ~NoEvaluation.objective
<1>1. (CHOOSE t \in Tasks : TRUE) \in Tasks /\ (CHOOSE d \in Designs : TRUE) \in Designs
  OBVIOUS
<1> QED BY <1>1, NewEvaluationType DEF NoEvaluation, NewEvaluation

LEMMA ManifestOfType ==
    ASSUME NEW e \in Evaluation
    PROVE  /\ ManifestOf(e) \in Manifest
           /\ ManifestOf(e) # Nothing
           /\ ManifestOf(e).sha = e.sha
           /\ ManifestOf(e).hidden = e.hidden
           /\ ManifestOf(e).official = e.official
<1>1. ManifestOf(e) \in Manifest
  BY DEF ManifestOf, Manifest, Evaluation
<1> QED BY <1>1 DEF ManifestOf

\* f is evaluation e after some gates: the submission is the same.
Follows(e, f) ==
    /\ f \in Evaluation
    /\ f.task = e.task /\ f.official = e.official /\ f.sha = e.sha

LEMMA FailFromIs ==
    ASSUME ev \in Evaluation, NEW s \in Stages, NEW f, f = FailFrom(s)
    PROVE  /\ Follows(ev, f)
           /\ \A i \in Stages : f.stages[i] = IF i < s THEN ev.stages[i] ELSE "fail"
           /\ f.disqualified = ev.disqualified
           /\ f.third = ev.third /\ f.sec = ev.sec
           /\ f.objective = ev.objective /\ f.hidden = ev.hidden
<1>1. [i \in Stages |-> IF i < s THEN ev.stages[i] ELSE "fail"] \in [Stages -> Status]
  BY DEF Evaluation, Status, Stages
<1> QED BY <1>1 DEF FailFrom, Evaluation, Follows

LEMMA PassStageIs ==
    ASSUME ev \in Evaluation, NEW s \in Stages, NEW f, f = PassStage(s)
    PROVE  /\ Follows(ev, f)
           /\ \A i \in Stages : f.stages[i] = IF i = s THEN "pass" ELSE ev.stages[i]
           /\ f.disqualified = ev.disqualified
           /\ f.third = ev.third /\ f.sec = ev.sec
           /\ f.objective = ev.objective /\ f.hidden = ev.hidden
BY DEF PassStage, Evaluation, Status, Stages, Follows

LEMMA DisqualifiedIs ==
    ASSUME NEW e \in Evaluation, NEW f, f = [e EXCEPT !.disqualified = TRUE]
    PROVE  /\ Follows(e, f) /\ f.disqualified
           /\ f.stages = e.stages /\ f.third = e.third /\ f.sec = e.sec
           /\ f.objective = e.objective /\ f.hidden = e.hidden
BY DEF Evaluation, Follows

LEMMA HiddenIs ==
    ASSUME NEW e \in Evaluation, NEW b \in BOOLEAN, NEW f, f = [e EXCEPT !.hidden = b]
    PROVE  /\ Follows(e, f) /\ f.hidden = b
           /\ f.stages = e.stages /\ f.third = e.third /\ f.sec = e.sec
           /\ f.objective = e.objective /\ f.disqualified = e.disqualified
BY DEF Evaluation, Follows

LEMMA ObjectiveIs ==
    ASSUME NEW e \in Evaluation, NEW f, f = [e EXCEPT !.objective = TRUE]
    PROVE  /\ Follows(e, f) /\ f.objective
           /\ f.stages = e.stages /\ f.third = e.third /\ f.sec = e.sec
           /\ f.hidden = e.hidden /\ f.disqualified = e.disqualified
BY DEF Evaluation, Follows

\* What a manifest must satisfy, read off the evaluation it is made of.
LEMMA GoodDisqualified ==
    ASSUME NEW e \in Evaluation, e.disqualified, e.hidden => e.official,
           e.stages[0] # "skip" \/ \A s \in Stages : e.stages[s] = "skip"
    PROVE  ManifestGood(e.task, ManifestOf(e))
BY DEF ManifestGood, ManifestOf, Earned, RefusedByPreflight, Validates, Stages

LEMMA GoodFailed ==
    ASSUME NEW e \in Evaluation, ~e.disqualified, ~e.objective, e.hidden => e.official,
           Validates(e.task, ManifestOf(e))
    PROVE  ManifestGood(e.task, ManifestOf(e))
BY DEF ManifestGood, ManifestOf, Earned

LEMMA PreflightKeeps ==
    ASSUME TrackBTypeOK, EvaluationInv, Preflight
    PROVE  Follows(ev, ev') /\ EvaluationInv'
<1>1. CASE ev.official /\ hidden = "missing"
  <2>1. epc' = "write" /\ ev' = [ev EXCEPT !.disqualified = TRUE]
    BY <1>1 DEF Preflight, Go
  <2>2. /\ Follows(ev, ev') /\ ev'.disqualified /\ ev'.stages = ev.stages
        /\ ev'.hidden = ev.hidden
    BY <2>1, DisqualifiedIs DEF TrackBTypeOK
  <2>3. ManifestGood(ev'.task, ManifestOf(ev'))
    BY <2>2, GoodDisqualified DEF EvaluationInv, Preflight, Follows
  <2> QED BY <2>1, <2>2, <2>3 DEF EvaluationInv, Follows
<1>2. CASE ~(ev.official /\ hidden = "missing")
  BY <1>2 DEF Preflight, Go, EvaluationInv, Follows, TrackBTypeOK, Untouched
<1> QED BY <1>1, <1>2

LEMMA DiffGuardKeeps ==
    ASSUME TrackBTypeOK, EvaluationInv, DiffGuard
    PROVE  Follows(ev, ev') /\ EvaluationInv'
<1>1. CASE epc' = "lint" /\ ev' = ev /\ ev.sha \in Sound["guard"]
  BY <1>1 DEF DiffGuard, EvaluationInv, Follows, TrackBTypeOK, Untouched, BehindGuard
<1>2. CASE epc' = "write" /\ ev' = [ev EXCEPT !.disqualified = TRUE]
  <2>1. /\ Follows(ev, ev') /\ ev'.disqualified /\ ev'.stages = ev.stages
        /\ ev'.hidden = ev.hidden
    BY <1>2, DisqualifiedIs DEF TrackBTypeOK
  <2>2. ManifestGood(ev'.task, ManifestOf(ev'))
    BY <2>1, GoodDisqualified DEF EvaluationInv, DiffGuard, Follows
  <2> QED BY <1>2, <2>1, <2>2 DEF EvaluationInv, Follows
<1> QED BY <1>1, <1>2 DEF DiffGuard, Go

LEMMA LintKeeps ==
    ASSUME TrackBTypeOK, EvaluationInv, Lint
    PROVE  Follows(ev, ev') /\ EvaluationInv'
<1> USE DEF Stages
<1>1. CASE epc' = "sim" /\ ev' = PassStage(0) /\ ev.sha \in Sound["lint"]
  <2>1. /\ Follows(ev, ev') /\ ev'.stages[0] = "pass" /\ ev'.stages[2] = ev.stages[2]
        /\ ev'.disqualified = ev.disqualified /\ ev'.third = ev.third
        /\ ev'.sec = ev.sec /\ ev'.objective = ev.objective /\ ev'.hidden = ev.hidden
    BY <1>1, PassStageIs DEF TrackBTypeOK
  <2> QED BY <1>1, <2>1 DEF Lint, EvaluationInv, Follows, Untouched, BehindGuard, BehindLint
<1>2. CASE epc' = "write" /\ ev' = FailFrom(0)
  <2>1. /\ Follows(ev, ev') /\ \A i \in Stages : ev'.stages[i] = "fail"
        /\ ev'.disqualified = ev.disqualified /\ ev'.third = ev.third
        /\ ev'.sec = ev.sec /\ ev'.objective = ev.objective /\ ev'.hidden = ev.hidden
    BY <1>2, FailFromIs DEF TrackBTypeOK
  <2>2. Validates(ev'.task, ManifestOf(ev'))
    BY <2>1 DEF Validates, CorrectnessFits, ManifestOf, EvaluationInv, Untouched, Lint
  <2>3. ManifestGood(ev'.task, ManifestOf(ev'))
    BY <2>1, <2>2, GoodFailed DEF EvaluationInv, Lint, Follows
  <2> QED BY <1>2, <2>1, <2>3 DEF EvaluationInv, Follows
<1> QED BY <1>1, <1>2 DEF Lint, Go

\* The hidden tests a passing simulation has read are those it is judged by.
LEMMA SimKeeps ==
    ASSUME TrackBTypeOK, EvaluationInv, Sim
    PROVE  Follows(ev, ev') /\ EvaluationInv'
<1> USE DEF Stages
<1>1. CASE /\ epc' = "correctness" /\ Simulates
           /\ ev' = [PassStage(1) EXCEPT !.hidden = ev.official]
  <2>1. PICK e \in Evaluation : e = PassStage(1)
    BY PassStageIs DEF TrackBTypeOK, Follows
  <2>2. ev' = [e EXCEPT !.hidden = ev.official]
    BY <1>1, <2>1
  <2>3. /\ Follows(ev, e) /\ e.stages[0] = ev.stages[0] /\ e.stages[1] = "pass"
        /\ e.stages[2] = ev.stages[2]
        /\ e.disqualified = ev.disqualified /\ e.third = ev.third
        /\ e.sec = ev.sec /\ e.objective = ev.objective
    BY <2>1, PassStageIs DEF TrackBTypeOK
  <2>4. ev.official \in BOOLEAN
    BY DEF TrackBTypeOK, Evaluation
  <2>5. /\ Follows(e, ev') /\ ev'.hidden = ev.official
        /\ ev'.stages = e.stages /\ ev'.third = e.third /\ ev'.sec = e.sec
        /\ ev'.objective = e.objective /\ ev'.disqualified = e.disqualified
    BY <2>2, <2>4, HiddenIs
  <2> QED BY <1>1, <2>3, <2>5
          DEF Sim, Simulates, EvaluationInv, Follows, Untouched, BehindGuard,
              BehindLint, BehindSim
<1>2. CASE epc' = "write" /\ ev' = [FailFrom(1) EXCEPT !.disqualified = TRUE]
  <2>1. PICK e \in Evaluation : e = FailFrom(1)
    BY FailFromIs DEF TrackBTypeOK, Follows
  <2>2. ev' = [e EXCEPT !.disqualified = TRUE]
    BY <1>2, <2>1
  <2>3. Follows(ev, e) /\ e.stages[0] = ev.stages[0] /\ e.hidden = ev.hidden
    BY <2>1, FailFromIs DEF TrackBTypeOK
  <2>4. /\ Follows(e, ev') /\ ev'.disqualified /\ ev'.stages = e.stages
        /\ ev'.hidden = e.hidden
    BY <2>2, DisqualifiedIs
  <2>5. ManifestGood(ev'.task, ManifestOf(ev'))
    BY <2>3, <2>4, GoodDisqualified
       DEF EvaluationInv, Sim, Follows, BehindLint
  <2> QED BY <1>2, <2>3, <2>4, <2>5 DEF EvaluationInv, Follows
<1>3. CASE epc' = "write" /\ ev' = FailFrom(1)
  <2>1. /\ Follows(ev, ev') /\ ev'.stages[0] = ev.stages[0]
        /\ \A i \in 1 .. 3 : ev'.stages[i] = "fail"
        /\ ev'.disqualified = ev.disqualified /\ ev'.third = ev.third
        /\ ev'.sec = ev.sec /\ ev'.objective = ev.objective /\ ev'.hidden = ev.hidden
    BY <1>3, FailFromIs DEF TrackBTypeOK
  <2>2. Validates(ev'.task, ManifestOf(ev'))
    BY <2>1 DEF Validates, CorrectnessFits, ManifestOf, EvaluationInv, Untouched, Sim,
                BehindLint
  <2>3. ManifestGood(ev'.task, ManifestOf(ev'))
    BY <2>1, <2>2, GoodFailed DEF EvaluationInv, Sim, Follows
  <2> QED BY <1>3, <2>1, <2>3 DEF EvaluationInv, Follows
<1> QED BY <1>1, <1>2, <1>3 DEF Sim, Go

LEMMA CorrectnessKeeps ==
    ASSUME TrackBTypeOK, EvaluationInv, Correctness
    PROVE  Follows(ev, ev') /\ EvaluationInv'
<1> USE DEF Stages
<1>1. CASE epc' = "objective" /\ ev' = ev /\ ev.task \notin Preserving
  BY <1>1 DEF Correctness, EvaluationInv, Follows, TrackBTypeOK, Untouched,
              BehindGuard, BehindLint, BehindSim, BehindCorrectness
<1>2. CASE /\ epc' = "objective" /\ ev.task \in Preserving /\ ev.sha \in Sound["sec"]
           /\ ev' = [PassStage(2) EXCEPT !.third = "sec", !.sec = "pass"]
  <2>1. PICK e \in Evaluation : e = PassStage(2)
    BY PassStageIs DEF TrackBTypeOK, Follows
  <2>2. ev' = [e EXCEPT !.third = "sec", !.sec = "pass"]
    BY <1>2, <2>1
  <2>3. /\ Follows(ev, e) /\ e.stages[0] = ev.stages[0] /\ e.stages[1] = ev.stages[1]
        /\ e.stages[2] = "pass" /\ e.hidden = ev.hidden
        /\ e.disqualified = ev.disqualified /\ e.objective = ev.objective
    BY <2>1, PassStageIs DEF TrackBTypeOK
  <2>4. /\ Follows(e, ev') /\ ev'.third = "sec" /\ ev'.sec = "pass"
        /\ ev'.stages = e.stages /\ ev'.hidden = e.hidden
        /\ ev'.objective = e.objective /\ ev'.disqualified = e.disqualified
    <3>1. "pass" \in SecStatus
      BY DEF SecStatus, Status
    <3> QED BY <2>2, <3>1 DEF Evaluation, Follows
  <2> QED BY <1>2, <2>3, <2>4
          DEF Correctness, EvaluationInv, Follows, BehindGuard, BehindLint,
              BehindSim, BehindCorrectness
<1>3. ASSUME NEW x \in {"fail", "timeout"}, epc' = "write", ev.task \in Preserving,
             ev' = [FailFrom(2) EXCEPT !.third = "sec", !.sec = x]
      PROVE  Follows(ev, ev') /\ EvaluationInv'
  <2>1. PICK e \in Evaluation : e = FailFrom(2)
    BY FailFromIs DEF TrackBTypeOK, Follows
  <2>2. ev' = [e EXCEPT !.third = "sec", !.sec = x]
    BY <1>3, <2>1
  <2>3. /\ Follows(ev, e) /\ e.stages[0] = ev.stages[0] /\ e.stages[1] = ev.stages[1]
        /\ e.stages[2] = "fail" /\ e.stages[3] = "fail" /\ e.hidden = ev.hidden
        /\ e.disqualified = ev.disqualified /\ e.objective = ev.objective
    BY <2>1, FailFromIs DEF TrackBTypeOK
  <2>4. /\ Follows(e, ev') /\ ev'.third = "sec" /\ ev'.sec = x
        /\ ev'.stages = e.stages /\ ev'.hidden = e.hidden
        /\ ev'.objective = e.objective /\ ev'.disqualified = e.disqualified
    <3>1. x \in SecStatus
      BY DEF SecStatus, Status
    <3> QED BY <2>2, <3>1 DEF Evaluation, Follows
  <2>5. Validates(ev'.task, ManifestOf(ev'))
    BY <1>3, <2>3, <2>4
       DEF Validates, CorrectnessFits, ManifestOf, EvaluationInv, Correctness,
           BehindLint, BehindSim, Follows
  <2>6. ManifestGood(ev'.task, ManifestOf(ev'))
    BY <2>3, <2>4, <2>5, GoodFailed DEF EvaluationInv, Correctness, Follows
  <2> QED BY <1>3, <2>3, <2>4, <2>6 DEF EvaluationInv, Follows
<1> QED BY <1>1, <1>2, <1>3 DEF Correctness, Go

LEMMA ObjectiveKeeps ==
    ASSUME TrackBTypeOK, EvaluationInv, Objective
    PROVE  Follows(ev, ev') /\ EvaluationInv'
<1> USE DEF Stages
<1>1. CASE /\ epc' = "write" /\ ev.sha \in Sound["objective"]
           /\ ev' = [PassStage(3) EXCEPT !.objective = TRUE]
  <2>1. PICK e \in Evaluation : e = PassStage(3)
    BY PassStageIs DEF TrackBTypeOK, Follows
  <2>2. ev' = [e EXCEPT !.objective = TRUE]
    BY <1>1, <2>1
  <2>3. /\ Follows(ev, e) /\ \A i \in 0 .. 2 : e.stages[i] = ev.stages[i]
        /\ e.stages[3] = "pass" /\ e.hidden = ev.hidden /\ e.third = ev.third
        /\ e.sec = ev.sec /\ e.disqualified = ev.disqualified
    BY <2>1, PassStageIs DEF TrackBTypeOK
  <2>4. /\ Follows(e, ev') /\ ev'.objective /\ ev'.third = e.third /\ ev'.sec = e.sec
        /\ ev'.stages = e.stages /\ ev'.hidden = e.hidden
        /\ ev'.disqualified = e.disqualified
    BY <2>2, ObjectiveIs
  <2>5. BehindCorrectness /\ ~ev.disqualified
    BY DEF EvaluationInv, Objective
  <2>6. Validates(ev'.task, ManifestOf(ev'))
    BY <2>3, <2>4, <2>5
       DEF Validates, CorrectnessFits, CorrectnessHolds, ManifestOf,
           BehindCorrectness, BehindLint, BehindSim, Follows
  <2>7. Earned(ev'.task, ManifestOf(ev'))
    BY <1>1, <2>3, <2>4, <2>5
       DEF Earned, ManifestOf, BehindCorrectness, BehindGuard, BehindLint, BehindSim,
           Follows
  <2>8. ManifestOf(ev').hidden => ManifestOf(ev').official
    BY <2>3, <2>4 DEF ManifestOf, EvaluationInv, Follows
  <2> QED BY <1>1, <2>3, <2>4, <2>6, <2>7, <2>8 DEF ManifestGood, EvaluationInv, Follows
<1>2. CASE epc' = "write" /\ ev' = FailFrom(3)
  <2>1. /\ Follows(ev, ev') /\ \A i \in 0 .. 2 : ev'.stages[i] = ev.stages[i]
        /\ ev'.stages[3] = "fail"
        /\ ev'.disqualified = ev.disqualified /\ ev'.third = ev.third
        /\ ev'.sec = ev.sec /\ ev'.objective = ev.objective /\ ev'.hidden = ev.hidden
    BY <1>2, FailFromIs DEF TrackBTypeOK
  <2>2. Validates(ev'.task, ManifestOf(ev'))
    BY <2>1 DEF Validates, CorrectnessFits, ManifestOf, EvaluationInv, Objective,
                BehindLint, BehindSim, BehindCorrectness, Follows
  <2>3. ManifestGood(ev'.task, ManifestOf(ev'))
    BY <2>1, <2>2, GoodFailed DEF EvaluationInv, Objective, Follows
  <2> QED BY <1>2, <2>1, <2>3 DEF EvaluationInv, Follows
<1> QED BY <1>1, <1>2 DEF Objective, Go

\* The evaluation in hand stays the one it was, and what its gates established
\* is kept; nothing is written.
LEMMA JudgeKeeps ==
    ASSUME TrackBTypeOK, EvaluationInv, Judge
    PROVE  /\ Follows(ev, ev') /\ EvaluationInv' /\ TrackBTypeOK'
           /\ UNCHANGED <<hidden, changes, manifest>>
<1>1. Follows(ev, ev') /\ EvaluationInv'
  BY PreflightKeeps, DiffGuardKeeps, LintKeeps, SimKeeps, CorrectnessKeeps,
     ObjectiveKeeps DEF Judge
<1>2. UNCHANGED <<hidden, changes, manifest>> /\ epc' \in
          {"guard", "lint", "sim", "correctness", "objective", "write"}
  BY DEF Judge, Preflight, DiffGuard, Lint, Sim, Correctness, Objective, Go
<1> QED BY <1>1, <1>2 DEF TrackBTypeOK, Follows

-----------------------------------------------------------------------------
(* The campaign *)

\* A turn of the agent's loop, and what it leaves alone.
Turn == BeginTurn \/ Answer \/ Retry \/ SpendCap \/ ProviderFailed \/ Act

LEMMA TurnFrame ==
    ASSUME Turn
    PROVE  /\ UNCHANGED <<at, start, total, trackBVars, fileVars, planVars>>
           /\ pc \in {"turn", "call", "act"}
           /\ pc' \in {"turn", "call", "act", "evaluate"}
BY DEF Turn, BeginTurn, Answer, Retry, SpendCap, ProviderFailed, Act, LoopStep

\* Whatever a prompt was estimated at, the output that a call is allowed fits
\* into what is left of the budget: an attempt exceeds it by no more than the
\* input it is billed.
LEMMA AllowanceBound ==
    ASSUME TypeOK, NEW estimate \in Estimates
    PROVE  /\ OutputAllowance(estimate) \in Nat
           /\ Tokens < Budget =>
                 Tokens + MaxPrompt + OutputAllowance(estimate) <= Budget + MaxPrompt
<1>1. Tokens \in Nat /\ counter \in Nat /\ start \in Nat
  BY DEF TypeOK, Tokens
<1>2. estimate \in Nat \ {0}
  OBVIOUS
<1> QED BY <1>1, <1>2 DEF OutputAllowance, Larger, Smaller

\* An action that raises ends the campaign as a crash of the process does.
LEMMA RaisingIsCrashing == ActRaises => Crash
BY DEF ActRaises, Crash

LEMMA FiredLimitIs ==
    ASSUME NEW made \in Nat, NEW x \in FiredLimit(made), TypeOK
    PROVE  /\ x \in Limits \cup {Nothing}
           /\ x = "tokens" => Tokens >= Budget
           /\ x = "tool_calls" => Tokens < Budget /\ made >= ToolBudget
           /\ x = Nothing => Tokens < Budget /\ made < ToolBudget
<1>1. Tokens \in Nat
  BY DEF TypeOK, Tokens
<1> QED BY <1>1 DEF FiredLimit, Limits

LEMMA TurnType ==
    ASSUME TypeOK, Turn
    PROVE  TypeOK'
<1> USE DEF TypeOK
<1>1. TrackBTypeOK'
  BY TurnFrame DEF trackBVars, TrackBTypeOK
<1>2. /\ (sv \in [Tasks -> Designs \cup {Nothing}])' /\ (summary \in Summary)'
      /\ (run \in Nat /\ official \in BOOLEAN /\ unreviewed \in SUBSET Tasks)'
      /\ (at \in 1 .. (NTasks + 1))' /\ (total \in Nat)' /\ start' = start
      /\ (pc \in PCs)'
  BY TurnFrame DEF fileVars, planVars, PCs
<1>3. CASE BeginTurn
  BY <1>1, <1>2, <1>3, AllowanceBound, FiredLimitIs DEF BeginTurn
<1>4. CASE Answer
  BY <1>1, <1>2, <1>4 DEF Answer, Costs
<1>5. CASE Retry
  BY <1>1, <1>2, <1>5 DEF Retry, Costs
<1>6. CASE SpendCap
  BY <1>1, <1>2, <1>6 DEF SpendCap, Limits, Costs
<1>7. CASE ProviderFailed
  BY <1>1, <1>2, <1>7 DEF ProviderFailed, Costs
<1>8. CASE Act
  BY <1>1, <1>2, <1>8, FiredLimitIs DEF Act, DesignsAfter
<1> QED BY <1>3, <1>4, <1>5, <1>6, <1>7, <1>8 DEF Turn

LEMMA ForgetLoopType ==
    ASSUME ForgetLoop
    PROVE  /\ (calls \in Nat /\ ceiling \in Nat /\ attempt \in 1 .. Attempts)'
           /\ (exceeded \in Limits \cup {Nothing} /\ wasted \in Nat /\ failed \in BOOLEAN)'
<1>1. (exceeded \in Limits \cup {Nothing})'
  BY Zenon DEF ForgetLoop
<1>2. (calls \in Nat /\ ceiling \in Nat /\ attempt \in 1 .. Attempts /\ wasted \in Nat)'
  BY DEF ForgetLoop
<1>3. (failed \in BOOLEAN)'
  BY DEF ForgetLoop
<1> QED BY <1>1, <1>2, <1>3

LEMMA ForgetType ==
    ASSUME Forget
    PROVE  /\ (calls \in Nat /\ ceiling \in Nat /\ attempt \in 1 .. Attempts)'
           /\ (exceeded \in Limits \cup {Nothing} /\ wasted \in Nat /\ failed \in BOOLEAN)'
           /\ (design \in Designs)'
<1>1. AnyDesign \in Designs
  BY DEF AnyDesign
<1> QED BY <1>1, ForgetLoopType DEF Forget

LEMMA TypeStep ==
    ASSUME Inv, [Next]_vars
    PROVE  TypeOK'
<1> USE DEF Inv, TypeOK, PCs, fileVars, planVars, loopVars
<1>1. CASE StartCampaign
  BY <1>1 DEF StartCampaign, trackBVars, TrackBTypeOK
<1>2. CASE SkipTask
  BY <1>2 DEF SkipTask, Positions, trackBVars, TrackBTypeOK
<1>3. CASE BeginTask
  <2>1. Shipped[Task] \in Designs
    BY <1>3 DEF BeginTask, Task
  <2>2. (exceeded \in Limits \cup {Nothing})'
    BY <1>3, Zenon DEF BeginTask
  <2>3. TrackBTypeOK'
    BY <1>3 DEF BeginTask, trackBVars, TrackBTypeOK
  <2>4. /\ start' = counter /\ calls' = 0 /\ wasted' = 0 /\ failed' = FALSE
        /\ design' = Shipped[Task] /\ pc' = "turn"
        /\ UNCHANGED <<at, counter, ceiling, attempt, total, fileVars, planVars>>
    BY <1>3 DEF BeginTask
  <2>5. (start \in 0 .. counter)'
    BY <2>4
  <2>6. (calls \in Nat /\ wasted \in Nat /\ failed \in BOOLEAN /\ design \in Designs)'
    BY <2>1, <2>4
  <2>7. (pc \in PCs)'
    BY <2>4
  <2> QED BY <2>2, <2>3, <2>4, <2>5, <2>6, <2>7
<1>4. CASE Turn
  BY <1>4, TurnType
<1>5. CASE Evaluate
  <2>1. Task \in Tasks
    BY <1>5 DEF Evaluate, TaskInv, Task
  <2>2. ev' \in Evaluation
    BY <1>5, <2>1, NewEvaluationType DEF Evaluate, StartEvaluation, Go
  <2>3. TrackBTypeOK'
    BY <1>5, <2>2 DEF Evaluate, StartEvaluation, Go, TrackBTypeOK
  <2>4. ForgetLoop /\ pc' = "judging" /\ UNCHANGED <<at, total, counter, start, design, fileVars, planVars>>
    BY <1>5 DEF Evaluate
  <2> QED BY <2>3, <2>4, ForgetLoopType
<1>6. CASE JudgeStep
  BY <1>6, JudgeKeeps DEF JudgeStep
<1>7. CASE Verdict
  <2>1. ManifestOf(ev) \in Manifest /\ NoEvaluation \in Evaluation
    BY ManifestOfType, NoEvaluationType DEF TrackBTypeOK
  <2> QED BY <1>7, <2>1 DEF Verdict, WriteManifest, TrackBTypeOK
<1>8. CASE Sign
  <2>1. Task \in Tasks /\ manifest[Task] \in Manifest
    BY <1>8 DEF Sign, TaskInv, Task, TrackBTypeOK
  <2>2. [manifest[Task] EXCEPT !.by = run] \in Manifest
    BY <2>1 DEF Manifest
  <2>3. PICK m \in Manifest : m = [manifest[Task] EXCEPT !.by = run]
    BY <2>2
  <2>4. manifest' = [manifest EXCEPT ![Task] = m]
    BY <1>8, <2>3, Zenon DEF Sign
  <2>5. manifest' \in [Tasks -> Manifest \cup {Nothing}]
    BY <2>4 DEF TrackBTypeOK
  <2>6. /\ UNCHANGED <<at, total, hidden, changes, epc, ev, fileVars, planVars, loopVars>>
        /\ pc' = "save"
    BY <1>8 DEF Sign
  <2> QED BY <2>5, <2>6 DEF TrackBTypeOK
<1>9. CASE SaveSource
  <2>1. at \in Positions
    BY <1>9 DEF SaveSource, TaskInv
  <2>2. at + 1 \in 1 .. (NTasks + 1) /\ total + Tokens \in Nat
    BY <2>1 DEF Positions, Tokens
  <2>3. TrackBTypeOK'
    BY <1>9 DEF SaveSource, trackBVars, TrackBTypeOK
  <2>4. sv' \in [Tasks -> Designs \cup {Nothing}]
    BY <1>9 DEF SaveSource
  <2>5. Forget /\ pc' = "task" /\ at' = at + 1 /\ total' = total + Tokens
        /\ UNCHANGED <<counter, start, summary, planVars>>
    BY <1>9 DEF SaveSource
  <2> QED BY <2>2, <2>3, <2>4, <2>5, ForgetType
<1>10. CASE WriteSummary
  <2>1. summary' \in Summary
    BY <1>10 DEF WriteSummary, Skipped, Summary
  <2> QED BY <1>10, <2>1, ForgetType DEF WriteSummary, trackBVars, TrackBTypeOK
<1>11. CASE Crash
  BY <1>11, ForgetType, NoEvaluationType DEF Crash, Abandon, TrackBTypeOK
<1>12. CASE HiddenTestsChange
  BY <1>12 DEF HiddenTestsChange, ChangeHidden, TrackBTypeOK
<1>13. CASE UNCHANGED vars
  BY <1>13 DEF vars, trackBVars, TrackBTypeOK
<1> QED BY <1>1, <1>2, <1>3, <1>4, <1>5, <1>6, <1>7, <1>8, <1>9, <1>10, <1>11, <1>12,
           <1>13, RaisingIsCrashing
        DEF Next, CampaignStep, Turn

LEMMA EvaluationStep ==
    ASSUME Inv, [Next]_vars
    PROVE  EvaluationInv' /\ ManifestsInv'
<1> USE DEF Inv
<1>1. CASE JudgeStep
  BY <1>1, JudgeKeeps DEF JudgeStep, ManifestsInv, Written, TypeOK
<1>2. CASE Verdict
  <2>1. /\ epc = "write" /\ epc' = "idle" /\ ev' = NoEvaluation
        /\ manifest' = [manifest EXCEPT ![ev.task] = ManifestOf(ev)]
    BY <1>2 DEF Verdict, WriteManifest
  <2>2. EvaluationInv'
    BY <2>1, NoEvaluationType DEF EvaluationInv
  <2>3. ManifestGood(ev.task, ManifestOf(ev))
    BY <2>1 DEF EvaluationInv
  <2>4. ManifestsInv'
    BY <2>1, <2>3 DEF ManifestsInv, Written, TypeOK, TrackBTypeOK
  <2> QED BY <2>2, <2>4
<1>3. CASE Sign
  <2>1. Task \in Tasks /\ manifest[Task] \in Manifest /\ ManifestGood(Task, manifest[Task])
    BY <1>3 DEF Sign, TaskInv, Task, TypeOK, TrackBTypeOK, ManifestsInv, Written
  <2>2. PICK m : m = [manifest[Task] EXCEPT !.by = run]
    OBVIOUS
  <2>3. /\ m.official = manifest[Task].official /\ m.sha = manifest[Task].sha
        /\ m.disqualified = manifest[Task].disqualified
        /\ m.stages = manifest[Task].stages /\ m.third = manifest[Task].third
        /\ m.sec = manifest[Task].sec /\ m.objective = manifest[Task].objective
        /\ m.hidden = manifest[Task].hidden /\ m.score = manifest[Task].score
    BY <2>1, <2>2 DEF Manifest
  <2>4. ManifestGood(Task, m)
    BY <2>1, <2>3
       DEF ManifestGood, Earned, RefusedByPreflight, Validates, CorrectnessFits,
           CorrectnessHolds
  <2>5. manifest' = [manifest EXCEPT ![Task] = m]
    BY <1>3, <2>2, Zenon DEF Sign
  <2>6. ManifestsInv'
    BY <2>4, <2>5 DEF ManifestsInv, Written, TypeOK, TrackBTypeOK
  <2>7. UNCHANGED <<ev, epc>>
    BY <1>3 DEF Sign
  <2> QED BY <2>6, <2>7
          DEF EvaluationInv, Untouched, BehindGuard, BehindLint, BehindSim,
              BehindCorrectness
<1>4. CASE Evaluate
  <2>1. /\ epc' = "preflight" /\ ev' = NewEvaluation(Task, official, design)
        /\ UNCHANGED manifest
    BY <1>4 DEF Evaluate, StartEvaluation, Go
  <2>2. EvaluationInv'
    BY <2>1 DEF EvaluationInv, NewEvaluation, Untouched, Stages
  <2> QED BY <2>1, <2>2 DEF ManifestsInv, Written
<1>5. CASE Crash
  <2>1. epc' = "idle" /\ ev' = NoEvaluation /\ UNCHANGED manifest
    BY <1>5 DEF Crash, Abandon
  <2> QED BY <2>1, NoEvaluationType DEF EvaluationInv, ManifestsInv, Written
<1>6. CASE UNCHANGED <<epc, ev, manifest>>
  BY <1>6 DEF EvaluationInv, ManifestsInv, Written, Untouched, BehindGuard, BehindLint,
              BehindSim, BehindCorrectness
<1>7. Turn => UNCHANGED <<epc, ev, manifest>>
  BY TurnFrame DEF trackBVars
<1>8. (\/ StartCampaign \/ SkipTask \/ BeginTask \/ SaveSource \/ WriteSummary
       \/ HiddenTestsChange \/ UNCHANGED vars) => UNCHANGED <<epc, ev, manifest>>
  BY DEF StartCampaign, SkipTask, BeginTask, SaveSource, WriteSummary,
         HiddenTestsChange, ChangeHidden, vars, trackBVars
<1> QED BY <1>1, <1>2, <1>3, <1>4, <1>5, <1>6, <1>7, <1>8, RaisingIsCrashing
        DEF Next, CampaignStep, Turn

LEMMA LoopInvStep ==
    ASSUME Inv, [Next]_vars
    PROVE  LoopInv'
<1>1. /\ counter \in Nat /\ start \in 0 .. counter /\ calls \in Nat /\ ceiling \in Nat
      /\ wasted \in Nat /\ Tokens \in Nat
  BY DEF Inv, TypeOK, Tokens
<1>2. LoopInv /\ TypeOK
  BY DEF Inv
<1> USE DEF LoopInv, Tokens, TaskStaysNearBudget, FlagTellsTheLimit
<1>3. CASE BeginTask
  BY <1>1, <1>3 DEF BeginTask
<1>4. CASE BeginTurn
  <2>1. start' = start /\ calls' = calls /\ counter' = counter
        /\ wasted' = wasted /\ failed' = failed /\ pc = "turn"
    BY <1>4 DEF BeginTurn, LoopStep
  <2>2. /\ exceeded' = "tokens" => Tokens >= Budget
        /\ exceeded' = "tool_calls" => Tokens < Budget /\ calls >= ToolBudget
        /\ exceeded' = Nothing => Tokens < Budget /\ calls < ToolBudget
    BY <1>1, <1>2, <1>4, FiredLimitIs DEF BeginTurn
  <2>3. CASE exceeded' # Nothing /\ pc' = "evaluate"
    BY <1>1, <1>2, <2>1, <2>2, <2>3
  <2>4. CASE /\ exceeded' = Nothing /\ pc' = "call"
             /\ \E estimate \in Estimates :
                    ceiling' = MaxPrompt + OutputAllowance(estimate)
    <3>1. PICK estimate \in Estimates : ceiling' = MaxPrompt + OutputAllowance(estimate)
      BY <2>4
    <3>2. /\ OutputAllowance(estimate) \in Nat
          /\ Tokens + MaxPrompt + OutputAllowance(estimate) <= Budget + MaxPrompt
      BY <1>2, <2>2, <2>4, AllowanceBound
    <3> QED BY <1>1, <1>2, <2>1, <2>2, <2>4, <3>1, <3>2
  <2> QED BY <1>4, <2>3, <2>4 DEF BeginTurn, LoopStep
<1>5. CASE Answer
  BY <1>1, <1>2, <1>5 DEF Answer, LoopStep, Costs
<1>6. CASE Retry
  BY <1>1, <1>2, <1>6 DEF Retry, LoopStep, Costs
<1>7. CASE SpendCap
  BY <1>1, <1>2, <1>7 DEF SpendCap, LoopStep, Limits, Costs
<1>8. CASE ProviderFailed
  BY <1>1, <1>2, <1>8 DEF ProviderFailed, LoopStep, Costs, Limits
<1>9. CASE Act
  <2>1. /\ start' = start /\ calls' = calls + 1 /\ counter' = counter
        /\ wasted' = wasted /\ failed' = failed /\ pc = "act"
        /\ pc' \in {"evaluate", "turn"} /\ (exceeded' # Nothing => pc' = "evaluate")
    BY <1>9 DEF Act, LoopStep
  <2>2. /\ exceeded' = "tokens" => Tokens >= Budget
        /\ exceeded' = "tool_calls" => Tokens < Budget /\ calls + 1 >= ToolBudget
        /\ exceeded' = Nothing => Tokens < Budget /\ calls + 1 < ToolBudget
    BY <1>1, <1>2, <1>9, FiredLimitIs DEF Act
  <2> QED BY <1>1, <1>2, <2>1, <2>2
<1>10. CASE pc' \notin {"turn", "call", "act", "evaluate"}
  BY <1>10
<1>11. CASE UNCHANGED <<pc, loopVars>>
  BY <1>2, <1>11 DEF loopVars
<1>12. (\/ StartCampaign \/ Evaluate \/ Verdict \/ Sign \/ SaveSource \/ WriteSummary
        \/ Crash) => pc' \notin {"turn", "call", "act", "evaluate"}
  BY DEF StartCampaign, Evaluate, Verdict, Sign, SaveSource, WriteSummary, Crash, Abandon
<1>13. (SkipTask \/ JudgeStep \/ HiddenTestsChange \/ UNCHANGED vars)
          => UNCHANGED <<pc, loopVars>>
  BY DEF SkipTask, JudgeStep, HiddenTestsChange, vars
<1> QED BY <1>3, <1>4, <1>5, <1>6, <1>7, <1>8, <1>9, <1>10, <1>11, <1>12, <1>13,
           RaisingIsCrashing
        DEF Next, CampaignStep

LEMMA RowsStep ==
    ASSUME Inv, [Next]_vars
    PROVE  RowsInv'
<1>1. counter \in Nat /\ start \in 0 .. counter /\ total \in Nat /\ pc \in PCs
  BY DEF Inv, TypeOK
<1>2. RowsInv
  BY DEF Inv
<1> USE DEF RowsInv
<1>3. CASE StartCampaign
  BY <1>2, <1>3 DEF StartCampaign, loopVars
<1>4. CASE SkipTask
  BY <1>2, <1>4 DEF SkipTask, loopVars
<1>5. CASE BeginTask
  BY <1>2, <1>5 DEF BeginTask
<1>6. CASE Turn
  BY <1>2, <1>6, TurnFrame
<1>7. CASE SaveSource
  BY <1>1, <1>2, <1>7 DEF SaveSource, Tokens
<1>8. CASE WriteSummary \/ Crash
  BY <1>8 DEF WriteSummary, Crash, Abandon
<1>9. CASE Evaluate \/ JudgeStep \/ Verdict \/ Sign
  BY <1>2, <1>9 DEF Evaluate, JudgeStep, Verdict, Sign, loopVars
<1>10. CASE HiddenTestsChange \/ UNCHANGED vars
  BY <1>2, <1>10 DEF HiddenTestsChange, vars, loopVars
<1> QED BY <1>3, <1>4, <1>5, <1>6, <1>7, <1>8, <1>9, <1>10, RaisingIsCrashing
        DEF Next, CampaignStep, Turn

\* The judged design stays the sandbox's, and the manifest in hand carries it.
LEMMA TaskStep ==
    ASSUME Inv, [Next]_vars
    PROVE  TaskInv'
<1> USE DEF TaskInv, Task, Skipped, planVars
<1>1. TaskInv /\ TypeOK /\ TrackBTypeOK /\ EvaluationInv
  BY DEF Inv, TypeOK
<1>2. CASE pc' \in {"off", "task"}
  BY <1>2
<1>3. CASE BeginTask
  BY <1>3 DEF BeginTask
<1>4. CASE Turn
  BY <1>1, <1>4, TurnFrame
<1>5. CASE Evaluate
  <2>1. /\ ev' = NewEvaluation(Task, official, design) /\ pc = "evaluate"
        /\ pc' = "judging" /\ UNCHANGED <<at, design, run, official, unreviewed>>
    BY <1>5 DEF Evaluate, StartEvaluation, Go
  <2> QED BY <1>1, <2>1 DEF NewEvaluation
<1>6. CASE JudgeStep
  <2>1. Follows(ev, ev') /\ UNCHANGED <<pc, at, design, run, official, unreviewed>>
        /\ pc = "judging"
    BY <1>1, <1>6, JudgeKeeps DEF JudgeStep, loopVars
  <2> QED BY <1>1, <2>1 DEF Follows
<1>7. CASE Verdict
  <2>1. /\ manifest' = [manifest EXCEPT ![ev.task] = ManifestOf(ev)]
        /\ pc = "judging" /\ pc' = "sign"
        /\ UNCHANGED <<at, design, run, official, unreviewed>>
    BY <1>7 DEF Verdict, WriteManifest, loopVars
  <2>2. ManifestOf(ev) # Nothing /\ ManifestOf(ev).sha = ev.sha /\ ev.task \in Tasks
    BY <1>1, ManifestOfType DEF TrackBTypeOK, Evaluation
  <2> QED BY <1>1, <2>1, <2>2 DEF TrackBTypeOK
<1>8. CASE Sign
  <2>1. /\ Task \in Tasks /\ manifest[Task] \in Manifest /\ manifest[Task].sha = design
        /\ pc = "sign"
    BY <1>1, <1>8 DEF Sign, TrackBTypeOK
  <2>2. PICK m : m = [manifest[Task] EXCEPT !.by = run]
    OBVIOUS
  <2>3. m \in Manifest /\ m.by = run /\ m.sha = design
    BY <1>1, <2>1, <2>2 DEF Manifest, TypeOK
  <2>4. manifest' = [manifest EXCEPT ![Task] = m]
    BY <1>8, <2>2, Zenon DEF Sign
  <2>5. UNCHANGED <<at, design, run, official, unreviewed>> /\ pc' = "save"
    BY <1>8 DEF Sign, loopVars
  <2> QED BY <1>1, <2>1, <2>3, <2>4, <2>5 DEF TrackBTypeOK
<1>9. CASE HiddenTestsChange
  <2>1. UNCHANGED <<ev, manifest, pc, at, design, run, official, unreviewed>>
    BY <1>9 DEF HiddenTestsChange, ChangeHidden, loopVars
  <2> QED BY <1>1, <2>1
<1>10. CASE UNCHANGED vars
  <2>1. UNCHANGED <<ev, manifest, pc, at, design, run, official, unreviewed>>
    BY <1>10 DEF vars, trackBVars, loopVars
  <2> QED BY <1>1, <2>1
<1>11. StartCampaign \/ SkipTask \/ SaveSource \/ WriteSummary \/ Crash
           => pc' \in {"off", "task"}
  BY DEF StartCampaign, SkipTask, SaveSource, WriteSummary, Crash, Abandon
<1> QED BY <1>2, <1>3, <1>4, <1>5, <1>6, <1>7, <1>8, <1>9, <1>10, <1>11,
           RaisingIsCrashing
        DEF Next, CampaignStep, Turn

\* A task that is done stays so while the campaign works on other tasks.
LEMMA DoneStays ==
    ASSUME TypeOK, NEW i \in Positions, at \in Positions, i # at, Done(TaskAt[i]),
           NEW m, NEW d, run' = run,
           \/ manifest' = manifest
           \/ manifest' = [manifest EXCEPT ![Task] = m],
           \/ sv' = sv
           \/ sv' = [sv EXCEPT ![Task] = d]
    PROVE  Done(TaskAt[i])'
<1>1. TaskAt[i] # Task /\ TaskAt[i] \in Tasks /\ Task \in Tasks
  BY DEF Task
<1>2. manifest'[TaskAt[i]] = manifest[TaskAt[i]]
  BY <1>1 DEF TypeOK, TrackBTypeOK
<1>3. sv'[TaskAt[i]] = sv[TaskAt[i]]
  BY <1>1 DEF TypeOK
<1> QED BY <1>2, <1>3 DEF Done

LEMMA CampaignInvStep ==
    ASSUME Inv, [Next]_vars
    PROVE  CampaignInv'
<1>1. /\ CampaignInv /\ TaskInv /\ TypeOK /\ TrackBTypeOK /\ EvaluationInv /\ RowsInv
      /\ ManifestsInv
      /\ run \in Nat /\ summary \in Summary /\ at \in 1 .. (NTasks + 1) /\ summary.by \in Nat
  BY DEF Inv, TypeOK, Summary
<1>2. CASE UNCHANGED <<manifest, sv, summary, run, official, unreviewed, at, pc>>
  BY <1>1, <1>2 DEF CampaignInv, Done, Skipped
<1>3. CASE /\ UNCHANGED <<manifest, sv, summary, run, official, unreviewed, at>>
           /\ pc # "off" /\ pc' # "off"
  BY <1>1, <1>3 DEF CampaignInv, Done, Skipped
<1>4. CASE StartCampaign
  BY <1>1, <1>4 DEF StartCampaign, fileVars, CampaignInv, RowsInv, Positions
<1>5. CASE SkipTask
  <2>1. /\ UNCHANGED <<manifest, sv, summary, run, official, unreviewed>> /\ pc = "task"
        /\ pc' = "task" /\ at' = at + 1 /\ Task \in Skipped
    BY <1>5 DEF SkipTask, trackBVars, fileVars, planVars
  <2>2. \A i \in Positions : i < at' => i < at \/ i = at
    BY <1>1, <2>1 DEF Positions
  <2> QED BY <1>1, <2>1, <2>2 DEF CampaignInv, Done, Skipped, Task
<1>6. CASE Verdict \/ Sign
  <2>2. /\ UNCHANGED <<sv, summary, run, official, unreviewed, at>>
        /\ pc # "off" /\ pc' # "off" /\ at \in Positions
    BY <1>1, <1>6 DEF Verdict, Sign, TaskInv, fileVars, planVars
  <2>3. \E m : manifest' = [manifest EXCEPT ![Task] = m]
    BY <1>1, <1>6, Zenon DEF Verdict, WriteManifest, Sign, TaskInv
  <2>4. ASSUME NEW i \in Positions, i < at, Done(TaskAt[i]) PROVE Done(TaskAt[i])'
    <3>1. i # at /\ sv' = sv /\ run' = run
      BY <1>1, <2>2, <2>4
    <3> QED BY <1>1, <2>2, <2>3, <2>4, <3>1, DoneStays
  <2> QED BY <1>1, <2>2, <2>4 DEF CampaignInv, Skipped
<1>7. CASE SaveSource
  <2>1. /\ UNCHANGED <<manifest, summary, run, official, unreviewed>> /\ pc = "save"
        /\ pc' = "task" /\ at' = at + 1 /\ sv' = [sv EXCEPT ![Task] = design]
        /\ at \in Positions
    BY <1>1, <1>7 DEF SaveSource, trackBVars, planVars, TaskInv
  <2>2. \A i \in Positions : i < at' => i < at \/ i = at
    BY <1>1, <2>1 DEF Positions
  <2>3. ASSUME NEW i \in Positions, i < at, Done(TaskAt[i]) PROVE Done(TaskAt[i])'
    <3>1. i # at /\ manifest' = manifest /\ run' = run
      BY <1>1, <2>1, <2>3
    <3> QED BY <1>1, <2>1, <2>3, <3>1, DoneStays
  <2>4. ASSUME NEW i \in Positions, i = at PROVE Done(TaskAt[i])'
    <3>1. Task \in Tasks /\ manifest[Task] # Nothing /\ manifest[Task].sha = design
          /\ manifest[Task].by = run
      BY <1>1, <2>1 DEF TaskInv, Task
    <3>2. manifest[Task].hidden => manifest[Task].official
      BY <1>1, <3>1 DEF ManifestsInv, Written, ManifestGood
    <3>3. sv'[Task] = design
      BY <1>1, <2>1, <3>1 DEF TypeOK
    <3> QED BY <2>1, <2>4, <3>1, <3>2, <3>3 DEF Done, Task
  <2> QED BY <1>1, <2>1, <2>2, <2>3, <2>4 DEF CampaignInv, Skipped, Task
<1>8. CASE WriteSummary
  <2>1. /\ UNCHANGED <<manifest, sv, run, official, unreviewed>> /\ pc = "task"
        /\ at \notin Positions /\ pc' = "off"
        /\ summary' = [by |-> run, skipped |-> Skipped]
    BY <1>8 DEF WriteSummary, trackBVars, planVars
  <2>2. \A i \in Positions : i < at
    BY <1>1, <2>1 DEF Positions
  <2>3. \A i \in Positions : TaskAt[i] \notin Skipped => Done(TaskAt[i])
    BY <1>1, <2>1, <2>2 DEF CampaignInv
  <2> QED BY <1>1, <2>1, <2>3 DEF CampaignInv, Done
<1>9. CASE Crash
  BY <1>1, <1>9 DEF Crash, Abandon, fileVars, planVars, CampaignInv
<1>10. BeginTask \/ Turn \/ Evaluate => /\ pc # "off" /\ pc' # "off"
             /\ UNCHANGED <<manifest, sv, summary, run, official, unreviewed, at>>
  BY TurnFrame DEF BeginTask, Evaluate, StartEvaluation, Go, trackBVars, fileVars, planVars
<1>11. JudgeStep =>
          UNCHANGED <<manifest, sv, summary, run, official, unreviewed, at, pc>>
  BY <1>1, JudgeKeeps DEF JudgeStep, fileVars, planVars
<1>12. HiddenTestsChange \/ UNCHANGED vars =>
          UNCHANGED <<manifest, sv, summary, run, official, unreviewed, at, pc>>
  BY DEF HiddenTestsChange, ChangeHidden, vars, trackBVars, fileVars, planVars
<1> QED BY <1>2, <1>3, <1>4, <1>5, <1>6, <1>7, <1>8, <1>9, <1>10, <1>11, <1>12,
           RaisingIsCrashing
        DEF Next, CampaignStep, Turn

-----------------------------------------------------------------------------
(* The theorems *)

LEMMA EarlierManifestIs ==
    ASSUME NEW d \in Designs, NEW m, m = EarlierManifest(d)
    PROVE  /\ m \in Manifest /\ m # Nothing /\ m.sha = d /\ m.by = 1
           /\ ~m.hidden /\ m.score = 0 /\ m.third = "correctness" /\ m.sec = "skip"
           /\ ~m.objective /\ ~m.disqualified
           /\ \A s \in Stages : m.stages[s] = "fail"
<1> DEFINE t == CHOOSE t \in Tasks : TRUE
<1>1. t \in Tasks
  OBVIOUS
<1>2. NewEvaluation(t, FALSE, d) \in Evaluation
  BY <1>1, NewEvaluationType
<1>3. PICK e : e = [NewEvaluation(t, FALSE, d) EXCEPT !.stages = [s \in Stages |-> "fail"]]
  OBVIOUS
<1>4. /\ e \in Evaluation /\ e.sha = d /\ ~e.hidden /\ e.third = "correctness"
      /\ e.sec = "skip" /\ ~e.objective /\ ~e.disqualified
      /\ \A s \in Stages : e.stages[s] = "fail"
  <2>1. [s \in Stages |-> "fail"] \in [Stages -> Status]
    BY DEF Status
  <2> QED BY <1>2, <1>3, <2>1 DEF NewEvaluation, Evaluation
<1>5. m = [ManifestOf(e) EXCEPT !.by = 1]
  BY <1>3, Zenon DEF EarlierManifest
<1>6. PICK n \in Manifest : n = ManifestOf(e)
  BY <1>4, ManifestOfType
<1>7. /\ n.sha = d /\ ~n.hidden /\ n.score = 0 /\ n.third = "correctness"
      /\ n.sec = "skip" /\ ~n.objective /\ ~n.disqualified /\ n.stages = e.stages
  BY <1>4, <1>6 DEF ManifestOf
<1>8. m = [n EXCEPT !.by = 1]
  BY <1>5, <1>6
<1> QED BY <1>4, <1>7, <1>8 DEF Manifest

LEMMA InvInit == Init => Inv
<1> SUFFICES ASSUME Init PROVE Inv
  OBVIOUS
<1>1. /\ epc = "idle" /\ ev = NoEvaluation /\ pc = "off" /\ run = 1 /\ at = 1
      /\ counter = 0 /\ start = 0 /\ total = 0
  BY DEF Init
<1>2. /\ manifest \in [Tasks -> Manifest \cup {Nothing}]
      /\ sv \in [Tasks -> Designs \cup {Nothing}]
      /\ summary \in Summary
      /\ ManifestsInv /\ CampaignInv
  <2>1. CASE manifest = [t \in Tasks |-> Nothing] /\ sv = [t \in Tasks |-> Nothing]
    <3>1. summary \in Summary /\ summary.by = 0
      BY <2>1 DEF Init, Summary
    <3>2. ManifestsInv
      BY <2>1 DEF ManifestsInv, Written
    <3>3. CampaignInv
      BY <1>1, <3>1 DEF CampaignInv
    <3> QED BY <2>1, <3>1, <3>2, <3>3
  <2>2. ASSUME NEW d \in Designs, manifest = [t \in Tasks |-> EarlierManifest(d)],
               sv = [t \in Tasks |-> d]
        PROVE  /\ manifest \in [Tasks -> Manifest \cup {Nothing}]
               /\ sv \in [Tasks -> Designs \cup {Nothing}]
               /\ summary \in Summary
               /\ ManifestsInv /\ CampaignInv
    <3>1. PICK m \in Manifest : m = EarlierManifest(d)
      BY EarlierManifestIs
    <3>2. /\ m # Nothing /\ m.sha = d /\ m.by = 1 /\ ~m.hidden /\ m.score = 0
          /\ m.third = "correctness" /\ m.sec = "skip" /\ ~m.objective
          /\ ~m.disqualified /\ \A s \in Stages : m.stages[s] = "fail"
      BY <3>1, EarlierManifestIs
    <3>3. manifest = [t \in Tasks |-> m]
      BY <2>2, <3>1
    <3>4. \A t \in Tasks : ManifestGood(t, m)
      BY <3>2 DEF ManifestGood, Earned, Validates, CorrectnessFits, Stages
    <3>5. summary = [by |-> 1, skipped |-> {}]
      BY <2>2 DEF Init
    <3>6. \A i \in Positions : Done(TaskAt[i])
      BY <1>1, <2>2, <3>2, <3>3 DEF Done
    <3>7. CampaignInv
      BY <1>1, <3>5, <3>6 DEF CampaignInv
    <3> QED BY <2>2, <3>3, <3>4, <3>5, <3>7 DEF ManifestsInv, Written, Summary
  <2> QED BY <2>1, <2>2 DEF Init
<1>3. TypeOK
  <2>1. TrackBTypeOK
    BY <1>1, <1>2, NoEvaluationType DEF Init, TrackBTypeOK, HiddenStates
  <2>2. AnyDesign \in Designs
    BY DEF AnyDesign
  <2>3. exceeded \in Limits \cup {Nothing}
    BY Zenon DEF Init
  <2>4. at \in 1 .. (NTasks + 1) /\ attempt \in 1 .. Attempts
    BY <1>1 DEF Init
  <2>5. /\ pc \in PCs /\ official \in BOOLEAN /\ unreviewed \in SUBSET Tasks
        /\ calls \in Nat /\ ceiling \in Nat /\ wasted \in Nat /\ failed \in BOOLEAN
        /\ design \in Designs
    BY <1>1, <2>2 DEF Init, PCs
  <2> QED BY <1>1, <1>2, <2>1, <2>3, <2>4, <2>5 DEF TypeOK
<1>4. EvaluationInv
  BY <1>1, NoEvaluationType DEF EvaluationInv
<1> QED BY <1>1, <1>2, <1>3, <1>4 DEF Inv, LoopInv, RowsInv, TaskInv

LEMMA Invariance == Spec => []Inv
<1>1. Inv /\ [Next]_vars => Inv'
  BY TypeStep, EvaluationStep, LoopInvStep, RowsStep, TaskStep, CampaignInvStep DEF Inv
<1> QED BY InvInit, <1>1, PTL DEF Spec

\* The variables of the campaign and of the evaluator keep their types.
THEOREM TypeCorrect == Spec => []TypeOK
<1>1. Inv => TypeOK
  BY DEF Inv
<1> QED BY Invariance, <1>1, PTL

\* run_track_b: whatever happens to the hidden tests between the preflight and
\* the simulation, and whatever campaigns replaced the manifest before, a score
\* of 100 was earned at every gate that was due by the design it names.
THEOREM ScoreIsEarned == Spec => []ObjectiveMeansEveryGate
<1>1. Inv => ObjectiveMeansEveryGate
  BY DEF Inv, ManifestsInv, ManifestGood, Earned, ObjectiveMeansEveryGate
<1> QED BY Invariance, <1>1, PTL

\* TrackBManifest.validate_rules never refuses what run_track_b is about to
\* write, and validate_track_b_semantics refuses no manifest on disk but those
\* of an official run whose hidden tests the simulation found unusable.
THEOREM RulesNeverDisagree == Spec => []RulesAgree
<1>1. ASSUME Inv PROVE RulesAgree
  <2>1. ev \in Evaluation /\ ManifestsInv
    BY <1>1 DEF Inv, TypeOK, TrackBTypeOK
  <2>2. SchemaAccepts(ManifestOf(ev))
    BY <2>1 DEF SchemaAccepts, ManifestOf, Evaluation
  <2> QED BY <2>1, <2>2 DEF RulesAgree, ManifestsInv, ManifestGood
<1> QED BY Invariance, <1>1, PTL

\* run_agent_task: for every budget, output cap and number of attempts, and
\* however wrong the estimate of a prompt is, the tokens of a task exceed its
\* budget by at most the input of one attempt and what was billed for attempts
\* that were made again, and its tool calls never exceed theirs.
THEOREM BudgetIsKept == Spec => []TaskStaysNearBudget
<1>1. ASSUME Inv PROVE TaskStaysNearBudget
  <2>1. /\ counter \in Nat /\ start \in 0 .. counter /\ calls \in Nat /\ ceiling \in Nat
        /\ wasted \in Nat /\ LoopInv
    BY <1>1 DEF Inv, TypeOK
  <2> QED BY <2>1 DEF LoopInv, TaskStaysNearBudget, Tokens
<1> QED BY Invariance, <1>1, PTL

\* The budget_exceeded of a manifest is the limit that ended the loop, and its
\* absence means that no limit was reached or that the provider failed.
THEOREM FlagIsRight == Spec => []FlagTellsTheLimit
<1>1. Inv => FlagTellsTheLimit
  BY DEF Inv, LoopInv, FlagTellsTheLimit
<1> QED BY Invariance, <1>1, PTL

\* eval_agent: between two tasks the usage rows add up to the tokens that the
\* provider has counted since the campaign began.
THEOREM RowsAddUp == Spec => []RowsAccountForAllTokens
<1>1. Inv => RowsAccountForAllTokens
  BY DEF Inv, RowsInv, RowsAccountForAllTokens
<1> QED BY Invariance, <1>1, PTL

\* After a campaign that went through, each task it did not skip has a manifest
\* of this campaign and beside it the judged design, however often earlier
\* campaigns in the same directory crashed, and after which file.
THEOREM SummaryIsTrue == Spec => []SummaryTellsTheCampaign
<1>1. ASSUME Inv PROVE SummaryTellsTheCampaign
  <2> SUFFICES ASSUME pc = "off", summary.by = run
               PROVE  /\ ValidAgentSummary
                      /\ \A i \in Positions :
                           LET t == TaskAt[i]
                           IN  t \notin summary.skipped =>
                                  /\ manifest[t].by = run /\ LoadAgent(t)
                                  /\ ResolveDesignSource(t) = {manifest[t].sha}
                                  /\ InferredOfficial(manifest[t]) => manifest[t].official
    BY DEF SummaryTellsTheCampaign
  <2>1. run >= 1 /\ run \in Nat
    BY <1>1 DEF Inv, CampaignInv, TypeOK
  <2>2. \A i \in Positions : TaskAt[i] \notin summary.skipped => Done(TaskAt[i])
    BY <1>1 DEF Inv, CampaignInv
  <2>3. ValidAgentSummary
    BY <2>2 DEF ValidAgentSummary, Done
  <2>4. ASSUME NEW i \in Positions, TaskAt[i] \notin summary.skipped
        PROVE  LET t == TaskAt[i]
               IN  /\ manifest[t].by = run /\ LoadAgent(t)
                   /\ ResolveDesignSource(t) = {manifest[t].sha}
                   /\ InferredOfficial(manifest[t]) => manifest[t].official
    <3>1. TaskAt[i] \in Tasks /\ Done(TaskAt[i])
      BY <2>2, <2>4
    <3>2. manifest[TaskAt[i]] \in Manifest
      BY <1>1, <3>1 DEF Inv, TypeOK, TrackBTypeOK, Done
    <3>3. manifest[TaskAt[i]].sha # Nothing
      BY <3>2 DEF Manifest
    <3> QED BY <2>1, <3>1, <3>3 DEF Done, LoadAgent, ResolveDesignSource, InferredOfficial
  <2> QED BY <2>3, <2>4
<1> QED BY Invariance, <1>1, PTL

=============================================================================
