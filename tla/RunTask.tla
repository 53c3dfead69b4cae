------------------------------ MODULE RunTask -------------------------------
(***************************************************************************)
(* The evaluation of one submission: harness/runner.py (run_task), the      *)
(* scoring of harness/scoring.py, the rules of harness/schemas/manifest.py, *)
(* and the offline rescoring of scripts/rescore_official.py.                *)
(*                                                                         *)
(* The submission, the hidden tests and the reference metrics are files     *)
(* that may be replaced while a run is under way; run_task reads the        *)
(* submission three times.  A design is known by the gates it can pass: a   *)
(* tool never passes a design that cannot, and may fail any (timeouts).     *)
(***************************************************************************)
EXTENDS Integers, FiniteSets

CONSTANTS
    Designs,      \* contents a submission file may have
    Sound,        \* Sound[gate]: the designs that can pass a gate
    Report,       \* Report[d]: area, wns and power the flows measure
    Revisions,    \* revisions of the hidden tests of the task
    References,   \* reference metrics the scorer may find
    Clock,        \* clock_target_ns of task.yaml
    Nothing,      \* no file, no value
    MaxRuns,      \* bound: runs and rescorings
    MaxChanges    \* bound: files replaced or removed

Public == "public"
Gates == {"size", "lint", Public, "formal"} \cup Revisions

ASSUME BoundAssumption == MaxRuns \in Nat /\ MaxChanges \in Nat
ASSUME GateAssumption == Sound \in [Gates -> SUBSET Designs]
ASSUME ReportAssumption ==
    Report \in [Designs -> [area : Int, wns : Int, power : Int]]
ASSUME ReferenceAssumption ==
    /\ Clock \in Nat \ {0}
    /\ References \subseteq
        [area : Nat \ {0}, delay : Nat \ {0}, power : Nat \ {0}, clock : Nat \ {0}]
ASSUME NothingAssumption ==
    /\ Nothing \notin Designs \cup Revisions \cup References \cup Int
    /\ Public \notin Revisions

VARIABLES
    task,       \* the task package: does it ask for formal, is it registered?
    source,     \* the submission file
    hidden,     \* the hidden module: a revision, or missing or unusable
    reference,  \* the reference metrics of the task
    out,        \* the manifest file
    pc,         \* where run_task is
    run,        \* its local variables
    runs,       \* runs and rescorings so far
    changes     \* replacements so far

vars == <<task, source, hidden, reference, out, pc, run, runs, changes>>
files == <<source, hidden, reference>>

-----------------------------------------------------------------------------
(* Stages, metrics and scores. *)

Correctness == {0, 1, 2}     \* lint, sim, formal
Physical == {3, 4, 5}        \* synth, sta, power
Stages == 0 .. 5             \* stage 6, route, is always skipped
Status == {"pass", "fail", "skip"}
AllFail == [s \in Stages |-> "fail"]
Metrics == [area : Int \cup {Nothing}, wns : Int \cup {Nothing},
            power : Int \cup {Nothing}]
NoMetrics == [area |-> Nothing, wns |-> Nothing, power |-> Nothing]

\* A score is a fraction <<n, d>>: the cube of ppa, or of min(ppa, 1.5).
Zero == <<0, 1>>
Cap == <<27, 8>>
TaskScore(ppa) == IF 8 * ppa[1] >= 27 * ppa[2] THEN Cap ELSE ppa

\* ppa_from_metrics with the delay derived from a clock and the slack.
Ppa(ref, clock, m) ==
    <<ref.area * ref.delay * ref.power, m.area * (clock - m.wns) * m.power>>

\* PpaMetrics and delay_from_wns accept these values.
Measurable(clock, m) == m.area > 0 /\ clock - m.wns > 0 /\ m.power > 0

\* The last four fields are history, not in the file: the design the tools saw,
\* whether hidden tests were due, the reference used, and who wrote the score.
Manifest ==
    [stages : [Stages -> Status], metrics : Metrics, ppa : Int \X Int,
     score : Int \X Int, submission : Designs \cup {Nothing}, hidden : Revisions \cup {Nothing},
     judged : Designs \cup {Nothing}, official : BOOLEAN,
     scoredWith : References \cup {Nothing}, by : {"legacy", "run", "rescore"}]

\* StageResult and ResultManifest accept the manifest.
MetricOf(m, s) ==
    CASE s = 3 -> m.metrics.area [] s = 4 -> m.metrics.wns [] s = 5 -> m.metrics.power
SchemaAccepts(m) ==
    /\ \A s \in Physical : (MetricOf(m, s) # Nothing) <=> (m.stages[s] = "pass")
    /\ m.stages[3] = "pass" => m.metrics.area > 0
    /\ m.stages[5] = "pass" => m.metrics.power >= 0
    /\ (\E s \in Correctness : m.stages[s] = "fail") => m.score[1] = 0
    /\ (\E s \in Physical : m.stages[s] # "pass") => m.ppa[1] = 0 /\ m.score[1] = 0

\* Mutant: a stage that was not run counts as passed.
SkippedCounts(m) == \A s \in Correctness : m.stages[s] \in {"pass", "skip"}

\* The scorer's gates: only formal may be skipped.
correctness_gates_passed(m) ==
    /\ m.stages[0] = "pass" /\ m.stages[1] = "pass"
    /\ m.stages[2] \in {"pass", "skip"}
ppa_gates_passed(m) == \A s \in Physical : m.stages[s] = "pass"
GatesPassed(m) == correctness_gates_passed(m) /\ ppa_gates_passed(m)

\* score_manifest accepts the manifest with this reference: it raises without
\* a reference or a positive delay, or if a stored value differs.
ScorerAccepts(m, ref) ==
    IF GatesPassed(m)
    THEN /\ ref # Nothing /\ Measurable(ref.clock, m.metrics)
         /\ m.ppa = Ppa(ref, ref.clock, m.metrics)
         /\ m.score = TaskScore(m.ppa)
    ELSE m.ppa[1] = 0 /\ m.score[1] = 0

\* rescore_manifest: what the offline rescoring makes of a manifest.
Rescored(m, ref) ==
    IF ~GatesPassed(m) THEN [m EXCEPT !.ppa = Zero, !.score = Zero]
    ELSE IF Measurable(ref.clock, m.metrics)
    THEN [m EXCEPT !.ppa = Ppa(ref, ref.clock, m.metrics),
                   !.score = TaskScore(Ppa(ref, ref.clock, m.metrics))]
    ELSE [m EXCEPT !.stages = [s \in Stages |->
                                  IF s \in Physical THEN "fail" ELSE m.stages[s]],
                   !.metrics = NoMetrics, !.ppa = Zero, !.score = Zero]

\* Manifests with a score by earlier versions of the harness, which took a
\* skipped lint or simulation for a passed one.
LegacyManifests ==
    {m \in [stages : {st \in [Stages -> {"pass", "skip"}] :
                         \A s \in Physical : st[s] = "pass"},
            metrics : {Report[d] : d \in Designs}, ppa : {<<1, 1>>},
            score : {<<1, 1>>}, submission : {Nothing}, hidden : {Nothing},
            judged : {Nothing}, official : {TRUE}, scoredWith : {Nothing},
            by : {"legacy"}] : SchemaAccepts(m)}

-----------------------------------------------------------------------------
\* The local variables of run_task; tests is the module it stages, Public alone
\* or with a revision of the hidden tests.
Run ==
    [official : BOOLEAN, submission : Designs \cup {Nothing},
     design : Designs \cup {Nothing}, tests : Revisions \cup {Public, Nothing},
     hidden : Revisions \cup {Nothing}, stages : [Stages -> Status],
     metrics : Metrics, ppa : Int \X Int, reference : References \cup {Nothing}]

NewRun(official, hashed) ==
    [official |-> official, submission |-> hashed, design |-> Nothing,
     tests |-> Nothing, hidden |-> Nothing, stages |-> AllFail,
     metrics |-> NoMetrics, ppa |-> Zero, reference |-> Nothing]
NoRun == NewRun(FALSE, Nothing)

Init ==
    /\ task \in [formal : BOOLEAN, registered : BOOLEAN]
    /\ source \in Designs
    /\ hidden \in Revisions \cup {Nothing}
    /\ reference \in References
    /\ out \in LegacyManifests \cup {Nothing}
    /\ pc = "idle"
    /\ run = NoRun
    /\ runs = 0
    /\ changes = 0

\* run_task keeps going: it leaves the files and the manifest alone.
Continue(next) ==
    /\ pc' = next
    /\ UNCHANGED <<task, source, hidden, reference, out, runs, changes>>

\* The stages after a failed one are recorded as failed without being run.
Set(stage, status) == [run.stages EXCEPT ![stage] = status]

\* The submission is hashed, if it can be read, before it is validated.
StartRun ==
    /\ pc \in {"idle", "refused"}
    /\ runs < MaxRuns
    /\ \E official \in BOOLEAN : run' = NewRun(official, source)
    /\ pc' = "validate"
    /\ runs' = runs + 1
    /\ UNCHANGED <<task, source, hidden, reference, out, changes>>

Validate ==
    /\ pc = "validate"
    /\ Continue(IF source \in Sound["size"] THEN "copy" ELSE "score")
    /\ UNCHANGED run

\* The third read of the path: from here on the tools use this copy.
CopySubmission ==
    /\ pc = "copy"
    /\ source # Nothing
    /\ run' = [run EXCEPT !.design = source]
    /\ Continue("lint")

Lint ==
    /\ pc = "lint"
    /\ \/ /\ run.design \in Sound["lint"]
          /\ run' = [run EXCEPT !.stages = Set(0, "pass")]
          /\ Continue("prepare")
       \/ /\ UNCHANGED run
          /\ Continue("score")

HiddenDue == run.official /\ task.registered

\* Mutant: an official run without hidden tests falls back to the public ones.
PrepareFallingBack ==
    /\ pc = "prepare"
    /\ run' = [run EXCEPT !.tests = IF HiddenDue /\ hidden \in Revisions
                                   THEN hidden ELSE Public]
    /\ Continue("sim")

\* _prepare_sim_tests: stage the hidden tests beside the public ones, or fail
\* the simulation stage when they cannot be had.
PrepareSimTests ==
    /\ pc = "prepare"
    /\ IF ~HiddenDue
       THEN run' = [run EXCEPT !.tests = Public] /\ Continue("sim")
       ELSE IF hidden \in Revisions
       THEN run' = [run EXCEPT !.tests = hidden] /\ Continue("sim")
       ELSE UNCHANGED run /\ Continue("score")

\* Hash and number of the hidden tests are recorded only when all tests pass.
Simulates(d) == d \in Sound[Public] /\ d \in Sound[run.tests]

Sim ==
    /\ pc = "sim"
    /\ \/ /\ Simulates(run.design)
          /\ run' = [run EXCEPT !.stages = Set(1, "pass"),
                                !.hidden = IF HiddenDue THEN run.tests ELSE Nothing]
          /\ Continue("formal")
       \/ /\ UNCHANGED run
          /\ Continue("score")

Formal ==
    /\ pc = "formal"
    /\ \/ /\ ~task.formal
          /\ run' = [run EXCEPT !.stages = Set(2, "skip")]
          /\ Continue("flows")
       \/ /\ task.formal /\ run.design \in Sound["formal"]
          /\ run' = [run EXCEPT !.stages = Set(2, "pass")]
          /\ Continue("flows")
       \/ /\ task.formal
          /\ UNCHANGED run
          /\ Continue("score")

\* Which physical stages pass on the values the flows report.
FlowPasses(m) ==
    {s \in Physical : \/ s = 3 /\ m.area > 0
                      \/ s = 4 /\ Clock - m.wns > 0 /\ m.wns >= 0
                      \/ s = 5 /\ m.power > 0}

\* Mutant: the values of failed stages are recorded, too.
ReportedAlways(m, passed) == m

\* Only the values of passing stages enter the manifest.
Reported(m, passed) ==
    [area |-> IF 3 \in passed THEN m.area ELSE Nothing,
     wns |-> IF 4 \in passed THEN m.wns ELSE Nothing,
     power |-> IF 5 \in passed THEN m.power ELSE Nothing]

PpaFlows ==
    /\ pc = "flows"
    /\ \/ LET passed == FlowPasses(Report[run.design])
          IN run' = [run EXCEPT
                 !.stages = [s \in Stages |-> IF s \in passed THEN "pass" ELSE @[s]],
                 !.metrics = Reported(Report[run.design], passed)]
       \/ UNCHANGED run       \* FlowError in any of the three
    /\ Continue("score")

\* run_task's own gates: a skip of any correctness stage counts.
RunGatesPassed ==
    /\ \A s \in Correctness : run.stages[s] \in {"pass", "skip"}
    /\ \A s \in Physical : run.stages[s] = "pass"

Score ==
    /\ pc = "score"
    /\ RunGatesPassed => reference # Nothing /\ Measurable(Clock, run.metrics)
    /\ run' = IF RunGatesPassed
              THEN [run EXCEPT !.ppa = Ppa(reference, Clock, run.metrics),
                               !.reference = reference]
              ELSE run
    /\ Continue("write")

ManifestOf(r) ==
    [stages |-> r.stages, metrics |-> r.metrics, ppa |-> r.ppa,
     score |-> TaskScore(r.ppa), submission |-> r.submission, hidden |-> r.hidden,
     judged |-> r.design, official |-> r.official /\ task.registered,
     scoredWith |-> r.reference, by |-> "run"]

\* ResultManifest.model_validate raises before the file is touched.
WriteManifest ==
    /\ pc = "write"
    /\ LET m == ManifestOf(run)
       IN /\ out' = IF SchemaAccepts(m) THEN m ELSE out
          /\ pc' = IF SchemaAccepts(m) THEN "idle" ELSE "refused"
    /\ run' = NoRun
    /\ UNCHANGED <<task, source, hidden, reference, runs, changes>>

\* An exception on the way (no submission to copy, no reference, no tool) or a
\* crash: no manifest is written.
Abort ==
    /\ pc \notin {"idle", "refused"}
    /\ run' = NoRun
    /\ Continue("idle")

\* rescore_official.py on this manifest, when no run is under way.
Rescore ==
    /\ pc = "idle"
    /\ runs < MaxRuns
    /\ out # Nothing
    /\ SchemaAccepts(out)
    /\ GatesPassed(out) => reference # Nothing
    /\ out' = [Rescored(out, reference) EXCEPT
                  !.scoredWith = IF GatesPassed(out) THEN reference ELSE Nothing,
                  !.by = "rescore"]
    /\ runs' = runs + 1
    /\ UNCHANGED <<task, source, hidden, reference, pc, run, changes>>

\* Another process replaces or removes a file run_task reads.
ChangeFile ==
    /\ changes < MaxChanges
    /\ changes' = changes + 1
    /\ \/ source' \in Designs \cup {Nothing} /\ UNCHANGED <<hidden, reference>>
       \/ hidden' \in Revisions \cup {Nothing} /\ UNCHANGED <<source, reference>>
       \/ reference' \in References \cup {Nothing} /\ UNCHANGED <<source, hidden>>
    /\ UNCHANGED <<task, out, pc, run, runs>>

Next ==
    \/ StartRun \/ Validate \/ CopySubmission \/ Lint \/ PrepareSimTests \/ Sim
    \/ Formal \/ PpaFlows \/ Score \/ WriteManifest \/ Abort \/ Rescore
    \/ ChangeFile

Spec == Init /\ [][Next]_vars

-----------------------------------------------------------------------------
TypeOK ==
    /\ task \in [formal : BOOLEAN, registered : BOOLEAN]
    /\ source \in Designs \cup {Nothing}
    /\ hidden \in Revisions \cup {Nothing}
    /\ reference \in References \cup {Nothing}
    /\ out \in Manifest \cup {Nothing}
    /\ pc \in {"idle", "validate", "copy", "lint", "prepare", "sim", "formal",
               "flows", "score", "write", "refused"}
    /\ run \in Run
    /\ runs \in 0 .. MaxRuns
    /\ changes \in 0 .. MaxChanges

\* A design earns a score only by passing every gate that was due, whatever was
\* replaced meanwhile: lint, the public tests, on an official run of a
\* registered task the hidden revision the manifest names, formal unless
\* task.yaml opts out, and timing.  The metrics are its own.
Passed(m, d) ==
    /\ d \in Sound["lint"] \cap Sound[Public]
    /\ m.official => m.hidden \in Revisions /\ d \in Sound[m.hidden]
    /\ task.formal => d \in Sound["formal"]
    /\ Report[d].wns >= 0 /\ Report[d].area > 0 /\ Report[d].power > 0
    /\ m.metrics = Report[d]
ScoreMeansEveryGate ==
    (out # Nothing /\ out.judged # Nothing /\ out.score[1] > 0) =>
        Passed(out, out.judged)

\* Once rescored, also a manifest of an earlier version has a score only if lint
\* and simulation were run and passed (scoring.correctness_gates_passed).
NoScoreWithoutAGate ==
    (out # Nothing /\ out.by # "legacy" /\ out.score[1] > 0) =>
        /\ \A s \in {0, 1, 3, 4, 5} : out.stages[s] = "pass"
        /\ out.stages[2] # "fail"

\* The four places that state the scoring rules agree: the schema refuses no
\* manifest run_task makes, and as long as the reference metrics stay the same
\* and their clock is task.yaml's, score_manifest accepts what was written and
\* rescoring changes nothing.
ScoresSettled ==
    /\ pc # "refused"
    /\ (/\ out # Nothing
        /\ out.by # "legacy"
        /\ GatesPassed(out) => out.scoredWith = reference
        /\ out.by = "run" /\ GatesPassed(out) => reference.clock = Clock)
       => /\ SchemaAccepts(out)
          /\ ScorerAccepts(out, reference)
          /\ Rescored(out, reference) = out

=============================================================================
