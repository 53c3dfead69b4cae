------------------------------- MODULE TrackB -------------------------------
(***************************************************************************)
(* The Track B evaluator (harness/trackb.py, run_track_b) and the rules a  *)
(* Track B manifest obeys, which the code states three times: in the       *)
(* evaluator, in the schema (TrackBManifest.validate_rules) and in         *)
(* validate_track_b_semantics.                                             *)
(*                                                                         *)
(* A submission is hashed, guarded, copied, and judged by lint, simulation, *)
(* equivalence checking (if the objective preserves behaviour) and its     *)
(* objective.  The hidden tests are resolved before the gates and read     *)
(* again by the simulation; in between, and between evaluations, they may  *)
(* change.  A design is a model value: Sound[gate] are the designs that can *)
(* pass a gate.  A tool may fail any design (a timeout does), but passes   *)
(* only those.                                                             *)
(***************************************************************************)
EXTENDS Naturals

CONSTANTS
    Designs,
    Nothing,       \* no design, no manifest
    Tasks,
    Preserving,    \* the tasks whose objective is behavior_preserving
    Sound,         \* Sound[g]: the designs that can pass gate g
    MaxChanges     \* bound: how often the hidden tests change

Gates == {"guard", "lint", "public", "hidden", "sec", "objective"}

ASSUME DesignAssumption == Nothing \notin Designs /\ Designs # {}
ASSUME TasksAssumption == Tasks # {} /\ Preserving \subseteq Tasks
ASSUME SoundAssumption == Sound \in [Gates -> SUBSET Designs]
ASSUME ChangeAssumption == MaxChanges \in Nat

VARIABLES
    hidden,      \* the hidden module: usable, unreadable as tests, or not there
    changes,     \* how often it has changed
    epc,         \* where run_track_b stands
    ev,          \* its local variables
    manifest     \* per task, the manifest on disk

trackBVars == <<hidden, changes, epc, ev, manifest>>

-----------------------------------------------------------------------------
(* Manifests *)

Stages == 0 .. 3
Status == {"pass", "fail", "skip"}
SecStatus == Status \cup {"timeout"}
HiddenStates == {"tests", "broken", "missing"}

\* The local variables of run_track_b.  third is the name of stage 2.
Evaluation ==
    [task : Tasks, official : BOOLEAN, sha : Designs, disqualified : BOOLEAN,
     stages : [Stages -> Status], third : {"sec", "correctness"},
     sec : SecStatus, objective : BOOLEAN, hidden : BOOLEAN]

\* hidden: is a hidden_module_sha256 recorded?  official is history.  The
\* evaluator signs for provider "local", which by = 0 stands for; the number of
\* an agent campaign stands for its model and its usage.
Manifest ==
    [official : BOOLEAN, sha : Designs, disqualified : BOOLEAN,
     stages : [Stages -> Status], third : {"sec", "correctness"}, sec : SecStatus,
     objective : BOOLEAN, hidden : BOOLEAN, score : {0, 100}, by : Nat]

ASSUME NoManifestAssumption == Nothing \notin Manifest

ManifestOf(e) ==
    [official |-> e.official, sha |-> e.sha, disqualified |-> e.disqualified,
     stages |-> e.stages, third |-> e.third, sec |-> e.sec,
     objective |-> e.objective, hidden |-> e.hidden,
     score |-> IF e.objective /\ ~e.disqualified THEN 100 ELSE 0, by |-> 0]

\* TrackBManifest.validate_rules.
SchemaAccepts(m) ==
    /\ m.disqualified => m.score = 0
    /\ ~m.objective => m.score = 0

\* The correctness part of validate_track_b_semantics: stage 2 and sec fit the
\* simulation's result and the task.
CorrectnessFits(t, m) ==
    IF m.stages[1] # "pass"
    THEN m.third = "correctness" /\ m.stages[2] = "fail" /\ m.sec = "skip"
    ELSE IF t \in Preserving
    THEN /\ m.third = "sec"
         /\ m.stages[2] = "pass" => m.sec = "pass"
         /\ m.stages[2] # "pass" => m.sec \in {"fail", "timeout"}
    ELSE m.third = "correctness" /\ m.stages[2] = "skip" /\ m.sec = "skip"

CorrectnessHolds(t, m) ==
    m.stages[1] = "pass" /\ (t \in Preserving => m.stages[2] = "pass")

\* validate_track_b_semantics; the ratios of a manifest are not modelled.
Validates(t, m) ==
    IF m.disqualified THEN \A s \in Stages : m.stages[s] = "skip"
    ELSE /\ m.stages[0] # "skip"
         /\ m.stages[0] = "pass" => m.stages[1] # "skip"
         /\ m.stages[0] # "pass" => m.stages[1] = "fail"
         /\ CorrectnessFits(t, m)
         /\ m.objective => CorrectnessHolds(t, m)
         /\ m.stages[3] = (IF m.objective THEN "pass" ELSE "fail")
         /\ m.score = (IF m.objective THEN 100 ELSE 0)

-----------------------------------------------------------------------------
(* The evaluation *)

NewEvaluation(t, official, d) ==
    [task |-> t, official |-> official, sha |-> d, disqualified |-> FALSE,
     stages |-> [s \in Stages |-> "skip"], third |-> "correctness",
     sec |-> "skip", objective |-> FALSE, hidden |-> FALSE]

\* Between evaluations.
NoEvaluation ==
    NewEvaluation(CHOOSE t \in Tasks : TRUE, FALSE, CHOOSE d \in Designs : TRUE)

\* run_track_b keeps going, with new local variables.
Go(next, e) ==
    /\ epc' = next
    /\ ev' = e
    /\ UNCHANGED <<hidden, changes, manifest>>

\* The stages from s on are recorded as failed without being run.
FailFrom(s) == [ev EXCEPT !.stages = [i \in Stages |-> IF i < s THEN @[i] ELSE "fail"]]
PassStage(s) == [ev EXCEPT !.stages[s] = "pass"]

\* Entry of run_track_b: the one design file of the submission is hashed.
StartEvaluation(t, official, d) == Go("preflight", NewEvaluation(t, official, d))

\* official_hidden_preflight: only whether the module is there.
Preflight ==
    /\ epc = "preflight"
    /\ IF ev.official /\ hidden = "missing"
       THEN Go("write", [ev EXCEPT !.disqualified = TRUE])
       ELSE Go("guard", ev)

\* diff_guard compares the submission with the package as it is now, which may
\* have changed since the agent's sandbox was copied from it.
DiffGuard ==
    /\ epc = "guard"
    /\ \/ ev.sha \in Sound["guard"] /\ Go("lint", ev)
       \/ Go("write", [ev EXCEPT !.disqualified = TRUE])

Lint ==
    /\ epc = "lint"
    /\ \/ ev.sha \in Sound["lint"] /\ Go("sim", PassStage(0))
       \/ Go("write", FailFrom(0))

Simulates ==
    /\ ev.sha \in Sound["public"]
    /\ ev.official => ev.sha \in Sound["hidden"]

\* Mutant: hidden tests that cannot be read are left out.
SimSkippingBrokenTests ==
    /\ epc = "sim"
    /\ \/ /\ ev.sha \in Sound["public"]
          /\ (ev.official /\ hidden = "tests") => ev.sha \in Sound["hidden"]
          /\ Go("correctness", [PassStage(1) EXCEPT !.hidden = ev.official])
       \/ Go("write", FailFrom(1))

\* run_sim resolves the hidden module again, parses it, and runs all tests;
\* the hash of the hidden tests is recorded only if they all pass.
Sim ==
    /\ epc = "sim"
    /\ IF ev.official /\ hidden # "tests"
       THEN Go("write", [FailFrom(1) EXCEPT !.disqualified = TRUE])
       ELSE \/ /\ Simulates
               /\ Go("correctness", [PassStage(1) EXCEPT !.hidden = ev.official])
            \/ Go("write", FailFrom(1))

\* Mutant: an equivalence check that times out counts as skipped.
CorrectnessTimeoutSkipped ==
    /\ epc = "correctness"
    /\ \/ Go("objective", [ev EXCEPT !.third = "sec", !.sec = "timeout"])
       \/ Go("write", [FailFrom(2) EXCEPT !.third = "sec", !.sec = "fail"])

\* run_sec: a timeout fails the stage; without it the stage is skipped.
Correctness ==
    /\ epc = "correctness"
    /\ \/ ev.task \notin Preserving /\ Go("objective", ev)
       \/ /\ ev.task \in Preserving /\ ev.sha \in Sound["sec"]
          /\ Go("objective", [PassStage(2) EXCEPT !.third = "sec", !.sec = "pass"])
       \/ /\ ev.task \in Preserving
          /\ \E s \in {"fail", "timeout"} :
                Go("write", [FailFrom(2) EXCEPT !.third = "sec", !.sec = s])

\* run_objective: a FlowError fails the stage as a missed objective does.
Objective ==
    /\ epc = "objective"
    /\ \/ /\ ev.sha \in Sound["objective"]
          /\ Go("write", [PassStage(3) EXCEPT !.objective = TRUE])
       \/ Go("write", FailFrom(3))

\* The manifest replaces the one of an earlier run; the schema is asked first.
WriteManifest ==
    /\ epc = "write"
    /\ SchemaAccepts(ManifestOf(ev))
    /\ manifest' = [manifest EXCEPT ![ev.task] = ManifestOf(ev)]
    /\ epc' = "idle"
    /\ ev' = NoEvaluation
    /\ UNCHANGED <<hidden, changes>>

\* The steps before the manifest is written.
Judge ==
    Preflight \/ DiffGuard \/ Lint \/ Sim \/ Correctness \/ Objective

\* The operator mounts, replaces or removes the hidden tests.
ChangeHidden ==
    /\ changes < MaxChanges
    /\ changes' = changes + 1
    /\ hidden' \in HiddenStates \ {hidden}
    /\ UNCHANGED <<epc, ev, manifest>>

-----------------------------------------------------------------------------
(* Properties *)

TrackBTypeOK ==
    /\ hidden \in HiddenStates
    /\ changes \in Nat
    /\ epc \in {"idle", "preflight", "guard", "lint", "sim", "correctness",
                "objective", "write"}
    /\ ev \in Evaluation
    /\ manifest \in [Tasks -> Manifest \cup {Nothing}]

Written == {t \in Tasks : manifest[t] # Nothing}

\* A score means that the design whose hash the manifest carries passed every
\* gate that was due: the diff guard, lint, the public tests, in an official
\* run the hidden tests (whatever happened to them between the preflight and the
\* simulation), equivalence if behaviour must be preserved, and the objective.
ObjectiveMeansEveryGate ==
    \A t \in Written :
        LET m == manifest[t]
        IN  m.score = 100 =>
               /\ \A g \in {"guard", "lint", "public", "objective"} : m.sha \in Sound[g]
               /\ m.official => m.hidden /\ m.sha \in Sound["hidden"]
               /\ t \in Preserving => m.sha \in Sound["sec"]

\* Evaluator, schema and validator state the same rules: the schema refuses no
\* manifest of the evaluator, and the validator refuses only those whose hidden
\* tests turned out to be unusable when the simulation read them.
RefusedByPreflight(m) == m.stages[0] = "skip"
RulesAgree ==
    /\ epc = "write" => SchemaAccepts(ManifestOf(ev))
    /\ \A t \in Written :
          (manifest[t].disqualified => RefusedByPreflight(manifest[t]))
              => Validates(t, manifest[t])

=============================================================================
