------------------------------ MODULE Mutation ------------------------------
(***************************************************************************)
(* The mutation certification (scripts/certify_mutation.py), the campaign  *)
(* it runs per task (harness/mutate.py) and the staleness check of its     *)
(* summary (scripts/verify_mutation_certification.py), while the hidden    *)
(* tests of module HiddenTests are split, moved, mounted and spoiled.      *)
(*                                                                         *)
(* A mutant is a model value; Catches[m] are the tests it fails.  A tool   *)
(* may fail any design, and a simulation may break or time out.            *)
(***************************************************************************)
EXTENDS HiddenTests

CONSTANTS
    TrackA,      \* TrackA[i]: the i-th task to be certified
    NTrackA,
    Mutants,     \* Mutants[t]: what generate_mutants makes of t's reference
    Catches,
    MaxSummaries \* bound: certifications that go through

Certifications == 1 .. NTrackA
CertifiedTasks == {TrackA[i] : i \in Certifications}

Mutant == UNION {Mutants[t] : t \in Tasks}

ASSUME TrackAAssumption == NTrackA \in Nat /\ TrackA \in [Certifications -> Tasks]
ASSUME MutantAssumption == Nothing \notin Mutant /\ Catches \in [Mutant -> SUBSET (Smoke \cup Deep)]
ASSUME SummaryAssumption == MaxSummaries \in Nat

VARIABLES
    mpc, mat,        \* the certification, and the task it is at
    package,         \* the provenance recorded for that task
    passed,          \* history: what was there when its baseline passed
    todo,            \* its mutants still to be run
    cur,             \* the one that timed out
    verdict,         \* per mutant of the suite, its result
    baseless,        \* history: those killed without failing a test
    doubtful,        \* history: those killed by a run that broke, or by a retry
                     \* without hidden tests
    rows,            \* task_summaries
    certified,       \* summary.json of the certification
    summaries        \* how often it was written

summaryVars == <<rows, certified, summaries>>
campaignVars == <<mpc, mat, package, passed, todo, cur, verdict, baseless, doubtful, rows>>
vars == <<hiddenVars, campaignVars, certified, summaries>>

Verdicts == {"none", "stillborn", "setup_error", "killed", "survived", "indeterminate"}

\* A row of the summary.  The task package with reference and public testbench is
\* hashed; the model compares the testbench.  at is history: its version.
Row == [status : {"ok", "setup_error", "unsupported"}, package : Testbench, at : Nat,
        verdict : [Mutant -> Verdicts], doubtful : SUBSET Mutant]

NoPackage == [content |-> Unsplit, at |-> 0]
NotPassed == [testbench |-> Unsplit, module |-> "none"]

Init ==
    /\ HiddenInit
    /\ mpc = "off" /\ mat = 1
    /\ package = NoPackage /\ passed = NotPassed
    /\ todo = {} /\ cur = Nothing
    /\ verdict = [m \in Mutant |-> "none"]
    /\ baseless = {} /\ doubtful = {}
    /\ rows = [t \in CertifiedTasks |-> Nothing]
    /\ certified = [t \in CertifiedTasks |-> Nothing]
    /\ summaries = 0

-----------------------------------------------------------------------------
(* One campaign: run_mutation *)

Subject == TrackA[mat]

StartCertification ==
    /\ mpc = "off"
    /\ summaries < MaxSummaries
    /\ mpc' = "hash"
    /\ UNCHANGED <<hiddenVars, mat, package, passed, todo, cur, verdict, baseless, doubtful, summaryVars>>

Provenance == [content |-> public[Subject], at |-> version[Subject]]

\* The inputs are hashed before the reference is run.
Hash ==
    /\ mpc = "hash" /\ mat \in Certifications
    /\ package' = Provenance
    /\ mpc' = "baseline"
    /\ UNCHANGED <<hiddenVars, mat, passed, todo, cur, verdict, baseless, doubtful, summaryVars>>

\* What a simulation of the task is made of.
Inputs == [testbench |-> public[Subject], module |-> HiddenModule(Subject)]

\* Mutant: the baseline is run with the public tests if it has no others.
BaselineFallingBack ==
    /\ mpc = "baseline"
    /\ \/ mpc' = "broken" /\ UNCHANGED <<passed, todo>>
       \/ /\ HasSuite(Subject) => Imports(Subject)
          /\ mpc' = "mutant" /\ passed' = Inputs /\ todo' = Mutants[Subject]
    /\ UNCHANGED <<hiddenVars, mat, package, cur, verdict, baseless, doubtful, summaryVars>>

\* _run_baseline: lint, simulation and formal checking of the reference itself.
Baseline ==
    /\ mpc = "baseline"
    /\ \/ mpc' = "broken" /\ UNCHANGED <<passed, todo>>
       \/ /\ HasSuite(Subject) /\ Imports(Subject)
          /\ mpc' = "mutant" /\ passed' = Inputs /\ todo' = Mutants[Subject]
    /\ UNCHANGED <<hiddenVars, mat, package, cur, verdict, baseless, doubtful, summaryVars>>

\* A mutant fails some test of the suite.
Fails(m) == SimTests(Subject) \cap Catches[m] # {}

\* run_sim: without a suite nothing is run, and the log says so.  A run may time
\* out or break: the design is not built, the simulator dies, the merged module
\* is not imported, or no test is run.  All but "pass" are failures, and only the
\* log tells them apart.
RunSim(m) ==
    IF ~HasSuite(Subject) THEN {"no_suite"}
    ELSE {"timeout", "broken"} \cup
         (IF ~Imports(Subject) THEN {} ELSE {IF Fails(m) THEN "fail" ELSE "pass"})

Judge(m, v) ==
    /\ verdict' = [verdict EXCEPT ![m] = v]
    /\ baseless' = IF v = "killed" /\ ~(HasSuite(Subject) /\ Imports(Subject) /\ Fails(m))
                   THEN baseless \cup {m} ELSE baseless
    /\ todo' = todo \ {m}
    /\ cur' = Nothing
    /\ mpc' = "mutant"
    /\ UNCHANGED <<hiddenVars, mat, package, passed, summaryVars>>

\* Mutant: a missing suite is a failure like any other.
FirstRunOfAnyFailure(m) ==
    \/ Judge(m, "stillborn") /\ UNCHANGED doubtful
    \/ RunSim(m) \cap {"fail", "no_suite"} # {} /\ Judge(m, "killed") /\ UNCHANGED doubtful
    \/ "broken" \in RunSim(m) /\ Judge(m, "killed") /\ doubtful' = doubtful \cup {m}
    \/ "pass" \in RunSim(m) /\ Judge(m, "survived") /\ UNCHANGED doubtful

\* _run_one: lint, simulation, and formal checking, which never makes a kill.
\* Hidden tests that are not there or unusable are a setup error; any other
\* failure is a kill, unless the run timed out.
FirstRun(m) ==
    \/ Judge(m, "stillborn") /\ UNCHANGED doubtful
    \/ "no_suite" \in RunSim(m) /\ Judge(m, "setup_error") /\ UNCHANGED doubtful
    \/ "fail" \in RunSim(m) /\ Judge(m, "killed") /\ UNCHANGED doubtful
    \/ "broken" \in RunSim(m) /\ Judge(m, "killed") /\ doubtful' = doubtful \cup {m}
    \/ "pass" \in RunSim(m) /\ Judge(m, "survived") /\ UNCHANGED doubtful
    \/ /\ "timeout" \in RunSim(m)
       /\ cur' = m /\ mpc' = "retry"
       /\ UNCHANGED <<hiddenVars, mat, package, passed, todo, verdict, baseless, doubtful, summaryVars>>

\* The same after a timeout, once; here a missing suite is a kill, too.
RetryRun ==
    \/ "timeout" \in RunSim(cur) /\ Judge(cur, "indeterminate") /\ UNCHANGED doubtful
    \/ "fail" \in RunSim(cur) /\ Judge(cur, "killed") /\ UNCHANGED doubtful
    \/ /\ RunSim(cur) \cap {"broken", "no_suite"} # {} /\ Judge(cur, "killed")
       /\ doubtful' = doubtful \cup {cur}
    \/ "pass" \in RunSim(cur) /\ Judge(cur, "survived") /\ UNCHANGED doubtful

RunOne ==
    \/ mpc = "mutant" /\ \E m \in todo : FirstRun(m)
    \/ mpc = "retry" /\ RetryRun

\* The status of a campaign that is through.
Status ==
    IF mpc = "broken" THEN "setup_error"
    ELSE IF \A m \in Mutants[Subject] : verdict[m] \in {"stillborn", "setup_error"}
    THEN "unsupported" ELSE "ok"

\* The campaign's variables go out of scope.
ForgetCampaign ==
    /\ package' = NoPackage /\ passed' = NotPassed /\ todo' = {} /\ cur' = Nothing
    /\ verdict' = [m \in Mutant |-> "none"]
    /\ baseless' = {} /\ doubtful' = {}

\* Mutant: the hashes of the row are taken when it is made.
ReportWithLateHash ==
    /\ mpc = "broken" \/ (mpc = "mutant" /\ todo = {})
    /\ rows' = [rows EXCEPT ![Subject] =
          [status |-> Status, package |-> Provenance.content, at |-> Provenance.at,
           verdict |-> verdict, doubtful |-> doubtful]]
    /\ mpc' = "hash" /\ mat' = mat + 1
    /\ ForgetCampaign
    /\ UNCHANGED <<hiddenVars, certified, summaries>>

\* The report of the task is written, its row kept for the summary.
Report ==
    /\ mpc = "broken" \/ (mpc = "mutant" /\ todo = {})
    /\ rows' = [rows EXCEPT ![Subject] =
          [status |-> Status, package |-> package.content, at |-> package.at,
           verdict |-> verdict, doubtful |-> doubtful]]
    /\ mpc' = "hash" /\ mat' = mat + 1
    /\ ForgetCampaign
    /\ UNCHANGED <<hiddenVars, certified, summaries>>

WriteSummary ==
    /\ mpc = "hash" /\ mat \notin Certifications
    /\ certified' = rows
    /\ summaries' = summaries + 1
    /\ mpc' = "off" /\ mat' = 1
    /\ rows' = [t \in CertifiedTasks |-> Nothing]
    /\ ForgetCampaign
    /\ UNCHANGED hiddenVars

\* The certification dies; the last summary stays.
CrashCertification ==
    /\ mpc # "off"
    /\ mpc' = "off" /\ mat' = 1
    /\ rows' = [t \in CertifiedTasks |-> Nothing]
    /\ ForgetCampaign
    /\ UNCHANGED <<hiddenVars, certified, summaries>>

Next ==
    \/ HiddenNext /\ UNCHANGED <<campaignVars, certified, summaries>>
    \/ StartCertification \/ Hash \/ Baseline \/ RunOne \/ Report
    \/ WriteSummary \/ CrashCertification

Spec == Init /\ [][Next]_vars

-----------------------------------------------------------------------------
(* The check of a summary *)

\* check_summary: a row is fresh if the task package is as it was.  Neither its
\* status nor its hash of the hidden tests is looked at.
Fresh(t) == certified[t] # Nothing /\ certified[t].package = public[t]

-----------------------------------------------------------------------------
(* Properties *)

\* A mutant that is counted as killed has failed a test of the whole suite, or its
\* simulation broke, or it was killed by the retry after a timeout: hidden tests
\* that are gone or unusable when the first run looks for them make no kill.
KillsAreCaused == baseless \subseteq doubtful

\* The reason that _run_baseline gives for itself: where hidden tests are missing,
\* or cannot be loaded, every mutant would fail alike.  Whatever fails the
\* mutants alike after the baseline has passed came about during the campaign:
\* testbench or hidden module are not those of the baseline any more.
UnusableTestsNeverKill ==
    [][\A m \in Mutant :
          (verdict[m] = "none" /\ verdict'[m] = "killed" /\ ~(HasSuite(Subject) /\ Imports(Subject)))
              => Inputs # passed]_vars

\* A certified row that the check calls fresh still tells the truth: run against
\* the testbench of today with all hidden tests, each mutant it calls killed
\* fails and each it calls survived passes.  (Not if the testbench was changed
\* and changed back, and not for the kills that are doubtful.)
FreshRowIsTrue ==
    \A t \in CertifiedTasks :
        Fresh(t) /\ certified[t].status = "ok" /\ certified[t].at = version[t] =>
            \A m \in Mutants[t] :
                LET caught == Catches[m] \cap (public[t].smoke \cup Deep) # {}
                IN  /\ certified[t].verdict[m] = "killed"
                          => caught \/ m \in certified[t].doubtful
                    /\ certified[t].verdict[m] = "survived" => ~caught
=============================================================================
