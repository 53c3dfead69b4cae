--------------------------- MODULE MutationProofs ---------------------------
(***************************************************************************)
(* Proofs about modules HiddenTests and Mutation: no hidden test is lost   *)
(* by an extraction that may die anywhere, an extraction that goes through *)
(* is complete, kills are caused, and rows that are fresh are true, for    *)
(* any tasks, tests, mutants, reviews, edits and mounts.                   *)
(***************************************************************************)
EXTENDS Mutation, TLAPS

-----------------------------------------------------------------------------
(* The inductive invariant of the extraction *)

\* Between its two writes the module of the testbench is staged, from the text that
\* has been read.
SplitInv ==
    xpc = "public" =>
        /\ xat \in Positions
        /\ public[Item].marked
        /\ staged[Item] = StagedFor(text)

\* What a complete extraction leaves of a task.
Split(t) ==
    /\ ~public[t].marked
    /\ staged[t] # Nothing
    /\ public[t].review # {} => staged[t] # {}

\* An undisturbed extraction has done all testbenches before the one it is at.
ProgressInv ==
    completed = "running" =>
        /\ xpc # "off"
        /\ \A i \in Positions : i < xat => Split(TaskAt[i])

HiddenInv ==
    /\ HiddenTypeOK
    /\ SplitInv
    /\ ProgressInv
    /\ NoHiddenTestLost
    /\ FinishedExtractionIsComplete

LEMMA HiddenInitInv == HiddenInit => HiddenInv
<1> SUFFICES ASSUME HiddenInit PROVE HiddenInv
  OBVIOUS
<1>1. HiddenTypeOK
  BY OrderAssumption DEF HiddenInit, HiddenTypeOK, Unsplit, Testbench
<1>2. SplitInv /\ ProgressInv /\ NoHiddenTestLost /\ FinishedExtractionIsComplete
  BY DEF HiddenInit, SplitInv, ProgressInv, NoHiddenTestLost, FinishedExtractionIsComplete, Unsplit
<1> QED  BY <1>1, <1>2 DEF HiddenInv

\* What is carried into a module are review lines, and none only if there are none.
LEMMA PreserveType ==
    ASSUME NEW lines \in SUBSET AnyLine, NEW module \in SUBSET AnyLine
    PROVE  /\ Preserve(lines, module) \in SUBSET AnyLine
           /\ Preserve(lines, module) # Nothing
           /\ lines # {} => Preserve(lines, module) # {}
BY ReviewAssumption DEF Preserve

LEMMA StagedForType ==
    ASSUME NEW p \in Testbench
    PROVE  /\ StagedFor(p) \in SUBSET AnyLine
           /\ StagedFor(p) # Nothing
           /\ p.review # {} => StagedFor(p) # {}
BY PreserveType DEF StagedFor, Testbench

LEMMA SmokePartIs ==
    ASSUME NEW p \in Testbench
    PROVE  /\ SmokePart(p) \in Testbench
           /\ ~SmokePart(p).marked
           /\ SmokePart(p).review = p.review
BY DEF SmokePart, Testbench

LEMMA SplitTestbenchInv == HiddenInv /\ SplitTestbench => HiddenInv'
<1> SUFFICES ASSUME HiddenInv, SplitTestbench PROVE HiddenInv'
  OBVIOUS
<1> USE DEF HiddenInv
<1>t. HiddenTypeOK
  OBVIOUS
<1>1. CASE xpc = "apply"
  <2>1. /\ xat \in Positions /\ public[Item].marked
        /\ text' = public[Item] /\ xpc' = "public"
        /\ staged' = [staged EXCEPT ![Item] = StagedFor(public[Item])]
        /\ UNCHANGED <<public, vault, attached, mounts, version, xat, completed>>
    BY <1>1 DEF SplitTestbench
  <2>2. Item \in Tasks /\ Item' = Item
    BY <2>1, OrderAssumption DEF Item
  <2>3. HiddenTypeOK'
    BY <1>t, <2>1, <2>2, StagedForType DEF HiddenTypeOK
  <2>4. \A t \in Tasks : t # Item => staged'[t] = staged[t]
    BY <1>t, <2>1 DEF HiddenTypeOK
  <2>5. staged'[Item] = StagedFor(text') /\ staged'[Item] # Nothing
    BY <1>t, <2>1, <2>2, StagedForType DEF HiddenTypeOK
  <2>6. SplitInv'
    BY <2>1, <2>2, <2>5 DEF SplitInv
  <2>7. ProgressInv'
    <3> SUFFICES ASSUME completed = "running", NEW i \in Positions, i < xat PROVE Split(TaskAt[i])'
      BY <2>1 DEF ProgressInv
    <3>1. Split(TaskAt[i])
      BY DEF ProgressInv
    <3>2. TaskAt[i] \in Tasks /\ TaskAt[i] # Item
      BY <2>1, <3>1, OrderAssumption DEF Split
    <3> QED  BY <2>1, <2>4, <3>1, <3>2 DEF Split
  <2>8. NoHiddenTestLost'
    BY <2>1, <2>4, <2>5 DEF NoHiddenTestLost
  <2>9. FinishedExtractionIsComplete'
    BY <2>1, <2>2 DEF FinishedExtractionIsComplete
  <2> QED  BY <2>3, <2>6, <2>7, <2>8, <2>9
<1>2. CASE xpc = "public"
  <2>1. /\ public' = [public EXCEPT ![Item] = SmokePart(text)]
        /\ version' = [version EXCEPT ![Item] = @ + 1]
        /\ xpc' = "apply" /\ xat' = xat + 1 /\ text' = Unsplit
        /\ UNCHANGED <<staged, vault, attached, mounts, completed>>
    BY <1>2 DEF SplitTestbench
  <2>2. xat \in Positions /\ Item \in Tasks /\ public[Item].marked /\ staged[Item] = StagedFor(text)
    BY <1>2, OrderAssumption DEF SplitInv, Item
  <2>3. HiddenTypeOK'
    <3>1. text \in Testbench /\ SmokePart(text) \in Testbench /\ Unsplit \in Testbench
      BY <1>t, SmokePartIs DEF HiddenTypeOK, Testbench, Unsplit
    <3>2. xat + 1 \in 1 .. (NTasks + 1)
      BY <2>2, OrderAssumption DEF Positions
    <3>3. public' \in [Tasks -> Testbench] /\ version' \in [Tasks -> Nat]
      BY <1>t, <2>1, <2>2, <3>1 DEF HiddenTypeOK
    <3> QED  BY <1>t, <2>1, <3>1, <3>2, <3>3 DEF HiddenTypeOK
  <2>4. \A t \in Tasks : t # Item => public'[t] = public[t]
    BY <1>t, <2>1 DEF HiddenTypeOK
  <2>5. public'[Item] = SmokePart(text)
    BY <1>t, <2>1, <2>2 DEF HiddenTypeOK
  <2>6. ~public'[Item].marked /\ staged'[Item] # Nothing
        /\ (public'[Item].review # {} => staged'[Item] # {})
    BY <1>t, <2>1, <2>2, <2>5, StagedForType, SmokePartIs DEF HiddenTypeOK
  <2>7. ProgressInv'
    <3> SUFFICES ASSUME completed = "running", NEW i \in Positions, i < xat + 1 PROVE Split(TaskAt[i])'
      BY <2>1 DEF ProgressInv
    <3>1. TaskAt[i] \in Tasks
      BY OrderAssumption
    <3>2. CASE TaskAt[i] = Item
      BY <2>6, <3>2 DEF Split
    <3>3. CASE TaskAt[i] # Item
      <4>1. i < xat
        BY <2>2, <3>3 DEF Item, Positions
      <4>2. Split(TaskAt[i])
        BY <4>1 DEF ProgressInv
      <4> QED  BY <2>1, <2>4, <3>1, <3>3, <4>2 DEF Split
    <3> QED  BY <3>2, <3>3
  <2>8. NoHiddenTestLost'
    BY <2>1, <2>4, <2>6 DEF NoHiddenTestLost
  <2>9. FinishedExtractionIsComplete'
    BY <2>1, <2>2 DEF FinishedExtractionIsComplete
  <2>10. SplitInv'
    BY <2>1 DEF SplitInv
  <2> QED  BY <2>3, <2>7, <2>8, <2>9, <2>10
<1> QED  BY <1>1, <1>2 DEF SplitTestbench

LEMMA RepairStagedInv == HiddenInv /\ RepairStaged => HiddenInv'
<1> SUFFICES ASSUME HiddenInv, RepairStaged PROVE HiddenInv'
  OBVIOUS
<1> USE DEF HiddenInv
<1>t. HiddenTypeOK
  OBVIOUS
<1>1. /\ xpc = "apply" /\ xat \in Positions /\ ~public[Item].marked /\ Item \in Tasks
      /\ UNCHANGED <<public, vault, attached, mounts, version, text>>
  BY OrderAssumption DEF RepairStaged, Item
<1>2. CASE staged[Item] = Nothing /\ xpc' = "off" /\ xat' = 1 /\ completed' = "no" /\ UNCHANGED staged
  BY <1>t, <1>1, <1>2, OrderAssumption
  DEF HiddenTypeOK, SplitInv, ProgressInv, NoHiddenTestLost, FinishedExtractionIsComplete
<1>3. CASE /\ staged[Item] # Nothing
           /\ staged' = [staged EXCEPT ![Item] = Preserve(public[Item].review, @)]
           /\ xat' = xat + 1 /\ UNCHANGED <<xpc, completed>>
  <2>1. \A t \in Tasks : t # Item => staged'[t] = staged[t]
    BY <1>t, <1>3 DEF HiddenTypeOK
  <2>2. /\ staged'[Item] \in SUBSET AnyLine /\ staged'[Item] # Nothing
        /\ public[Item].review # {} => staged'[Item] # {}
    <3>1. public[Item].review \in SUBSET AnyLine /\ staged[Item] \in SUBSET AnyLine
      BY <1>t, <1>1, <1>3 DEF HiddenTypeOK, Testbench
    <3>2. staged'[Item] = Preserve(public[Item].review, staged[Item])
      BY <1>t, <1>1, <1>3 DEF HiddenTypeOK
    <3> QED  BY <3>1, <3>2, PreserveType
  <2>3. HiddenTypeOK'
    <3>1. xat + 1 \in 1 .. (NTasks + 1)
      BY <1>1, OrderAssumption DEF Positions
    <3>2. staged' \in [Tasks -> (SUBSET AnyLine) \cup {Nothing}]
      <4>1. PICK lines \in SUBSET AnyLine : staged' = [staged EXCEPT ![Item] = lines]
        BY <1>t, <1>1, <1>3, <2>2 DEF HiddenTypeOK
      <4> QED  BY <1>t, <4>1 DEF HiddenTypeOK
    <3> QED  BY <1>t, <1>1, <1>3, <3>1, <3>2 DEF HiddenTypeOK
  <2>4. ProgressInv'
    <3> SUFFICES ASSUME completed = "running", NEW i \in Positions, i < xat + 1 PROVE Split(TaskAt[i])'
      BY <1>1, <1>3 DEF ProgressInv
    <3>1. TaskAt[i] \in Tasks
      BY OrderAssumption
    <3>2. CASE TaskAt[i] = Item
      BY <1>1, <2>2, <3>2 DEF Split
    <3>3. CASE TaskAt[i] # Item
      <4>1. i < xat
        BY <1>1, <3>3 DEF Item, Positions
      <4>2. Split(TaskAt[i])
        BY <4>1 DEF ProgressInv
      <4> QED  BY <1>1, <2>1, <3>1, <3>3, <4>2 DEF Split
    <3> QED  BY <3>2, <3>3
  <2>5. NoHiddenTestLost'
    BY <1>1, <2>1, <2>2 DEF NoHiddenTestLost
  <2>6. FinishedExtractionIsComplete'
    BY <1>1, <1>3, <2>1, <2>2 DEF FinishedExtractionIsComplete
  <2>7. SplitInv'
    BY <1>1, <1>3 DEF SplitInv
  <2> QED  BY <2>3, <2>4, <2>5, <2>6, <2>7
<1> QED  BY <1>2, <1>3 DEF RepairStaged

LEMMA FinishExtractionInv == HiddenInv /\ FinishExtraction => HiddenInv'
<1> SUFFICES ASSUME HiddenInv, FinishExtraction PROVE HiddenInv'
  OBVIOUS
<1> USE DEF HiddenInv
<1>1. /\ xpc' = "off" /\ xat' = 1 /\ completed' = (IF completed = "running" THEN "yes" ELSE "no")
      /\ UNCHANGED <<public, staged, vault, attached, mounts, version, text>>
  BY DEF FinishExtraction, files
<1>2. ASSUME completed = "running", NEW t \in Tasks PROVE Split(t)
  <2>1. PICK i \in Positions : TaskAt[i] = t
    BY OrderAssumption
  <2>2. i < xat
    BY OrderAssumption DEF FinishExtraction, HiddenTypeOK, Positions
  <2> QED  BY <1>2, <2>1, <2>2 DEF ProgressInv
<1>3. FinishedExtractionIsComplete'
  BY <1>1, <1>2 DEF FinishedExtractionIsComplete, Split
<1> QED
  BY <1>1, <1>3, OrderAssumption DEF HiddenTypeOK, SplitInv, ProgressInv, NoHiddenTestLost

LEMMA StartOrCrashInv == HiddenInv /\ (StartExtraction \/ CrashExtraction) => HiddenInv'
<1> SUFFICES ASSUME HiddenInv, StartExtraction \/ CrashExtraction PROVE HiddenInv'
  OBVIOUS
<1> USE DEF HiddenInv
<1>1. Unsplit \in Testbench
  BY DEF Unsplit, Testbench
<1>2. /\ xat' = 1 /\ xpc' \in {"off", "apply"} /\ completed' \in {"running", "no"}
      /\ completed' = "running" => xpc' = "apply"
      /\ text' \in {text, Unsplit}
      /\ UNCHANGED <<public, staged, vault, attached, mounts, version>>
  BY DEF StartExtraction, CrashExtraction, files
<1>3. \A i \in Positions : ~(i < 1)
  BY DEF Positions
<1> QED
  BY <1>1, <1>2, <1>3, OrderAssumption
  DEF HiddenTypeOK, SplitInv, ProgressInv, NoHiddenTestLost, FinishedExtractionIsComplete

LEMMA MoveToVaultInv ==
    ASSUME NEW t \in Tasks, HiddenInv, MoveToVault(t)
    PROVE  HiddenInv'
<1> USE DEF HiddenInv
<1>1. /\ xpc = "off" /\ completed' = "no"
      /\ vault' = [vault EXCEPT ![t] = "tests"]
      /\ staged' = [staged EXCEPT ![t] = Nothing]
      /\ UNCHANGED <<public, attached, mounts, version, xpc, xat, text>>
  BY DEF MoveToVault
<1>2. HiddenTypeOK'
  BY <1>1 DEF HiddenTypeOK, Modules
<1>3. NoHiddenTestLost'
  BY <1>1 DEF HiddenTypeOK, NoHiddenTestLost
<1> QED  BY <1>1, <1>2, <1>3 DEF SplitInv, ProgressInv, FinishedExtractionIsComplete

LEMMA VaultInv ==
    ASSUME HiddenInv, MountVault \/ \E t \in Tasks : SpoilVault(t)
    PROVE  HiddenInv'
<1> USE DEF HiddenInv
<1>1. /\ UNCHANGED <<public, staged, version, xpc, xat, text, completed>>
      /\ mounts' = mounts + 1 /\ attached' \in BOOLEAN
      /\ vault' \in [Tasks -> Modules \cup {"none"}]
      /\ \A t \in Tasks : vault'[t] = "none" <=> vault[t] = "none"
  BY DEF MountVault, SpoilVault, HiddenTypeOK, Modules
<1> QED
  BY <1>1 DEF HiddenTypeOK, SplitInv, Item, ProgressInv, Split, NoHiddenTestLost, FinishedExtractionIsComplete

LEMMA EditInv ==
    ASSUME NEW t \in Tasks, HiddenInv, EditTestbench(t) \/ ReviewBeforeSplit(t)
    PROVE  HiddenInv'
<1> USE DEF HiddenInv
<1>1. /\ UNCHANGED <<staged, vault, attached, mounts, xpc, xat, text>>
      /\ public' \in [Tasks -> Testbench] /\ version' \in [Tasks -> Nat]
      /\ \A u \in Tasks : public'[u].marked = public[u].marked
  <2>1. public \in [Tasks -> Testbench] /\ version \in [Tasks -> Nat]
    BY DEF HiddenTypeOK
  <2>2. PICK p \in Testbench : public' = [public EXCEPT ![t] = p] /\ p.marked = public[t].marked
    <3>1. ASSUME NEW line \in ReviewLines[t],
                 \/ public' = [public EXCEPT ![t].review = @ \cup {line}]
                 \/ public' = [public EXCEPT ![t].behind = @ \cup {line}]
          PROVE  \E p \in Testbench : public' = [public EXCEPT ![t] = p] /\ p.marked = public[t].marked
      <4>1. line \in AnyLine
        BY DEF AnyLine
      <4>2. CASE public' = [public EXCEPT ![t].review = @ \cup {line}]
        <5>1. [public[t] EXCEPT !.review = @ \cup {line}] \in Testbench
          BY <2>1, <4>1 DEF Testbench
        <5> QED  BY <2>1, <4>2, <5>1 DEF Testbench
      <4>3. CASE public' = [public EXCEPT ![t].behind = @ \cup {line}]
        <5>1. [public[t] EXCEPT !.behind = @ \cup {line}] \in Testbench
          BY <2>1, <4>1 DEF Testbench
        <5> QED  BY <2>1, <4>3, <5>1 DEF Testbench
      <4> QED  BY <3>1, <4>2, <4>3
    <3>2. ASSUME NEW s \in SUBSET Smoke, public' = [public EXCEPT ![t].smoke = s]
          PROVE  \E p \in Testbench : public' = [public EXCEPT ![t] = p] /\ p.marked = public[t].marked
      <4>1. [public[t] EXCEPT !.smoke = s] \in Testbench
        BY <2>1 DEF Testbench
      <4> QED  BY <2>1, <3>2, <4>1 DEF Testbench
    <3> QED  BY <3>1, <3>2 DEF EditTestbench, ReviewBeforeSplit
  <2>3. version' = version \/ version' = [version EXCEPT ![t] = @ + 1]
    BY DEF EditTestbench, ReviewBeforeSplit
  <2>4. UNCHANGED <<staged, vault, attached, mounts, xpc, xat, text>>
    BY DEF EditTestbench, ReviewBeforeSplit
  <2> QED  BY <2>1, <2>2, <2>3, <2>4
<1>2. HiddenTypeOK'
  <2>1. completed' \in {"no", "running", "yes"}
    BY DEF EditTestbench, ReviewBeforeSplit, HiddenTypeOK
  <2> QED  BY <1>1, <2>1 DEF HiddenTypeOK
<1>3. SplitInv'
  BY <1>1, OrderAssumption DEF SplitInv, Item
<1>4. NoHiddenTestLost'
  BY <1>1 DEF NoHiddenTestLost
<1>5. CASE EditTestbench(t)
  BY <1>2, <1>3, <1>4, <1>5 DEF EditTestbench, ProgressInv, FinishedExtractionIsComplete
<1>6. CASE ReviewBeforeSplit(t)
  <2>1. completed' = completed /\ public[t].marked /\ xpc = "off"
    BY <1>6 DEF ReviewBeforeSplit
  <2>2. completed # "running" /\ completed # "yes"
    BY <2>1 DEF ProgressInv, FinishedExtractionIsComplete
  <2> QED  BY <1>2, <1>3, <1>4, <2>1, <2>2 DEF ProgressInv, FinishedExtractionIsComplete
<1> QED  BY <1>5, <1>6

LEMMA HiddenStutterInv == HiddenInv /\ UNCHANGED hiddenVars => HiddenInv'
  BY DEF HiddenInv, hiddenVars, files, HiddenTypeOK, SplitInv, Item, ProgressInv, Split,
         NoHiddenTestLost, FinishedExtractionIsComplete

LEMMA CampaignLeavesTests ==
    StartCertification \/ Hash \/ Baseline \/ RunOne \/ Report \/ WriteSummary \/ CrashCertification
      => UNCHANGED hiddenVars
  BY DEF StartCertification, Hash, Baseline, RunOne, FirstRun, RetryRun, Judge, Report, WriteSummary,
         CrashCertification

LEMMA HiddenStepInv == HiddenInv /\ [Next]_vars => HiddenInv'
<1> SUFFICES ASSUME HiddenInv, [Next]_vars PROVE HiddenInv'
  OBVIOUS
<1>1. CASE HiddenNext
  BY <1>1, SplitTestbenchInv, RepairStagedInv, FinishExtractionInv, StartOrCrashInv, MoveToVaultInv,
     VaultInv, EditInv
  DEF HiddenNext
<1>2. CASE UNCHANGED hiddenVars
  BY <1>2, HiddenStutterInv
<1> QED  BY <1>1, <1>2, CampaignLeavesTests DEF Next, vars

LEMMA HiddenInvariant == Spec => []HiddenInv
<1>1. Init => HiddenInv
  BY HiddenInitInv DEF Init
<1> QED  BY <1>1, HiddenStepInv, PTL DEF Spec

\* Wherever an extraction dies (freeze_extract_hidden.py writes two files per task),
\* the hidden tests of every task are in one of their three places.
THEOREM HiddenTestsAreKept == Spec => []NoHiddenTestLost
<1>1. HiddenInv => NoHiddenTestLost
  BY DEF HiddenInv
<1> QED  BY <1>1, HiddenInvariant, PTL

\* freeze_extract_hidden.py: an extraction that goes through has split every
\* testbench and staged its module, and where the testbench has review lines, the
\* module has one, however many extractions died before and whenever the reviews
\* were made.
THEOREM ExtractionsAreComplete == Spec => []FinishedExtractionIsComplete
<1>1. HiddenInv => FinishedExtractionIsComplete
  BY DEF HiddenInv
<1> QED  BY <1>1, HiddenInvariant, PTL

\* _run_one: a mutant that counts as killed has failed a test of the whole suite;
\* the exceptions are runs that broke and retries that found no hidden tests.
THEOREM KillsHaveCauses == Spec => []KillsAreCaused
<1>1. Init => KillsAreCaused
  BY DEF Init, KillsAreCaused
<1>2. KillsAreCaused /\ [Next]_vars => KillsAreCaused'
  <2> SUFFICES ASSUME KillsAreCaused, [Next]_vars PROVE KillsAreCaused'
    OBVIOUS
  <2>1. CASE RunOne
    <3>1. CASE \E m \in todo : FirstRun(m)
      BY <3>1 DEF FirstRun, RunSim, Judge, KillsAreCaused
    <3>2. CASE RetryRun
      BY <3>2 DEF RetryRun, RunSim, Judge, KillsAreCaused
    <3> QED  BY <2>1, <3>1, <3>2 DEF RunOne
  <2>2. CASE Report \/ WriteSummary \/ CrashCertification
    BY <2>2 DEF Report, WriteSummary, CrashCertification, ForgetCampaign, KillsAreCaused
  <2>3. CASE UNCHANGED <<baseless, doubtful>>
    BY <2>3 DEF KillsAreCaused
  <2> QED
    BY <2>1, <2>2, <2>3 DEF Next, vars, campaignVars, StartCertification, Hash, Baseline
<1> QED  BY <1>1, <1>2, PTL DEF Spec

\* A baseline passes only with a suite that is merged and imported.
PassedInv ==
    mpc \in {"mutant", "retry"} =>
        /\ passed.module = "tests"
        /\ PublicTests(passed.testbench) \cap Deep = {}

\* _run_baseline: a mutant is killed by hidden tests that are missing or cannot be
\* loaded only if testbench or hidden module have changed since the baseline.
THEOREM UnusableTestsKillNothing == Spec => UnusableTestsNeverKill
<1>1. Init => PassedInv
  BY DEF Init, PassedInv
<1>2. PassedInv /\ [Next]_vars => PassedInv'
  <2> SUFFICES ASSUME PassedInv, [Next]_vars PROVE PassedInv'
    OBVIOUS
  <2>1. CASE Baseline
    BY <2>1 DEF Baseline, PassedInv, Inputs, HasSuite, Imports
  <2>2. CASE RunOne
    BY <2>2 DEF RunOne, FirstRun, RetryRun, Judge, PassedInv
  <2>3. CASE mpc' \in {"hash", "off", "baseline"}
    BY <2>3 DEF PassedInv
  <2>4. CASE UNCHANGED <<mpc, passed>>
    BY <2>4 DEF PassedInv
  <2>5. (\/ StartCertification \/ Hash \/ Report \/ WriteSummary
         \/ CrashCertification) => mpc' \in {"hash", "off", "baseline"}
    BY DEF StartCertification, Hash, Report, WriteSummary, CrashCertification
  <2> QED  BY <2>1, <2>2, <2>3, <2>4, <2>5 DEF Next, vars, campaignVars
<1>3. ASSUME PassedInv, [Next]_vars, NEW m \in Mutant, verdict[m] = "none", verdict'[m] = "killed",
             ~(HasSuite(Subject) /\ Imports(Subject))
      PROVE  Inputs # passed
  <2>1. RunOne
    <3>1. (Report \/ WriteSummary \/ CrashCertification) => verdict'[m] = "none"
      BY DEF Report, WriteSummary, CrashCertification, ForgetCampaign
    <3>2. (HiddenNext /\ UNCHANGED <<campaignVars, certified, summaries>>) => verdict' = verdict
      BY DEF campaignVars
    <3>3. (StartCertification \/ Hash \/ Baseline \/ UNCHANGED vars) => verdict' = verdict
      BY DEF StartCertification, Hash, Baseline, vars, campaignVars
    <3> QED  BY <1>3, <3>1, <3>2, <3>3 DEF Next
  <2>2. mpc \in {"mutant", "retry"}
    BY <2>1 DEF RunOne
  <2> QED  BY <1>3, <2>2 DEF PassedInv, Inputs, HasSuite, Imports
<1>4. PassedInv /\ [Next]_vars =>
        [\A m \in Mutant :
           (verdict[m] = "none" /\ verdict'[m] = "killed" /\ ~(HasSuite(Subject) /\ Imports(Subject)))
              => Inputs # passed]_vars
  BY <1>3
<1> QED  BY <1>1, <1>2, <1>4, PTL DEF Spec, UnusableTestsNeverKill
-----------------------------------------------------------------------------
(* Certified rows that are still fresh *)

\* Verdicts that agree with a run of all tests of a testbench of task t.
TrueOf(t, smoke, results, exempt) ==
    \A m \in Mutants[t] :
        LET caught == Catches[m] \cap (smoke \cup Deep) # {}
        IN  /\ results[m] = "killed" => caught \/ m \in exempt
            /\ results[m] = "survived" => ~caught

\* What was found at an earlier version of a testbench is true while that stands.
TrueAt(t, at, results, exempt) ==
    /\ at \in Nat /\ at <= version[t]
    /\ at = version[t] => TrueOf(t, public[t].smoke, results, exempt)

AtWork == mpc \in {"baseline", "broken", "mutant", "retry"}

CampaignTypeOK ==
    /\ mpc \in {"off", "hash", "baseline", "broken", "mutant", "retry"}
    /\ mat \in Nat \ {0}
    /\ AtWork => mat \in Certifications
    /\ verdict \in [Mutant -> Verdicts]
    /\ ~AtWork \/ mpc = "baseline" => verdict = [m \in Mutant |-> "none"]
    /\ DOMAIN rows = CertifiedTasks

CampaignInv ==
    /\ CampaignTypeOK
    /\ AtWork => TrueAt(Subject, package.at, verdict, doubtful)
    /\ \A t \in CertifiedTasks :
         /\ rows[t] # Nothing => TrueAt(t, rows[t].at, rows[t].verdict, rows[t].doubtful)
         /\ certified[t] # Nothing =>
              TrueAt(t, certified[t].at, certified[t].verdict, certified[t].doubtful)

LEMMA CampaignInitInv == Init => CampaignInv
  BY DEF Init, CampaignInv, CampaignTypeOK, AtWork, Verdicts

\* A testbench whose version stays keeps its smoke tests.
LEMMA VersionTellsSmoke ==
    ASSUME HiddenInv, HiddenNext, NEW t \in Tasks
    PROVE  /\ version[t] \in Nat /\ version'[t] \in Nat
           /\ version'[t] >= version[t]
           /\ version'[t] = version[t] => public'[t].smoke = public[t].smoke
<1>1. /\ public \in [Tasks -> Testbench] /\ version \in [Tasks -> Nat]
  BY DEF HiddenInv, HiddenTypeOK
<1>2. CASE UNCHANGED <<public, version>>
  BY <1>1, <1>2
<1>3. ASSUME NEW u \in Tasks, NEW p, public' = [public EXCEPT ![u] = p],
             version' = [version EXCEPT ![u] = @ + 1]
      PROVE  /\ version[t] \in Nat /\ version'[t] \in Nat
             /\ version'[t] >= version[t]
             /\ version'[t] = version[t] => public'[t].smoke = public[t].smoke
  <2>1. CASE t = u
    <3>1. version'[t] = version[t] + 1 /\ version[t] \in Nat
      BY <1>1, <1>3, <2>1
    <3> QED  BY <3>1
  <2>2. CASE t # u
    BY <1>1, <1>3, <2>2
  <2> QED  BY <2>1, <2>2
<1>4. CASE SplitTestbench
  <2>1. Item \in Tasks \/ UNCHANGED <<public, version>>
    BY <1>4, OrderAssumption DEF SplitTestbench, HiddenInv, SplitInv, Item
  <2>2. \/ UNCHANGED <<public, version>>
        \/ /\ public' = [public EXCEPT ![Item] = SmokePart(text)]
           /\ version' = [version EXCEPT ![Item] = @ + 1]
    BY <1>4 DEF SplitTestbench
  <2> QED  BY <1>2, <1>3, <2>1, <2>2
<1>5. ASSUME NEW u \in Tasks, EditTestbench(u)
      PROVE  /\ version[t] \in Nat /\ version'[t] \in Nat
             /\ version'[t] >= version[t]
             /\ version'[t] = version[t] => public'[t].smoke = public[t].smoke
  <2>1. version' = [version EXCEPT ![u] = @ + 1]
    BY <1>5 DEF EditTestbench
  <2>2. \E p : public' = [public EXCEPT ![u] = p]
    <3>1. ASSUME NEW line, public' = [public EXCEPT ![u].review = @ \cup {line}]
          PROVE  \E p : public' = [public EXCEPT ![u] = p]
      BY <3>1
    <3>2. ASSUME NEW smoke, public' = [public EXCEPT ![u].smoke = smoke]
          PROVE  \E p : public' = [public EXCEPT ![u] = p]
      BY <3>2
    <3> QED  BY <1>5, <3>1, <3>2 DEF EditTestbench
  <2> QED  BY <1>3, <2>1, <2>2
<1>6. ASSUME NEW u \in Tasks, ReviewBeforeSplit(u)
      PROVE  version' = version /\ public'[t].smoke = public[t].smoke
  BY <1>1, <1>6 DEF ReviewBeforeSplit, Testbench
<1>7. CASE \/ StartExtraction \/ RepairStaged \/ FinishExtraction \/ CrashExtraction \/ MountVault
           \/ \E u \in Tasks : MoveToVault(u) \/ SpoilVault(u)
  <2>1. UNCHANGED <<public, version>>
    BY <1>7 DEF StartExtraction, RepairStaged, FinishExtraction, CrashExtraction, MountVault,
                MoveToVault, SpoilVault, files
  <2> QED  BY <1>2, <2>1
<1>8. CASE \E u \in Tasks : ReviewBeforeSplit(u)
  BY <1>1, <1>6, <1>8
<1>9. CASE \E u \in Tasks : EditTestbench(u)
  BY <1>5, <1>9
<1> QED  BY <1>4, <1>7, <1>8, <1>9 DEF HiddenNext

LEMMA TestsChangeInv ==
    HiddenInv /\ CampaignInv /\ HiddenNext /\ UNCHANGED <<campaignVars, certified>> => CampaignInv'
<1> SUFFICES ASSUME HiddenInv, CampaignInv, HiddenNext, UNCHANGED <<campaignVars, certified>>
             PROVE  CampaignInv'
  OBVIOUS
<1>1. UNCHANGED <<mpc, mat, package, todo, cur, verdict, baseless, doubtful, rows, certified>>
  BY DEF campaignVars
<1>2. ASSUME NEW t \in Tasks, NEW at, NEW results, NEW exempt, TrueAt(t, at, results, exempt)
      PROVE  /\ at \in Nat /\ at <= version'[t]
             /\ at = version'[t] => TrueOf(t, public'[t].smoke, results, exempt)
  BY <1>2, VersionTellsSmoke DEF TrueAt
<1>3. AtWork => Subject \in Tasks
  BY TrackAAssumption DEF CampaignInv, CampaignTypeOK, Subject
<1>4. CertifiedTasks \subseteq Tasks
  BY TrackAAssumption DEF CertifiedTasks
<1>5. CampaignTypeOK'
  BY <1>1 DEF CampaignInv, CampaignTypeOK, AtWork
<1>6. AtWork' => TrueAt(Subject, package.at, verdict, doubtful)'
  <2> SUFFICES ASSUME AtWork PROVE TrueAt(Subject, package.at, verdict, doubtful)'
    BY <1>1 DEF AtWork
  <2>1. TrueAt(Subject, package.at, verdict, doubtful)
    BY DEF CampaignInv
  <2>2. /\ package.at \in Nat /\ package.at <= version'[Subject]
        /\ package.at = version'[Subject] => TrueOf(Subject, public'[Subject].smoke, verdict, doubtful)
    BY <1>2, <1>3, <2>1
  <2> QED  BY <1>1, <2>2 DEF TrueAt, Subject
<1>7. ASSUME NEW t \in CertifiedTasks
      PROVE  /\ rows'[t] # Nothing => TrueAt(t, rows[t].at, rows[t].verdict, rows[t].doubtful)'
             /\ certified'[t] # Nothing =>
                  TrueAt(t, certified[t].at, certified[t].verdict, certified[t].doubtful)'
  <2>1. ASSUME rows[t] # Nothing PROVE TrueAt(t, rows[t].at, rows[t].verdict, rows[t].doubtful)'
    <3>1. TrueAt(t, rows[t].at, rows[t].verdict, rows[t].doubtful)
      BY <2>1 DEF CampaignInv
    <3> QED  BY <1>1, <1>2, <1>4, <3>1 DEF TrueAt
  <2>2. ASSUME certified[t] # Nothing
        PROVE  TrueAt(t, certified[t].at, certified[t].verdict, certified[t].doubtful)'
    <3>1. TrueAt(t, certified[t].at, certified[t].verdict, certified[t].doubtful)
      BY <2>2 DEF CampaignInv
    <3> QED  BY <1>1, <1>2, <1>4, <3>1 DEF TrueAt
  <2> QED  BY <1>1, <2>1, <2>2
<1> QED  BY <1>5, <1>6, <1>7 DEF CampaignInv

\* The suite of an official run has the smoke part and all hidden tests.
LEMMA SuiteOfRun ==
    ASSUME NEW t, HasSuite(t)
    PROVE  SimTests(t) = public[t].smoke \cup Deep
<1>1. SimTests(t) = PublicTests(public[t]) \cup Deep /\ PublicTests(public[t]) \cap Deep = {}
  BY DEF SimTests, HasSuite
<1>2. ~public[t].marked
  BY <1>1, TestAssumption DEF PublicTests
<1> QED  BY <1>1, <1>2 DEF PublicTests

LEMMA JudgeInv ==
    ASSUME HiddenInv, CampaignInv, mpc \in {"mutant", "retry"}, NEW m, NEW v \in Verdicts, Judge(m, v),
           \/ v \notin {"killed", "survived"} /\ doubtful' = doubtful
           \/ v = "killed" /\ HasSuite(Subject) /\ Fails(m) /\ doubtful' = doubtful
           \/ v = "killed" /\ doubtful' = doubtful \cup {m}
           \/ v = "survived" /\ HasSuite(Subject) /\ ~Fails(m) /\ doubtful' = doubtful
    PROVE  CampaignInv'
<1>1. /\ verdict' = [verdict EXCEPT ![m] = v] /\ mpc' = "mutant"
      /\ UNCHANGED <<public, version, mat, package, rows, certified>>
  BY DEF Judge, hiddenVars, files, summaryVars
<1>2. AtWork /\ AtWork' /\ mat \in Certifications /\ Subject' = Subject
  BY <1>1 DEF CampaignInv, CampaignTypeOK, AtWork, Subject
<1>3. CampaignTypeOK'
  BY <1>1, <1>2 DEF CampaignInv, CampaignTypeOK, AtWork
<1>4. TrueAt(Subject, package.at, verdict, doubtful)
  BY <1>2 DEF CampaignInv
<1>5. ASSUME TrueOf(Subject, public[Subject].smoke, verdict, doubtful)
      PROVE  TrueOf(Subject, public[Subject].smoke, verdict', doubtful')
  <2> DEFINE Caught(n) == Catches[n] \cap (public[Subject].smoke \cup Deep) # {}
  <2> SUFFICES ASSUME NEW n \in Mutants[Subject]
               PROVE  /\ verdict'[n] = "killed" => Caught(n) \/ n \in doubtful'
                      /\ verdict'[n] = "survived" => ~Caught(n)
    BY DEF TrueOf
  <2>1. doubtful \subseteq doubtful'
    OBVIOUS
  <2>2. CASE n # m
    <3>1. verdict'[n] = verdict[n]
      BY <1>1, <2>2 DEF CampaignInv, CampaignTypeOK
    <3> QED  BY <1>5, <2>1, <3>1 DEF TrueOf
  <2>3. CASE n = m
    <3>1. verdict'[n] = v
      <4>1. n \in Mutant
        BY <1>2, TrackAAssumption DEF Mutant, Subject
      <4> QED  BY <1>1, <2>3, <4>1 DEF CampaignInv, CampaignTypeOK
    <3>2. HasSuite(Subject) => (Fails(m) <=> Caught(m))
      BY SuiteOfRun DEF Fails
    <3> QED  BY <2>3, <3>1, <3>2
  <2> QED  BY <2>2, <2>3
<1>6. TrueAt(Subject, package.at, verdict, doubtful)'
  BY <1>1, <1>2, <1>4, <1>5 DEF TrueAt
<1>7. ASSUME NEW t \in CertifiedTasks
      PROVE  /\ rows'[t] # Nothing => TrueAt(t, rows[t].at, rows[t].verdict, rows[t].doubtful)'
             /\ certified'[t] # Nothing =>
                  TrueAt(t, certified[t].at, certified[t].verdict, certified[t].doubtful)'
  BY <1>1 DEF CampaignInv, TrueAt
<1> QED  BY <1>2, <1>3, <1>6, <1>7 DEF CampaignInv

\* What the outcome of a simulation says of suite and mutant.
LEMMA RunSimIs ==
    ASSUME NEW m
    PROVE  /\ "fail" \in RunSim(m) => HasSuite(Subject) /\ Imports(Subject) /\ Fails(m)
           /\ "pass" \in RunSim(m) => HasSuite(Subject) /\ ~Fails(m)
BY DEF RunSim

LEMMA RunOneInv == HiddenInv /\ CampaignInv /\ RunOne => CampaignInv'
<1> SUFFICES ASSUME HiddenInv, CampaignInv, RunOne PROVE CampaignInv'
  OBVIOUS
<1> USE DEF Verdicts
<1>1. ASSUME mpc = "mutant", NEW m \in todo, FirstRun(m) PROVE CampaignInv'
  <2>1. CASE /\ cur' = m /\ mpc' = "retry"
             /\ UNCHANGED <<hiddenVars, mat, package, passed, todo, verdict, baseless, doubtful, summaryVars>>
    <3>1. UNCHANGED <<public, version>>
      BY <2>1 DEF hiddenVars, files
    <3> QED  BY <1>1, <2>1, <3>1 DEF CampaignInv, CampaignTypeOK, AtWork, TrueAt, Subject, summaryVars
  <2>2. CASE Judge(m, "stillborn") /\ UNCHANGED doubtful
    BY <1>1, <2>2, JudgeInv
  <2>3. CASE Judge(m, "setup_error") /\ UNCHANGED doubtful
    BY <1>1, <2>3, JudgeInv
  <2>4. CASE "fail" \in RunSim(m) /\ Judge(m, "killed") /\ UNCHANGED doubtful
    BY <1>1, <2>4, RunSimIs, JudgeInv
  <2>5. CASE Judge(m, "killed") /\ doubtful' = doubtful \cup {m}
    BY <1>1, <2>5, JudgeInv
  <2>6. CASE "pass" \in RunSim(m) /\ Judge(m, "survived") /\ UNCHANGED doubtful
    BY <1>1, <2>6, RunSimIs, JudgeInv
  <2> QED  BY <1>1, <2>1, <2>2, <2>3, <2>4, <2>5, <2>6 DEF FirstRun
<1>2. ASSUME mpc = "retry", RetryRun PROVE CampaignInv'
  <2>1. CASE Judge(cur, "indeterminate") /\ UNCHANGED doubtful
    BY <1>2, <2>1, JudgeInv
  <2>2. CASE Judge(cur, "killed") /\ doubtful' = doubtful \cup {cur}
    BY <1>2, <2>2, JudgeInv
  <2>3. CASE "fail" \in RunSim(cur) /\ Judge(cur, "killed") /\ UNCHANGED doubtful
    BY <1>2, <2>3, RunSimIs, JudgeInv
  <2>4. CASE "pass" \in RunSim(cur) /\ Judge(cur, "survived") /\ UNCHANGED doubtful
    BY <1>2, <2>4, RunSimIs, JudgeInv
  <2> QED  BY <1>2, <2>1, <2>2, <2>3, <2>4 DEF RetryRun
<1> QED  BY <1>1, <1>2 DEF RunOne

LEMMA StartOfCampaignInv ==
    HiddenInv /\ CampaignInv /\ (StartCertification \/ Hash \/ Baseline) => CampaignInv'
<1> SUFFICES ASSUME HiddenInv, CampaignInv, StartCertification \/ Hash \/ Baseline PROVE CampaignInv'
  OBVIOUS
<1>1. UNCHANGED <<public, version, mat, verdict, doubtful, rows, certified>>
  BY DEF StartCertification, Hash, Baseline, hiddenVars, files, summaryVars
<1>2. ASSUME NEW t \in CertifiedTasks
      PROVE  /\ rows'[t] # Nothing => TrueAt(t, rows[t].at, rows[t].verdict, rows[t].doubtful)'
             /\ certified'[t] # Nothing =>
                  TrueAt(t, certified[t].at, certified[t].verdict, certified[t].doubtful)'
  BY <1>1 DEF CampaignInv, TrueAt
<1>3. CASE StartCertification
  BY <1>1, <1>2, <1>3 DEF StartCertification, CampaignInv, CampaignTypeOK, AtWork
<1>4. CASE Hash
  <2>1. /\ mpc = "hash" /\ mpc' = "baseline" /\ mat \in Certifications /\ package' = Provenance
    BY <1>4 DEF Hash
  <2>2. Subject \in Tasks /\ Subject' = Subject
    BY <1>1, <2>1, TrackAAssumption DEF Subject
  <2>3. package'.at = version[Subject] /\ version[Subject] \in Nat
    BY <2>1, <2>2 DEF Provenance, HiddenInv, HiddenTypeOK
  <2>4. verdict = [m \in Mutant |-> "none"]
    BY <2>1 DEF CampaignInv, CampaignTypeOK, AtWork
  <2>5. TrueOf(Subject, public[Subject].smoke, verdict, doubtful)
    <3>1. \A m \in Mutants[Subject] : verdict[m] = "none"
      BY <2>2, <2>4 DEF Mutant
    <3> QED  BY <3>1 DEF TrueOf
  <2>6. TrueAt(Subject, package.at, verdict, doubtful)'
    BY <1>1, <2>2, <2>3, <2>5 DEF TrueAt
  <2>7. CampaignTypeOK'
    BY <1>1, <2>1, <2>4 DEF CampaignInv, CampaignTypeOK, AtWork
  <2> QED  BY <1>2, <2>6, <2>7 DEF CampaignInv
<1>5. CASE Baseline
  <2>1. mpc = "baseline" /\ mpc' \in {"broken", "mutant"} /\ package' = package
    BY <1>5 DEF Baseline
  <2> QED
    BY <1>1, <1>2, <2>1 DEF CampaignInv, CampaignTypeOK, AtWork, TrueAt, Subject
<1> QED  BY <1>3, <1>4, <1>5

LEMMA EndOfCampaignInv ==
    HiddenInv /\ CampaignInv /\ (Report \/ WriteSummary \/ CrashCertification) => CampaignInv'
<1> SUFFICES ASSUME HiddenInv, CampaignInv, Report \/ WriteSummary \/ CrashCertification PROVE CampaignInv'
  OBVIOUS
<1>1. /\ UNCHANGED <<public, version>>
      /\ verdict' = [m \in Mutant |-> "none"]
      /\ mpc' \in {"hash", "off"} /\ mat' \in Nat \ {0}
      /\ DOMAIN rows' = CertifiedTasks
  BY DEF Report, WriteSummary, CrashCertification, ForgetCampaign, hiddenVars, files, CampaignInv, CampaignTypeOK
<1>2. CampaignTypeOK' /\ ~AtWork'
  BY <1>1 DEF CampaignTypeOK, AtWork, Verdicts
<1>3. CASE Report
  <2>1. /\ AtWork /\ certified' = certified
        /\ rows' = [rows EXCEPT ![Subject] =
             [status |-> Status, package |-> package.content, at |-> package.at,
              verdict |-> verdict, doubtful |-> doubtful]]
    BY <1>3 DEF Report, AtWork
  <2>2. TrueAt(Subject, package.at, verdict, doubtful)
    BY <2>1 DEF CampaignInv
  <2>3. ASSUME NEW t \in CertifiedTasks, rows'[t] # Nothing
        PROVE  TrueAt(t, rows[t].at, rows[t].verdict, rows[t].doubtful)'
    <3>1. CASE t = Subject
      <4>1. rows'[t].at = package.at /\ rows'[t].verdict = verdict /\ rows'[t].doubtful = doubtful
        BY <2>1, <2>3, <3>1 DEF CampaignInv, CampaignTypeOK
      <4> QED  BY <1>1, <2>2, <3>1, <4>1 DEF TrueAt
    <3>2. CASE t # Subject
      <4>1. rows'[t] = rows[t]
        BY <2>1, <2>3, <3>2 DEF CampaignInv, CampaignTypeOK
      <4> QED  BY <1>1, <2>3, <4>1 DEF CampaignInv, TrueAt
    <3> QED  BY <3>1, <3>2
  <2> QED  BY <1>1, <1>2, <2>1, <2>3 DEF CampaignInv, TrueAt
<1>4. CASE WriteSummary
  <2>1. certified' = rows /\ rows' = [t \in CertifiedTasks |-> Nothing]
    BY <1>4 DEF WriteSummary
  <2> QED  BY <1>1, <1>2, <2>1 DEF CampaignInv, TrueAt
<1>5. CASE CrashCertification
  <2>1. certified' = certified /\ rows' = [t \in CertifiedTasks |-> Nothing]
    BY <1>5 DEF CrashCertification
  <2> QED  BY <1>1, <1>2, <2>1 DEF CampaignInv, TrueAt
<1> QED  BY <1>3, <1>4, <1>5

LEMMA CampaignStepInv == HiddenInv /\ CampaignInv /\ [Next]_vars => CampaignInv'
<1>1. HiddenInv /\ CampaignInv /\ UNCHANGED vars => CampaignInv'
  BY DEF vars, hiddenVars, files, campaignVars, CampaignInv, CampaignTypeOK, AtWork, TrueAt, Subject
<1> QED
  BY <1>1, TestsChangeInv, RunOneInv, StartOfCampaignInv, EndOfCampaignInv DEF Next

\* What a certified row says of its mutants stays true as long as the check
\* (verify_mutation_certification.py) calls it fresh.
THEOREM FreshRowsAreTrue == Spec => []FreshRowIsTrue
<1>1. Init => HiddenInv /\ CampaignInv
  BY HiddenInitInv, CampaignInitInv DEF Init
<1>2. HiddenInv /\ CampaignInv /\ [Next]_vars => (HiddenInv /\ CampaignInv)'
  BY HiddenStepInv, CampaignStepInv
<1>3. CampaignInv => FreshRowIsTrue
  BY DEF CampaignInv, FreshRowIsTrue, Fresh, TrueAt, TrueOf
<1> QED  BY <1>1, <1>2, <1>3, PTL DEF Spec
=============================================================================
