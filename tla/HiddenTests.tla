---------------------------- MODULE HiddenTests ----------------------------
(***************************************************************************)
(* How hidden tests are split off the testbenches, where they live, and    *)
(* how an official run finds them: scripts/freeze_extract_hidden.py,       *)
(* harness/hidden.py and the runner's _prepare_sim_tests.                  *)
(*                                                                         *)
(* A testbench starts as one file with a marker between its smoke tests    *)
(* and the tests to be hidden.  The extraction stages the hidden part as a *)
(* module of its own and replaces the testbench by its smoke part; it may  *)
(* die between any two of its writes and is simply run again.  The         *)
(* operator moves staged modules into a vault outside the repository,      *)
(* attaches the vault to official runs, and may spoil it.  Maintainers     *)
(* edit the smoke part and leave review lines in it.                       *)
(*                                                                         *)
(* The loader call of a split testbench (load_hidden) adds nothing in an   *)
(* official run, whose simulation is not told where the vault is; it is    *)
(* left out.                                                               *)
(***************************************************************************)
EXTENDS Naturals

CONSTANTS
    Nothing,     \* no module, no mutant, no row
    Tasks,
    NTasks,
    TaskAt,      \* TaskAt[i]: the i-th testbench of the extraction's plan
    Smoke,       \* the tests that may be added to the smoke part or dropped
    Deep,        \* the tests behind the marker
    ReviewLines, \* ReviewLines[t]: what reviewers may note in t's testbench
    MaxEdits,    \* bound: MaxEdits[t], changes of a testbench after its split
    MaxMounts    \* bound: changes of the vault

Positions == 1 .. NTasks

ASSUME OrderAssumption ==
    /\ NTasks \in Nat
    /\ TaskAt \in [Positions -> Tasks]
    /\ \A t \in Tasks : \E i \in Positions : TaskAt[i] = t
ASSUME TestAssumption == Deep # {} /\ Smoke \cap Deep = {}

AnyLine == UNION {ReviewLines[t] : t \in Tasks}

ASSUME ReviewAssumption == \A lines \in SUBSET AnyLine : lines # Nothing
ASSUME EditAssumption == MaxEdits \in [Tasks -> Nat] /\ MaxMounts \in Nat

VARIABLES
    public,      \* per task, its testbench in the repository
    staged,      \* per task, the review lines of its module in build/hidden-staging
    vault,       \* per task, its module in the vault
    attached,    \* is the vault mounted as GATETRUTH_HIDDEN_ROOT?
    mounts,      \* how often the vault was changed
    version,     \* history: per task, how often its testbench has changed
    xpc, xat,    \* the extraction, and the testbench it is at
    text,        \* the testbench as the extraction has read it
    completed    \* history: has the last extraction gone through undisturbed?

files == <<public, staged, vault, attached, mounts, version>>
hiddenVars == <<files, xpc, xat, text, completed>>

\* Review lines may stand in the smoke part or behind the marker.
Testbench == [marked : BOOLEAN, smoke : SUBSET Smoke,
              review : SUBSET AnyLine, behind : SUBSET AnyLine]

Unsplit == [marked |-> TRUE, smoke |-> Smoke, review |-> {}, behind |-> {}]

\* What a module in the vault may be: as it was staged; with the decorators of
\* its tests under another name; with tests, but one that cannot be imported; one
\* that does not parse or has no tests.
Modules == {"tests", "renamed", "raising", "broken"}

HiddenInit ==
    /\ public = [t \in Tasks |-> Unsplit]
    /\ staged = [t \in Tasks |-> Nothing]
    /\ vault = [t \in Tasks |-> "none"]
    /\ attached = TRUE
    /\ mounts = 0
    /\ version = [t \in Tasks |-> 0]
    /\ xpc = "off" /\ xat = 1
    /\ text = Unsplit
    /\ completed = "no"

-----------------------------------------------------------------------------
(* The extraction *)

StartExtraction ==
    /\ xpc = "off"
    /\ xpc' = "apply" /\ xat' = 1 /\ completed' = "running"
    /\ UNCHANGED <<files, text>>

\* _preserve_review_markers: a module that has a review line gets no others.
Preserve(lines, module) == IF module # {} THEN module ELSE lines

\* _hidden_source: the module made of what is behind the marker.
StagedFor(p) == Preserve(p.review, p.behind)

\* _public_source: the smoke part, with its review lines.
SmokePart(p) == [p EXCEPT !.marked = FALSE, !.behind = {}]

Item == TaskAt[xat]

\* Mutant: the public file first.
WritesPublicFirst ==
    \/ /\ xpc = "apply" /\ xat \in Positions /\ public[Item].marked
       /\ text' = public[Item]
       /\ public' = [public EXCEPT ![Item] = SmokePart(@)]
       /\ version' = [version EXCEPT ![Item] = @ + 1]
       /\ xpc' = "public"
       /\ UNCHANGED <<staged, vault, attached, mounts, xat, completed>>
    \/ /\ xpc = "public"
       /\ staged' = [staged EXCEPT ![Item] = StagedFor(text)]
       /\ xpc' = "apply" /\ xat' = xat + 1
       /\ UNCHANGED <<public, vault, attached, mounts, version, text, completed>>

\* apply_extraction on a marked testbench: the hidden module is written first,
\* then the public file, from the text read before.
SplitTestbench ==
    \/ /\ xpc = "apply" /\ xat \in Positions /\ public[Item].marked
       /\ text' = public[Item]
       /\ staged' = [staged EXCEPT ![Item] = StagedFor(public[Item])]
       /\ xpc' = "public"
       /\ UNCHANGED <<public, vault, attached, mounts, version, xat, completed>>
    \/ /\ xpc = "public"
       /\ public' = [public EXCEPT ![Item] = SmokePart(text)]
       /\ version' = [version EXCEPT ![Item] = @ + 1]
       /\ xpc' = "apply" /\ xat' = xat + 1 /\ text' = Unsplit
       /\ UNCHANGED <<staged, vault, attached, mounts, completed>>

\* Mutant: what is split is left alone.
SplitIsDone ==
    /\ xpc = "apply" /\ xat \in Positions /\ ~public[Item].marked
    /\ xat' = xat + 1
    /\ UNCHANGED <<files, xpc, text, completed>>

\* On a split testbench: review lines that were added since are carried over to a
\* module that has none.  Without a staged module the extraction stops.
RepairStaged ==
    /\ xpc = "apply" /\ xat \in Positions /\ ~public[Item].marked
    /\ \/ /\ staged[Item] = Nothing
          /\ xpc' = "off" /\ xat' = 1 /\ completed' = "no"
          /\ UNCHANGED staged
       \/ /\ staged[Item] # Nothing
          /\ staged' = [staged EXCEPT ![Item] = Preserve(public[Item].review, @)]
          /\ xat' = xat + 1
          /\ UNCHANGED <<xpc, completed>>
    /\ UNCHANGED <<public, vault, attached, mounts, version, text>>

FinishExtraction ==
    /\ xpc = "apply" /\ xat \notin Positions
    /\ xpc' = "off" /\ xat' = 1
    /\ completed' = IF completed = "running" THEN "yes" ELSE "no"
    /\ UNCHANGED <<files, text>>

CrashExtraction ==
    /\ xpc # "off"
    /\ xpc' = "off" /\ xat' = 1 /\ text' = Unsplit /\ completed' = "no"
    /\ UNCHANGED files

-----------------------------------------------------------------------------
(* Operator and maintainers *)

MoveToVault(t) ==
    /\ xpc = "off" /\ ~public[t].marked /\ staged[t] # Nothing
    /\ vault' = [vault EXCEPT ![t] = "tests"]
    /\ staged' = [staged EXCEPT ![t] = Nothing]
    /\ completed' = "no"
    /\ UNCHANGED <<public, attached, mounts, version, xpc, xat, text>>

\* A module is replaced by one that is of no use, or mended.
SpoilVault(t) ==
    /\ mounts < MaxMounts /\ vault[t] # "none"
    /\ \E module \in Modules \ {vault[t]} : vault' = [vault EXCEPT ![t] = module]
    /\ mounts' = mounts + 1
    /\ UNCHANGED <<public, staged, attached, version, xpc, xat, text, completed>>

MountVault ==
    /\ mounts < MaxMounts
    /\ attached' = ~attached
    /\ mounts' = mounts + 1
    /\ UNCHANGED <<public, staged, vault, version, xpc, xat, text, completed>>

\* Not before the split: tests behind the marker are frozen.
EditTestbench(t) ==
    /\ ~public[t].marked /\ version[t] <= MaxEdits[t]
    /\ \/ \E line \in ReviewLines[t] \ public[t].review :
             public' = [public EXCEPT ![t].review = @ \cup {line}]
       \/ \E s \in (SUBSET Smoke) \ {public[t].smoke} :
             public' = [public EXCEPT ![t].smoke = s]
    /\ version' = [version EXCEPT ![t] = @ + 1]
    /\ completed' = "no"
    /\ UNCHANGED <<staged, vault, attached, mounts, xpc, xat, text>>

ReviewBeforeSplit(t) ==
    /\ public[t].marked /\ xpc = "off"
    /\ \E line \in ReviewLines[t] \ (public[t].review \cup public[t].behind) :
          \/ public' = [public EXCEPT ![t].review = @ \cup {line}]
          \/ public' = [public EXCEPT ![t].behind = @ \cup {line}]
    /\ UNCHANGED <<staged, vault, attached, mounts, version, xpc, xat, text, completed>>

HiddenNext ==
    \/ StartExtraction \/ SplitTestbench \/ RepairStaged
    \/ FinishExtraction \/ CrashExtraction
    \/ MountVault
    \/ \E t \in Tasks : MoveToVault(t) \/ SpoilVault(t) \/ EditTestbench(t) \/ ReviewBeforeSplit(t)

-----------------------------------------------------------------------------
(* How tests are found *)

\* resolve_hidden_module, and what the module turns out to be.
HiddenModule(t) == IF attached THEN vault[t] ELSE "none"

\* Importing the testbench: a marked one has all its tests, a split one those of
\* its smoke part.
PublicTests(p) == p.smoke \cup (IF p.marked THEN Deep ELSE {})

\* _prepare_sim_tests: an official run has no suite if there is no hidden module,
\* it does not parse, no test of it is decorated with @cocotb.test by that very
\* name, or such a test has the name of a function of the testbench.
HasSuite(t) ==
    /\ HiddenModule(t) \in {"tests", "raising"}
    /\ PublicTests(public[t]) \cap Deep = {}

\* The merged module of testbench and hidden module, and whether it imports.
SimTests(t) == PublicTests(public[t]) \cup Deep
Imports(t) == HiddenModule(t) # "raising"

-----------------------------------------------------------------------------
(* Properties *)

HiddenTypeOK ==
    /\ public \in [Tasks -> Testbench]
    /\ staged \in [Tasks -> (SUBSET AnyLine) \cup {Nothing}]
    /\ vault \in [Tasks -> Modules \cup {"none"}]
    /\ attached \in BOOLEAN /\ mounts \in Nat /\ version \in [Tasks -> Nat]
    /\ xpc \in {"off", "apply", "public"} /\ xat \in 1 .. (NTasks + 1)
    /\ text \in Testbench /\ completed \in {"no", "running", "yes"}

\* Wherever an extraction dies, the hidden tests of every task are still behind
\* the marker of its testbench, or staged, or in the vault.
NoHiddenTestLost ==
    \A t \in Tasks : public[t].marked \/ staged[t] # Nothing \/ vault[t] # "none"

\* An extraction that goes through, after whatever crashes and with no edit on
\* the way, leaves every testbench split and its module staged; and the module of
\* a reviewed testbench has a review line, even if the review came after an
\* earlier extraction.  (Not every line: one that is added when the module has
\* another is never carried over.)
FinishedExtractionIsComplete ==
    completed = "yes" => \A t \in Tasks :
        /\ ~public[t].marked
        /\ staged[t] # Nothing
        /\ public[t].review # {} => staged[t] # {}
=============================================================================
