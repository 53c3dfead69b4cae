# Formal models of GateTruth

GateTruth (`harness/`, `scripts/`, `site/`) evaluates language models on hardware
design tasks. A *campaign* asks a model for SystemVerilog modules (Track A) or
lets it edit a design (Track B), runs each answer through gates (lint,
simulation, formal, synthesis, timing, power), writes a result manifest per
answer, and publishes summaries on a static site. Money is spent on provider
calls, results are official, and both survive crashes, retries and several
campaigns on one machine. The models here are about that: what the program
records, when, in which order, and what is left when something stops half way.

## 1. Inventory

| Component | State it keeps | Operations | Interacts with |
|---|---|---|---|
| Spend ledger (`harness/spend.py`, `scripts/reconcile_spend.py`) | `results/spend.json`: entries (provider, model, cost, reservation flag), `total_usd`; a lock file | reserve, settle, reconcile, load | every provider adapter of every process on the machine |
| Atomic writes (`harness/atomic_write.py`) | a file and its temporary sibling | write text, write bytes | every writer of manifests, sources and summaries |
| Providers (`harness/providers/`) | usage counters of an adapter, last finish reason | `begin_call`, `generate`, `finish_call`, `release_call`, `post_json`, retry loop | ledger, provider APIs |
| Track A campaign (`harness/evalmodel.py`, `schemas/pending.py`) | a directory per model: pending records, `.sv` sources, manifests, logs, `summary.json` | `eval_model`; `generate_model_samples` then `score_pending_samples` | providers, runner, atomic writes, site |
| Runner (`harness/runner.py`, `flows.py`, `validation.py`, `sv_mask.py`) | a work directory, the manifest's stages | validate, lint, sim, formal, PPA, manifest | tools, scoring, hidden tests, schemas |
| Scoring and schemas (`harness/scoring.py`, `harness/schemas/`) | none | task score, gate predicates, model validators, canonical JSON | runner, evalmodel, trackb, rescore |
| Hidden tests (`harness/hidden.py`, `scripts/freeze_extract_hidden.py`, `scripts/verify_hidden_freeze.py`) | public and hidden file of a task, the hidden lock | resolve, extract, freeze, verify | runner, trackb, mutate |
| Track B evaluator (`harness/trackb.py`, `schemas/manifest_b.py`) | a work directory, the manifest's stages | diff guard, lint, sim, equivalence, objective; semantic validation | runner, hidden tests, agent |
| Agent (`harness/agentb.py`, `harness/evalagent.py`) | workspace, trajectory, budgets used | turn loop, actions, final evaluation; campaign over tasks | providers, Track B evaluator |
| Mutation campaign (`harness/mutate.py`, `harness/mutators/`, `scripts/certify_mutation.py`, `scripts/verify_mutation_certification.py`) | mutants, kill results, certification | baseline, run mutant, retry on timeout, certify, verify | runner, hidden tests |
| Site (`site/generate.py`) | output, staging and previous directory | load and verify summaries, stage, publish by rename | campaign directories |
| Rescoring (`scripts/rescore_official.py`) | the expected means, manifests, summaries and tables | read all, compare with the means, write what differs, make the tables | reference metrics, manifests, site |
| External audit (`external-audit/`, `paper/data/generate_audit_appendix.py`) | the vendor's tree, lock file, catalog, reports, summaries, determinism sample | fetch, sweep, audit, package, accept for the paper | the tools; none of the above |
| Nightly and reproduction (`scripts/nightly.py`, `reproduce*.py`) | a nightly summary | run the other programs one after the other, compare | runner, mutation, site, manifests |
| Paper data, reports (`paper/data/`, `scripts/generate_*`, `contamination_check.py`, `redact_canaries.py`, ...) | generated tables | read results, print tables | campaign results |
| Command line, helpers (`harness/cli.py`, `env_compat.py`, `git_provenance.py`, `tree_hash.py`) | none | dispatch | all |

What is hard about them, and what makes each correct:

- **Ledger and providers.** Several processes, one file. Reservations have no
  owner, so a settlement takes *a* matching entry, not *its* entry. Calls crash,
  leak reservations, are retried, and are billed for answers nobody receives.
  Correct means: what is committed never exceeds the cap, no call loses its
  reservation to another, every bill is in the ledger or accounted for, settled
  entries are final, and the ledger and the manifests drift apart only by what a
  settlement that failed has counted.
- **Atomic writes.** A crash, a full disk or a power loss at any point leaves
  the old or the new content, never part of one, and no update is lost.
- **Track A campaign.** The directory is reused by the next campaign and
  crashes leave it half written. Correct means that a summary is never
  computed from a mixture, a source always belongs to its pending record, and
  a sample without an answer scores zero.
- **Runner, scoring, schemas.** The gates run in order and a failed gate must
  make the score zero; the schema, the runner and the scorer state the same
  rule three times and must agree.
- **Track B evaluator.** The evaluator and `validate_track_b_semantics` state the
  same rules twice; an infrastructure failure must not count against a model.
- **Agent.** Turn, tool and token budgets across retries and failures: one
  budget must fire, be the one recorded, and the final evaluation run anyway.
- **Mutation.** A mutant counts as killed only if the tests failed because of
  it, not because hidden tests vanished or a tool timed out; and a certification
  called fresh must still be true of the testbench of today.
- **Hidden tests.** Extraction moves tests from a public file to a hidden one; a
  crash between the two writes must lose nothing and repeat safely. An official
  run must not take tests that are missing or unusable for a failed design.
- **Rescoring.** Hundreds of files are replaced one by one; a crash leaves two
  versions of the scores, which the next rescoring, under a third perhaps, must
  bring to the means expected under one.
- **Site.** It reads what a rescoring may be writing, and the live site survives
  a crash at any point of a publication.
- **External audit.** Five programs hand files to each other and read one tree of
  sources at different times: a report must be of the commit it names.

The hazards, each at its line and with the properties that cover it, are in
`PROJECT.json`.

## 2. Plan, and what has come of it

In the order of their importance to the system. Each part has a module with its
actions and properties, an `MC` module and a configuration, and where a proof is
worth it a `Proofs` module.

1. `SpendLedger`: ledger and provider calls. *Checked and proved.*
2. `LedgerStore`, `LedgerFile`: the abstract store and the file operations that
   implement it. *Checked; the refinement proved.*
3. `TrackA`: the campaign directory; generation, scoring, reruns, crashes.
   *Checked and proved.*
4. `RunTask`: gate pipeline, manifest schema, scorer and the rescoring of one
   manifest. *Checked and proved.*
5. `TrackB`, and `AgentLoop`, which extends it: evaluator, validator, agent
   campaign. *Checked, with liveness; safety proved.*
6. `HiddenTests`, and `Mutation`, which extends it: extraction, vault,
   certification. *Checked and proved.*
7. `Rescore`, and `SitePublish`, which extends it: rescoring of all results, and
   the site generated meanwhile. *Checked and proved.*
8. `ExternalAudit`: fetch, sweep, audit, packaging, appendix. *Checked and
   proved.*

The compositions are by extension: a campaign ends every task with the evaluator,
a certification runs against whatever the extraction and the operator have made
of the hidden tests, and the generator reads what a rescoring writes.

What would come next: a campaign as one atomic map from samples to scores, which
`TrackA` implements except for the mixtures of section 5, and the refinement proved.

## 3. The modules

Each module has its state and actions, then its properties. A definition whose
comment starts with *Mutant* is not part of a model: it is the form a plausible
bug would give the definition below it, and is there to show that a property
notices that bug. `MC...` modules name small instances; `...Proofs` modules hold
the theorems. Variables called *history* are not in the code: they remember what
happened so that a property can be about it.

### SpendLedger: `harness/spend.py`, `harness/providers/`

| Model | Code |
|---|---|
| `runs` (entry number -> entry), `appended` | the `"runs"` list of `spend.json`; numbers give the append order, removals leave gaps |
| `SettledTotal`, `CommittedTotal` | `_settled_total` (published as `total_usd`), `_committed_total` |
| `pc`, `reserved`, `attempt`, `reply` of a caller | the local state of `generate_with_transport_retry`, `generate()` and `_base.begin_call` |
| `usage` | the adapter's accumulated usage cost, which the manifests report |
| `billed`, `lost` | history: what providers billed, and the part of it no reservation is left to cover: answers released at zero, and what a call that never settled was billed above its worst case |
| `missed` | history: usage a caller has counted but could not settle |
| `dropped`, `disturbed` | history: what an operator removed; whether a call was active then |

`StartCall` enters the retry loop, `RejectCall`, `Reserve` and
`RefuseReservation` are the outcomes of `begin_call`, `Respond`, `Fault` and
`EscapedException` what the HTTP request can do, `Settle`, `SettleUnmatched` and
`SettleFails` (an `OSError` in the ledger's files) are `finish_call` or
`release_call` down to `settle_spend_reservation`; since `finish_call` counts the
usage first, the last two leave usage without a settled entry. `Wake` is
the next attempt, `Reconcile` is `reconcile_spend_reservations`. Each ledger
function is one step: it runs under the exclusive lock and publishes with one
rename, which is what `LedgerFile` shows. Costs are natural numbers; a sum of
costs is the cardinality of a set of (entry, unit) pairs, because a sum written
as a recursion over the list could not be proved about.

### LedgerStore, LedgerFile: the disk protocol of `spend.py` and `atomic_write.py`

`LedgerStore` is the promise: the content changes by one whole update at a time,
and a power loss may take back updates but never part of one. `LedgerFile` is the
code: `flock` on a lock file, load, `mkstemp`, write, `fsync`, `os.replace`,
unlink in `finally`, unlock; with `ReadModifyWrite = FALSE` it is
`atomic_write.py`, which has the same body without lock and load. Files are
inodes, names point to them, readers keep an old inode open. A process may die
at any step; an `OSError` may occur at any saving step; a power loss keeps only
what was synced, and the directory as it was last written back. The code syncs
the file and not the directory, so a power loss can undo whole published
updates: `FallBack` of the abstract store says so.

### TrackA: `harness/evalmodel.py`, `schemas/pending.py`, `site/generate.py`

| Model | Code |
|---|---|
| `sv`, `pending`, `manifest` per sample, `summary` | `sample_N.sv`, `sample_N.pending.json`, `sample_N.json`, `summary.json` |
| process `"gen"` | `generate_model_samples` or `eval_model` |
| process `"score"` | `score_pending_samples` |
| `held`, `recs`, `route`, `scored` | the record in hand, the manifests collected, what earlier samples fixed, the result of `run_task` |
| `Acceptable` | the checks of `score_pending_samples` on a record |
| `Loaded`, `Official` | what `_load_summary` of the site accepts, and the badge |

Every file replacement is a step of its own, in the code's order, and `Stop` may
end a process between any two. The directory is not emptied between campaigns:
all interesting states are left-overs of earlier, possibly interrupted, runs.
Fields named `made` and `reviewed` are history.

### RunTask: `harness/runner.py`, `scoring.py`, `schemas/manifest.py`, `scripts/rescore_official.py`

One action per gate of `run_task`; `run` holds its local variables. The
submission is read three times (hash, size check, copy), and `ChangeFile` lets
another process replace or remove the submission, the hidden tests or the
reference metrics between any two steps. A design is a model value;
`Sound[gate]` are the designs that can pass a gate, and a tool may fail any
design (a timeout does) but pass only those. The scoring rules exist four times in the
code and four times here: `RunGatesPassed` (runner), `SchemaAccepts` (schema),
`ScorerAccepts` (`score_manifest`), `Rescored` (`rescore_manifest`). Scores are
exact fractions (the cube of the code's value), so that no root is needed.
`LegacyManifests` are files earlier versions of the harness left behind, the
reason the rescoring script exists.

### TrackB: `harness/trackb.py`, `schemas/manifest_b.py`

One action per gate of `run_track_b`: `Preflight` (review and hidden module, in
official runs), `DiffGuard`, `Lint`, `Sim`, `Correctness` (equivalence checking if the
task preserves behaviour), `Objective`, `WriteManifest`. `ev` holds its local
variables. As in `RunTask`, designs are model values, `Sound[gate]` are those that
can pass, and a tool may fail any. `ChangeHidden` replaces or removes the hidden
module between any two steps: it is resolved before the gates and read by the
simulation. `SchemaAccepts` is `TrackBManifest.validate_rules`, `Validates` is
`validate_track_b_semantics`.

### AgentLoop: `harness/agentb.py`, `harness/evalagent.py`, readers of their files

| Model | Code |
|---|---|
| `manifest`, `sv` per task, `summary` | `<task>.json` (written by the evaluator, then again by the agent), `<task>.sv`, `summary.json` |
| `counter`, `start`, `calls` | the adapter's token counter, its value when the task began, tool calls made |
| `ceiling`, `attempt` | what an attempt of the call in hand may cost (computed once per call), its number |
| `exceeded`, `failed` | `budget_exceeded`; history: the provider gave up |
| `total` | tokens of the rows collected for the summary |

`BeginTurn` asks the limits in the code's order (`FiredLimit`), `Answer`, `Retry`,
`SpendCap` and `ProviderFailed` are the outcomes of a call. The estimate of a
prompt, by which the output is limited, omits the system prompt, so a prompt may be
billed at more (`Estimates`, `MaxPrompt`); that no answer is longer than the
requested `max_tokens` is the provider's promise. A spend cap that fires when a call
is settled has counted its tokens; one that fires when it is reserved has not. `Act`
is one action of the agent, `ActRaises` one that raises and ends the campaign, and
`Evaluate` hands the sandbox's design to `TrackB`; `Sign`,
`SaveSource` and `WriteSummary` replace one file each. `Crash` may come anywhere, and
the next campaign finds its files; campaign 1 is over when a behaviour starts.
`ResolveDesignSource` and `InferredOfficial` are how `reproduce_trackb.py` reads the
directory, `LoadAgent` and `ValidAgentSummary` how the site does.

### HiddenTests: `scripts/freeze_extract_hidden.py`, `verify_hidden_freeze.py`, `harness/hidden.py`

`public`, `staged` and `vault` are the three places a task's tests can be in: the
testbench, `build/hidden-staging`, and the directory mounted as
`GATETRUTH_HIDDEN_ROOT` while `attached`. Review lines are sets: those of the
public part and those behind the marker; what is staged is the review lines of the
module, since its tests never change. `SplitTestbench` writes the hidden module, then
the public file, as two steps; `RepairStaged` brings review lines of a testbench that
was split earlier; both do it through `Preserve`, which gives a module that has a
review line no others. `CrashExtraction` may come between any two. The operator moves,
spoils and mounts (`MoveToVault`, `SpoilVault`, `MountVault`), maintainers edit and
review (`EditTestbench`, `ReviewBeforeSplit`). A module in the vault has tests, or
tests whose decorators go by another name, or cannot be imported, or is of no use at
all (`Modules`). `HasSuite`, `SimTests` and `Imports` are the runner's
`_prepare_sim_tests`: whether there is anything to run, and what. The loader call in
a split testbench is left out: the simulation of an official run is not told where
the vault is, so that it loads nothing.

### Mutation: `harness/mutate.py`, `scripts/certify_mutation.py`, `verify_mutation_certification.py`

`Hash`, `Baseline`, then `FirstRun` and after a timeout `RetryRun` for each mutant,
`Report` per task, `WriteSummary`. Every run reads testbench and hidden tests as they
are at that moment. `RunSim` is the set of its possible outcomes: no suite, a timeout,
a run that breaks (build, simulator, import, no tests run), a failed test, a pass. As
in the code, everything that is no pass, no timeout and no missing suite is a kill,
and at the retry a missing suite is one, too. `baseless` (killed without failing a
test), `doubtful` (killed by a run that broke, or by a retry without a suite) and
`passed` (the inputs of the baseline) are history. `Fresh` is what `check_summary`
compares.

### Rescore: `scripts/rescore_official.py`; SitePublish: `site/generate.py`

A score, and the signature over it, is the ratio it comes from, `Ppa[v][m][t]` for
version `v` of the reference metrics, or 0 if the design failed; a ratio above `Cap`
scores no more. `RescoreManifest` reads the reference metrics anew for each manifest,
as the code does; a design that has failed stays at 0 (`Rescored`). `ListStale`
compares each model's mean with the one written in the script, up to `Tolerance`
(0.01 in the code), and lists the files that differ: scores of several versions pass
if their means do. `WriteStale` replaces the files in order; `FinishRescore` makes
the tables.

The generator reads a summary and then its manifests, one step each
(`ManifestMatches` compares score and signature), builds the site page by page in
the staging directory, deletes what an earlier run left at `previous`, moves the live
site there, moves the new one in, deletes the old one. Deleting a directory takes
two steps; `CrashGenerator` may come between any two. `settled` and `unsettled` are
history: whether a site's rows were read with no rescoring half written, and whether one is.

### ExternalAudit: `external-audit/`, `paper/data/generate_audit_appendix.py`

| Model | Code |
|---|---|
| `pin`, `tree`, `lock` | the revision in `fetch_vendor.py`, the vendor's files, `provenance.lock.json` |
| `fetch`, `sweep`, `audit`, `package` | the four programs when they run, with their local variables |
| `catalog` | `sweep_report.json` |
| `reports[out][d]`, `summary[out]` | the report of a design and the summary, of the first audit and of its repetition |
| `copies`, `metadata` | the two samples and `determinism.json` |

A behaviour starts in a clone of the repository: lock, catalog, reports, summary,
sample and metadata of a committed campaign are there (there is one of each language
generation; none of their files states the flag it was run with), the vendor's files
are not. A hash of the tree is the tree itself. `EditTree` may come at any time,
`Checkout` may find a later revision pinned, and any program may die with the file it
was writing torn: none of them replaces its files atomically. `ReportsLoad`,
`Reproduced` and `Sample` are the packaging's checks, `AppendixAccepts` those of the
paper's generator: all files state the paper's flag or, as the committed ones, none.

History in a report: `seen`, the contents it was made from; `ran`, the flag it was run
with; `by`, its audit; `changed`, whether the tree had changed under that audit;
`dubious`, whether the tree had been edited between the check and the hash of the
fetch its catalog rests on, or fetched again under the sweep. A summary remembers its
audit and whether the tree was fetched again under it. `attested`: copies and
metadata are those of a packaging that went through and under which no report was
written. `left` is what remains of the budget of actions a behaviour starts with.

## 4. The runs

| Run | Question | Bounds, and why they are enough |
|---|---|---|
| `ledger_safety` | Two campaigns of one model with crashes, restarts, retries, leaked reservations, settlements that fail and reconciliations, also while calls are active: cap, ownership of reservations, finality of settled entries, and recorded = billed at quiescence | costs 1 and 2, cap 3: two calls fit or do not, depending on which; two attempts: a retry and its exhaustion; three calls: one call after a leak |
| `ledger_two_models` | Two models with the same worst case, bills one unit above it, billed answers that are lost: a settlement by value must not cross models, every bill is covered or accounted for, the drift from the manifests is what failed settlements counted; does every call end? | one amount, so that only the key tells entries apart; cap 3 lets both reserve (2) and an overrun reach or pass it; two attempts and two calls |
| `ledger_lost_bills` | *violated*, see 5 | one call, two attempts |
| `ledger_file` | The ledger's critical section implements the one-step store, loses nothing, leaves no litter, gives its lock back | two processes, three temporary files: an update, a concurrent one, and one after a crash |
| `tracka_reuse` | Three runs in one directory, stopped anywhere: scores belong to their submission, badge and skipped tasks are right, scoring accepts what went through | two samples of one task, two answers; three runs are the least in which a left-over of one run meets a record of a second and is scored by a third |
| `tracka_shared` | Two temperatures; generation and scoring at the same time: what the site accepts is of one mode and route | as above |
| `tracka_two_limits` | *violated*, see 5 | two output limits |
| `run_task` | A score means every gate was passed by the design judged; the four statements of the rules agree | six designs, one per way to pass or fail (sound, passes only public tests, no delay left, too slow, no area, too large); three references (normal, one that reaches the cap, one with another clock); two runs or rescorings; one replacement at any point |
| `agent_loop` | A campaign of two tasks over the files of an earlier one: verdicts are earned, budgets hold and are flagged, the files agree, the campaign ends | one task that preserves behaviour and one that does not; a sound design and one that passes only what is public; a budget of two tokens and two tool calls, an estimate of one token for prompts of up to two, two attempts: either limit is met first, exactly or with an overrun, also by a prompt above its estimate; one change of the hidden module; two campaigns |
| `mutation` | No hidden test is lost, a finished extraction is complete, kills are caused, unusable tests make none after the same baseline, fresh rows are true | two testbenches (one certified): the extraction can die between them; two review lines: one before and one after a module has its first; one smoke and one hidden test, and a mutant for each; two edits: one before and one after a certification begins; two changes of the vault: one before and one after a baseline |
| `publish` | A rescoring that finishes leaves the means of one version; a live site is whole and of scores that belong together; one crash never costs the last whole site | two models with two tasks; three versions of the reference metrics: a rescoring interrupted under the second is finished under the third; one ratio above the cap, one design that fails under the second version, one mixture of two versions whose mean is within the tolerance, all others outside it; two crashes of the generator, any number of rescorings' |
| `audit` | Reports are of the commit they name; the appendix is earned; the attested sample was measured twice | two designs, of which one needs the newer language; one mutant that only one of the testbenches catches, and only unedited; two revisions. A behaviour has one of four budgets (`FourBudgets`), since all actions together are too many: the chain from an edited and refetched tree to its reports, with a crash; two audits with an edit and a fetch, one perhaps beside the summary of the other; two audits and two packagings, with a crash; sweep, audit with repetition and packaging of a new revision |

**Deadlock** is not checked where the bound on calls, runs, changes or crashes may
be used up so that the modelled system rests (`ledger_*` but for `ledger_file`, `tracka_*`,
`run_task`, `agent_loop`, `publish`, `audit`). It is checked in `ledger_file` and
`mutation`.

**Fairness.** `SpendLedger!FairSpec`: weak fairness of each caller's own steps.
The code justifies it: `flock` is granted because every holder leaves its
section (`LockReleased`), the request has a read timeout that turns silence
into a fault, sleeps end, and the loop is bounded. `LedgerFile!FairSpec`: weak
fairness of the steps between taking the lock and releasing it, none of which
waits for another process. `AgentLoop!FairSpec`: weak fairness of the campaign's
steps taken together, since it is one thread whose calls and tools have timeouts.
Starting calls, runs and campaigns, crashes, restarts, power losses and the operator
are never fair; acquiring the lock is not, either.

The type invariants of all modules but `SpendLedger`, whose run checks it, are
parts of the inductive invariants proved in section 6 and not repeated by a run.

## 5. Where the code and its comments disagree

With a run that shows it:

- `ledger_lost_bills`: the adapters' comment (`providers/anthropic.py:69-71`) says
  a retry sequence's recorded spend matches what was billed. An attempt whose
  answer is lost or malformed after it was billed is released at zero; if a
  later attempt succeeds, the ledger is below the bill.
- `tracka_two_limits`: `score_pending_samples` compares mode, model, provider,
  temperature and skip reason of the records, not the output limit. After an
  interrupted generation under another `--max-tokens` it signs a mixture of two
  campaigns, which `eval_model`, said to produce the same, cannot produce.

Met while modelling, visible in the models, without a run of their own:

- `runner.py:572-573` says that `run_task` copies the bytes it hashed and measured; it
  reads the path again (575). A file replaced in between is judged under its
  predecessor's hash. `RunTask!ChangeFile` does this; the properties speak of the
  design judged.
- `validate_track_b_semantics` (`trackb.py:242-246`) is said to mirror `run_track_b`
  exactly. It refuses the manifest of an official run whose hidden module turned
  out to be unusable only when the simulation read it (165-167): `RulesAgree` leaves
  out exactly this case.
- `site/generate.py:176-180` calls the publication rollback-safe. After a crash
  between the two renames the whole site is at `previous`, which the next run
  deletes before its own is live: a second crash leaves at most the staging
  directory. `SiteSurvivesOneCrash` therefore speaks of one crash.
- `_base.finish_call` counts the usage of a call before it settles its reservation
  (94-103). If saving the ledger fails then, the manifests report a cost that no
  entry shows: `missed`, which `UsageRecorded` subtracts.
- `agentb.py:297` looks an action's tool up in a table. A model that answers
  `{"tool": []}` raises a `TypeError` there, which nothing catches, and the campaign
  ends without a summary: `ActRaises`.
- `freeze_extract_hidden.py` is to preserve review lines that are added after a split,
  but gives none to a module that has one already (155-156):
  `FinishedExtractionIsComplete` speaks of one line, not of all.
- `mutate.py` (345-376) knows a failed simulation by the text of its log. A build that
  breaks, a simulator that dies, a hidden module that cannot be imported are kills;
  hidden tests that are missing are a setup error at the first run of a mutant, at the
  retry after a timeout they make a kill, too. `KillsAreCaused` and `FreshRowIsTrue`
  except these kills (`doubtful`); `UnusableTestsNeverKill` says what the baseline
  protects of them.
- `rescore_official.py` (231-241) compares means, not scores: a mixture of two versions
  whose means are within 0.01 of the expected ones passes. `FinishedRescoringConverges`
  and `LiveSiteIsWhole` speak of means.
- `site/generate.py` (430-476) checks of an agent summary that its manifests exist, not
  that they are of its campaign: when a later campaign dies, its manifests stand beside
  the summary of the earlier one and the site shows the mixture.
  `SummaryTellsTheCampaign` speaks of campaigns that went through.
- `run_audit.py` writes each report before it hashes the tree again; the new reports
  stay when there is no summary, and if the summary of an earlier audit has the same
  seed, flag and commit, the appendix accepts them beside it: `Undetected`, which
  `AppendixIsEarned` does not speak of. It does speak of reports made under a changed
  tree in all other cases: then the audit's own check has seen it.
- `package_results.py` copies the samples before it writes `determinism.json`. If it
  dies in between, the metadata of the last packaging stand beside new copies until
  the next goes through: `SampleIsReproduced` promises nothing meanwhile.

## 6. What is proved

`tlapm` checks the theorems below for every value of the constants: any finite
number of callers, any amounts, budgets, attempts, designs, samples, tasks, models,
references and bounds. Every safety property of a passing run is among them. The
inductive invariants were checked by TLC on the instances of the runs before they
were proved.

**SpendLedgerProofs** (from `KeyAssumption`, `CostAssumption`,
`CallersAssumption`, `BoundAssumption`). The invariants of the runs are not
inductive alone. *Types*: entry numbers never exceed `appended`, so an append
never overwrites. *Cap* (`CapInv`, with `ReplyInv`, which bounds a reply by its
reservation and the overrun): the cap itself is not inductive, because a call
that holds a reservation may still settle above it; what is committed plus one
overrun for every such call is at most the cap plus one overrun for every
caller. *Ownership* (`BackedInv`): for every key and amount there are at least as
many matching reservations as calls that hold one; a settlement takes one off both.
From it follow that settlements find their entry, and (`UsageInv`) that
ledger and adapters agree per model up to what was `missed`. *Bills* (`BillInv`): what
was billed, plus what the requests on the wire may still be billed within their worst
case, is at most what is committed, removed, lost, or above the worst case of a reply
in hand. *Recorded spend*: `PaidInv` says that what is settled, about to be settled, or
lost was billed. Together (`MoneyInvariant`) they give `BillsAreCovered` and
`SpendIsWhatWasBilled`, for any overrun and with lost answers: the history variables
`lost` and `dropped` name everything that separates the ledger from the bills.
Sums are handled by the lemmas about `Units`: the
cost of a disjoint union is the sum of the costs, and changing one entry changes
the sum by the difference.

**LedgerFileProofs** (from `WriterAssumption`, `FileAssumption`). The inductive
invariant adds to the types: who is past `Acquire` holds the lock (`Locked`);
what a name or a reader points to is whole and synced (`Published`); a temporary
file belongs to one writer and is not published (`Fresh`), and holds what its
writer is about to publish (`Staged`); that is the update of the current content
(`Computed`); a writer that is not saving has left no temporary name (`Tidy`). With it every step of the file system is
an update, a flush, a fall-back or a stutter of `LedgerStore`
(`FileImplementsStore`).

**TrackAProofs** (from `SlotAssumption`, `AnswerAssumption`, `ConfigAssumption`,
`RunAssumption`). The argument is about which run a file is of. A run's number is in
no summary before it ends (`NumbersInv`), so that a manifest with the summary's number
is one that run wrote last; of those, a running process remembers kind, mode and route
(`RunInv`), and what it collects becomes the summary (`SummaryInv`). That gives
`PublishedIsUniform`, also when two processes overlap, and, since a record made in an
official campaign is of a reviewed task (`RecordsInv`), `OfficialMeansReviewed`. A
task's samples are skipped like its first one (`HeldInv`, `SkipsInv`). With one
process at a time the submission scored is the one that was checked against its record
(`OwnInv`). `GenerateInv` and `CompleteInv` follow a generation up to the scoring that
starts on it: each sample behind it is `Intact`, of one mode and route, and skipped
as the review state says, so that every check of the scoring succeeds. That a task
has a first sample is the well-foundedness of the naturals.

**AgentLoopProofs** (from the assumptions of `TrackB` and `AgentLoop`).
`EvaluationInv` says of the evaluation under way what the gates behind it have
established (`BehindGuard` to `BehindCorrectness`), `ManifestsInv` that every manifest
on disk is earned and valid, except where section 5 says so (`ManifestGood`).
`LoopInv` bounds the tokens: inside the loop they are below the budget, during a call
what it may still cost fits under budget, one prompt (`MaxPrompt`, the longest there
may be, whatever was estimated) and what was wasted on thrown-away answers, and when the loop is over so does the sum; which limit is flagged is decided
at the same steps. `RowsInv` compares the rows with the counter: equal between tasks,
and equal to its value at the start within one. `TaskInv` ties the design that is judged to the
sandbox's and the files to the design; `CampaignInv` says that each task behind the
campaign is `Done`, in files of this campaign, while the summary is still that of an
earlier one.

**RunTaskProofs** (from the five assumptions of `RunTask`). `Staged` says what
`run` holds at each `pc`, `Earned` that each stage recorded as passed was passed
by `run.design` and the metrics are its own, `Scored` that the score comes from the
reference remembered, `OutInv` the same of the manifest on disk and that the schema accepts it. The
schema can then refuse nothing the runner builds, which is part of
`ScoresSettled`.

**MutationProofs** (from the assumptions of `HiddenTests` and `Mutation`).
`HiddenInv` adds to `NoHiddenTestLost` and `FinishedExtractionIsComplete` what holds
between the two writes of a split (`SplitInv`: the module is staged, from the text
that was read, while the testbench still has its marker) and how far an undisturbed
extraction has come (`ProgressInv`). That kills are caused is a matter of two actions
and needs only the relation of `baseless` to `doubtful`; `PassedInv` says that a
baseline passes only with a whole suite that can be imported, which is why unusable
tests kill only after a change (`UnusableTestsKillNothing`).
`CampaignInv` says of the verdicts in hand, the rows and the certification that they
are true, but for the doubtful kills (`TrueAt`), of the testbench as it was at the version they record; the lemma
`VersionTellsSmoke` carries that over to today's, if the version is the same.

**SitePublishProofs** (from `OfficialAssumption`, `ExpectedAssumption` and
`NothingAssumption`). `ExpectedAssumption` says that the means written for a version
are those of its scores, up to the tolerance. `RescoreInv`: what a rescoring that
writes has not listed or has already written is as desired (`WriterInv`), the means of
what it desires are expected under one version, and so is the mean of every summary
row at every moment. `SiteInv` follows the generator: each row read has the mean
expected under some version (`ReaderInv`), the staging directory holds the pages
written so far (`BuilderInv`), and a live site is whole. `SurvivalInv` says, for the
first crash, which directory is whole at each place of the publication.

**ExternalAuditProofs** (from `SizeAssumption`, `DesignAssumption`, `FileAssumption`,
`NothingAssumption`). The chain of custody, from one file to the next: what is
untainted in the fetch, the lock file, the sweep and the catalog is one revision
throughout (`ProvenanceInv`); while nothing has changed under an audit, the tree is
the catalog's commit, and what the audit has seen and judged is true of it
(`AuditInv`); a report is what its audit was (`ReportInv`). `AttributionInv` adds who
wrote what: an audit is numbered by what is left of their budget (`BudgetOK`), and a
report made under a changed tree has no summary of its own audit unless the tree was
fetched again (`Detected`); with it `AppendixEarned` covers edits under the audit. The
order of designs enters only through the lemma that a set of designs has a first one.
The packaging is independent of that chain: it compares two reports and then reads
them again for each copy, so `SampleInv` follows the copies of each directory from
file to file, as long as nobody has written a report meanwhile; a packaging that has
begun to copy takes `attested` away, and only one that goes through gives it back.

Only model-checked: liveness (`EveryCallEnds`, `LockReleased`, `CampaignEnds`), which
is out of the prover's reach.

## 7. What is not modelled

- Of the ledger: `load_spend`/`save_spend` used as an unlocked pair (the program
  does not), the file mode, malformed ledgers beyond the refusal they cause,
  float sums and the 1e-12 tolerance of the amount comparison; prices and token
  counts, which only determine an amount; the mock provider, which is free.
- Of the disk: a name that vanishes because its directory was never written back
  is covered by `FallBack`; file systems that reorder a rename and its data
  after `fsync` are not.
- Of the campaign: the preflight estimate, prompt construction and the
  extraction of a module from an answer (its outcomes are modelled), log files.
- Of the runner: the tools (their outcomes are modelled), the masking of
  sources, provenance fields, the tolerances of the float comparisons.
  `ScoresSettled` assumes that the reference's clock is that of `task.yaml`, as it is
  for every task in the repository.
- Of Track B and the agent: the ratios of the objectives (power, area, slack), the
  diff guard's patterns, prompts, the sandbox's commands, the transcript, which
  nothing reads, wall-clock arithmetic (that the limit may fire at any turn is
  modelled).
- Of the hidden tests: `--capture` and `--compare` of `verify_hidden_freeze.py`,
  which compare signatures of runs; the loader call of a split testbench
  (`load_hidden`), which adds nothing in the official runs modelled here.
- Of the mutation campaign: `--jobs` above one, which the code calls exploratory;
  the mutators (a set of mutants); the statistics of the report.
- Of the site: HTML, and the checks of Track B rows, which are in `AgentLoop`.
- Of the external audit: the CVDP inventory (one pass over a file), the rewriting of
  module names, notes and tables.
- Components with status `not_modelled` in `PROJECT.json`: the nightly and the
  reproduction scripts run the modelled programs one after the other and compare
  what they left; the paper's data and report generators are functions from files to
  text; the command line dispatches. They keep no state and follow no protocol.
