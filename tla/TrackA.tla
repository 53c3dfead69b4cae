------------------------------- MODULE TrackA -------------------------------
(***************************************************************************)
(* A Track A campaign directory (harness/evalmodel.py) and the site's view *)
(* of it (site/generate.py, _load_summary).                                *)
(*                                                                         *)
(* One directory per model is reused by every campaign.  A generating       *)
(* process either runs generate_model_samples, which leaves a submission    *)
(* and a pending record per sample, or eval_model, which scores at once.    *)
(* A scoring process runs score_pending_samples over what it finds.  Every  *)
(* file is replaced atomically (module LedgerFile), but a sample consists   *)
(* of several files, and a process may stop between any two of them.        *)
(*                                                                         *)
(* A submission is a model value, and so is its hash.  The signature of a   *)
(* manifest covers its time stamp: the run that wrote it stands for both.   *)
(***************************************************************************)
EXTENDS Naturals

CONSTANTS
    NSlots,        \* samples, in the order every run visits them
    Tasks,
    TaskOf,        \* the task a sample is of
    Answers,       \* the submissions a model may produce
    NoAnswer,
    Routes,        \* <<provider, recorded temperature>> pairs
    ProviderOf,    \* the provider of a route
    TokenLimits,   \* max_output_tokens of a campaign
    ReviewStates,  \* which tasks may lack an official review
    Overlap,       \* may both processes run at a time?
    MaxRuns        \* bound: runs started in a behaviour

Slots == 1 .. NSlots
RunIds == 0 .. MaxRuns   \* 0: no run

ASSUME SlotAssumption == NSlots \in Nat \ {0} /\ TaskOf \in [Slots -> Tasks]
ASSUME AnswerAssumption == NoAnswer \notin Answers
ASSUME ConfigAssumption ==
    /\ Routes # {} /\ TokenLimits # {}
    /\ ReviewStates \subseteq SUBSET Tasks /\ {} \in ReviewStates
ASSUME RunAssumption == MaxRuns \in Nat /\ Overlap \in BOOLEAN

VARIABLES
    sv,         \* sample_N.sv
    pending,    \* sample_N.pending.json
    manifest,   \* sample_N.json
    summary,    \* summary.json
    pc, mode,   \* of the two processes
    slot,       \* the sample a process is at
    cfg,        \* what it was started with
    run,        \* its number
    held,       \* the pending record it has in hand
    scored,     \* the submission run_task has just scored for it
    recs,       \* the manifests it has written: kind per sample
    route,      \* what score_pending_samples has seen of the earlier samples
    runs,       \* runs started so far
    complete,   \* history: did the last generation go through?
    base        \* history: was scoring started on one that did?

files == <<sv, pending, manifest, summary>>
procs == <<pc, mode, slot, cfg, run, held, scored, recs, route>>
ghosts == <<runs, complete, base>>
vars == <<sv, pending, manifest, summary, pc, mode, slot, cfg, run, held, scored, recs,
          route, runs, complete, base>>

-----------------------------------------------------------------------------
(* Values *)

Procs == {"gen", "score"}
Modes == {"generate", "eval", "score"}

\* Which tasks the official review gate skips depends on the repository at the
\* time of the run.
Config == [official : BOOLEAN, route : Routes, tokens : TokenLimits,
           unreviewed : ReviewStates]
Skips(c, i) == c.official /\ TaskOf[i] \in c.unreviewed

\* A pending record carries exactly one of a skip reason, an error and the
\* hash of a submission (PendingGeneration.validate_rules).  reviewed is
\* history: had the task passed the review gate at the time?
Kinds == {"none", "skip", "error", "source"}
Pending == [kind : Kinds, sha : Answers \cup {NoAnswer}, official : BOOLEAN,
            route : Routes, tokens : TokenLimits, reviewed : BOOLEAN]

\* src: the submission run_task scored.  final = FALSE: the manifest as
\* run_task writes it, for provider "local".  The fields of made are history:
\* the pending record the manifest was made from.
Manifest == [kind : Kinds, src : Answers \cup {NoAnswer}, route : Routes,
             tokens : TokenLimits, by : RunIds, final : BOOLEAN, made : Pending]

Summary == [by : RunIds, official : BOOLEAN, route : Routes,
            skipped : SUBSET Tasks]

AnyRoute == CHOOSE r \in Routes : TRUE
AnyTokens == CHOOSE t \in TokenLimits : TRUE
NoConfig == [official |-> FALSE, route |-> AnyRoute, tokens |-> AnyTokens,
             unreviewed |-> {}]
NoPending == [kind |-> "none", sha |-> NoAnswer, official |-> FALSE,
              route |-> AnyRoute, tokens |-> AnyTokens, reviewed |-> FALSE]
NoManifest == [kind |-> "none", src |-> NoAnswer, route |-> AnyRoute,
               tokens |-> AnyTokens, by |-> 0, final |-> FALSE, made |-> NoPending]
NoSummary == [by |-> 0, official |-> FALSE, route |-> AnyRoute, skipped |-> {}]

Init ==
    /\ sv = [i \in Slots |-> NoAnswer]
    /\ pending = [i \in Slots |-> NoPending]
    /\ manifest = [i \in Slots |-> NoManifest]
    /\ summary = NoSummary
    /\ pc = [p \in Procs |-> "off"]
    /\ mode = [p \in Procs |-> "score"]
    /\ slot = [p \in Procs |-> 1]
    /\ cfg = [p \in Procs |-> NoConfig]
    /\ run = [p \in Procs |-> 0]
    /\ held = [p \in Procs |-> NoPending]
    /\ scored = [p \in Procs |-> NoAnswer]
    /\ recs = [p \in Procs |-> [i \in Slots |-> "none"]]
    /\ route = {}
    /\ runs = 0
    /\ complete = FALSE
    /\ base = FALSE

-----------------------------------------------------------------------------
(* Starting and stopping *)

Running(p) == pc[p] \notin {"off", "refused"}
Other(p) == IF p = "gen" THEN "score" ELSE "gen"

StartRun(p, m, c) ==
    /\ ~Running(p)
    /\ Overlap \/ ~Running(Other(p))
    /\ runs < MaxRuns
    /\ runs' = runs + 1
    /\ pc' = [pc EXCEPT ![p] = "slot"]
    /\ mode' = [mode EXCEPT ![p] = m]
    /\ cfg' = [cfg EXCEPT ![p] = c]
    /\ run' = [run EXCEPT ![p] = runs + 1]
    /\ UNCHANGED <<slot, held, scored, recs>>
    /\ UNCHANGED files

\* generate_model_samples or eval_model, after the preflight has let it pass.
StartGen ==
    /\ \E m \in {"generate", "eval"}, c \in Config : StartRun("gen", m, c)
    /\ complete' = FALSE
    /\ base' = FALSE
    /\ UNCHANGED route

\* score_pending_samples has only the official flag in common with the
\* generation; base remembers whether it should find one that went through.
StartScore ==
    /\ \E official \in BOOLEAN :
          /\ StartRun("score", "score", [NoConfig EXCEPT !.official = official])
          /\ base' = (complete /\ pending[1].official = official)
    /\ UNCHANGED <<complete, route>>

\* The process ends and its variables are gone.
End(p, label) ==
    /\ pc' = [pc EXCEPT ![p] = label]
    /\ mode' = [mode EXCEPT ![p] = "score"]
    /\ slot' = [slot EXCEPT ![p] = 1]
    /\ cfg' = [cfg EXCEPT ![p] = NoConfig]
    /\ run' = [run EXCEPT ![p] = 0]
    /\ held' = [held EXCEPT ![p] = NoPending]
    /\ scored' = [scored EXCEPT ![p] = NoAnswer]
    /\ recs' = [recs EXCEPT ![p] = [i \in Slots |-> "none"]]
    /\ route' = IF p = "score" THEN {} ELSE route

\* A crash at any point; SpendCapExceeded or an exception out of run_task
\* stop the run at one of these points, too.
Stop(p) ==
    /\ Running(p)
    /\ End(p, "off")
    /\ UNCHANGED files
    /\ UNCHANGED ghosts

Step(p, from, to) ==
    /\ pc[p] = from
    /\ pc' = [pc EXCEPT ![p] = to]

\* On to the next sample, or to the end of the run.
NextSlot(p) ==
    /\ pc' = [pc EXCEPT ![p] = IF slot[p] = NSlots THEN "end" ELSE "slot"]
    /\ slot' = [slot EXCEPT ![p] = IF slot[p] = NSlots THEN 1 ELSE @ + 1]

-----------------------------------------------------------------------------
(* The generating process *)

Record(kind, answer) ==
    [kind |-> kind, sha |-> answer, official |-> cfg["gen"].official,
     route |-> cfg["gen"].route, tokens |-> cfg["gen"].tokens,
     reviewed |-> TaskOf[slot["gen"]] \notin cfg["gen"].unreviewed]

\* Generation ends in a pending record, evaluation in a manifest.
SaveAt == IF mode["gen"] = "generate" THEN "record" ELSE "save"

Skip ==
    /\ Skips(cfg["gen"], slot["gen"])
    /\ Step("gen", "slot", SaveAt)
    /\ held' = [held EXCEPT !["gen"] = Record("skip", NoAnswer)]
    /\ UNCHANGED <<mode, slot, cfg, run, scored, recs, route>>
    /\ UNCHANGED files
    /\ UNCHANGED ghosts

\* The call, or the extraction of a module from its answer, failed.
CallFailed ==
    /\ ~Skips(cfg["gen"], slot["gen"])
    /\ Step("gen", "slot", "unlink")
    /\ held' = [held EXCEPT !["gen"] = Record("error", NoAnswer)]
    /\ UNCHANGED <<mode, slot, cfg, run, scored, recs, route>>
    /\ UNCHANGED files
    /\ UNCHANGED ghosts

CallAnswered ==
    /\ ~Skips(cfg["gen"], slot["gen"])
    /\ Step("gen", "slot", "write")
    /\ \E a \in Answers : held' = [held EXCEPT !["gen"] = Record("source", a)]
    /\ UNCHANGED <<mode, slot, cfg, run, scored, recs, route>>
    /\ UNCHANGED files
    /\ UNCHANGED ghosts

\* source_path.unlink(missing_ok=True): the submission of an earlier campaign
\* must not look like this attempt's.
UnlinkSource ==
    /\ Step("gen", "unlink", SaveAt)
    /\ sv' = [sv EXCEPT ![slot["gen"]] = NoAnswer]
    /\ UNCHANGED <<pending, manifest, summary>>
    /\ UNCHANGED <<mode, slot, cfg, run, held, scored, recs, route>>
    /\ UNCHANGED ghosts

\* Mutant: an existing submission is kept.
KeepOldSource ==
    /\ Step("gen", "write", IF mode["gen"] = "generate" THEN "record" ELSE "run")
    /\ sv' = [sv EXCEPT ![slot["gen"]] = IF @ = NoAnswer THEN held["gen"].sha ELSE @]
    /\ UNCHANGED <<pending, manifest, summary>>
    /\ UNCHANGED <<mode, slot, cfg, run, held, scored, recs, route>>
    /\ UNCHANGED ghosts

WriteSource ==
    /\ Step("gen", "write", IF mode["gen"] = "generate" THEN "record" ELSE "run")
    /\ sv' = [sv EXCEPT ![slot["gen"]] = held["gen"].sha]
    /\ UNCHANGED <<pending, manifest, summary>>
    /\ UNCHANGED <<mode, slot, cfg, run, held, scored, recs, route>>
    /\ UNCHANGED ghosts

WritePending ==
    /\ pc["gen"] = "record"
    /\ NextSlot("gen")
    /\ pending' = [pending EXCEPT ![slot["gen"]] = held["gen"]]
    /\ UNCHANGED <<sv, manifest, summary>>
    /\ UNCHANGED <<mode, cfg, run, held, scored, recs, route>>
    /\ UNCHANGED ghosts

\* generate_model_samples returns.
EndGenerate ==
    /\ pc["gen"] = "end"
    /\ mode["gen"] = "generate"
    /\ End("gen", "off")
    /\ complete' = TRUE
    /\ UNCHANGED <<runs, base>>
    /\ UNCHANGED files

-----------------------------------------------------------------------------
(* The scoring process *)

\* What score_pending_samples requires of the next sample: a record of the
\* right mode, of the provider and temperature of the earlier samples, skipped
\* like the first sample of its task, and the submission its hash is of.
FirstOf(i) == CHOOSE j \in Slots :
    TaskOf[j] = TaskOf[i] /\ \A k \in Slots : TaskOf[k] = TaskOf[i] => j <= k
Exists(i) == pending[i].kind # "none"
SameMode(i) == pending[i].official = cfg["score"].official
SameRoute(i) == route \subseteq {pending[i].route}
SkippedAlike(i) ==
    i # FirstOf(i) =>
        (pending[i].kind = "skip" <=> recs["score"][FirstOf(i)] = "skip")

\* Mutant: the submission's hash is not compared.
AnyHash(i) == pending[i].kind = "source" => sv[i] # NoAnswer

SourceMatches(i) ==
    pending[i].kind = "source" => sv[i] # NoAnswer /\ sv[i] = pending[i].sha

\* Mutant: the mode is not compared.
AcceptableInAnyMode(i) ==
    /\ Exists(i) /\ SameRoute(i)
    /\ SkippedAlike(i) /\ SourceMatches(i)

\* Mutant: skipped and scored samples of a task are mixed.
AcceptableSkippedOrNot(i) ==
    /\ Exists(i) /\ SameMode(i) /\ SameRoute(i) /\ SourceMatches(i)

\* Mutant: provider and temperature are not compared.
AcceptableOnAnyRoute(i) ==
    /\ Exists(i) /\ SameMode(i)
    /\ SkippedAlike(i) /\ SourceMatches(i)

Acceptable(i) ==
    /\ Exists(i) /\ SameMode(i) /\ SameRoute(i)
    /\ SkippedAlike(i) /\ SourceMatches(i)

ReadPending ==
    /\ Acceptable(slot["score"])
    /\ Step("score", "slot",
            IF pending[slot["score"]].kind = "source" THEN "run" ELSE "save")
    /\ held' = [held EXCEPT !["score"] = pending[slot["score"]]]
    /\ route' = {pending[slot["score"]].route}
    /\ UNCHANGED <<mode, slot, cfg, run, scored, recs>>
    /\ UNCHANGED files
    /\ UNCHANGED ghosts

RefusePending ==
    /\ pc["score"] = "slot"
    /\ ~Acceptable(slot["score"])
    /\ End("score", "refused")
    /\ UNCHANGED files
    /\ UNCHANGED ghosts

-----------------------------------------------------------------------------
(* Scoring a submission, and the summary: common to both *)

ManifestOf(p, kind, src, final) ==
    [kind |-> kind, src |-> src, route |-> held[p].route,
     tokens |-> held[p].tokens, by |-> run[p], final |-> final, made |-> held[p]]

\* run_task reads the submission, hashes what it has read and writes a
\* manifest of its own; the result is merged in memory.
RunTask(p) ==
    /\ Step(p, "run", "merge")
    /\ sv[slot[p]] # NoAnswer
    /\ manifest' = [manifest EXCEPT ![slot[p]] =
                      ManifestOf(p, "source", sv[slot[p]], FALSE)]
    /\ scored' = [scored EXCEPT ![p] = sv[slot[p]]]
    /\ UNCHANGED <<sv, pending, summary>>
    /\ UNCHANGED <<mode, slot, cfg, run, held, recs, route>>
    /\ UNCHANGED ghosts

\* eval_model turns an exception of run_task into a zero score of the
\* submission it has written (the scoring process stops instead).
RunTaskRaised ==
    /\ Step("gen", "run", "save")
    /\ held' = [held EXCEPT !["gen"].kind = "error"]
    /\ UNCHANGED <<mode, slot, cfg, run, scored, recs, route>>
    /\ UNCHANGED files
    /\ UNCHANGED ghosts

\* _merge_generation_fields: the manifest just scored, with the generation's
\* provider, model, usage and limits.
Merge(p) ==
    /\ pc[p] = "merge"
    /\ NextSlot(p)
    /\ manifest' = [manifest EXCEPT ![slot[p]] =
                      ManifestOf(p, "source", scored[p], TRUE)]
    /\ recs' = [recs EXCEPT ![p][slot[p]] = "source"]
    /\ scored' = [scored EXCEPT ![p] = NoAnswer]
    /\ UNCHANGED <<sv, pending, summary>>
    /\ UNCHANGED <<mode, cfg, run, held, route>>
    /\ UNCHANGED ghosts

\* _zero_manifest, of a skipped or failed sample.
SaveZero(p) ==
    /\ pc[p] = "save"
    /\ NextSlot(p)
    /\ manifest' = [manifest EXCEPT ![slot[p]] =
                      ManifestOf(p, held[p].kind, held[p].sha, TRUE)]
    /\ recs' = [recs EXCEPT ![p][slot[p]] = held[p].kind]
    /\ UNCHANGED <<sv, pending, summary>>
    /\ UNCHANGED <<mode, cfg, run, held, scored, route>>
    /\ UNCHANGED ghosts

WriteSummary(p) ==
    /\ pc[p] = "end"
    /\ mode[p] \in {"eval", "score"}
    /\ summary' = [by |-> run[p], official |-> cfg[p].official,
                   route |-> held[p].route,
                   skipped |-> {TaskOf[i] : i \in {j \in Slots : recs[p][j] = "skip"}}]
    /\ End(p, "off")
    /\ UNCHANGED <<sv, pending, manifest>>
    /\ UNCHANGED ghosts

-----------------------------------------------------------------------------
(* The site *)

\* _load_summary accepts a summary whose manifests are those it signed for.
\* official: the badge, for a summary over the whole suite.
Loaded ==
    summary.by # 0 /\ \A i \in Slots :
        /\ manifest[i].kind # "none"
        /\ ProviderOf[manifest[i].route] = ProviderOf[summary.route]
        /\ manifest[i].by = summary.by /\ manifest[i].final

Official ==
    /\ Loaded /\ summary.official /\ summary.skipped = {}
    /\ \A i \in Slots : manifest[i].kind # "skip"

-----------------------------------------------------------------------------
Next ==
    \/ StartGen \/ StartScore
    \/ \E p \in Procs :
          Stop(p) \/ RunTask(p) \/ Merge(p) \/ SaveZero(p) \/ WriteSummary(p)
    \/ Skip \/ CallFailed \/ CallAnswered \/ UnlinkSource \/ WriteSource
    \/ WritePending \/ EndGenerate \/ RunTaskRaised
    \/ ReadPending \/ RefusePending

Spec == Init /\ [][Next]_vars

-----------------------------------------------------------------------------
(* Properties *)

TypeOK ==
    /\ sv \in [Slots -> Answers \cup {NoAnswer}]
    /\ pending \in [Slots -> Pending]
    /\ manifest \in [Slots -> Manifest]
    /\ summary \in Summary
    /\ pc \in [Procs -> {"off", "refused", "slot", "unlink", "write", "record",
                         "run", "merge", "save", "end"}]
    /\ mode \in [Procs -> Modes]
    /\ slot \in [Procs -> Slots]
    /\ cfg \in [Procs -> Config]
    /\ run \in [Procs -> RunIds]
    /\ held \in [Procs -> Pending]
    /\ scored \in [Procs -> Answers \cup {NoAnswer}]
    /\ recs \in [Procs -> [Slots -> Kinds]]
    /\ route \subseteq Routes
    /\ runs \in RunIds
    /\ complete \in BOOLEAN
    /\ base \in BOOLEAN

\* A manifest never credits a campaign with the submission of another one,
\* although submission and record are two files and either may be left over
\* from an earlier campaign or an interrupted one ("tampered between
\* phases?", evalmodel.py).  The phases are run one after the other.
ScoredItsOwnAnswer ==
    ~Overlap =>
        \A i \in Slots :
            manifest[i].src # NoAnswer => manifest[i].src = manifest[i].made.sha

\* What the site accepts was generated in the mode and on the route the summary
\* names, also out of a directory several campaigns were interrupted in.
PublishedIsUniform ==
    Loaded => \A i \in Slots :
        /\ manifest[i].route = summary.route
        /\ manifest[i].made.official = summary.official

\* The OFFICIAL badge covers only tasks that had passed the review gate when
\* their samples were generated, not when they were scored.
OfficialMeansReviewed ==
    Official => \A i \in Slots :
        manifest[i].made.official /\ manifest[i].made.reviewed

\* A task the summary leaves out of the mean is one no sample of which was
\* scored, and a task in the mean is one of which every sample counts.
SkippedAsAWhole ==
    Loaded => \A i \in Slots :
        manifest[i].kind = "skip" <=> TaskOf[i] \in summary.skipped

\* Scoring never refuses the directory of a generation that went through,
\* whatever earlier runs left there and however often scoring was interrupted.
CompleteGenerationIsScorable ==
    pc["score"] = "refused" => ~base

\* score_pending_samples emits "the same signed ResultManifest + summary.json
\* eval_model() would have produced directly" (evalmodel.py:501-502): one
\* campaign's, generated under one output limit.
SummaryIsOfOneCampaign ==
    Loaded => \A i, j \in Slots : manifest[i].tokens = manifest[j].tokens
=============================================================================
