---------------------------- MODULE TrackAProofs ----------------------------
(* Theorems about TrackA, for every suite, every set of routes and however *)
(* often the processes are started and stopped.                            *)
EXTENDS TrackA, FiniteSetTheorems, WellFoundedInduction, TLAPS

USE SlotAssumption, AnswerAssumption, ConfigAssumption, RunAssumption

-----------------------------------------------------------------------------
(* The inductive invariant *)

\* The samples behind process p, and the states in which it holds a record.
Done(p, i) == pc[p] = "end" \/ i < slot[p]
Holding == {"unlink", "write", "record", "run", "merge", "save"}

\* Where the processes can be.
ControlInv ==
    /\ mode["score"] = "score"
    /\ Running("gen") => mode["gen"] \in {"generate", "eval"}
    /\ Running("gen") /\ mode["gen"] = "generate" => pc["gen"] \notin {"run", "merge", "save"}
    /\ pc["gen"] = "record" => mode["gen"] = "generate"
    /\ pc["score"] \notin {"unlink", "write", "record"}
    /\ \A p \in Procs : ~Running(p) \/ pc[p] = "end" => slot[p] = 1
    /\ ~Running("score") => route = {}

\* A run has a number of its own, which is in no file before it has started
\* and in no summary before it has ended.
NumbersInv ==
    /\ \A p \in Procs : Running(p) => 1 <= run[p] /\ run[p] <= runs /\ run[p] # summary.by
    /\ Running("gen") /\ Running("score") => run["gen"] # run["score"]
    /\ \A i \in Slots : manifest[i].by <= runs
    /\ summary.by <= runs

\* A record that counts in an official campaign is of a reviewed task.
Sound(r) == r.kind \in {"error", "source"} /\ r.official => r.reviewed
RecordsInv ==
    /\ \A i \in Slots : Sound(pending[i]) /\ Sound(manifest[i].made)
    /\ \A i \in Slots : manifest[i].kind = manifest[i].made.kind
    /\ \A p \in Procs : Sound(held[p])

\* The record in hand is of the run that holds it; it is skipped exactly if the
\* review gate, or the first sample of the task, says so.
HeldInv ==
    /\ \A p \in Procs : pc[p] \in Holding \cup {"end"} => held[p].official = cfg[p].official
    /\ pc["gen"] \in Holding \cup {"end"} => held["gen"].route = cfg["gen"].route
    /\ pc["score"] \in Holding \cup {"end"} => route = {held["score"].route}
    /\ pc["score"] \in Holding => LET i == slot["score"] IN
          i # FirstOf(i) =>
             (held["score"].kind = "skip" <=> recs["score"][FirstOf(i)] = "skip")
    /\ pc["gen"] \in Holding =>
          (held["gen"].kind = "skip" <=> Skips(cfg["gen"], slot["gen"]))
    /\ pc["gen"] = "unlink" => held["gen"].kind = "error"
    /\ pc["gen"] = "write" => held["gen"].kind = "source"
    /\ \A p \in Procs : pc[p] \in {"run", "merge"} => held[p].kind = "source"

\* What a run knows of the manifests that bear its number.
RouteOf(p) == IF p = "gen" THEN {cfg["gen"].route} ELSE route
RunInv ==
    \A p \in Procs : Running(p) => \A i \in Slots :
        manifest[i].by = run[p] /\ manifest[i].final =>
            /\ manifest[i].kind = recs[p][i]
            /\ manifest[i].made.official = cfg[p].official
            /\ manifest[i].route \in RouteOf(p)

\* The samples of a task are skipped together.
SkipsInv ==
    /\ Running("gen") /\ mode["gen"] = "eval" => \A i \in Slots :
          Done("gen", i) => (recs["gen"][i] = "skip" <=> Skips(cfg["gen"], i))
    /\ Running("score") => \A i \in Slots :
          Done("score", i) =>
             (recs["score"][i] = "skip" <=> recs["score"][FirstOf(i)] = "skip")

\* The manifests that bear the summary's number are those it tells of.
SummaryInv ==
    summary.by # 0 => \A i \in Slots :
        manifest[i].by = summary.by /\ manifest[i].final =>
            /\ manifest[i].route = summary.route
            /\ manifest[i].made.official = summary.official
            /\ manifest[i].kind = "skip" <=> TaskOf[i] \in summary.skipped

\* One process after the other: what is about to be scored is what was recorded.
OwnInv ==
    ~Overlap =>
        /\ ~Running("gen") \/ ~Running("score")
        /\ \A p \in Procs : pc[p] = "run" => sv[slot[p]] = held[p].sha
        /\ \A p \in Procs : pc[p] = "merge" => scored[p] = held[p].sha
        /\ \A i \in Slots : manifest[i].src = manifest[i].made.sha

\* The record of sample i is there, and its submission is the one it is of.
Intact(i) ==
    /\ pending[i].kind # "none"
    /\ pending[i].kind = "source" => sv[i] # NoAnswer /\ sv[i] = pending[i].sha

\* What generation has left behind it.
GenerateInv ==
    /\ pc["gen"] \in Holding => held["gen"].kind # "none"
    /\ pc["gen"] = "write" => held["gen"].sha # NoAnswer
    /\ pc["gen"] = "record" /\ held["gen"].kind = "source" =>
          sv[slot["gen"]] # NoAnswer /\ sv[slot["gen"]] = held["gen"].sha
    /\ Running("gen") /\ mode["gen"] = "generate" => \A i \in Slots : Done("gen", i) =>
          /\ Intact(i)
          /\ pending[i].official = cfg["gen"].official
          /\ pending[i].route = cfg["gen"].route
          /\ pending[i].kind = "skip" <=> Skips(cfg["gen"], i)

\* A generation that went through, and the scoring that was started on it.
CompleteInv ==
    /\ complete =>
          /\ ~Running("gen")
          /\ \A i \in Slots : Intact(i) /\ pending[i].official = pending[1].official
                                        /\ pending[i].route = pending[1].route
          /\ \A i, j \in Slots : TaskOf[i] = TaskOf[j] =>
                (pending[i].kind = "skip" <=> pending[j].kind = "skip")
    /\ base => complete /\ pc["score"] # "refused"
    /\ base /\ Running("score") =>
          /\ cfg["score"].official = pending[1].official
          /\ route \subseteq {pending[1].route}
          /\ \A i \in Slots : Done("score", i) =>
                (recs["score"][i] = "skip" <=> pending[i].kind = "skip")
          /\ pc["score"] \in Holding => held["score"] = pending[slot["score"]]

Inv ==
    /\ TypeOK /\ ControlInv /\ NumbersInv
    /\ RecordsInv /\ HeldInv /\ RunInv /\ SkipsInv /\ SummaryInv
    /\ OwnInv /\ GenerateInv /\ CompleteInv

-----------------------------------------------------------------------------
(* Types *)

LEMMA NoneTypes ==
    /\ NoConfig \in Config
    /\ NoPending \in Pending
    /\ NoManifest \in Manifest
    /\ NoSummary \in Summary
    /\ [i \in Slots |-> "none"] \in [Slots -> Kinds]
<1>1. AnyRoute \in Routes /\ AnyTokens \in TokenLimits
  BY DEF AnyRoute, AnyTokens
<1>2. NoConfig \in Config /\ NoPending \in Pending
  BY <1>1 DEF NoConfig, NoPending, Config, Pending, Kinds
<1>3. NoManifest \in Manifest
  BY <1>1, <1>2 DEF NoManifest, Manifest, Kinds, RunIds
<1>4. NoSummary \in Summary
  BY <1>1 DEF NoSummary, Summary, RunIds
<1> QED BY <1>2, <1>3, <1>4 DEF Kinds

LEMMA TypeInit == Init => TypeOK
<1> SUFFICES ASSUME Init PROVE TypeOK
  OBVIOUS
<1>1. /\ sv \in [Slots -> Answers \cup {NoAnswer}] /\ pending \in [Slots -> Pending]
      /\ manifest \in [Slots -> Manifest] /\ summary \in Summary
      /\ cfg \in [Procs -> Config] /\ held \in [Procs -> Pending]
      /\ scored \in [Procs -> Answers \cup {NoAnswer}]
      /\ recs \in [Procs -> [Slots -> Kinds]]
  BY NoneTypes DEF Init
<1>2. 1 \in Slots /\ 0 \in RunIds /\ "score" \in Modes
  BY DEF Slots, RunIds, Modes
<1> QED BY <1>1, <1>2 DEF Init, TypeOK

Pcs == {"off", "refused", "slot", "unlink", "write", "record", "run", "merge", "save", "end"}

LEMMA EndType ==
    ASSUME TypeOK, NEW p \in Procs, NEW label \in {"off", "refused"}, End(p, label)
    PROVE  /\ (pc \in [Procs -> Pcs] /\ mode \in [Procs -> Modes])'
           /\ (slot \in [Procs -> Slots] /\ cfg \in [Procs -> Config])'
           /\ (run \in [Procs -> RunIds] /\ held \in [Procs -> Pending])'
           /\ (scored \in [Procs -> Answers \cup {NoAnswer}])'
           /\ (recs \in [Procs -> [Slots -> Kinds]] /\ route \subseteq Routes)'
<1>1. 1 \in Slots /\ 0 \in RunIds /\ "score" \in Modes
  BY DEF Slots, RunIds, Modes
<1>2. (recs \in [Procs -> [Slots -> Kinds]])'
  BY NoneTypes DEF TypeOK, End
<1>3. (held \in [Procs -> Pending] /\ cfg \in [Procs -> Config])'
  BY NoneTypes DEF TypeOK, End
<1> QED BY <1>1, <1>2, <1>3 DEF TypeOK, End, Pcs

LEMMA NextSlotType ==
    ASSUME TypeOK, NEW p \in Procs, NextSlot(p)
    PROVE  (pc \in [Procs -> Pcs] /\ slot \in [Procs -> Slots])'
BY DEF TypeOK, NextSlot, Pcs, Slots

LEMMA StepType ==
    ASSUME TypeOK, NEW p \in Procs, NEW from, NEW to \in Pcs, Step(p, from, to)
    PROVE  pc' \in [Procs -> Pcs]
BY DEF TypeOK, Step, Pcs

LEMMA RecordType ==
    ASSUME TypeOK, NEW kind \in Kinds, NEW a \in Answers \cup {NoAnswer}
    PROVE  Record(kind, a) \in Pending
BY DEF TypeOK, Record, Pending, Config, Procs

LEMMA ManifestType ==
    ASSUME TypeOK, NEW p \in Procs, NEW kind \in Kinds, NEW a \in Answers \cup {NoAnswer},
           NEW final \in BOOLEAN
    PROVE  ManifestOf(p, kind, a, final) \in Manifest
<1>1. held[p] \in Pending /\ run[p] \in RunIds
  BY DEF TypeOK
<1>2. held[p].route \in Routes /\ held[p].tokens \in TokenLimits
  BY <1>1 DEF Pending
<1> QED BY <1>1, <1>2 DEF ManifestOf, Manifest

LEMMA TypeStep ==
    ASSUME TypeOK, [Next]_vars
    PROVE  TypeOK'
<1> USE DEF TypeOK, files, procs, ghosts, Pcs
<1>1. ASSUME NEW p \in Procs, NEW m \in Modes, NEW c \in Config, StartRun(p, m, c),
             complete' \in BOOLEAN, base' \in BOOLEAN, UNCHANGED route
      PROVE  TypeOK'
  <2>1. runs + 1 \in RunIds
    BY <1>1 DEF StartRun, RunIds
  <2>2. (pc \in [Procs -> Pcs] /\ mode \in [Procs -> Modes] /\ cfg \in [Procs -> Config])'
    BY <1>1 DEF StartRun
  <2> QED BY <1>1, <2>1, <2>2 DEF StartRun
<1>2. CASE StartGen
  <2>1. PICK m \in {"generate", "eval"}, c \in Config : StartRun("gen", m, c)
    BY <1>2 DEF StartGen
  <2>2. complete' \in BOOLEAN /\ base' \in BOOLEAN /\ UNCHANGED route
    BY <1>2 DEF StartGen
  <2>3. "gen" \in Procs /\ m \in Modes
    BY DEF Procs, Modes
  <2> HIDE DEF TypeOK
  <2> QED BY <1>1, <2>1, <2>2, <2>3
<1>3. CASE StartScore
  <2>1. \A o \in BOOLEAN : [NoConfig EXCEPT !.official = o] \in Config
    BY NoneTypes DEF Config
  <2>2. pending[1].official \in BOOLEAN
    BY DEF Pending, Slots
  <2> QED BY <1>1, <1>3, <2>1, <2>2 DEF StartScore, Procs, Modes
<1>4. ASSUME NEW p \in Procs, Stop(p) PROVE TypeOK'
  BY <1>4, EndType DEF Stop
<1>5. ASSUME NEW p \in Procs, RunTask(p) PROVE TypeOK'
  <2>1. pc' \in [Procs -> Pcs]
    BY <1>5, StepType DEF RunTask
  <2>2. manifest' \in [Slots -> Manifest] /\ scored' \in [Procs -> Answers \cup {NoAnswer}]
    BY <1>5, ManifestType DEF RunTask, Kinds
  <2> QED BY <1>5, <2>1, <2>2 DEF RunTask
<1>6. ASSUME NEW p \in Procs, Merge(p) PROVE TypeOK'
  <2>1. (pc \in [Procs -> Pcs] /\ slot \in [Procs -> Slots])'
    BY <1>6, NextSlotType DEF Merge
  <2>2. manifest' \in [Slots -> Manifest]
    BY <1>6, ManifestType DEF Merge, Kinds
  <2>3. recs' \in [Procs -> [Slots -> Kinds]] /\ scored' \in [Procs -> Answers \cup {NoAnswer}]
    BY <1>6 DEF Merge, Kinds
  <2> QED BY <1>6, <2>1, <2>2, <2>3 DEF Merge
<1>7. ASSUME NEW p \in Procs, SaveZero(p) PROVE TypeOK'
  <2>1. (pc \in [Procs -> Pcs] /\ slot \in [Procs -> Slots])'
    BY <1>7, NextSlotType DEF SaveZero
  <2>2. held[p].kind \in Kinds /\ held[p].sha \in Answers \cup {NoAnswer}
    BY DEF Pending
  <2>3. manifest' \in [Slots -> Manifest]
    BY <1>7, <2>2, ManifestType DEF SaveZero
  <2>4. recs' \in [Procs -> [Slots -> Kinds]]
    BY <1>7, <2>2 DEF SaveZero
  <2> QED BY <1>7, <2>1, <2>3, <2>4 DEF SaveZero
<1>8. ASSUME NEW p \in Procs, WriteSummary(p) PROVE TypeOK'
  <2>1. cfg[p].official \in BOOLEAN /\ held[p].route \in Routes
    BY DEF Config, Pending
  <2>2. {TaskOf[i] : i \in {j \in Slots : recs[p][j] = "skip"}} \in SUBSET Tasks
    OBVIOUS
  <2>3. summary' \in Summary
    BY <1>8, <2>1, <2>2 DEF WriteSummary, Summary
  <2>4. End(p, "off")
    BY <1>8 DEF WriteSummary
  <2> QED BY <1>8, <2>3, <2>4, EndType DEF WriteSummary
<1>9. CASE Skip
  <2>1. pc' \in [Procs -> Pcs] /\ held' \in [Procs -> Pending]
    BY <1>9, RecordType DEF Skip, Step, SaveAt, Kinds
  <2> QED BY <1>9, <2>1 DEF Skip
<1>10. CASE CallFailed
  <2>1. pc' \in [Procs -> Pcs] /\ held' \in [Procs -> Pending]
    BY <1>10, RecordType DEF CallFailed, Step, Kinds
  <2> QED BY <1>10, <2>1 DEF CallFailed
<1>11. CASE CallAnswered
  <2>1. pc' \in [Procs -> Pcs] /\ held' \in [Procs -> Pending]
    <3>1. PICK a \in Answers : held' = [held EXCEPT !["gen"] = Record("source", a)]
      BY <1>11 DEF CallAnswered
    <3>2. Record("source", a) \in Pending
      BY RecordType DEF Kinds
    <3>3. pc' \in [Procs -> Pcs]
      BY <1>11 DEF CallAnswered, Step
    <3> QED BY <3>1, <3>2, <3>3
  <2> QED BY <1>11, <2>1 DEF CallAnswered
<1>12. CASE UnlinkSource
  <2>1. pc' \in [Procs -> Pcs] /\ sv' \in [Slots -> Answers \cup {NoAnswer}]
    BY <1>12 DEF UnlinkSource, Step, SaveAt
  <2> QED BY <1>12, <2>1 DEF UnlinkSource
<1>13. CASE WriteSource
  <2>1. pc' \in [Procs -> Pcs] /\ sv' \in [Slots -> Answers \cup {NoAnswer}]
    BY <1>13 DEF WriteSource, Step, Pending, Procs
  <2> QED BY <1>13, <2>1 DEF WriteSource
<1>14. CASE WritePending
  <2>1. (pc \in [Procs -> Pcs] /\ slot \in [Procs -> Slots])'
    BY <1>14, NextSlotType DEF WritePending, Procs
  <2>2. pending' \in [Slots -> Pending]
    BY <1>14 DEF WritePending, Procs
  <2> QED BY <1>14, <2>1, <2>2 DEF WritePending
<1>15. CASE EndGenerate
  BY <1>15, EndType DEF EndGenerate, Procs
<1>16. CASE RunTaskRaised
  <2>1. held["gen"] \in Pending
    BY DEF Procs
  <2>2. PICK h \in Pending : h = [held["gen"] EXCEPT !.kind = "error"]
    BY <2>1 DEF Pending, Kinds
  <2>3. held' = [held EXCEPT !["gen"] = h]
    BY <1>16, <2>2, Zenon DEF RunTaskRaised
  <2>4. pc' \in [Procs -> Pcs]
    BY <1>16 DEF RunTaskRaised, Step
  <2>5. held' \in [Procs -> Pending]
    BY <2>3
  <2>6. UNCHANGED <<mode, slot, cfg, run, scored, recs, route, files, ghosts>>
    BY <1>16 DEF RunTaskRaised
  <2> QED BY <2>4, <2>5, <2>6
<1>17. CASE ReadPending
  <2>1. pending[slot["score"]] \in Pending
    BY DEF Procs
  <2>2. pc' \in [Procs -> Pcs] /\ held' \in [Procs -> Pending]
    BY <1>17, <2>1 DEF ReadPending, Step
  <2>3. route' \subseteq Routes
    BY <1>17, <2>1 DEF ReadPending, Pending
  <2> QED BY <1>17, <2>2, <2>3 DEF ReadPending
<1>18. CASE RefusePending
  BY <1>18, EndType DEF RefusePending, Procs
<1>19. CASE UNCHANGED vars
  BY <1>19 DEF vars
<1> QED BY <1>2, <1>3, <1>4, <1>5, <1>6, <1>7, <1>8, <1>9, <1>10, <1>11, <1>12, <1>13,
           <1>14, <1>15, <1>16, <1>17, <1>18, <1>19 DEF Next

-----------------------------------------------------------------------------
(* What a step changes *)

\* The variables of a process that only its start and its end touch.
Fixed(p) == mode'[p] = mode[p] /\ cfg'[p] = cfg[p] /\ run'[p] = run[p]
Still(p) ==
    /\ Fixed(p) /\ pc'[p] = pc[p] /\ slot'[p] = slot[p] /\ held'[p] = held[p]
    /\ scored'[p] = scored[p] /\ recs'[p] = recs[p]
OthersStill(p) == \A q \in Procs \ {p} : Still(q)

Advances(p) ==
    IF slot[p] = NSlots THEN pc'[p] = "end" /\ slot'[p] = 1
                        ELSE pc'[p] = "slot" /\ slot'[p] = slot[p] + 1

\* Process p writes the manifest of its sample.
Writes(p, kind, src, final) ==
    /\ \A i \in Slots \ {slot[p]} : manifest'[i] = manifest[i]
    /\ LET m == manifest'[slot[p]]
       IN  /\ m.kind = kind /\ m.src = src /\ m.route = held[p].route
           /\ m.by = run[p] /\ m.final = final /\ m.made = held[p]

LEMMA StartIs ==
    ASSUME TypeOK, NEW p \in Procs, NEW m, NEW c, StartRun(p, m, c)
    PROVE  /\ ~Running(p) /\ (Overlap \/ ~Running(Other(p))) /\ runs' = runs + 1
           /\ pc'[p] = "slot" /\ mode'[p] = m /\ cfg'[p] = c /\ run'[p] = runs + 1
           /\ slot'[p] = slot[p] /\ held'[p] = held[p] /\ recs'[p] = recs[p]
           /\ OthersStill(p) /\ UNCHANGED files
BY DEF TypeOK, StartRun, OthersStill, Still, Fixed

LEMMA EndIs ==
    ASSUME TypeOK, NEW p \in Procs, NEW label, End(p, label)
    PROVE  /\ pc'[p] = label /\ mode'[p] = "score" /\ slot'[p] = 1
           /\ run'[p] = 0 /\ held'[p] = NoPending
           /\ route' = IF p = "score" THEN {} ELSE route
           /\ OthersStill(p)
BY DEF TypeOK, End, OthersStill, Still, Fixed

LEMMA NextSlotIs ==
    ASSUME TypeOK, NEW p \in Procs, NextSlot(p)
    PROVE  /\ Advances(p)
           /\ \A q \in Procs \ {p} : pc'[q] = pc[q] /\ slot'[q] = slot[q]
BY DEF TypeOK, NextSlot, Advances

LEMMA DoneAfter ==
    ASSUME TypeOK, NEW p \in Procs, pc[p] # "end", Advances(p), NEW i \in Slots
    PROVE  Done(p, i)' <=> Done(p, i) \/ i = slot[p]
<1>1. slot[p] \in 1 .. NSlots /\ i \in 1 .. NSlots
  BY DEF TypeOK, Slots
<1> QED BY <1>1 DEF Advances, Done

LEMMA RunTaskIs ==
    ASSUME TypeOK, NEW p \in Procs, RunTask(p)
    PROVE  /\ pc[p] = "run" /\ pc'[p] = "merge" /\ slot'[p] = slot[p] /\ Fixed(p)
           /\ held'[p] = held[p] /\ recs'[p] = recs[p] /\ scored'[p] = sv[slot[p]]
           /\ Writes(p, "source", sv[slot[p]], FALSE)
           /\ OthersStill(p) /\ UNCHANGED <<sv, pending, summary, route, ghosts>>
<1>1. slot[p] \in Slots
  BY DEF TypeOK
<1> QED BY <1>1 DEF TypeOK, RunTask, Step, Writes, ManifestOf, OthersStill, Still, Fixed

LEMMA MergeIs ==
    ASSUME TypeOK, NEW p \in Procs, Merge(p)
    PROVE  /\ pc[p] = "merge" /\ Advances(p) /\ Fixed(p) /\ held'[p] = held[p]
           /\ recs'[p] = [recs[p] EXCEPT ![slot[p]] = "source"]
           /\ Writes(p, "source", scored[p], TRUE)
           /\ OthersStill(p) /\ UNCHANGED <<sv, pending, summary, route, ghosts>>
<1>1. slot[p] \in Slots /\ NextSlot(p)
  BY DEF TypeOK, Merge
<1>2. Advances(p) /\ \A q \in Procs \ {p} : pc'[q] = pc[q] /\ slot'[q] = slot[q]
  BY <1>1, NextSlotIs
<1>3. Writes(p, "source", scored[p], TRUE)
  BY <1>1 DEF TypeOK, Merge, Writes, ManifestOf
<1>4. /\ recs'[p] = [recs[p] EXCEPT ![slot[p]] = "source"]
      /\ \A q \in Procs \ {p} : recs'[q] = recs[q]
  BY <1>1 DEF TypeOK, Merge
<1>5. \A q \in Procs \ {p} : scored'[q] = scored[q]
  BY DEF TypeOK, Merge
<1> QED BY <1>2, <1>3, <1>4, <1>5 DEF Merge, OthersStill, Still, Fixed

LEMMA SaveZeroIs ==
    ASSUME TypeOK, NEW p \in Procs, SaveZero(p)
    PROVE  /\ pc[p] = "save" /\ Advances(p) /\ Fixed(p) /\ held'[p] = held[p]
           /\ recs'[p] = [recs[p] EXCEPT ![slot[p]] = held[p].kind]
           /\ Writes(p, held[p].kind, held[p].sha, TRUE)
           /\ OthersStill(p) /\ UNCHANGED <<sv, pending, summary, route, ghosts>>
<1>1. slot[p] \in Slots /\ NextSlot(p)
  BY DEF TypeOK, SaveZero
<1>2. Advances(p) /\ \A q \in Procs \ {p} : pc'[q] = pc[q] /\ slot'[q] = slot[q]
  BY <1>1, NextSlotIs
<1>3. Writes(p, held[p].kind, held[p].sha, TRUE)
  BY <1>1 DEF TypeOK, SaveZero, Writes, ManifestOf
<1>4. /\ recs'[p] = [recs[p] EXCEPT ![slot[p]] = held[p].kind]
      /\ \A q \in Procs \ {p} : recs'[q] = recs[q]
  BY <1>1 DEF TypeOK, SaveZero
<1> QED BY <1>2, <1>3, <1>4 DEF SaveZero, OthersStill, Still, Fixed

\* The steps of the generating process that change no manifest: from where to
\* where, what it then holds, and what happens to the submission.
GenMoves(from, to) ==
    /\ pc["gen"] = from /\ pc'["gen"] = to /\ slot'["gen"] = slot["gen"]
    /\ Fixed("gen") /\ recs'["gen"] = recs["gen"] /\ OthersStill("gen")
    /\ UNCHANGED <<pending, manifest, summary, route, ghosts>>

LEMMA SkipIs ==
    ASSUME TypeOK, Skip
    PROVE  /\ GenMoves("slot", SaveAt) /\ held'["gen"] = Record("skip", NoAnswer)
           /\ sv' = sv /\ Skips(cfg["gen"], slot["gen"])
BY DEF TypeOK, Skip, Step, GenMoves, Procs, OthersStill, Still, Fixed, files

LEMMA CallFailedIs ==
    ASSUME TypeOK, CallFailed
    PROVE  /\ GenMoves("slot", "unlink") /\ held'["gen"] = Record("error", NoAnswer)
           /\ sv' = sv /\ ~Skips(cfg["gen"], slot["gen"])
BY DEF TypeOK, CallFailed, Step, GenMoves, Procs, OthersStill, Still, Fixed, files

LEMMA CallAnsweredIs ==
    ASSUME TypeOK, CallAnswered
    PROVE  /\ GenMoves("slot", "write")
           /\ \E a \in Answers : held'["gen"] = Record("source", a)
           /\ sv' = sv /\ ~Skips(cfg["gen"], slot["gen"])
BY DEF TypeOK, CallAnswered, Step, GenMoves, Procs, OthersStill, Still, Fixed, files

\* The submission of the sample the generating process is at becomes a.
SourceBecomes(a) ==
    /\ sv'[slot["gen"]] = a
    /\ \A i \in Slots \ {slot["gen"]} : sv'[i] = sv[i]

LEMMA UnlinkSourceIs ==
    ASSUME TypeOK, UnlinkSource
    PROVE  /\ GenMoves("unlink", SaveAt) /\ held'["gen"] = held["gen"]
           /\ SourceBecomes(NoAnswer)
BY DEF TypeOK, UnlinkSource, Step, GenMoves, Procs, OthersStill, Still, Fixed, SourceBecomes

LEMMA WriteSourceIs ==
    ASSUME TypeOK, WriteSource
    PROVE  /\ GenMoves("write", IF mode["gen"] = "generate" THEN "record" ELSE "run")
           /\ held'["gen"] = held["gen"]
           /\ SourceBecomes(held["gen"].sha)
BY DEF TypeOK, WriteSource, Step, GenMoves, Procs, OthersStill, Still, Fixed, SourceBecomes

LEMMA RunTaskRaisedIs ==
    ASSUME TypeOK, RunTaskRaised
    PROVE  /\ GenMoves("run", "save") /\ sv' = sv
           /\ held'["gen"].kind = "error" /\ held'["gen"].sha = held["gen"].sha
           /\ held'["gen"].official = held["gen"].official
           /\ held'["gen"].route = held["gen"].route
           /\ held'["gen"].reviewed = held["gen"].reviewed
<1>1. held["gen"] \in Pending
  BY DEF TypeOK, Procs
<1>2. PICK h : h = [held["gen"] EXCEPT !.kind = "error"]
  OBVIOUS
<1>3. /\ h.kind = "error" /\ h.sha = held["gen"].sha /\ h.official = held["gen"].official
      /\ h.route = held["gen"].route /\ h.reviewed = held["gen"].reviewed
  BY <1>1, <1>2 DEF Pending
<1>4. held' = [held EXCEPT !["gen"] = h]
  BY <1>2, Zenon DEF RunTaskRaised
<1>5. held'["gen"] = h /\ \A q \in Procs \ {"gen"} : held'[q] = held[q]
  BY <1>4 DEF TypeOK, Procs
<1>6. /\ Step("gen", "run", "save") /\ UNCHANGED <<mode, slot, cfg, run, scored, recs, route>>
      /\ UNCHANGED files /\ UNCHANGED ghosts
  BY DEF RunTaskRaised
<1>7. pc["gen"] = "run" /\ pc'["gen"] = "save" /\ \A q \in Procs \ {"gen"} : pc'[q] = pc[q]
  BY <1>6 DEF TypeOK, Step, Procs
<1>8. OthersStill("gen") /\ Fixed("gen")
  BY <1>5, <1>6, <1>7 DEF OthersStill, Still, Fixed
<1> QED BY <1>3, <1>5, <1>6, <1>7, <1>8 DEF GenMoves, files

LEMMA WritePendingIs ==
    ASSUME TypeOK, WritePending
    PROVE  /\ pc["gen"] = "record" /\ Advances("gen") /\ Fixed("gen")
           /\ held'["gen"] = held["gen"] /\ recs'["gen"] = recs["gen"]
           /\ pending'[slot["gen"]] = held["gen"]
           /\ \A i \in Slots \ {slot["gen"]} : pending'[i] = pending[i]
           /\ OthersStill("gen") /\ UNCHANGED <<sv, manifest, summary, route, ghosts>>
<1>1. "gen" \in Procs /\ NextSlot("gen")
  BY DEF Procs, WritePending
<1>2. Advances("gen") /\ \A q \in Procs \ {"gen"} : pc'[q] = pc[q] /\ slot'[q] = slot[q]
  BY <1>1, NextSlotIs
<1> QED BY <1>1, <1>2 DEF TypeOK, WritePending, OthersStill, Still, Fixed

LEMMA ReadPendingIs ==
    ASSUME TypeOK, ReadPending
    PROVE  LET r == pending[slot["score"]]
           IN  /\ Acceptable(slot["score"]) /\ pc["score"] = "slot"
               /\ pc'["score"] = (IF r.kind = "source" THEN "run" ELSE "save")
               /\ slot'["score"] = slot["score"] /\ Fixed("score")
               /\ held'["score"] = r /\ route' = {r.route} /\ recs'["score"] = recs["score"]
               /\ OthersStill("score") /\ UNCHANGED <<files, ghosts>>
BY DEF TypeOK, ReadPending, Step, Procs, OthersStill, Still, Fixed

\* The steps of the generating process inside a sample.
GenStep ==
    Skip \/ CallFailed \/ CallAnswered \/ UnlinkSource \/ WriteSource \/ RunTaskRaised

LEMMA GenStepIs ==
    ASSUME TypeOK, GenStep
    PROVE  /\ pc["gen"] \in {"slot", "unlink", "write", "run"}
           /\ pc'["gen"] \in {"unlink", "write", "record", "run", "save"}
           /\ pc'["gen"] = "record" => mode["gen"] = "generate"
           /\ pc'["gen"] \in {"run", "save"} => mode["gen"] # "generate" \/ pc["gen"] = "run"
           /\ slot'["gen"] = slot["gen"] /\ Fixed("gen") /\ recs'["gen"] = recs["gen"]
           /\ OthersStill("gen") /\ UNCHANGED <<pending, manifest, summary, route, ghosts>>
BY SkipIs, CallFailedIs, CallAnsweredIs, UnlinkSourceIs, WriteSourceIs, RunTaskRaisedIs
   DEF GenStep, SaveAt, GenMoves

\* Process p stops, and its variables are gone.
Ends(p) ==
    /\ pc'[p] \in {"off", "refused"} /\ mode'[p] = "score" /\ slot'[p] = 1
    /\ run'[p] = 0 /\ held'[p] = NoPending
    /\ route' = (IF p = "score" THEN {} ELSE route)
    /\ OthersStill(p) /\ UNCHANGED <<sv, pending, manifest, runs, base>>

LEMMA EndsIs ==
    ASSUME TypeOK, NEW p \in Procs
    PROVE  /\ Stop(p) => /\ Ends(p) /\ pc'[p] = "off" /\ Running(p)
                         /\ UNCHANGED <<summary, complete>>
           /\ WriteSummary(p) => Ends(p) /\ pc'[p] = "off" /\ UNCHANGED complete
           /\ p = "gen" /\ EndGenerate => Ends(p) /\ pc'[p] = "off" /\ UNCHANGED summary
           /\ p = "score" /\ RefusePending =>
                 Ends(p) /\ pc'[p] = "refused" /\ UNCHANGED <<summary, complete>>
BY EndIs DEF Stop, WriteSummary, EndGenerate, RefusePending, Ends, files, ghosts

LEMMA EndsStep ==
    ASSUME TypeOK
    PROVE  /\ \A p \in Procs : Stop(p) \/ WriteSummary(p) => Ends(p)
           /\ EndGenerate => Ends("gen")
           /\ RefusePending => Ends("score")
BY EndsIs DEF Procs

-----------------------------------------------------------------------------
(* Where the processes are, and the numbers of the runs *)

LEMMA ControlStep ==
    ASSUME Inv, [Next]_vars
    PROVE  ControlInv'
<1> USE DEF ControlInv, Running, Procs, Holding
<1>1. TypeOK /\ ControlInv
  BY DEF Inv
<1>2. ASSUME NEW p \in Procs, NEW m \in Modes, NEW c, StartRun(p, m, c), UNCHANGED route,
             p = "score" <=> m = "score"
      PROVE  ControlInv'
  BY <1>1, <1>2, StartIs DEF OthersStill, Still, Fixed, Modes
<1>3. ASSUME NEW p \in Procs, Ends(p) PROVE ControlInv'
  BY <1>1, <1>3 DEF Ends, OthersStill, Still, Fixed
<1>4. ASSUME NEW p \in Procs, RunTask(p) PROVE ControlInv'
  <2>1. /\ pc[p] = "run" /\ pc'[p] = "merge" /\ slot'[p] = slot[p] /\ Fixed(p)
        /\ OthersStill(p) /\ UNCHANGED route
    BY <1>1, <1>4, RunTaskIs
  <2> QED BY <1>1, <2>1 DEF OthersStill, Still, Fixed
<1>5. ASSUME NEW p \in Procs, Advances(p), Fixed(p), pc[p] \in Holding, OthersStill(p),
             UNCHANGED route
      PROVE  ControlInv'
  BY <1>1, <1>5 DEF Advances, OthersStill, Still, Fixed
<1>6. CASE GenStep
  BY <1>1, <1>6, GenStepIs DEF OthersStill, Still, Fixed
<1>7. CASE ReadPending
  BY <1>1, <1>7, ReadPendingIs DEF OthersStill, Still, Fixed
<1>8. CASE UNCHANGED vars
  BY <1>1, <1>8 DEF vars
<1>9. StartGen \/ StartScore => ControlInv'
  BY <1>2 DEF StartGen, StartScore, Modes
<1>10. \A p \in Procs : Merge(p) \/ SaveZero(p) => ControlInv'
  BY <1>1, <1>5, MergeIs, SaveZeroIs
<1>11. WritePending => ControlInv'
  BY <1>1, <1>5, WritePendingIs
<1>12. \A p \in Procs : Stop(p) \/ WriteSummary(p) => ControlInv'
  BY <1>1, <1>3, EndsStep
<1>13. EndGenerate \/ RefusePending => ControlInv'
  BY <1>1, <1>3, EndsStep
<1> QED BY <1>4, <1>6, <1>7, <1>8, <1>9, <1>10, <1>11, <1>12, <1>13
        DEF Next, GenStep

LEMMA NumbersStep ==
    ASSUME Inv, [Next]_vars
    PROVE  NumbersInv'
<1> USE DEF NumbersInv, Running, Procs, Holding
<1>1. TypeOK /\ ControlInv /\ NumbersInv
  BY DEF Inv
<1>2. /\ runs \in Nat /\ summary.by \in Nat /\ \A p \in Procs : run[p] \in Nat
      /\ \A i \in Slots : manifest[i].by \in Nat
      /\ \A p \in Procs : slot[p] \in Slots
  BY <1>1 DEF TypeOK, Summary, Manifest, RunIds
<1>3. ASSUME NEW p \in Procs, NEW m, NEW c, StartRun(p, m, c)
      PROVE  NumbersInv'
  BY <1>1, <1>2, <1>3, StartIs DEF files, OthersStill, Still, Fixed
<1>4. ASSUME NEW p \in Procs, Ends(p), UNCHANGED summary PROVE NumbersInv'
  BY <1>1, <1>2, <1>4 DEF Ends, OthersStill, Still, Fixed
<1>5. ASSUME NEW p \in Procs, WriteSummary(p) PROVE NumbersInv'
  <2>1. Ends(p) /\ summary'.by = run[p] /\ pc[p] = "end"
    BY <1>1, <1>5, EndsIs DEF WriteSummary
  <2> QED BY <1>1, <1>2, <2>1 DEF Ends, OthersStill, Still, Fixed
<1>6. ASSUME NEW p \in Procs, NEW kind, NEW src, NEW final, Writes(p, kind, src, final),
             Fixed(p), Running(p), OthersStill(p), UNCHANGED <<summary, runs>>, Running(p)'
      PROVE  NumbersInv'
  <2>1. \A i \in Slots : manifest'[i].by <= runs'
    BY <1>1, <1>2, <1>6 DEF Writes
  <2> QED BY <1>1, <1>2, <1>6, <2>1 DEF OthersStill, Still, Fixed
<1>7. ASSUME NEW p \in Procs, Fixed(p), Running(p), OthersStill(p),
             UNCHANGED <<manifest, summary, runs>>
      PROVE  NumbersInv'
  BY <1>1, <1>2, <1>7 DEF OthersStill, Still, Fixed
<1>8. \A p \in Procs : RunTask(p) => NumbersInv'
  BY <1>1, <1>6, RunTaskIs DEF ghosts
<1>9. \A p \in Procs : Advances(p) => Running(p)'
  BY DEF Advances
<1>10. \A p \in Procs : Merge(p) => NumbersInv'
  BY <1>1, <1>6, <1>9, MergeIs DEF ghosts
<1>11. \A p \in Procs : SaveZero(p) => NumbersInv'
  BY <1>1, <1>6, <1>9, SaveZeroIs DEF ghosts
<1>12. GenStep => NumbersInv'
  BY <1>1, <1>7, GenStepIs DEF ghosts
<1>13. WritePending => NumbersInv'
  BY <1>1, <1>7, WritePendingIs DEF ghosts
<1>14. ReadPending => NumbersInv'
  BY <1>1, <1>7, ReadPendingIs DEF files, ghosts
<1>15. StartGen \/ StartScore => NumbersInv'
  BY <1>3 DEF StartGen, StartScore
<1>16. \A p \in Procs : Stop(p) => NumbersInv'
  BY <1>1, <1>4, EndsIs
<1>17. EndGenerate \/ RefusePending => NumbersInv'
  BY <1>1, <1>4, EndsIs
<1>18. UNCHANGED vars => NumbersInv'
  BY <1>1 DEF vars
<1> QED BY <1>5, <1>8, <1>10, <1>11, <1>12, <1>13, <1>14, <1>15, <1>16, <1>17, <1>18
        DEF Next, GenStep

-----------------------------------------------------------------------------
(* Records and the samples of a task *)

LEMMA LeastElement ==
    ASSUME NEW ns \in SUBSET Nat, ns # {}
    PROVE  \E n \in ns : \A k \in ns : n <= k
<1>1. \E n \in ns : \A k \in ns : ~ <<k, n>> \in OpToRel(<, Nat)
  <2> DEFINE R == OpToRel(<, Nat)
  <2>1. IsWellFoundedOn(R, Nat) /\ ns \subseteq Nat /\ ns # {}
    BY NatLessThanWellFounded
  <2> HIDE DEF R
  <2>2. \E n \in ns : \A k \in ns : ~ <<k, n>> \in R
    BY <2>1, WFMin, ZenonT(30)
  <2> QED BY <2>2 DEF R
<1>2. PICK n \in ns : \A k \in ns : ~ <<k, n>> \in OpToRel(<, Nat)
  BY <1>1
<1>3. \A k \in ns : n <= k
  <2> SUFFICES ASSUME NEW k \in ns, ~(n <= k) PROVE FALSE
    OBVIOUS
  <2>1. k \in Nat /\ n \in Nat /\ k < n
    OBVIOUS
  <2>2. <<k, n>> \in {ss \in Nat \X Nat : ss[1] < ss[2]}
    BY <2>1
  <2>3. OpToRel(<, Nat) = {ss \in Nat \X Nat : ss[1] < ss[2]}
    BY DEF OpToRel
  <2> QED BY <1>2, <2>2, <2>3, Zenon
<1> QED BY <1>3

LEMMA FirstOfIs ==
    ASSUME NEW i \in Slots
    PROVE  /\ FirstOf(i) \in Slots /\ TaskOf[FirstOf(i)] = TaskOf[i]
           /\ \A k \in Slots : TaskOf[k] = TaskOf[i] => FirstOf(i) <= k
<1>1. {k \in Slots : TaskOf[k] = TaskOf[i]} \in SUBSET Nat
  BY DEF Slots
<1>2. \E f \in Slots : TaskOf[f] = TaskOf[i] /\ \A k \in Slots : TaskOf[k] = TaskOf[i] => f <= k
  BY <1>1, LeastElement
<1> QED BY <1>2 DEF FirstOf

LEMMA FirstOfSame ==
    ASSUME NEW i \in Slots, NEW j \in Slots, TaskOf[i] = TaskOf[j]
    PROVE  FirstOf(i) = FirstOf(j)
<1>1. FirstOf(i) <= FirstOf(j) /\ FirstOf(j) <= FirstOf(i)
  BY FirstOfIs
<1> QED BY <1>1, FirstOfIs DEF Slots

LEMMA RecordIs ==
    ASSUME NEW kind, NEW a
    PROVE  LET r == Record(kind, a)
           IN  /\ r.kind = kind /\ r.sha = a /\ r.official = cfg["gen"].official
               /\ r.route = cfg["gen"].route
               /\ r.reviewed = (TaskOf[slot["gen"]] \notin cfg["gen"].unreviewed)
BY DEF Record

\* What the generating process holds after a step inside a sample.
LEMMA GenHolds ==
    ASSUME TypeOK, HeldInv, GenStep
    PROVE  LET h == held'["gen"]
           IN  /\ h.official = cfg["gen"].official /\ h.route = cfg["gen"].route
               /\ \/ h.kind \in {"skip", "error", "source"}
                  \/ h = held["gen"] /\ pc["gen"] \in Holding
               /\ h.kind = "skip" <=> Skips(cfg["gen"], slot["gen"])
               /\ Sound(held["gen"]) => Sound(h)
               /\ pc'["gen"] = "unlink" => h.kind = "error"
               /\ pc'["gen"] \in {"write", "run"} => h.kind = "source"
<1> USE DEF HeldInv, GenMoves, Holding, Procs
<1>1. Skip => LET h == held'["gen"] IN
          /\ h.official = cfg["gen"].official /\ h.route = cfg["gen"].route
          /\ h.kind = "skip" /\ Skips(cfg["gen"], slot["gen"])
          /\ pc'["gen"] \notin {"unlink", "write", "run"}
  BY SkipIs, RecordIs DEF SaveAt
<1>2. CallFailed \/ CallAnswered => LET h == held'["gen"] IN
          /\ pc'["gen"] = IF h.kind = "error" THEN "unlink" ELSE "write"
          /\ h.official = cfg["gen"].official /\ h.route = cfg["gen"].route
          /\ h.kind \in {"error", "source"} /\ ~Skips(cfg["gen"], slot["gen"])
          /\ h.reviewed = (TaskOf[slot["gen"]] \notin cfg["gen"].unreviewed)
  BY CallFailedIs, CallAnsweredIs, RecordIs
<1>3. UnlinkSource \/ WriteSource =>
          /\ held'["gen"] = held["gen"] /\ pc["gen"] \in Holding
          /\ pc'["gen"] \notin {"unlink", "write"}
          /\ pc'["gen"] = "run" => pc["gen"] = "write"
  BY UnlinkSourceIs, WriteSourceIs DEF SaveAt
<1>4. RunTaskRaised => LET h == held'["gen"] IN
          /\ pc["gen"] = "run" /\ pc'["gen"] = "save" /\ h.kind = "error"
          /\ h.official = held["gen"].official /\ h.route = held["gen"].route
          /\ h.reviewed = held["gen"].reviewed
  BY RunTaskRaisedIs
<1>5. CASE Skip
  BY <1>1, <1>5 DEF Sound
<1>6. CASE CallFailed \/ CallAnswered
  BY <1>2, <1>6 DEF Sound, Skips
<1>7. CASE UnlinkSource \/ WriteSource
  BY <1>3, <1>7
<1>8. CASE RunTaskRaised
  BY <1>4, <1>8 DEF Sound
<1> QED BY <1>5, <1>6, <1>7, <1>8 DEF GenStep

LEMMA RecordsStep ==
    ASSUME Inv, [Next]_vars
    PROVE  RecordsInv'
<1> USE DEF RecordsInv, OthersStill, Still
<1>1. TypeOK /\ RecordsInv /\ HeldInv /\ \A p \in Procs : slot[p] \in Slots
  BY DEF Inv, TypeOK
<1>2. ASSUME NEW p \in Procs, held'[p] = held[p], OthersStill(p),
             UNCHANGED <<pending, manifest>>
      PROVE  RecordsInv'
  BY <1>1, <1>2
<1>3. ASSUME NEW p \in Procs, Ends(p) PROVE RecordsInv'
  <2>1. Sound(held'[p])
    BY <1>3 DEF Ends, Sound, NoPending
  <2> QED BY <1>1, <1>3, <2>1 DEF Ends
<1>4. ASSUME NEW p \in Procs, NEW src, NEW final, Writes(p, held[p].kind, src, final),
             held'[p] = held[p], OthersStill(p), UNCHANGED pending
      PROVE  RecordsInv'
  BY <1>1, <1>4 DEF Writes
<1>5. CASE GenStep
  <2>1. Sound(held'["gen"])
    BY <1>1, <1>5, GenHolds DEF Procs
  <2> QED BY <1>1, <1>5, <2>1, GenStepIs
<1>6. CASE WritePending
  BY <1>1, <1>6, WritePendingIs DEF Procs
<1>7. CASE ReadPending
  <2>1. /\ held'["score"] = pending[slot["score"]] /\ OthersStill("score")
        /\ UNCHANGED <<pending, manifest>> /\ slot["score"] \in Slots
    BY <1>1, <1>7, ReadPendingIs DEF files, Procs
  <2> QED BY <1>1, <2>1
<1>8. StartGen \/ StartScore => RecordsInv'
  BY <1>1, <1>2, StartIs DEF StartGen, StartScore, files, Procs
<1>9. ASSUME NEW p \in Procs, RunTask(p) \/ Merge(p) PROVE RecordsInv'
  <2>1. held[p].kind = "source"
    BY <1>1, <1>9, RunTaskIs, MergeIs DEF HeldInv
  <2>2. Writes(p, held[p].kind, sv[slot[p]], FALSE) \/ Writes(p, held[p].kind, scored[p], TRUE)
    BY <1>1, <1>9, <2>1, RunTaskIs, MergeIs
  <2>3. held'[p] = held[p] /\ OthersStill(p) /\ UNCHANGED pending
    BY <1>1, <1>9, RunTaskIs, MergeIs
  <2> QED BY <1>4, <2>2, <2>3
<1>10. \A p \in Procs : SaveZero(p) => RecordsInv'
  BY <1>1, <1>4, SaveZeroIs
<1>11. (\E p \in Procs : Stop(p) \/ WriteSummary(p)) \/ EndGenerate \/ RefusePending => RecordsInv'
  BY <1>1, <1>3, EndsStep DEF Procs
<1>12. UNCHANGED vars => RecordsInv'
  BY <1>1 DEF vars
<1> QED BY <1>5, <1>6, <1>7, <1>8, <1>9, <1>10, <1>11, <1>12 DEF Next, GenStep

LEMMA HeldStep ==
    ASSUME Inv, [Next]_vars
    PROVE  HeldInv'
<1> USE DEF HeldInv, Holding, Procs, OthersStill, Still, Fixed
<1>1. TypeOK /\ HeldInv /\ \A p \in Procs : slot[p] \in Slots
  BY DEF Inv, TypeOK
<1>2. ASSUME NEW p \in Procs, pc'[p] \notin Holding \cup {"end"}, OthersStill(p),
             p = "score" \/ UNCHANGED route
      PROVE  HeldInv'
  BY <1>1, <1>2 DEF Skips
<1>3. ASSUME NEW p \in Procs, pc[p] \in Holding, pc'[p] \in {"slot", "end"}, OthersStill(p),
             Fixed(p), held'[p] = held[p], UNCHANGED route
      PROVE  HeldInv'
  BY <1>1, <1>3 DEF Skips
<1>4. ASSUME NEW p \in Procs, RunTask(p) PROVE HeldInv'
  <2>1. /\ pc[p] = "run" /\ pc'[p] = "merge" /\ slot'[p] = slot[p] /\ Fixed(p)
        /\ held'[p] = held[p] /\ recs'[p] = recs[p] /\ OthersStill(p) /\ UNCHANGED route
    BY <1>1, <1>4, RunTaskIs
  <2> QED BY <1>1, <2>1 DEF Skips
<1>5. CASE GenStep
  <2>1. LET h == held'["gen"]
        IN  /\ h.official = cfg["gen"].official /\ h.route = cfg["gen"].route
            /\ h.kind = "skip" <=> Skips(cfg["gen"], slot["gen"])
            /\ pc'["gen"] = "unlink" => h.kind = "error"
            /\ pc'["gen"] \in {"write", "run"} => h.kind = "source"
    BY <1>1, <1>5, GenHolds
  <2>2. /\ slot'["gen"] = slot["gen"] /\ Fixed("gen") /\ OthersStill("gen") /\ UNCHANGED route
        /\ pc'["gen"] \in {"unlink", "write", "record", "run", "save"}
    BY <1>1, <1>5, GenStepIs
  <2> QED BY <1>1, <2>1, <2>2 DEF Skips
<1>6. CASE ReadPending
  <2> DEFINE r == pending[slot["score"]]
  <2>1. /\ pc'["score"] = (IF r.kind = "source" THEN "run" ELSE "save")
        /\ slot'["score"] = slot["score"] /\ Fixed("score")
        /\ held'["score"] = r /\ route' = {r.route} /\ recs'["score"] = recs["score"]
        /\ OthersStill("score")
    BY <1>1, <1>6, ReadPendingIs
  <2>2. r.official = cfg["score"].official /\ SkippedAlike(slot["score"])
    BY <1>1, <1>6, ReadPendingIs DEF Acceptable, SameMode
  <2> QED BY <1>1, <2>1, <2>2 DEF SkippedAlike, Skips
<1>7. StartGen \/ StartScore => HeldInv'
  <2>1. \A p \in Procs : \A m, c : StartRun(p, m, c) =>
            pc'[p] \notin Holding \cup {"end"} /\ OthersStill(p)
    BY <1>1, StartIs
  <2> QED BY <1>2, <2>1 DEF StartGen, StartScore
<1>8. \A p \in Procs : Ends(p) => HeldInv'
  BY <1>2 DEF Ends
<1>9. \A p \in Procs : Advances(p) => pc'[p] \in {"slot", "end"}
  BY DEF Advances
<1>10. \A p \in Procs : Merge(p) => HeldInv'
  BY <1>1, <1>3, <1>9, MergeIs
<1>11. \A p \in Procs : SaveZero(p) => HeldInv'
  BY <1>1, <1>3, <1>9, SaveZeroIs
<1>12. WritePending => HeldInv'
  BY <1>1, <1>3, <1>9, WritePendingIs
<1>13. (\E p \in Procs : Stop(p) \/ WriteSummary(p)) \/ EndGenerate \/ RefusePending => HeldInv'
  BY <1>1, <1>8, EndsStep
<1>14. UNCHANGED vars => HeldInv'
  BY <1>1 DEF vars, Skips
<1> QED BY <1>4, <1>5, <1>6, <1>7, <1>10, <1>11, <1>12, <1>13, <1>14 DEF Next, GenStep

LEMMA SkipsStep ==
    ASSUME Inv, [Next]_vars
    PROVE  SkipsInv'
<1> USE DEF SkipsInv, Procs, Running, OthersStill, Still, Fixed
<1>1. /\ TypeOK /\ HeldInv /\ ControlInv /\ SkipsInv
      /\ \A p \in Procs : slot[p] \in Slots /\ recs[p] \in [Slots -> Kinds]
  BY DEF Inv, TypeOK
<1>2. ASSUME NEW p \in Procs, Still(p) \/ ~Running(p)', OthersStill(p)
      PROVE  SkipsInv'
  BY <1>1, <1>2 DEF Done, Skips
<1>3. ASSUME NEW p \in Procs, Running(p), Running(p)', pc[p] # "end", pc'[p] # "end",
             slot'[p] = slot[p], Fixed(p), recs'[p] = recs[p], OthersStill(p)
      PROVE  SkipsInv'
  BY <1>1, <1>3 DEF Done, Skips
<1>4. ASSUME NEW p \in Procs, pc[p] \in Holding, Advances(p), Fixed(p),
             recs'[p] = [recs[p] EXCEPT ![slot[p]] = held[p].kind], OthersStill(p)
      PROVE  SkipsInv'
  <2> DEFINE kind == held[p].kind
  <2>1. \A i \in Slots : Done(p, i)' <=> Done(p, i) \/ i = slot[p]
    BY <1>1, <1>4, DoneAfter DEF Holding
  <2>2. \A i \in Slots : recs'[p][i] = IF i = slot[p] THEN kind ELSE recs[p][i]
    BY <1>1, <1>4
  <2>3. \A i \in Slots : Done(p, i) => i < slot[p] /\ i # slot[p]
    BY <1>1, <1>4 DEF Done, Holding, Slots
  <2>4. CASE p = "gen"
    BY <1>1, <1>4, <2>1, <2>2, <2>3, <2>4 DEF Holding, HeldInv, Skips, Done
  <2>5. CASE p = "score"
    <3>1. ASSUME NEW i \in Slots, Done(p, i)
          PROVE  recs'[p][i] = "skip" <=> recs'[p][FirstOf(i)] = "skip"
      <4>1. FirstOf(i) \in Slots /\ FirstOf(i) <= i /\ i < slot[p]
        BY <2>3, <3>1, FirstOfIs
      <4>2. FirstOf(i) # slot[p]
        BY <1>1, <4>1 DEF Slots
      <4>3. Running("score") /\ i # slot[p] /\ Done("score", i)
        BY <1>4, <2>3, <2>5, <3>1 DEF Holding
      <4> QED BY <1>1, <2>2, <2>5, <4>1, <4>2, <4>3
    <3>2. recs'[p][slot[p]] = "skip" <=> recs'[p][FirstOf(slot[p])] = "skip"
      <4>1. FirstOf(slot[p]) \in Slots
        BY <1>1, FirstOfIs
      <4> QED BY <1>1, <1>4, <2>2, <2>5, <4>1 DEF HeldInv
    <3>3. \A i \in Slots : Done("score", i)' =>
             (recs'["score"][i] = "skip" <=> recs'["score"][FirstOf(i)] = "skip")
      BY <2>1, <2>5, <3>1, <3>2
    <3>4. Still("gen")
      BY <1>4, <2>5
    <3> QED BY <1>1, <3>3, <3>4 DEF Done, Skips
  <2> QED BY <2>4, <2>5
<1>5. ASSUME NEW p \in Procs, NEW m, NEW c, StartRun(p, m, c) PROVE SkipsInv'
  <2>1. pc'[p] = "slot" /\ slot'[p] = 1 /\ OthersStill(p)
    BY <1>1, <1>5, StartIs DEF ControlInv
  <2>2. \A i \in Slots : ~Done(p, i)'
    BY <2>1 DEF Done, Slots
  <2> QED BY <1>1, <2>1, <2>2 DEF Done, Skips
<1>6. StartGen \/ StartScore => SkipsInv'
  BY <1>5 DEF StartGen, StartScore
<1>7. \A p \in Procs : RunTask(p) => SkipsInv'
  BY <1>1, <1>3, RunTaskIs
<1>8. ASSUME NEW p \in Procs, Merge(p) PROVE SkipsInv'
  <2>1. /\ pc[p] = "merge" /\ Advances(p) /\ Fixed(p) /\ OthersStill(p)
        /\ recs'[p] = [recs[p] EXCEPT ![slot[p]] = "source"]
    BY <1>1, <1>8, MergeIs
  <2>2. pc[p] \in Holding /\ held[p].kind = "source"
    BY <1>1, <2>1 DEF HeldInv, Holding
  <2> QED BY <1>4, <2>1, <2>2
<1>9. ASSUME NEW p \in Procs, SaveZero(p) PROVE SkipsInv'
  <2>1. /\ pc[p] = "save" /\ Advances(p) /\ Fixed(p) /\ OthersStill(p)
        /\ recs'[p] = [recs[p] EXCEPT ![slot[p]] = held[p].kind]
    BY <1>1, <1>9, SaveZeroIs
  <2>2. pc[p] \in Holding
    BY <2>1 DEF Holding
  <2> QED BY <1>4, <2>1, <2>2
<1>10. CASE GenStep
  <2>1. /\ Running("gen") /\ Running("gen")' /\ pc["gen"] # "end" /\ pc'["gen"] # "end"
        /\ slot'["gen"] = slot["gen"] /\ Fixed("gen") /\ recs'["gen"] = recs["gen"]
        /\ OthersStill("gen")
    BY <1>1, <1>10, GenStepIs
  <2> QED BY <1>3, <2>1
<1>11. CASE WritePending
  <2>1. pc["gen"] = "record" /\ Fixed("gen") /\ OthersStill("gen")
    BY <1>1, <1>11, WritePendingIs
  <2>2. mode["gen"] = "generate" /\ mode'["gen"] = "generate"
    BY <1>1, <2>1 DEF ControlInv
  <2> QED BY <1>1, <2>1, <2>2 DEF Done
<1>12. CASE ReadPending
  <2>1. /\ Running("score") /\ Running("score")' /\ pc["score"] # "end" /\ pc'["score"] # "end"
        /\ slot'["score"] = slot["score"] /\ Fixed("score") /\ recs'["score"] = recs["score"]
        /\ OthersStill("score")
    BY <1>1, <1>12, ReadPendingIs
  <2> QED BY <1>3, <2>1
<1>13. \A p \in Procs : Ends(p) => SkipsInv'
  BY <1>2 DEF Ends
<1>14. (\E p \in Procs : Stop(p) \/ WriteSummary(p)) \/ EndGenerate \/ RefusePending => SkipsInv'
  BY <1>1, <1>13, EndsStep
<1>15. UNCHANGED vars => SkipsInv'
  BY <1>1 DEF vars, Done, Skips
<1> QED BY <1>6, <1>7, <1>8, <1>9, <1>10, <1>11, <1>12, <1>14, <1>15 DEF Next, GenStep

-----------------------------------------------------------------------------
(* The manifests of a run, and those a summary signs for *)

LEMMA RunStep ==
    ASSUME Inv, [Next]_vars
    PROVE  RunInv'
<1> USE DEF RunInv, Running, Procs, OthersStill, Still, Fixed, RouteOf
<1>1. /\ TypeOK /\ NumbersInv /\ HeldInv /\ RunInv
      /\ runs \in Nat /\ \A i \in Slots : manifest[i].by \in Nat
      /\ \A p \in Procs : slot[p] \in Slots /\ recs[p] \in [Slots -> Kinds]
  BY DEF Inv, TypeOK, Manifest, RunIds
<1>2. ASSUME NEW p \in Procs, NEW m, NEW c, StartRun(p, m, c), UNCHANGED route
      PROVE  RunInv'
  <2>1. run'[p] = runs + 1 /\ OthersStill(p) /\ UNCHANGED manifest
    BY <1>1, <1>2, StartIs DEF files
  <2>2. \A i \in Slots : manifest[i].by # run'[p]
    BY <1>1, <2>1 DEF NumbersInv
  <2> QED BY <1>1, <1>2, <2>1, <2>2
<1>3. ASSUME NEW p \in Procs, Fixed(p), OthersStill(p), recs'[p] = recs[p], Running(p),
             UNCHANGED manifest, route \subseteq route'
      PROVE  RunInv'
  BY <1>1, <1>3
<1>4. ASSUME NEW p \in Procs, NEW kind, NEW src, NEW final, Writes(p, kind, src, final),
             final => recs'[p][slot[p]] = kind,
             \A i \in Slots \ {slot[p]} : recs'[p][i] = recs[p][i],
             pc[p] \in Holding, Fixed(p), OthersStill(p), UNCHANGED route
      PROVE  RunInv'
  <2>1. /\ Running(p) /\ held[p].official = cfg[p].official /\ held[p].route \in RouteOf(p)
    BY <1>1, <1>4 DEF HeldInv, Holding
  <2>2. \A q \in Procs \ {p} : Running(q) => run[q] # run[p]
    BY <1>1, <2>1 DEF NumbersInv
  <2>3. ASSUME NEW q \in Procs, Running(q)', NEW i \in Slots, manifest'[i].by = run'[q],
               manifest'[i].final
        PROVE  /\ manifest'[i].kind = recs'[q][i]
               /\ manifest'[i].made.official = cfg'[q].official
               /\ manifest'[i].route \in RouteOf(q)'
    <3>1. CASE q # p
      BY <1>1, <1>4, <2>2, <2>3, <3>1 DEF Writes
    <3>2. CASE q = p /\ i = slot[p]
      BY <1>4, <2>1, <2>3, <3>2 DEF Writes
    <3>3. CASE q = p /\ i # slot[p]
      BY <1>1, <1>4, <2>1, <2>3, <3>3 DEF Writes
    <3> QED BY <3>1, <3>2, <3>3
  <2> QED BY <2>3
<1>5. StartGen \/ StartScore => RunInv'
  BY <1>2 DEF StartGen, StartScore
<1>6. ASSUME NEW p \in Procs, Ends(p) PROVE RunInv'
  BY <1>1, <1>6 DEF Ends
<1>7. ASSUME NEW p \in Procs, RunTask(p) PROVE RunInv'
  <2>1. /\ Writes(p, "source", sv[slot[p]], FALSE) /\ pc[p] \in Holding /\ Fixed(p)
        /\ OthersStill(p) /\ UNCHANGED route /\ recs'[p] = recs[p]
    BY <1>1, <1>7, RunTaskIs DEF Holding
  <2> QED BY <1>4, <2>1
<1>8. ASSUME NEW p \in Procs, Merge(p) PROVE RunInv'
  <2>1. /\ Writes(p, "source", scored[p], TRUE) /\ pc[p] \in Holding /\ Fixed(p)
        /\ OthersStill(p) /\ UNCHANGED route
        /\ recs'[p] = [recs[p] EXCEPT ![slot[p]] = "source"]
    BY <1>1, <1>8, MergeIs DEF Holding
  <2>2. /\ recs'[p][slot[p]] = "source"
        /\ \A i \in Slots \ {slot[p]} : recs'[p][i] = recs[p][i]
    BY <1>1, <2>1
  <2> QED BY <1>4, <2>1, <2>2
<1>9. ASSUME NEW p \in Procs, SaveZero(p) PROVE RunInv'
  <2>1. /\ Writes(p, held[p].kind, held[p].sha, TRUE) /\ pc[p] \in Holding /\ Fixed(p)
        /\ OthersStill(p) /\ UNCHANGED route
        /\ recs'[p] = [recs[p] EXCEPT ![slot[p]] = held[p].kind]
    BY <1>1, <1>9, SaveZeroIs DEF Holding
  <2>2. /\ recs'[p][slot[p]] = held[p].kind
        /\ \A i \in Slots \ {slot[p]} : recs'[p][i] = recs[p][i]
    BY <1>1, <2>1
  <2> QED BY <1>4, <2>1, <2>2
<1>10. GenStep => RunInv'
  BY <1>1, <1>3, GenStepIs
<1>11. WritePending => RunInv'
  BY <1>1, <1>3, WritePendingIs
<1>12. CASE ReadPending
  <2>1. /\ Fixed("score") /\ OthersStill("score") /\ recs'["score"] = recs["score"]
        /\ Running("score") /\ UNCHANGED manifest /\ route \subseteq route'
    BY <1>1, <1>12, ReadPendingIs DEF files, Acceptable, SameRoute
  <2> QED BY <1>3, <2>1
<1>13. (\E p \in Procs : Stop(p) \/ WriteSummary(p)) \/ EndGenerate \/ RefusePending => RunInv'
  BY <1>1, <1>6, EndsStep
<1>14. UNCHANGED vars => RunInv'
  BY <1>1 DEF vars
<1> QED BY <1>5, <1>7, <1>8, <1>9, <1>10, <1>11, <1>12, <1>13, <1>14 DEF Next, GenStep

\* At the end of a run the records of a task agree.
LEMMA SkippedTogether ==
    ASSUME Inv, NEW p \in Procs, pc[p] = "end", mode[p] \in {"eval", "score"},
           NEW i \in Slots, NEW j \in Slots, TaskOf[i] = TaskOf[j]
    PROVE  recs[p][i] = "skip" <=> recs[p][j] = "skip"
<1>1. SkipsInv /\ ControlInv /\ Running(p) /\ Done(p, i) /\ Done(p, j)
  BY DEF Inv, Running, Done
<1>2. CASE p = "gen"
  BY <1>1, <1>2 DEF SkipsInv, ControlInv, Skips
<1>3. CASE p = "score"
  BY <1>1, <1>3, FirstOfSame DEF SkipsInv
<1> QED BY <1>2, <1>3 DEF Procs

LEMMA WriteSummaryKeeps ==
    ASSUME Inv, NEW p \in Procs, WriteSummary(p)
    PROVE  SummaryInv'
<1>1. /\ pc[p] = "end" /\ mode[p] \in {"eval", "score"} /\ UNCHANGED manifest
      /\ summary' = [by |-> run[p], official |-> cfg[p].official, route |-> held[p].route,
                     skipped |-> {TaskOf[i] : i \in {j \in Slots : recs[p][j] = "skip"}}]
  BY DEF WriteSummary
<1>2. RunInv /\ HeldInv /\ Running(p)
  BY <1>1 DEF Inv, Running
<1>3. RouteOf(p) = {held[p].route}
  BY <1>1, <1>2 DEF RouteOf, HeldInv, Procs
<1>4. \A i \in Slots : recs[p][i] = "skip" <=> TaskOf[i] \in summary'.skipped
  BY <1>1, SkippedTogether
<1> QED BY <1>1, <1>2, <1>3, <1>4 DEF SummaryInv, RunInv

LEMMA SummaryStep ==
    ASSUME Inv, [Next]_vars
    PROVE  SummaryInv'
<1> USE DEF Procs
<1>1. TypeOK /\ NumbersInv /\ SummaryInv
  BY DEF Inv
<1>2. CASE UNCHANGED <<manifest, summary>>
  BY <1>1, <1>2 DEF SummaryInv
<1>3. ASSUME NEW p \in Procs, NEW kind, NEW src, NEW final, Writes(p, kind, src, final),
             Running(p), UNCHANGED summary
      PROVE  SummaryInv'
  BY <1>1, <1>3 DEF SummaryInv, NumbersInv, Writes
<1>4. \A p \in Procs : RunTask(p) => SummaryInv'
  BY <1>1, <1>3, RunTaskIs DEF Running
<1>5. \A p \in Procs : Merge(p) => SummaryInv'
  BY <1>1, <1>3, MergeIs DEF Running
<1>6. \A p \in Procs : SaveZero(p) => SummaryInv'
  BY <1>1, <1>3, SaveZeroIs DEF Running
<1>7. GenStep \/ WritePending \/ ReadPending => UNCHANGED <<manifest, summary>>
  BY <1>1, GenStepIs, WritePendingIs, ReadPendingIs DEF files
<1>8. (StartGen \/ StartScore \/ (\E p \in Procs : Stop(p)) \/ EndGenerate \/ RefusePending
          \/ UNCHANGED vars) => UNCHANGED <<manifest, summary>>
  BY DEF StartGen, StartScore, StartRun, Stop, EndGenerate, RefusePending, files, vars
<1> QED BY <1>2, <1>4, <1>5, <1>6, <1>7, <1>8, WriteSummaryKeeps DEF Next, GenStep

-----------------------------------------------------------------------------
(* One process after the other *)

LEMMA OwnStep ==
    ASSUME Inv, [Next]_vars
    PROVE  OwnInv'
<1> SUFFICES ASSUME ~Overlap
             PROVE  /\ ~Running("gen")' \/ ~Running("score")'
                    /\ \A p \in Procs : pc'[p] = "run" => sv'[slot'[p]] = held'[p].sha
                    /\ \A p \in Procs : pc'[p] = "merge" => scored'[p] = held'[p].sha
                    /\ \A i \in Slots : manifest'[i].src = manifest'[i].made.sha
  BY DEF OwnInv
<1> DEFINE Goal == /\ ~Running("gen")' \/ ~Running("score")'
                   /\ \A p \in Procs : pc'[p] = "run" => sv'[slot'[p]] = held'[p].sha
                   /\ \A p \in Procs : pc'[p] = "merge" => scored'[p] = held'[p].sha
                   /\ \A i \in Slots : manifest'[i].src = manifest'[i].made.sha
<1> USE DEF Running, Procs, OthersStill, Still, Fixed
<1>1. /\ TypeOK /\ ControlInv /\ HeldInv
      /\ ~Running("gen") \/ ~Running("score")
      /\ \A p \in Procs : pc[p] = "run" => sv[slot[p]] = held[p].sha
      /\ \A p \in Procs : pc[p] = "merge" => scored[p] = held[p].sha
      /\ \A i \in Slots : manifest[i].src = manifest[i].made.sha
  BY DEF Inv, OwnInv
<1>2. ASSUME NEW p \in Procs, NEW m, NEW c, StartRun(p, m, c) PROVE Goal
  BY <1>1, <1>2, StartIs DEF Other, files
<1>3. ASSUME NEW p \in Procs, Ends(p) PROVE Goal
  BY <1>1, <1>3 DEF Ends
<1>4. ASSUME NEW p \in Procs, NEW kind, NEW final, Writes(p, kind, held[p].sha, final),
             Running(p), OthersStill(p), pc'[p] # "run",
             pc'[p] = "merge" => scored'[p] = held'[p].sha, UNCHANGED sv
      PROVE  Goal
  <2>1. \A i \in Slots : manifest'[i].src = manifest'[i].made.sha
    BY <1>1, <1>4 DEF Writes
  <2> QED BY <1>1, <1>4, <2>1
<1>5. ASSUME NEW p \in Procs, RunTask(p) PROVE Goal
  <2>1. /\ pc[p] = "run" /\ pc'[p] = "merge" /\ held'[p] = held[p]
        /\ scored'[p] = sv[slot[p]] /\ Writes(p, "source", sv[slot[p]], FALSE)
        /\ OthersStill(p) /\ UNCHANGED sv
    BY <1>1, <1>5, RunTaskIs
  <2>2. sv[slot[p]] = held[p].sha
    BY <1>1, <2>1
  <2> QED BY <1>4, <2>1, <2>2
<1>6. ASSUME NEW p \in Procs, Merge(p) PROVE Goal
  <2>1. /\ pc[p] = "merge" /\ Advances(p) /\ Writes(p, "source", scored[p], TRUE)
        /\ OthersStill(p) /\ UNCHANGED sv
    BY <1>1, <1>6, MergeIs
  <2>2. scored[p] = held[p].sha /\ pc'[p] \in {"slot", "end"}
    BY <1>1, <2>1 DEF Advances
  <2> QED BY <1>4, <2>1, <2>2
<1>7. ASSUME NEW p \in Procs, SaveZero(p) PROVE Goal
  <2>1. /\ pc[p] = "save" /\ Advances(p) /\ Writes(p, held[p].kind, held[p].sha, TRUE)
        /\ OthersStill(p) /\ UNCHANGED sv
    BY <1>1, <1>7, SaveZeroIs
  <2>2. pc'[p] \in {"slot", "end"}
    BY <2>1 DEF Advances
  <2> QED BY <1>4, <2>1, <2>2
<1>8. CASE GenStep
  <2>1. /\ pc'["gen"] \in {"unlink", "write", "record", "run", "save"}
        /\ OthersStill("gen") /\ UNCHANGED manifest /\ Running("gen")
    BY <1>1, <1>8, GenStepIs
  <2>2. pc'["gen"] = "run" => WriteSource
    BY <1>1, <1>8, SkipIs, CallFailedIs, CallAnsweredIs, UnlinkSourceIs, RunTaskRaisedIs
       DEF GenStep, GenMoves, SaveAt
  <2>3. pc'["gen"] = "run" => sv'[slot'["gen"]] = held'["gen"].sha
    BY <1>1, <2>2, WriteSourceIs DEF GenMoves, SourceBecomes
  <2> QED BY <1>1, <2>1, <2>3
<1>9. CASE WritePending
  <2>1. /\ Running("gen") /\ Advances("gen") /\ OthersStill("gen")
        /\ UNCHANGED <<sv, manifest>>
    BY <1>1, <1>9, WritePendingIs
  <2> QED BY <1>1, <2>1 DEF Advances
<1>10. CASE ReadPending
  <2> DEFINE r == pending[slot["score"]]
  <2>1. /\ Running("score") /\ pc'["score"] = (IF r.kind = "source" THEN "run" ELSE "save")
        /\ slot'["score"] = slot["score"] /\ held'["score"] = r
        /\ OthersStill("score") /\ UNCHANGED <<sv, manifest>>
        /\ SourceMatches(slot["score"])
    BY <1>1, <1>10, ReadPendingIs DEF files, Acceptable
  <2> QED BY <1>1, <2>1 DEF SourceMatches
<1>11. CASE UNCHANGED vars
  BY <1>1, <1>11 DEF vars
<1>12. StartGen \/ StartScore => Goal
  BY <1>2 DEF StartGen, StartScore
<1>13. (\E p \in Procs : Stop(p) \/ WriteSummary(p)) \/ EndGenerate \/ RefusePending => Goal
  BY <1>1, <1>3, EndsStep
<1> QED BY <1>5, <1>6, <1>7, <1>8, <1>9, <1>10, <1>11, <1>12, <1>13 DEF Next, GenStep

-----------------------------------------------------------------------------
(* A generation, and the scoring of one that went through *)

LEMMA GenStepHeld ==
    ASSUME Inv, GenStep
    PROVE  LET h == held'["gen"]
           IN  /\ h.kind # "none"
               /\ pc'["gen"] = "write" => h.sha # NoAnswer
               /\ pc'["gen"] = "record" /\ h.kind = "source" =>
                     sv'[slot["gen"]] # NoAnswer /\ sv'[slot["gen"]] = h.sha
               /\ \A i \in Slots \ {slot["gen"]} : sv'[i] = sv[i]
<1>1. TypeOK /\ HeldInv /\ GenerateInv
  BY DEF Inv
<1>2. held'["gen"].kind # "none"
  BY <1>1, GenHolds DEF GenerateInv
<1>3. CASE Skip
  BY <1>1, <1>2, <1>3, SkipIs, RecordIs DEF GenMoves, SaveAt
<1>4. CASE CallFailed
  BY <1>1, <1>2, <1>4, CallFailedIs DEF GenMoves
<1>5. CASE CallAnswered
  BY <1>1, <1>2, <1>5, CallAnsweredIs, RecordIs DEF GenMoves
<1>6. CASE UnlinkSource
  BY <1>1, <1>2, <1>6, UnlinkSourceIs DEF GenMoves, SaveAt, HeldInv, SourceBecomes
<1>7. CASE WriteSource
  BY <1>1, <1>2, <1>7, WriteSourceIs DEF GenMoves, GenerateInv, SourceBecomes
<1>8. CASE RunTaskRaised
  BY <1>1, <1>2, <1>8, RunTaskRaisedIs DEF GenMoves
<1> QED BY <1>3, <1>4, <1>5, <1>6, <1>7, <1>8 DEF GenStep

LEMMA GenerateStep ==
    ASSUME Inv, [Next]_vars
    PROVE  GenerateInv'
<1> USE DEF GenerateInv, Procs, Running, OthersStill, Still, Fixed, Intact
<1>1. /\ TypeOK /\ HeldInv /\ ControlInv /\ GenerateInv
      /\ slot["gen"] \in Slots
  BY DEF Inv, TypeOK
<1>2. CASE Still("gen") /\ UNCHANGED <<sv, pending>>
  BY <1>1, <1>2 DEF Done, Holding, Skips
<1>3. CASE pc'["gen"] \in {"off", "refused"}
  BY <1>3 DEF Holding
<1>4. ASSUME NEW m, NEW c, StartRun("gen", m, c) PROVE GenerateInv'
  <2>1. pc'["gen"] = "slot" /\ slot'["gen"] = 1
    BY <1>1, <1>4, StartIs DEF ControlInv
  <2>2. \A i \in Slots : ~Done("gen", i)'
    BY <2>1 DEF Done, Slots
  <2> QED BY <2>1, <2>2 DEF Holding
<1>5. CASE RunTask("gen") \/ Merge("gen") \/ SaveZero("gen")
  <2>1. /\ pc["gen"] \in {"run", "merge", "save"} /\ Fixed("gen")
        /\ held'["gen"] = held["gen"] /\ pc'["gen"] \in {"merge", "slot", "end"}
    BY <1>1, <1>5, RunTaskIs, MergeIs, SaveZeroIs DEF Advances
  <2>2. mode'["gen"] # "generate" /\ held["gen"].kind # "none"
    BY <1>1, <2>1 DEF ControlInv, Holding
  <2> QED BY <2>1, <2>2 DEF Holding
<1>6. CASE GenStep
  <2>1. /\ slot'["gen"] = slot["gen"] /\ Fixed("gen") /\ UNCHANGED pending
        /\ pc["gen"] \in {"slot", "unlink", "write", "run"}
        /\ pc'["gen"] \in {"unlink", "write", "record", "run", "save"}
    BY <1>1, <1>6, GenStepIs
  <2>2. \A i \in Slots : Done("gen", i)' => Done("gen", i) /\ i # slot["gen"]
    BY <1>1, <2>1 DEF Done, Slots
  <2>3. \A i \in Slots \ {slot["gen"]} : sv'[i] = sv[i]
    BY <1>6, GenStepHeld
  <2>4. mode["gen"] = "generate" => \A i \in Slots : Done("gen", i)' =>
          /\ Intact(i)'
          /\ pending'[i].official = cfg'["gen"].official
          /\ pending'[i].route = cfg'["gen"].route
          /\ pending'[i].kind = "skip" <=> Skips(cfg'["gen"], i)
    BY <1>1, <2>1, <2>2, <2>3 DEF Skips
  <2> QED BY <1>6, <2>1, <2>4, GenStepHeld DEF Skips
<1>7. CASE WritePending
  <2>1. /\ pc["gen"] = "record" /\ Advances("gen") /\ Fixed("gen")
        /\ pending'[slot["gen"]] = held["gen"] /\ UNCHANGED sv
        /\ \A i \in Slots \ {slot["gen"]} : pending'[i] = pending[i]
    BY <1>1, <1>7, WritePendingIs
  <2>2. \A i \in Slots : Done("gen", i)' => Done("gen", i) \/ i = slot["gen"]
    BY <1>1, <2>1, DoneAfter
  <2>3. mode["gen"] = "generate"
    BY <1>1, <2>1 DEF ControlInv
  <2>4. LET h == held["gen"]
        IN  /\ h.kind # "none" /\ h.official = cfg["gen"].official
            /\ h.route = cfg["gen"].route
            /\ h.kind = "skip" <=> Skips(cfg["gen"], slot["gen"])
            /\ h.kind = "source" => sv[slot["gen"]] # NoAnswer /\ sv[slot["gen"]] = h.sha
    BY <1>1, <2>1 DEF HeldInv, Holding
  <2>5. \A i \in Slots : Done("gen", i)' =>
          /\ Intact(i)'
          /\ pending'[i].official = cfg'["gen"].official
          /\ pending'[i].route = cfg'["gen"].route
          /\ pending'[i].kind = "skip" <=> Skips(cfg'["gen"], i)
    BY <1>1, <2>1, <2>2, <2>3, <2>4
  <2>6. pc'["gen"] \in {"slot", "end"}
    BY <2>1 DEF Advances
  <2> QED BY <2>5, <2>6 DEF Holding, Skips
<1>8. StartGen => GenerateInv'
  BY <1>4 DEF StartGen
<1>9. StartScore => Still("gen") /\ UNCHANGED <<sv, pending>>
  BY <1>1, StartIs DEF StartScore, files
<1>10. RunTask("score") \/ Merge("score") \/ SaveZero("score") \/ ReadPending
          => Still("gen") /\ UNCHANGED <<sv, pending>>
  BY <1>1, RunTaskIs, MergeIs, SaveZeroIs, ReadPendingIs DEF files
<1>11. Ends("score") => Still("gen") /\ UNCHANGED <<sv, pending>>
  BY DEF Ends
<1>12. Ends("gen") => pc'["gen"] \in {"off", "refused"}
  BY DEF Ends
<1>13. (\E p \in Procs : Stop(p) \/ WriteSummary(p)) \/ EndGenerate \/ RefusePending
          => GenerateInv'
  BY <1>1, <1>2, <1>3, <1>11, <1>12, EndsStep
<1>14. UNCHANGED vars => Still("gen") /\ UNCHANGED <<sv, pending>>
  BY DEF vars
<1> QED BY <1>2, <1>5, <1>6, <1>7, <1>8, <1>9, <1>10, <1>13, <1>14 DEF Next, GenStep

\* Every record of a generation that went through is accepted.
LEMMA CompleteIsAcceptable ==
    ASSUME Inv, base, pc["score"] = "slot"
    PROVE  Acceptable(slot["score"])
<1> DEFINE i == slot["score"]
<1>1. /\ CompleteInv /\ complete /\ Running("score") /\ i \in Slots /\ 1 \in Slots
  BY DEF Inv, CompleteInv, Running, TypeOK, Procs, Slots
<1>2. Exists(i) /\ SourceMatches(i) /\ SameMode(i) /\ SameRoute(i)
  BY <1>1 DEF CompleteInv, Intact, Exists, SourceMatches, SameMode, SameRoute
<1>3. SkippedAlike(i)
  <2> SUFFICES ASSUME i # FirstOf(i)
               PROVE  pending[i].kind = "skip" <=> recs["score"][FirstOf(i)] = "skip"
    BY DEF SkippedAlike
  <2>1. FirstOf(i) \in Slots /\ TaskOf[FirstOf(i)] = TaskOf[i] /\ FirstOf(i) <= i
    BY <1>1, FirstOfIs
  <2>2. Done("score", FirstOf(i))
    BY <1>1, <2>1 DEF Done, Slots
  <2> QED BY <1>1, <2>1, <2>2 DEF CompleteInv
<1> QED BY <1>2, <1>3 DEF Acceptable

LEMMA EndGenerateCompletes ==
    ASSUME Inv, EndGenerate
    PROVE  CompleteInv'
<1>1. pc["gen"] = "end" /\ mode["gen"] = "generate" /\ Running("gen")
  BY DEF EndGenerate, Running
<1>2. /\ GenerateInv /\ CompleteInv /\ TypeOK /\ ~complete /\ ~base
  BY <1>1 DEF Inv, CompleteInv
<1>3. \A i \in Slots :
          /\ Intact(i) /\ pending[i].official = cfg["gen"].official
          /\ pending[i].route = cfg["gen"].route
          /\ pending[i].kind = "skip" <=> Skips(cfg["gen"], i)
  BY <1>1, <1>2 DEF GenerateInv, Done
<1>4. /\ pc'["gen"] = "off" /\ UNCHANGED <<sv, pending>> /\ base' = base
  BY <1>2, EndsIs DEF Ends, Procs
<1>5. 1 \in Slots
  BY DEF Slots
<1>6. \A i \in Slots : Intact(i)' /\ pending'[i].official = pending'[1].official
                                  /\ pending'[i].route = pending'[1].route
  BY <1>3, <1>4, <1>5 DEF Intact
<1>7. \A i, j \in Slots : TaskOf[i] = TaskOf[j] =>
          (pending'[i].kind = "skip" <=> pending'[j].kind = "skip")
  BY <1>3, <1>4 DEF Skips
<1>8. ~Running("gen")' /\ ~base'
  BY <1>2, <1>4 DEF Running
<1> QED BY <1>6, <1>7, <1>8 DEF CompleteInv

LEMMA CompleteStep ==
    ASSUME Inv, [Next]_vars
    PROVE  CompleteInv'
<1> USE DEF Procs, Running, OthersStill, Still, Fixed
<1>1. /\ TypeOK /\ ControlInv /\ CompleteInv
      /\ slot["score"] \in Slots /\ recs["score"] \in [Slots -> Kinds]
      /\ "score" \in Procs /\ 1 \in Slots
  <2>1. TypeOK /\ ControlInv /\ CompleteInv
    BY DEF Inv
  <2>2. 1 \in Slots
    BY SlotAssumption DEF Slots
  <2> QED BY <2>1, <2>2 DEF TypeOK
<1> DEFINE Generated ==
      /\ ~Running("gen")
      /\ \A i \in Slots : Intact(i) /\ pending[i].official = pending[1].official
                                    /\ pending[i].route = pending[1].route
      /\ \A i, j \in Slots : TaskOf[i] = TaskOf[j] =>
            (pending[i].kind = "skip" <=> pending[j].kind = "skip")
\* Nothing is claimed while the generating process runs.
<1>2. CASE Running("gen") /\ UNCHANGED <<complete, base>>
  <2>1. ~complete' /\ ~base'
    BY <1>1, <1>2 DEF CompleteInv
  <2> QED BY <2>1 DEF CompleteInv
<1>3. CASE /\ UNCHANGED <<sv, pending, complete, base>> /\ Still("gen")
           /\ base => /\ pc'["score"] # "refused"
                      /\ Running("score")' =>
                          /\ cfg'["score"].official = pending[1].official
                          /\ route' \subseteq {pending[1].route}
                          /\ \A i \in Slots : Done("score", i)' =>
                                (recs'["score"][i] = "skip" <=> pending[i].kind = "skip")
                          /\ pc'["score"] \in Holding =>
                                held'["score"] = pending[slot'["score"]]
  <2>1. complete => Generated
    BY <1>1 DEF CompleteInv
  <2>2. complete' => Generated'
    BY <1>3, <2>1 DEF Intact
  <2>3. base' => complete' /\ pc'["score"] # "refused"
    BY <1>1, <1>3 DEF CompleteInv
  <2> QED BY <1>3, <2>2, <2>3 DEF CompleteInv
<1>4. CASE StartGen
  BY <1>4 DEF StartGen, CompleteInv
<1>5. CASE StartScore
  <2>1. PICK o \in BOOLEAN : /\ StartRun("score", "score", [NoConfig EXCEPT !.official = o])
                             /\ base' = (complete /\ pending[1].official = o)
    BY <1>5 DEF StartScore
  <2>2. [NoConfig EXCEPT !.official = o].official = o
    BY NoneTypes DEF Config
  <2>3. /\ ~Running("score") /\ pc'["score"] = "slot" /\ slot'["score"] = slot["score"]
        /\ cfg'["score"].official = o /\ Still("gen")
        /\ UNCHANGED <<sv, pending>>
    <3> DEFINE c == [NoConfig EXCEPT !.official = o]
    <3>1. StartRun("score", "score", c) /\ c.official = o
      BY <2>1, <2>2
    <3> HIDE DEF c
    <3>2. /\ ~Running("score") /\ pc'["score"] = "slot" /\ slot'["score"] = slot["score"]
          /\ cfg'["score"] = c /\ OthersStill("score") /\ UNCHANGED files
      BY <1>1, <3>1, StartIs
    <3> QED BY <3>1, <3>2 DEF files
  <2>4. slot'["score"] = 1 /\ route' = {} /\ complete' = complete
    BY <1>1, <1>5, <2>3 DEF ControlInv, StartScore
  <2>5. \A i \in Slots : ~Done("score", i)'
    BY <2>3, <2>4 DEF Done, Slots
  <2>6. complete' => Generated'
    BY <1>1, <2>3, <2>4 DEF CompleteInv, Intact
  <2> QED BY <2>1, <2>3, <2>4, <2>5, <2>6 DEF CompleteInv, Holding
<1>6. ASSUME NEW kind, Advances("score"), Fixed("score"), pc["score"] \in Holding,
             recs'["score"] = [recs["score"] EXCEPT ![slot["score"]] = kind],
             kind = held["score"].kind, Still("gen"),
             UNCHANGED <<sv, pending, complete, base, route>>
      PROVE  CompleteInv'
  <2>1. pc'["score"] \in {"slot", "end"}
    BY <1>6 DEF Advances
  <2>2. ASSUME base
        PROVE  /\ cfg'["score"].official = pending[1].official
               /\ route' \subseteq {pending[1].route}
               /\ \A i \in Slots : Done("score", i)' =>
                     (recs'["score"][i] = "skip" <=> pending[i].kind = "skip")
    <3>1. /\ cfg["score"].official = pending[1].official /\ route \subseteq {pending[1].route}
          /\ \A i \in Slots : Done("score", i) =>
                (recs["score"][i] = "skip" <=> pending[i].kind = "skip")
          /\ held["score"] = pending[slot["score"]]
      BY <1>1, <1>6, <2>2 DEF CompleteInv, Holding
    <3>2. \A i \in Slots : Done("score", i)' => Done("score", i) \/ i = slot["score"]
      BY <1>1, <1>6, DoneAfter DEF Holding
    <3>3. \A i \in Slots : recs'["score"][i] =
              IF i = slot["score"] THEN kind ELSE recs["score"][i]
      BY <1>1, <1>6
    <3> QED BY <1>6, <3>1, <3>2, <3>3
  <2> QED BY <1>3, <1>6, <2>1, <2>2 DEF Holding
<1>7. CASE RunTask("score")
  <2>1. /\ pc["score"] = "run" /\ pc'["score"] = "merge" /\ slot'["score"] = slot["score"]
        /\ Fixed("score") /\ held'["score"] = held["score"] /\ recs'["score"] = recs["score"]
        /\ Still("gen") /\ UNCHANGED <<sv, pending, complete, base, route>>
    BY <1>1, <1>7, RunTaskIs DEF ghosts
  <2> QED BY <1>1, <1>3, <2>1 DEF CompleteInv, Done, Holding
<1>8. CASE Merge("score")
  <2>1. /\ pc["score"] = "merge" /\ Advances("score") /\ Fixed("score")
        /\ recs'["score"] = [recs["score"] EXCEPT ![slot["score"]] = "source"]
        /\ Still("gen") /\ UNCHANGED <<sv, pending, complete, base, route>>
    BY <1>1, <1>8, MergeIs DEF ghosts
  <2>2. held["score"].kind = "source"
    BY <2>1 DEF Inv, HeldInv
  <2> QED BY <1>6, <2>1, <2>2 DEF Holding
<1>9. CASE SaveZero("score")
  <2>1. /\ pc["score"] = "save" /\ Advances("score") /\ Fixed("score")
        /\ recs'["score"] = [recs["score"] EXCEPT ![slot["score"]] = held["score"].kind]
        /\ Still("gen") /\ UNCHANGED <<sv, pending, complete, base, route>>
    BY <1>1, <1>9, SaveZeroIs DEF ghosts
  <2> QED BY <1>6, <2>1 DEF Holding
<1>10. CASE ReadPending
  <2> DEFINE r == pending[slot["score"]]
  <2>1. /\ pc["score"] = "slot" /\ pc'["score"] \in {"run", "save"}
        /\ slot'["score"] = slot["score"] /\ Fixed("score")
        /\ held'["score"] = r /\ route' = {r.route} /\ recs'["score"] = recs["score"]
        /\ Still("gen") /\ UNCHANGED <<sv, pending, complete, base>>
    BY <1>1, <1>10, ReadPendingIs DEF files, ghosts
  <2>2. base => r.route = pending[1].route
    BY <1>1 DEF CompleteInv
  <2> QED BY <1>1, <1>3, <2>1, <2>2 DEF CompleteInv, Done
<1>11. ASSUME Ends("score"), pc'["score"] = "refused" => ~base, UNCHANGED complete
       PROVE  CompleteInv'
  BY <1>3, <1>11 DEF Ends
<1>12. CASE RefusePending
  <2>1. ~base
    BY <1>12, CompleteIsAcceptable DEF RefusePending
  <2> QED BY <1>1, <1>11, <1>12, <2>1, EndsIs
<1>13. CASE Stop("score") \/ WriteSummary("score")
  BY <1>1, <1>11, <1>13, EndsIs
<1>14. CASE Stop("gen") \/ WriteSummary("gen") \/ RunTask("gen") \/ Merge("gen")
            \/ SaveZero("gen") \/ GenStep \/ WritePending
  <2>1. Stop("gen") \/ WriteSummary("gen") => Running("gen") /\ UNCHANGED <<complete, base>>
    BY DEF Stop, WriteSummary, ghosts
  <2>2. RunTask("gen") \/ Merge("gen") \/ SaveZero("gen") \/ GenStep \/ WritePending
            => Running("gen") /\ UNCHANGED <<complete, base>>
    BY <1>1, RunTaskIs, MergeIs, SaveZeroIs, GenStepIs, WritePendingIs DEF ghosts
  <2> QED BY <1>2, <1>14, <2>1, <2>2
<1>15. CASE UNCHANGED vars
  BY <1>1, <1>15 DEF vars, CompleteInv, Intact, Done
<1> QED BY <1>4, <1>5, <1>7, <1>8, <1>9, <1>10, <1>12, <1>13, <1>14, <1>15,
           EndGenerateCompletes DEF Next, GenStep

-----------------------------------------------------------------------------
(* The theorems *)

LEMMA InvInit == Init => Inv
<1> SUFFICES ASSUME Init PROVE Inv
  OBVIOUS
<1>1. TypeOK
  BY TypeInit
<1>2. /\ \A p \in Procs : /\ pc[p] = "off" /\ mode[p] = "score" /\ slot[p] = 1
                          /\ held[p] = NoPending
      /\ \A i \in Slots : pending[i] = NoPending /\ manifest[i] = NoManifest
      /\ summary.by = 0 /\ route = {} /\ runs = 0 /\ ~complete /\ ~base
  BY DEF Init, NoSummary
<1>3. /\ NoPending.kind = "none" /\ NoManifest.kind = "none" /\ NoManifest.made = NoPending
      /\ NoManifest.by = 0 /\ NoManifest.src = NoPending.sha
  BY DEF NoPending, NoManifest
<1>4. ControlInv /\ NumbersInv
  BY <1>2, <1>3 DEF ControlInv, NumbersInv, Running, Procs
<1>5. RecordsInv
  BY <1>2, <1>3 DEF RecordsInv, Sound
<1>6. HeldInv /\ RunInv /\ SkipsInv /\ SummaryInv
  BY <1>2 DEF HeldInv, RunInv, SkipsInv, SummaryInv, Running, Procs, Holding
<1>7. OwnInv /\ GenerateInv /\ CompleteInv
  BY <1>2, <1>3 DEF OwnInv, GenerateInv, CompleteInv, Running, Procs, Holding
<1> QED BY <1>1, <1>4, <1>5, <1>6, <1>7 DEF Inv

LEMMA Invariance == Spec => []Inv
<1>1. Inv /\ [Next]_vars => Inv'
  <2> SUFFICES ASSUME Inv, [Next]_vars PROVE Inv'
    OBVIOUS
  <2>1. TypeOK'
    BY TypeStep DEF Inv
  <2> QED BY <2>1, ControlStep, NumbersStep, RecordsStep, HeldStep, RunStep, SkipsStep,
             SummaryStep, OwnStep, GenerateStep, CompleteStep DEF Inv
<1> QED BY InvInit, <1>1, PTL DEF Spec

\* The files, the two processes and the history keep their types.
THEOREM TypeCorrect == Spec => []TypeOK
<1>1. Inv => TypeOK
  BY DEF Inv
<1> QED BY Invariance, <1>1, PTL

\* score_pending_samples, eval_model: with one process after the other, a
\* manifest that credits a campaign with a submission credits it with the one its
\* own pending record is of, wherever earlier campaigns were interrupted.
THEOREM AnswersAreOwn == Spec => []ScoredItsOwnAnswer
<1>1. Inv => ScoredItsOwnAnswer
  BY DEF Inv, OwnInv, ScoredItsOwnAnswer
<1> QED BY Invariance, <1>1, PTL

\* _load_summary: what the site accepts was generated in the mode and on the
\* route the summary names, also when two processes work in one directory.
THEOREM PublishedIsOfOneKind == Spec => []PublishedIsUniform
<1>1. Inv => PublishedIsUniform
  BY DEF Inv, SummaryInv, PublishedIsUniform, Loaded
<1> QED BY Invariance, <1>1, PTL

\* The OFFICIAL badge: every sample behind it was generated in an official
\* campaign, of a task that had passed the review gate at the time.
THEOREM BadgeMeansReviewed == Spec => []OfficialMeansReviewed
<1>1. ASSUME Inv, Official, NEW i \in Slots
      PROVE  manifest[i].made.official /\ manifest[i].made.reviewed
  <2>1. /\ summary.official /\ summary.by # 0
        /\ manifest[i].kind # "none" /\ manifest[i].kind # "skip"
        /\ manifest[i].by = summary.by /\ manifest[i].final
    BY <1>1 DEF Official, Loaded
  <2>2. manifest[i].made.official
    BY <1>1, <2>1 DEF Inv, SummaryInv
  <2>3. manifest[i].made.kind \in {"error", "source"}
    BY <1>1, <2>1 DEF Inv, RecordsInv, TypeOK, Manifest, Kinds
  <2> QED BY <1>1, <2>2, <2>3 DEF Inv, RecordsInv, Sound
<1>2. Inv => OfficialMeansReviewed
  BY <1>1 DEF OfficialMeansReviewed
<1> QED BY Invariance, <1>2, PTL

\* A task that the summary leaves out of the mean has no scored sample, and a
\* task in the mean has no skipped one, for any number of samples per task.
THEOREM TasksAreSkippedAsAWhole == Spec => []SkippedAsAWhole
<1>1. Inv => SkippedAsAWhole
  BY DEF Inv, SummaryInv, SkippedAsAWhole, Loaded
<1> QED BY Invariance, <1>1, PTL

\* score_pending_samples never refuses what a generate_model_samples that went
\* through has left, as long as no other generation has been started since.
THEOREM GenerationsAreScorable == Spec => []CompleteGenerationIsScorable
<1>1. Inv => CompleteGenerationIsScorable
  BY DEF Inv, CompleteInv, CompleteGenerationIsScorable
<1> QED BY Invariance, <1>1, PTL

=============================================================================
