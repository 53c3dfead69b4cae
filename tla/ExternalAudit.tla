--------------------------- MODULE ExternalAudit ----------------------------
(***************************************************************************)
(* The external mutation audit: fetch_vendor.py checks a pinned revision   *)
(* of RTLLM out and records its hash, sweep_rtllm.py makes a catalog of    *)
(* the designs whose testbench accepts their golden source, run_audit.py   *)
(* mutates the catalogued designs, package_results.py attests that a       *)
(* sample was reproduced, and generate_audit_appendix.py accepts the       *)
(* reports for the paper.                                                  *)
(*                                                                         *)
(* The five programs hand files to each other and run one by one or at the *)
(* same time; any of them may die, and the vendor's tree may be edited or  *)
(* fetched again under them.  A hash of the tree is the tree itself; a     *)
(* design's content, golden source and testbench, is the revision it       *)
(* comes from, or Edited.                                                  *)
(***************************************************************************)
EXTENDS Naturals, FiniteSets

CONSTANTS
    NDesigns,    \* designs are audited in order of their names
    Mutants,     \* what generate_mutants makes of a golden source
    Caught,      \* Caught[d, c]: the mutants that d's testbench in content c fails
    Flags,       \* language generations of Icarus
    PaperFlag,   \* the one the paper reports
    Accepted,    \* the <<d, c, flag>> whose golden source passes
    Seeds,
    Requests,    \* the <<out, ds>> for which an audit may be started
    Nothing,     \* no such file, process or field
    Torn,        \* a file whose writer died
    MaxPin,      \* bound of the revisions
    Budgets      \* bounds: how often the actions of each kind may be taken

Designs == 1 .. NDesigns
Edited == 0
Revisions == 1 .. MaxPin
Contents == {Edited} \cup Revisions
Tree == [Designs -> Contents]
Outs == {"final", "redo"}
Kinds == {"edits", "fetches", "sweeps", "audits", "packagings", "crashes"}
Conditions == [seed : Seeds, flag : Flags]

ASSUME SizeAssumption ==
    /\ NDesigns \in Nat \ {0} /\ MaxPin \in Nat \ {0}
    /\ Budgets \subseteq [Kinds -> Nat]
ASSUME DesignAssumption ==
    /\ Caught \in [Designs \X Contents -> SUBSET Mutants]
    /\ Accepted \subseteq Designs \X Contents \X Flags
    /\ PaperFlag \in Flags
    /\ Requests \subseteq Outs \X (SUBSET Designs \ {{}})
ASSUME FileAssumption == Torn # Nothing /\ Nothing \notin Flags

VARIABLES
    pin,         \* the revision fetch_vendor.py names
    tree,        \* the vendor's files
    lock,        \* provenance.lock.json
    fetch, sweep, audit, package,   \* the processes
    catalog,     \* sweep_report.json
    reports,     \* reports[out][d]
    summary,     \* summary[out]
    copies,      \* copies[out][d], the determinism sample
    metadata,    \* determinism.json: the designs it names
    attested,    \* history: copies and metadata are those of a packaging that went
                 \* through, under which no report was written
    left         \* what is left of the budget

procs == <<fetch, sweep, audit, package>>
results == <<reports, summary>>
packaged == <<copies, metadata, attested>>
vars == <<pin, tree, lock, procs, catalog, results, packaged, left>>

\* What a file states of its audit: files that are older than the field
\* generation_flag state no flag.
Stated == [seed : Seeds, flag : Flags \cup {Nothing}]

\* Of a report, the rest is history: the contents it was made from, the flag it was
\* made under, the audit that made it (0 if committed), whether the tree had changed under that
\* audit, and whether what its catalog was made from had.
Report == [status : {"audited", "unsupported"}, cond : Stated, commit : Revisions,
           killed : SUBSET Mutants, survived : SUBSET Mutants, undecided : SUBSET Mutants,
           seen : SUBSET Contents, ran : Flags, by : Nat,
           changed : BOOLEAN, dubious : BOOLEAN]

Bytes(r) == <<r.status, r.cond, r.commit, r.killed, r.survived, r.undecided>>
Files == {"audited", "unsupported"} \X Stated \X Revisions
             \X (SUBSET Mutants) \X (SUBSET Mutants) \X (SUBSET Mutants)

\* A packaging has sampled some designs and stands before its next file; disturbed
\* is history: a report was written under it.
Packaging == [sampled : SUBSET Designs, next : {"final", "redo", "metadata"},
              disturbed : BOOLEAN]

ASSUME NothingAssumption ==
    Nothing \notin Files /\ Torn \notin Files /\ Nothing \notin Packaging

Readable(f) == f \notin {Nothing, Torn}

Of(rev) == [d \in Designs |-> rev]

NoFiles == [out \in Outs |-> [d \in Designs |-> Nothing]]

\* A report of the campaign that is committed, all of it made under one flag.
CommittedReport(d, seed, flag) ==
    LET passes == <<d, 1, flag>> \in Accepted
    IN  [status |-> IF passes THEN "audited" ELSE "unsupported",
         cond |-> [seed |-> seed, flag |-> Nothing], commit |-> 1,
         killed |-> IF passes THEN Mutants \cap Caught[d, 1] ELSE {},
         survived |-> IF passes THEN Mutants \ Caught[d, 1] ELSE {}, undecided |-> {},
         seen |-> {1}, ran |-> flag, by |-> 0, changed |-> FALSE, dubious |-> FALSE]

\* Lock, catalog, reports, samples and metadata of a sample are in the repository.
CommittedCampaign(seed, flag) ==
    LET audited == {d \in Designs : <<d, 1, flag>> \in Accepted}
    IN  /\ lock = [rev |-> 1, content |-> Of(1), tainted |-> FALSE]
        /\ catalog = [commit |-> 1, content |-> Of(1), runnable |-> audited, tainted |-> FALSE]
        /\ metadata \in {ds \in SUBSET audited : Cardinality(ds) = 1}
        /\ reports = [out \in Outs |-> [d \in Designs |->
              IF out = "final" \/ d \in metadata THEN CommittedReport(d, seed, flag) ELSE Nothing]]
        /\ copies = [out \in Outs |-> [d \in Designs |->
              IF d \in metadata THEN Bytes(CommittedReport(d, seed, flag)) ELSE Nothing]]
        /\ summary = [out \in Outs |-> IF out = "redo" THEN Nothing ELSE
              [cond |-> [seed |-> seed, flag |-> Nothing], commit |-> 1, requested |-> NDesigns,
               audited |-> Cardinality(audited), by |-> 0, refetched |-> FALSE]]
        /\ attested = TRUE

\* A clone of the repository, seen through one of the campaigns in it (there is one
\* of each flag, in directories of their own); the vendor's files are not in it.
Init ==
    /\ pin = 1
    /\ tree = Of(Edited)
    /\ \E seed \in Seeds, flag \in Flags : CommittedCampaign(seed, flag)
    /\ fetch = Nothing /\ sweep = Nothing /\ audit = Nothing /\ package = Nothing
    /\ left \in Budgets

Use(kind) ==
    /\ left[kind] > 0
    /\ left' = [left EXCEPT ![kind] = @ - 1]

-----------------------------------------------------------------------------
(* The vendor's tree *)

\* The processes that read the tree remember, as history, how it changed.
Notice(how) ==
    /\ sweep' = IF sweep = Nothing \/ how = "edited" THEN sweep
                ELSE [sweep EXCEPT !.refetched = TRUE]
    /\ audit' = IF audit = Nothing THEN audit
                ELSE [audit EXCEPT !.changed = TRUE, !.refetched = @ \/ how = "fetched"]

\* Somebody edits a design; the tree is read-only only where chmod can make it so.
EditTree(d) ==
    /\ Use("edits")
    /\ tree' = [tree EXCEPT ![d] = Edited]
    /\ Notice("edited")
    /\ fetch' = IF fetch = Nothing THEN fetch ELSE [fetch EXCEPT !.tainted = TRUE]
    /\ UNCHANGED <<pin, lock, package, catalog, results, packaged>>

\* _checkout: a forced checkout of the pinned revision, verified and made read-only.
\* A later revision may have been pinned since the last time.
Checkout ==
    /\ fetch = Nothing
    /\ Use("fetches")
    /\ pin' \in {rev \in Revisions : pin <= rev}
    /\ tree' = Of(pin')
    /\ fetch' = [rev |-> pin', tainted |-> FALSE]
    /\ Notice("fetched")
    /\ UNCHANGED <<lock, package, catalog, results, packaged>>

\* The tree is hashed and the lock file written.
RecordProvenance ==
    /\ fetch # Nothing
    /\ lock' = [rev |-> fetch.rev, content |-> tree, tainted |-> fetch.tainted]
    /\ fetch' = Nothing
    /\ UNCHANGED <<pin, tree, sweep, audit, package, catalog, results, packaged, left>>

-----------------------------------------------------------------------------
(* The sweep *)

\* The golden source, its top module renamed for the testbench where needed,
\* compiles and makes the testbench print its pass line.
GoldenPasses(d, flag) == <<d, tree[d], flag>> \in Accepted

\* The tree must have the hash in the lock file.
StartSweep(flag) ==
    /\ sweep = Nothing
    /\ Readable(lock) /\ tree = lock.content
    /\ Use("sweeps")
    /\ sweep' = [flag |-> flag, lock |-> lock, at |-> 1, runnable |-> {}, refetched |-> FALSE]
    /\ UNCHANGED <<pin, tree, lock, fetch, audit, package, catalog, results, packaged>>

\* sweep_design: compiled and run once.  A timeout makes any design unsupported.
SweepDesign ==
    /\ sweep # Nothing /\ sweep.at \in Designs
    /\ \/ /\ GoldenPasses(sweep.at, sweep.flag)
          /\ sweep' = [sweep EXCEPT !.at = @ + 1, !.runnable = @ \cup {sweep.at}]
       \/ sweep' = [sweep EXCEPT !.at = @ + 1]
    /\ UNCHANGED <<pin, tree, lock, fetch, audit, package, catalog, results, packaged, left>>

\* The catalog is written if the tree is still what it was.
FinishSweep ==
    /\ sweep # Nothing /\ sweep.at \notin Designs
    /\ IF tree = sweep.lock.content
       THEN catalog' = [commit |-> sweep.lock.rev, content |-> sweep.lock.content,
                        runnable |-> sweep.runnable,
                        tainted |-> sweep.refetched \/ sweep.lock.tainted]
       ELSE UNCHANGED catalog
    /\ sweep' = Nothing
    /\ UNCHANGED <<pin, tree, lock, fetch, audit, package, results, packaged, left>>

-----------------------------------------------------------------------------
(* The audit *)

First(ds) == CHOOSE d \in ds : \A e \in ds : d <= e

\* Nothing is known yet of the next design.
Unmeasured == [status |-> "unsupported", killed |-> {}, survived |-> {}, undecided |-> {}]

\* Mutant: the tree's hash is not compared with the catalog's.
StartAuditUnchecked(out, cond, ds) ==
    /\ audit = Nothing
    /\ Readable(catalog)
    /\ Use("audits")
    /\ audit' = [out |-> out, cond |-> cond, requested |-> Cardinality(ds), todo |-> ds,
                 catalog |-> catalog, before |-> tree, phase |-> "baseline", mutants |-> {},
                 result |-> Unmeasured, seen |-> {}, audited |-> 0,
                 by |-> left.audits, changed |-> FALSE, refetched |-> FALSE]
    /\ UNCHANGED <<pin, tree, lock, fetch, sweep, package, catalog, results, packaged>>

\* run_rtllm_audit on all designs or some; the tree must have the catalog's hash.
StartAudit(out, cond, ds) ==
    /\ audit = Nothing
    /\ Readable(catalog) /\ tree = catalog.content
    /\ Use("audits")
    /\ audit' = [out |-> out, cond |-> cond, requested |-> Cardinality(ds), todo |-> ds,
                 catalog |-> catalog, before |-> tree, phase |-> "baseline", mutants |-> {},
                 result |-> Unmeasured, seen |-> {}, audited |-> 0,
                 by |-> left.audits, changed |-> FALSE, refetched |-> FALSE]
    /\ UNCHANGED <<pin, tree, lock, fetch, sweep, package, catalog, results, packaged>>

Subject == First(audit.todo)

\* audit_design runs the golden source first.  If the catalog does not call the
\* design runnable, or the run fails or times out, the design is unsupported.
Baseline ==
    /\ audit # Nothing /\ audit.phase = "baseline" /\ audit.todo # {}
    /\ \/ audit' = [audit EXCEPT !.phase = "report", !.seen = {tree[Subject]}]
       \/ /\ Subject \in audit.catalog.runnable
          /\ GoldenPasses(Subject, audit.cond.flag)
          /\ audit' = [audit EXCEPT !.phase = "mutants", !.seen = {tree[Subject]},
                       !.mutants = Mutants, !.result.status = "audited"]
    /\ UNCHANGED <<pin, tree, lock, fetch, sweep, package, catalog, results, packaged, left>>

\* The testbench and its support files are copied from the tree for each run; a
\* mutant whose top module cannot be renamed fails as well.
Fails(m) == m \in Caught[Subject, tree[Subject]]

\* Mutant: a timeout is a kill.
JudgeTimeoutAsKill(m) ==
    /\ audit' = [audit EXCEPT !.mutants = @ \ {m}, !.seen = @ \cup {tree[Subject]},
                              !.result.killed = @ \cup {m}]
    /\ UNCHANGED <<pin, tree, lock, fetch, sweep, package, catalog, results, packaged, left>>

\* _mutant_verdict: a mutant that times out has a second run, which alone decides;
\* it is undecided if that times out too.
JudgeMutant(m) ==
    /\ \/ /\ Fails(m)
          /\ audit' = [audit EXCEPT !.mutants = @ \ {m}, !.seen = @ \cup {tree[Subject]},
                                    !.result.killed = @ \cup {m}]
       \/ /\ ~Fails(m)
          /\ audit' = [audit EXCEPT !.mutants = @ \ {m}, !.seen = @ \cup {tree[Subject]},
                                    !.result.survived = @ \cup {m}]
       \/ audit' = [audit EXCEPT !.mutants = @ \ {m}, !.seen = @ \cup {tree[Subject]},
                                 !.result.undecided = @ \cup {m}]
    /\ UNCHANGED <<pin, tree, lock, fetch, sweep, package, catalog, results, packaged, left>>

RunMutant ==
    /\ audit # Nothing /\ audit.phase = "mutants"
    /\ \E m \in audit.mutants : JudgeMutant(m)

ReportOf(a) ==
    [status |-> a.result.status, cond |-> a.cond, commit |-> a.catalog.commit,
     killed |-> a.result.killed, survived |-> a.result.survived,
     undecided |-> a.result.undecided,
     seen |-> a.seen, ran |-> a.cond.flag, by |-> a.by, changed |-> a.changed,
     dubious |-> a.catalog.tainted]

\* A packaging under way may not notice a report that is written.
Disturb ==
    package' = IF package = Nothing THEN package ELSE [package EXCEPT !.disturbed = TRUE]

ReportIsDue ==
    audit.phase = "report" \/ (audit.phase = "mutants" /\ audit.mutants = {})

\* The report is written at once, over that of an earlier audit.
WriteReport ==
    /\ audit # Nothing /\ ReportIsDue
    /\ reports' = [reports EXCEPT ![audit.out][Subject] = ReportOf(audit)]
    /\ audit' = [audit EXCEPT !.todo = @ \ {Subject}, !.phase = "baseline",
                 !.result = Unmeasured, !.seen = {},
                 !.audited = @ + (IF audit.result.status = "audited" THEN 1 ELSE 0)]
    /\ Disturb
    /\ UNCHANGED <<pin, tree, lock, fetch, sweep, catalog, summary, packaged, left>>

\* After all designs the tree is hashed again; if it has changed there is no
\* summary, but the reports stay.
FinishAudit ==
    /\ audit # Nothing /\ audit.todo = {}
    /\ IF tree = audit.before
       THEN summary' = [summary EXCEPT ![audit.out] =
                [cond |-> audit.cond, commit |-> audit.catalog.commit,
                 requested |-> audit.requested, audited |-> audit.audited,
                 by |-> audit.by, refetched |-> audit.refetched]]
       ELSE UNCHANGED summary
    /\ audit' = Nothing
    /\ UNCHANGED <<pin, tree, lock, fetch, sweep, package, catalog, reports, packaged, left>>

-----------------------------------------------------------------------------
(* The packaging *)

\* _load_reports wants every design's report, of whatever audit.
ReportsLoad == \A d \in Designs : Readable(reports["final"][d])

Eligible == {d \in Designs : reports["final"][d].status = "audited"}

\* A fifth of the audited designs, drawn with the seed.
Sample ==
    LET size == IF Cardinality(Eligible) < 10 THEN 1 ELSE Cardinality(Eligible) \div 5
    IN  CHOOSE ds \in SUBSET Eligible : Cardinality(ds) = size

\* Mutant: reports are compared by their status only.
ReproducedByStatus(d) ==
    Readable(reports["redo"][d]) /\ reports["redo"][d].status = reports["final"][d].status

Reproduced(d) ==
    Readable(reports["redo"][d]) /\ Bytes(reports["redo"][d]) = Bytes(reports["final"][d])

StartPackaging(seed) ==
    /\ package = Nothing
    /\ Use("packagings")
    /\ ReportsLoad
    /\ Readable(summary["final"]) /\ summary["final"].cond.seed = seed
    /\ Eligible # {}
    /\ \A d \in Sample : Reproduced(d)
    /\ package' = [sampled |-> Sample, next |-> "final", disturbed |-> FALSE]
    /\ UNCHANGED <<pin, tree, lock, fetch, sweep, audit, catalog, results, packaged>>

\* The bytes of a file, torn or not.
Copy(f) == IF Readable(f) THEN Bytes(f) ELSE f

\* _sync_sample: other copies are removed, the sampled reports read again.
SyncSample(out) ==
    /\ package # Nothing /\ package.next = out
    /\ copies' = [copies EXCEPT ![out] =
          [d \in Designs |-> IF d \in package.sampled THEN Copy(reports[out][d]) ELSE Nothing]]
    /\ package' = [package EXCEPT !.next = IF out = "final" THEN "redo" ELSE "metadata"]
    /\ attested' = FALSE
    /\ UNCHANGED <<pin, tree, lock, fetch, sweep, audit, catalog, results, metadata, left>>

WriteMetadata ==
    /\ package # Nothing /\ package.next = "metadata"
    /\ metadata' = package.sampled
    /\ attested' = ~package.disturbed
    /\ package' = Nothing
    /\ UNCHANGED <<pin, tree, lock, fetch, sweep, audit, catalog, results, copies, left>>

-----------------------------------------------------------------------------
(* The appendix *)

\* _validate_design and _validate_summary: one seed and commit, all designs; and
\* either all files state the paper's flag, or none states any.
RowsAgree(rows, sum) ==
    /\ \A d \in Designs : rows[d].cond = sum.cond /\ rows[d].commit = sum.commit
    /\ sum.cond.flag \in {Nothing, PaperFlag}
    /\ sum.requested = NDesigns
    /\ sum.audited = Cardinality({d \in Designs : rows[d].status = "audited"})

\* load_designs refuses everything else.  It reads the files one by one, which is
\* taken as one step; nothing is kept of an appendix but the text.
AppendixAccepts ==
    /\ \A d \in Designs : Readable(reports["final"][d])
    /\ Readable(summary["final"])
    /\ RowsAgree(reports["final"], summary["final"])

-----------------------------------------------------------------------------
(* A process dies; the file it was writing may be torn. *)

CrashFetch ==
    /\ fetch # Nothing
    /\ Use("crashes")
    /\ fetch' = Nothing
    /\ lock' \in {lock, Torn}
    /\ UNCHANGED <<pin, tree, sweep, audit, package, catalog, results, packaged>>

CrashSweep ==
    /\ sweep # Nothing
    /\ Use("crashes")
    /\ sweep' = Nothing
    /\ catalog' = catalog \/ (sweep.at \notin Designs /\ catalog' = Torn)
    /\ UNCHANGED <<pin, tree, lock, fetch, audit, package, results, packaged>>

CrashAudit ==
    /\ audit # Nothing
    /\ Use("crashes")
    /\ \/ UNCHANGED <<results, package>>
       \/ /\ ReportIsDue
          /\ reports' = [reports EXCEPT ![audit.out][Subject] = Torn]
          /\ Disturb
          /\ UNCHANGED summary
       \/ /\ audit.todo = {}
          /\ summary' = [summary EXCEPT ![audit.out] = Torn]
          /\ UNCHANGED <<reports, package>>
    /\ audit' = Nothing
    /\ UNCHANGED <<pin, tree, lock, fetch, sweep, catalog, packaged>>

\* The sample it was copying may be torn (here, all of it), or the metadata, which
\* then name no design; else those of an earlier packaging stay beside what this
\* one has copied.
CrashPackaging ==
    /\ package # Nothing
    /\ Use("crashes")
    /\ \/ UNCHANGED packaged
       \/ /\ package.next \in Outs
          /\ copies' = [copies EXCEPT ![package.next] = [d \in Designs |-> Torn]]
          /\ attested' = FALSE
          /\ UNCHANGED metadata
       \/ /\ package.next = "metadata"
          /\ metadata' = {}
          /\ UNCHANGED <<copies, attested>>
    /\ package' = Nothing
    /\ UNCHANGED <<pin, tree, lock, fetch, sweep, audit, catalog, results>>

Next ==
    \/ \E d \in Designs : EditTree(d)
    \/ Checkout \/ RecordProvenance
    \/ \E flag \in Flags : StartSweep(flag)
    \/ SweepDesign \/ FinishSweep
    \/ \E r \in Requests, cond \in Conditions : StartAudit(r[1], cond, r[2])
    \/ Baseline \/ RunMutant \/ WriteReport \/ FinishAudit
    \/ \E seed \in Seeds : StartPackaging(seed)
    \/ \E out \in Outs : SyncSample(out)
    \/ WriteMetadata
    \/ CrashFetch \/ CrashSweep \/ CrashAudit \/ CrashPackaging

Spec == Init /\ [][Next]_vars

-----------------------------------------------------------------------------
(* Properties *)

\* What is written down as a report of a commit was measured on that commit's
\* files, golden source and testbench alike, through lock, catalog and reports,
\* however the tree was edited, pinned and fetched.  Excepted are reports under
\* whose audit the tree had changed (they are written before it looks again), and
\* those that rest on a tree that was edited after its checkout was verified and
\* before it was hashed, or was changed and restored under the sweep.
ReportsAreOfTheirCommit ==
    \A out \in Outs, d \in Designs :
        LET r == reports[out][d]
        IN  Readable(r) /\ ~r.changed /\ ~r.dubious => r.seen = {r.commit}

\* Verdicts that are true of design d of a commit.
Earned(d, commit, flag, r) ==
    r.status = "audited" =>
        /\ <<d, commit, flag>> \in Accepted
        /\ r.killed \subseteq Caught[d, commit]
        /\ r.survived \cap Caught[d, commit] = {}

\* A report made while the tree was edited is in the appendix only beside the
\* summary of another audit, or if the tree was fetched again before its own ended.
Undetected(r, sum) == r.changed /\ (r.by # sum.by \/ sum.refetched)

\* What the paper's appendix shows is of one commit, made under the paper's flag
\* unless none of its files states a flag, and earned: designs called audited pass
\* under the flag they were run with, mutants called killed fail and those called
\* surviving pass.  An edit of the tree under the audit that the summary is of is
\* no excuse.
AppendixIsEarned ==
    AppendixAccepts =>
        \A d \in Designs :
            LET r == reports["final"][d]
            IN  /\ r.commit = reports["final"][1].commit
                /\ (\A e \in Designs : reports["final"][e].cond.flag = Nothing)
                      \/ r.ran = PaperFlag
                /\ ~Undetected(r, summary["final"]) /\ ~r.dubious =>
                     Earned(d, r.commit, r.ran, r)

\* When a packaging has gone through and no report was written under it, whatever
\* earlier packagings left when they died and whatever was audited since, the two
\* samples hold the designs that determinism.json names and no others, and are the
\* same.  From its first copy on until one goes through, nothing is promised.
SampleIsReproduced ==
    attested =>
        /\ metadata # {}
        /\ \A d \in Designs :
              /\ copies["final"][d] = copies["redo"][d]
              /\ copies["final"][d] # Torn
              /\ (copies["final"][d] # Nothing) <=> d \in metadata
=============================================================================
