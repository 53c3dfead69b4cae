------------------------ MODULE ExternalAuditProofs -------------------------
(***************************************************************************)
(* Proofs about module ExternalAudit: reports are of the commit they name, *)
(* and what the appendix of the paper accepts is earned on that commit,    *)
(* for any designs, mutants, revisions, edits and crashes.                 *)
(***************************************************************************)
EXTENDS ExternalAudit, FiniteSetTheorems, WellFoundedInduction, TLAPS

-----------------------------------------------------------------------------
(* Types *)

Locks == [rev : Revisions, content : Tree, tainted : BOOLEAN]
Fetches == [rev : Revisions, tainted : BOOLEAN]
Catalogs == [commit : Revisions, content : Tree, runnable : SUBSET Designs, tainted : BOOLEAN]
Sweeps == [flag : Flags, lock : Locks, at : Nat, runnable : SUBSET Designs, refetched : BOOLEAN]
Results == [status : {"audited", "unsupported"}, killed : SUBSET Mutants,
            survived : SUBSET Mutants, undecided : SUBSET Mutants]
Audits ==
    [out : Outs, cond : Conditions, requested : Nat, todo : SUBSET Designs, catalog : Catalogs,
     before : Tree, phase : {"baseline", "mutants", "report"}, mutants : SUBSET Mutants,
     result : Results, seen : SUBSET Contents, audited : Nat,
     by : Nat, changed : BOOLEAN, refetched : BOOLEAN]

TypeOK ==
    /\ pin \in Revisions
    /\ tree \in Tree
    /\ Readable(lock) => lock \in Locks
    /\ fetch # Nothing => fetch \in Fetches
    /\ sweep # Nothing => sweep \in Sweeps
    /\ Readable(catalog) => catalog \in Catalogs
    /\ audit # Nothing => audit \in Audits
    /\ reports \in [Outs -> [Designs -> Report \cup {Nothing, Torn}]]

-----------------------------------------------------------------------------
(* The inductive invariant *)

\* From the checkout to the catalog: what is untainted is one revision throughout.
ProvenanceInv ==
    /\ fetch # Nothing /\ ~fetch.tainted => tree = Of(fetch.rev)
    /\ Readable(lock) /\ ~lock.tainted => lock.content = Of(lock.rev)
    /\ sweep # Nothing /\ ~sweep.lock.tainted => sweep.lock.content = Of(sweep.lock.rev)
    /\ Readable(catalog) /\ ~catalog.tainted => catalog.content = Of(catalog.commit)

\* An audit under which nothing changed has measured its catalog's commit.
AuditInv ==
    audit # Nothing =>
        /\ audit.phase # "baseline" => audit.todo # {}
        /\ audit.phase = "baseline" => audit.result = Unmeasured
        /\ audit.phase = "report" => audit.result.status = "unsupported"
        /\ ~audit.changed /\ ~audit.catalog.tainted =>
             /\ tree = Of(audit.catalog.commit)
             /\ audit.phase # "baseline" =>
                  /\ audit.seen = {audit.catalog.commit}
                  /\ Earned(Subject, audit.catalog.commit, audit.cond.flag, audit.result)

\* A report made while nothing had changed is true; one that states a flag states
\* the one it was made under.
ReportIsTrue(d, r) ==
    /\ r.cond.flag # Nothing => r.ran = r.cond.flag
    /\ ~r.changed /\ ~r.dubious => r.seen = {r.commit} /\ Earned(d, r.commit, r.ran, r)

ReportInv ==
    \A out \in Outs, d \in Designs :
        Readable(reports[out][d]) => ReportIsTrue(d, reports[out][d])

\* What is left of the budget.
BudgetOK == left \in [Kinds -> Nat]

Inv == TypeOK /\ ProvenanceInv /\ AuditInv /\ ReportInv

LEMMA FirstOfDesigns ==
    ASSUME NEW ds \in SUBSET Designs, ds # {}
    PROVE  First(ds) \in ds
<1>1. ds \subseteq Nat
  BY SizeAssumption DEF Designs
<1>2. \E d \in ds : \A e \in ds : ~ <<e, d>> \in OpToRel(<, Nat)
  BY <1>1, NatLessThanWellFounded, WFMin, Zenon
<1>3. PICK d \in ds : \A e \in ds : ~ <<e, d>> \in OpToRel(<, Nat)
  BY <1>2
<1>4. \A e \in ds : d <= e
  <2> SUFFICES ASSUME NEW e \in ds, ~(d <= e) PROVE FALSE
    OBVIOUS
  <2>1. e \in Nat /\ d \in Nat /\ e < d
    BY <1>1
  <2>2. <<e, d>> \in {ss \in Nat \X Nat : ss[1] < ss[2]}
    BY <2>1
  <2>3. OpToRel(<, Nat) = {ss \in Nat \X Nat : ss[1] < ss[2]}
    BY DEF OpToRel
  <2> QED  BY <1>3, <2>2, <2>3, Zenon
<1> QED  BY <1>4 DEF First
-----------------------------------------------------------------------------
(* The initial state, and steps that touch nothing of this *)

LEMMA OfType == \A rev \in Contents : Of(rev) \in Tree
  BY DEF Of, Tree

\* The committed reports are what an undisturbed audit of revision 1 writes.
LEMMA CommittedReportIsTrue ==
    ASSUME NEW d \in Designs, NEW seed \in Seeds, NEW flag \in Flags
    PROVE  /\ CommittedReport(d, seed, flag) \in Report
           /\ ReportIsTrue(d, CommittedReport(d, seed, flag))
<1> DEFINE r == CommittedReport(d, seed, flag)
           passes == <<d, 1, flag>> \in Accepted
<1>1. /\ r.status = IF passes THEN "audited" ELSE "unsupported"
      /\ r.cond = [seed |-> seed, flag |-> Nothing] /\ r.commit = 1
      /\ r.killed = (IF passes THEN Mutants \cap Caught[d, 1] ELSE {})
      /\ r.survived = (IF passes THEN Mutants \ Caught[d, 1] ELSE {})
      /\ r.undecided = {} /\ r.seen = {1} /\ r.ran = flag /\ r.by = 0
      /\ r.changed = FALSE /\ r.dubious = FALSE
  BY DEF CommittedReport
<1>2. 1 \in Revisions /\ {1} \in SUBSET Contents
  BY SizeAssumption DEF Revisions, Contents
<1>3. [seed |-> seed, flag |-> Nothing] \in Stated
  BY DEF Stated
<1>4. r \in Report
  <2>1. /\ (IF passes THEN Mutants \cap Caught[d, 1] ELSE {}) \in SUBSET Mutants
        /\ (IF passes THEN Mutants \ Caught[d, 1] ELSE {}) \in SUBSET Mutants
        /\ (IF passes THEN "audited" ELSE "unsupported") \in {"audited", "unsupported"}
    OBVIOUS
  <2> QED  BY <1>2, <1>3, <2>1 DEF CommittedReport, Report
<1>5. Earned(d, 1, flag, r)
  <2> DEFINE caught == Caught[d, 1]
  <2>1. passes => r.killed = Mutants \cap caught /\ r.survived = Mutants \ caught
    BY <1>1
  <2>2. r.status = "audited" => passes
    BY <1>1
  <2> HIDE DEF caught, r
  <2>3. passes => r.killed \subseteq caught /\ r.survived \cap caught = {}
    BY <2>1
  <2> QED  BY <2>2, <2>3, Zenon DEF Earned, caught
<1>6. ReportIsTrue(d, r)
  <2> HIDE DEF r
  <2>1. r.cond.flag = Nothing /\ r.seen = {r.commit} /\ r.commit = 1 /\ r.ran = flag
    BY DEF CommittedReport, r
  <2> QED  BY <1>5, <2>1 DEF ReportIsTrue
<1> QED  BY <1>4, <1>6

LEMMA InitInv == Init => Inv
<1> SUFFICES ASSUME Init PROVE Inv
  OBVIOUS
<1>1. 1 \in Revisions /\ 1 \in Contents /\ Edited \in Contents
  BY SizeAssumption DEF Revisions, Contents
<1>2. PICK seed \in Seeds, flag \in Flags : CommittedCampaign(seed, flag)
  BY DEF Init
<1> DEFINE audited == {d \in Designs : <<d, 1, flag>> \in Accepted}
<1>3. /\ lock = [rev |-> 1, content |-> Of(1), tainted |-> FALSE]
      /\ catalog = [commit |-> 1, content |-> Of(1), runnable |-> audited, tainted |-> FALSE]
      /\ reports = [out \in Outs |-> [d \in Designs |->
            IF out = "final" \/ d \in metadata THEN CommittedReport(d, seed, flag) ELSE Nothing]]
  BY <1>2 DEF CommittedCampaign
<1>4. reports \in [Outs -> [Designs -> Report \cup {Nothing, Torn}]] /\ ReportInv
  <2>1. \A out \in Outs, d \in Designs : reports[out][d] \in {CommittedReport(d, seed, flag), Nothing}
    BY <1>3
  <2>2. reports \in [Outs -> [Designs -> Report \cup {Nothing, Torn}]]
    BY <1>3, CommittedReportIsTrue
  <2>3. ReportInv
    BY <2>1, CommittedReportIsTrue DEF ReportInv, Readable
  <2> QED  BY <2>2, <2>3
<1>5. lock \in Locks /\ catalog \in Catalogs
  BY <1>1, <1>3, OfType DEF Locks, Catalogs
<1>6. pin \in Revisions /\ tree \in Tree /\ fetch = Nothing /\ sweep = Nothing /\ audit = Nothing
  BY <1>1, OfType DEF Init
<1>7. TypeOK
  BY <1>4, <1>5, <1>6 DEF TypeOK
<1>8. ProvenanceInv /\ AuditInv
  BY <1>3, <1>6 DEF ProvenanceInv, AuditInv
<1> QED  BY <1>4, <1>7, <1>8 DEF Inv

\* Reports that nobody writes stay as they are, and so does an audit nothing touches.
LEMMA ReportsKept == ReportInv /\ reports' = reports => ReportInv'
<1> SUFFICES ASSUME ReportInv, reports' = reports,
                    NEW out \in Outs, NEW d \in Designs, Readable(reports[out][d])'
             PROVE  ReportIsTrue(d, reports[out][d])'
  BY DEF ReportInv
<1>1. ReportIsTrue(d, reports[out][d])
  BY DEF ReportInv, Readable
<1> QED  BY <1>1 DEF ReportIsTrue, Earned

LEMMA AuditKept == AuditInv /\ UNCHANGED <<tree, audit>> => AuditInv'
  BY DEF AuditInv, Subject, Earned

LEMMA StutterInv ==
    ASSUME Inv, UNCHANGED <<tree, sweep, audit, catalog, reports>>,
           pin' \in Revisions, fetch' = fetch \/ fetch' = Nothing,
           lock' = lock \/ lock' = Torn
    PROVE  Inv'
<1>1. TypeOK'
  BY DEF Inv, TypeOK, Readable
<1>2. ProvenanceInv'
  BY DEF Inv, ProvenanceInv, Readable
<1> QED  BY <1>1, <1>2, AuditKept, ReportsKept DEF Inv

-----------------------------------------------------------------------------
(* The vendor's tree *)

LEMMA NoticeInv ==
    ASSUME Inv, NEW how, Notice(how)
    PROVE  /\ sweep' # Nothing => sweep' \in Sweeps /\ sweep # Nothing /\ sweep'.lock = sweep.lock
           /\ audit' # Nothing =>
                /\ audit # Nothing
                /\ audit' = [audit EXCEPT !.changed = TRUE, !.refetched = @ \/ how = "fetched"]
                /\ audit' \in Audits /\ audit'.changed
                /\ audit'.phase = audit.phase /\ audit'.todo = audit.todo
                /\ audit'.result = audit.result
<1>1. sweep # Nothing => sweep \in Sweeps
  BY DEF Inv, TypeOK
<1>2. audit # Nothing => audit \in Audits
  BY DEF Inv, TypeOK
<1>3. sweep' # Nothing => sweep' \in Sweeps /\ sweep # Nothing /\ sweep'.lock = sweep.lock
  BY <1>1 DEF Notice, Sweeps
<1>4. ASSUME audit' # Nothing
      PROVE  /\ audit # Nothing
             /\ audit' = [audit EXCEPT !.changed = TRUE, !.refetched = @ \/ how = "fetched"]
             /\ audit' \in Audits /\ audit'.changed
             /\ audit'.phase = audit.phase /\ audit'.todo = audit.todo
             /\ audit'.result = audit.result
  <2>1. audit # Nothing /\ audit' = [audit EXCEPT !.changed = TRUE, !.refetched = @ \/ how = "fetched"]
    BY <1>4 DEF Notice
  <2> QED  BY <1>2, <2>1 DEF Audits
<1> QED  BY <1>3, <1>4

LEMMA NoticedInv ==
    ASSUME Inv, NEW how, Notice(how), UNCHANGED <<lock, catalog, reports>>,
           pin' \in Revisions, tree' \in Tree, fetch' # Nothing => fetch' \in Fetches,
           fetch' # Nothing /\ ~fetch'.tainted => tree' = Of(fetch'.rev)
    PROVE  Inv'
<1>1. TypeOK'
  BY NoticeInv DEF Inv, TypeOK
<1>2. ProvenanceInv'
  BY NoticeInv DEF Inv, ProvenanceInv
<1>3. AuditInv'
  BY NoticeInv DEF Inv, AuditInv
<1> QED  BY <1>1, <1>2, <1>3, ReportsKept DEF Inv

LEMMA EditTreeInv == ASSUME Inv, NEW d \in Designs, EditTree(d) PROVE Inv'
<1>1. /\ tree' = [tree EXCEPT ![d] = Edited] /\ Notice("edited")
      /\ fetch' = IF fetch = Nothing THEN fetch ELSE [fetch EXCEPT !.tainted = TRUE]
      /\ UNCHANGED <<pin, lock, catalog, reports>>
  BY DEF EditTree, results
<1>2. tree' \in Tree
  BY <1>1 DEF Inv, TypeOK, Tree, Contents
<1>3. fetch' # Nothing => fetch' \in Fetches /\ fetch'.tainted
  BY <1>1 DEF Inv, TypeOK, Fetches
<1>4. pin' \in Revisions
  BY <1>1 DEF Inv, TypeOK
<1> QED  BY <1>1, <1>2, <1>3, <1>4, NoticedInv

LEMMA CheckoutInv == Inv /\ Checkout => Inv'
<1> SUFFICES ASSUME Inv, Checkout PROVE Inv'
  OBVIOUS
<1>1. /\ tree' = Of(pin') /\ Notice("fetched") /\ pin' \in Revisions
      /\ fetch' = [rev |-> pin', tainted |-> FALSE]
      /\ UNCHANGED <<lock, catalog, reports>>
  BY DEF Checkout, results
<1>2. pin' \in Contents
  BY <1>1 DEF Contents
<1>3. tree' \in Tree
  BY <1>1, <1>2, OfType
<1>4. fetch' \in Fetches /\ tree' = Of(fetch'.rev)
  BY <1>1, <1>2 DEF Fetches
<1> QED  BY <1>1, <1>3, <1>4, NoticedInv

LEMMA RecordProvenanceInv == Inv /\ RecordProvenance => Inv'
<1> SUFFICES ASSUME Inv, RecordProvenance PROVE Inv'
  OBVIOUS
<1>1. /\ fetch # Nothing /\ fetch \in Fetches /\ fetch' = Nothing
      /\ lock' = [rev |-> fetch.rev, content |-> tree, tainted |-> fetch.tainted]
      /\ UNCHANGED <<pin, tree, sweep, audit, catalog, reports>>
  BY DEF RecordProvenance, Inv, TypeOK, results
<1>2. lock' \in Locks
  BY <1>1 DEF Inv, TypeOK, Fetches, Locks
<1>3. ~lock'.tainted => lock'.content = Of(lock'.rev)
  BY <1>1 DEF Inv, ProvenanceInv
<1>4. TypeOK'
  BY <1>1, <1>2 DEF Inv, TypeOK
<1>5. ProvenanceInv'
  BY <1>1, <1>3 DEF Inv, ProvenanceInv
<1>6. AuditInv'
  BY <1>1, AuditKept DEF Inv
<1> QED  BY <1>1, <1>4, <1>5, <1>6, ReportsKept DEF Inv

LEMMA CrashFetchInv == Inv /\ CrashFetch => Inv'
<1> SUFFICES ASSUME Inv, CrashFetch PROVE Inv'
  OBVIOUS
<1>1. /\ fetch' = Nothing /\ lock' \in {lock, Torn}
      /\ UNCHANGED <<pin, tree, sweep, audit, catalog, reports>>
  BY DEF CrashFetch, results
<1>2. pin' \in Revisions
  BY <1>1 DEF Inv, TypeOK
<1> QED  BY <1>1, <1>2, StutterInv

-----------------------------------------------------------------------------
(* The sweep *)

LEMMA SweepStepInv ==
    ASSUME Inv, UNCHANGED <<pin, tree, lock, fetch, audit, reports>>,
           sweep' # Nothing =>
             /\ sweep' \in Sweeps
             /\ ~sweep'.lock.tainted => sweep'.lock.content = Of(sweep'.lock.rev),
           Readable(catalog') =>
             /\ catalog' \in Catalogs
             /\ ~catalog'.tainted => catalog'.content = Of(catalog'.commit)
    PROVE  Inv'
<1>1. TypeOK'
  BY DEF Inv, TypeOK
<1>2. ProvenanceInv'
  BY DEF Inv, ProvenanceInv
<1>3. AuditInv'
  BY AuditKept DEF Inv
<1> QED  BY <1>1, <1>2, <1>3, ReportsKept DEF Inv

LEMMA CatalogKept ==
    ASSUME Inv, catalog' = catalog
    PROVE  Readable(catalog') =>
             /\ catalog' \in Catalogs
             /\ ~catalog'.tainted => catalog'.content = Of(catalog'.commit)
  BY DEF Inv, TypeOK, ProvenanceInv

LEMMA StartSweepInv == ASSUME Inv, NEW flag \in Flags, StartSweep(flag) PROVE Inv'
<1>1. /\ Readable(lock) /\ lock \in Locks
      /\ sweep' = [flag |-> flag, lock |-> lock, at |-> 1, runnable |-> {}, refetched |-> FALSE]
      /\ UNCHANGED <<pin, tree, lock, fetch, audit, catalog, reports>>
  BY DEF StartSweep, Inv, TypeOK, results
<1>2. sweep' \in Sweeps
  BY <1>1 DEF Sweeps
<1>3. ~sweep'.lock.tainted => sweep'.lock.content = Of(sweep'.lock.rev)
  BY <1>1 DEF Inv, ProvenanceInv
<1> QED  BY <1>1, <1>2, <1>3, CatalogKept, SweepStepInv

LEMMA SweepDesignInv == Inv /\ SweepDesign => Inv'
<1> SUFFICES ASSUME Inv, SweepDesign PROVE Inv'
  OBVIOUS
<1>1. /\ sweep # Nothing /\ sweep \in Sweeps /\ sweep.at \in Designs
      /\ UNCHANGED <<pin, tree, lock, fetch, audit, catalog, reports>>
  BY DEF SweepDesign, Inv, TypeOK, results
<1>2. sweep' \in Sweeps /\ sweep'.lock = sweep.lock
  <2> sweep.at + 1 \in Nat
    BY <1>1 DEF Sweeps
  <2>1. CASE sweep' = [sweep EXCEPT !.at = @ + 1, !.runnable = @ \cup {sweep.at}]
    <3>1. sweep.runnable \cup {sweep.at} \in SUBSET Designs
      BY <1>1 DEF Sweeps
    <3> QED  BY <1>1, <2>1, <3>1 DEF Sweeps
  <2>2. CASE sweep' = [sweep EXCEPT !.at = @ + 1]
    BY <1>1, <2>2 DEF Sweeps
  <2> QED  BY <2>1, <2>2 DEF SweepDesign
<1>3. ~sweep'.lock.tainted => sweep'.lock.content = Of(sweep'.lock.rev)
  BY <1>1, <1>2 DEF Inv, ProvenanceInv
<1> QED  BY <1>1, <1>2, <1>3, CatalogKept, SweepStepInv

LEMMA FinishSweepInv == Inv /\ FinishSweep => Inv'
<1> SUFFICES ASSUME Inv, FinishSweep PROVE Inv'
  OBVIOUS
<1>1. /\ sweep # Nothing /\ sweep \in Sweeps /\ sweep' = Nothing
      /\ UNCHANGED <<pin, tree, lock, fetch, audit, reports>>
  BY DEF FinishSweep, Inv, TypeOK, results
<1>2. CASE catalog' = [commit |-> sweep.lock.rev, content |-> sweep.lock.content,
                       runnable |-> sweep.runnable,
                       tainted |-> sweep.refetched \/ sweep.lock.tainted]
  <2>1. /\ sweep.lock \in Locks /\ sweep.runnable \in SUBSET Designs
        /\ sweep.refetched \in BOOLEAN
    BY <1>1 DEF Sweeps
  <2>2. catalog' \in Catalogs
    <3>1. (sweep.refetched \/ sweep.lock.tainted) \in BOOLEAN
      OBVIOUS
    <3> QED  BY <1>2, <2>1, <3>1 DEF Catalogs, Locks
  <2>3. ~catalog'.tainted => catalog'.content = Of(catalog'.commit)
    BY <1>1, <1>2 DEF Inv, ProvenanceInv
  <2> QED  BY <1>1, <2>2, <2>3, SweepStepInv
<1>3. CASE catalog' = catalog
  BY <1>1, <1>3, CatalogKept, SweepStepInv
<1> QED  BY <1>2, <1>3 DEF FinishSweep

LEMMA CrashSweepInv == Inv /\ CrashSweep => Inv'
<1> SUFFICES ASSUME Inv, CrashSweep PROVE Inv'
  OBVIOUS
<1>1. /\ sweep' = Nothing /\ (catalog' = catalog \/ catalog' = Torn)
      /\ UNCHANGED <<pin, tree, lock, fetch, audit, reports>>
  BY DEF CrashSweep, results
<1>2. CASE catalog' = catalog
  BY <1>1, <1>2, CatalogKept, SweepStepInv
<1>3. CASE catalog' = Torn
  BY <1>1, <1>3, SweepStepInv DEF Readable
<1> QED  BY <1>1, <1>2, <1>3

-----------------------------------------------------------------------------
(* The audit *)

LEMMA AuditStepInv ==
    ASSUME Inv, UNCHANGED <<pin, tree, lock, fetch, sweep, catalog>>,
           audit' # Nothing => audit' \in Audits, AuditInv',
           reports' \in [Outs -> [Designs -> Report \cup {Nothing, Torn}]], ReportInv'
    PROVE  Inv'
<1>1. TypeOK'
  BY DEF Inv, TypeOK
<1>2. ProvenanceInv'
  BY DEF Inv, ProvenanceInv
<1> QED  BY <1>1, <1>2 DEF Inv

\* A step of the audit that writes no report.
LEMMA AuditOnlyInv ==
    ASSUME Inv, UNCHANGED <<pin, tree, lock, fetch, sweep, catalog, reports>>,
           audit' # Nothing => audit' \in Audits, AuditInv'
    PROVE  Inv'
<1>1. reports' \in [Outs -> [Designs -> Report \cup {Nothing, Torn}]] /\ ReportInv'
  BY ReportsKept DEF Inv, TypeOK
<1> QED  BY <1>1, AuditStepInv

LEMMA SizesAreNumbers == \A ds \in SUBSET Designs : Cardinality(ds) \in Nat
<1>1. IsFiniteSet(Designs)
  BY FS_Interval, SizeAssumption DEF Designs
<1> QED  BY <1>1, FS_Subset, FS_CardinalityType

LEMMA UnmeasuredType == Unmeasured \in Results
  BY DEF Unmeasured, Results

LEMMA StartAuditInv ==
    ASSUME Inv, BudgetOK, NEW r \in Requests, NEW cond \in Conditions, StartAudit(r[1], cond, r[2])
    PROVE  Inv'
<1>1. r[1] \in Outs /\ r[2] \in SUBSET Designs
  BY DesignAssumption
<1>2. /\ catalog \in Catalogs /\ Readable(catalog) /\ tree = catalog.content /\ tree \in Tree
      /\ UNCHANGED <<pin, tree, lock, fetch, sweep, catalog, reports>>
  BY DEF StartAudit, Inv, TypeOK, results
<1>3. audit' = [out |-> r[1], cond |-> cond, requested |-> Cardinality(r[2]), todo |-> r[2],
                 catalog |-> catalog, before |-> tree, phase |-> "baseline", mutants |-> {},
                 result |-> Unmeasured, seen |-> {}, audited |-> 0,
                 by |-> left.audits, changed |-> FALSE, refetched |-> FALSE]
  BY DEF StartAudit
<1>4. Cardinality(r[2]) \in Nat /\ left.audits \in Nat
  BY <1>1, SizesAreNumbers DEF BudgetOK, Kinds
<1>5. audit' \in Audits
  BY <1>1, <1>2, <1>3, <1>4, UnmeasuredType DEF Audits
<1>6. AuditInv'
  <2>1. ~catalog.tainted => tree' = Of(catalog.commit)
    BY <1>2 DEF Inv, ProvenanceInv
  <2>2. /\ audit'.phase = "baseline" /\ audit'.result = Unmeasured /\ audit'.catalog = catalog
    BY <1>3
  <2>3. Unmeasured' = Unmeasured
    BY DEF Unmeasured
  <2> QED  BY <2>1, <2>2, <2>3 DEF AuditInv
<1> QED  BY <1>2, <1>5, <1>6, AuditOnlyInv

LEMMA SubjectIsDesign ==
    ASSUME Inv, audit # Nothing, audit.todo # {}
    PROVE  Subject \in Designs
<1>1. audit.todo \in SUBSET Designs
  BY DEF Inv, TypeOK, Audits
<1> QED  BY <1>1, FirstOfDesigns DEF Subject

\* What the tree says of a design while nothing has changed under the audit.
LEMMA TreeOfCatalog ==
    ASSUME Inv, audit # Nothing, ~audit.changed, ~audit.catalog.tainted, NEW d \in Designs
    PROVE  tree[d] = audit.catalog.commit
  BY DEF Inv, AuditInv, Of

LEMMA BaselineInv == Inv /\ Baseline => Inv'
<1> SUFFICES ASSUME Inv, Baseline PROVE Inv'
  OBVIOUS
<1>1. /\ audit # Nothing /\ audit \in Audits /\ audit.phase = "baseline" /\ audit.todo # {}
      /\ audit.result = Unmeasured
      /\ UNCHANGED <<pin, tree, lock, fetch, sweep, catalog, reports>>
  BY DEF Baseline, Inv, TypeOK, AuditInv, results
<1>2. Subject \in Designs /\ tree[Subject] \in Contents
  BY <1>1, SubjectIsDesign DEF Inv, TypeOK, Tree
<1>3. CASE audit' = [audit EXCEPT !.phase = "report", !.seen = {tree[Subject]}]
  <2>1. audit' \in Audits
    BY <1>1, <1>2, <1>3 DEF Audits
  <2>2. /\ audit'.phase = "report" /\ audit'.seen = {tree[Subject]}
        /\ audit'.todo = audit.todo /\ audit'.result = audit.result
        /\ audit'.catalog = audit.catalog /\ audit'.changed = audit.changed
    BY <1>1, <1>3 DEF Audits
  <2>3. audit.result.status = "unsupported"
    BY <1>1 DEF Unmeasured
  <2>4. AuditInv'
    <3>1. ASSUME ~audit'.changed, ~audit'.catalog.tainted
          PROVE  /\ tree' = Of(audit'.catalog.commit)
                 /\ audit'.seen = {audit'.catalog.commit}
                 /\ Earned(Subject, audit.catalog.commit, audit.cond.flag, audit.result)'
      BY <1>1, <1>2, <2>2, <2>3, <3>1, TreeOfCatalog DEF Inv, AuditInv, Earned
    <3> QED  BY <1>1, <2>2, <2>3, <3>1 DEF AuditInv
  <2> QED  BY <1>1, <2>1, <2>4, AuditOnlyInv
<1>4. CASE /\ GoldenPasses(Subject, audit.cond.flag)
           /\ audit' = [audit EXCEPT !.phase = "mutants", !.seen = {tree[Subject]},
                        !.mutants = Mutants, !.result.status = "audited"]
  <2> DEFINE result == [audit.result EXCEPT !.status = "audited"]
  <2>1. audit' = [audit EXCEPT !.phase = "mutants", !.seen = {tree[Subject]},
                  !.mutants = Mutants, !.result = result]
    BY <1>1, <1>4 DEF Audits
  <2>2. /\ result \in Results
        /\ result.status = "audited" /\ result.killed = {} /\ result.survived = {}
    BY <1>1 DEF Unmeasured, Results
  <2> HIDE DEF result
  <2>3. audit' \in Audits
    BY <1>1, <1>2, <2>1, <2>2 DEF Audits
  <2>4. /\ audit'.phase = "mutants" /\ audit'.seen = {tree[Subject]}
        /\ audit'.todo = audit.todo /\ audit'.result = result /\ audit'.cond = audit.cond
        /\ audit'.catalog = audit.catalog /\ audit'.changed = audit.changed
    BY <1>1, <2>1 DEF Audits
  <2>5. AuditInv'
    <3>1. ASSUME ~audit'.changed, ~audit'.catalog.tainted
          PROVE  /\ tree' = Of(audit'.catalog.commit)
                 /\ audit'.seen = {audit'.catalog.commit}
                 /\ Earned(Subject, audit.catalog.commit, audit.cond.flag, audit.result)'
      <4>1. tree[Subject] = audit.catalog.commit /\ tree = Of(audit.catalog.commit)
        BY <1>1, <1>2, <2>4, <3>1, TreeOfCatalog DEF Inv, AuditInv
      <4>2. <<Subject, audit.catalog.commit, audit.cond.flag>> \in Accepted
        BY <1>4, <4>1 DEF GoldenPasses
      <4>3. Subject' = Subject
        BY <2>4 DEF Subject
      <4> QED  BY <1>1, <2>2, <2>4, <4>1, <4>2, <4>3 DEF Earned
    <3> QED  BY <1>1, <2>4, <3>1 DEF AuditInv
  <2> QED  BY <1>1, <2>3, <2>5, AuditOnlyInv
<1> QED  BY <1>3, <1>4 DEF Baseline

\* A verdict that is true of the tree keeps the result true of the catalog's commit.
LEMMA JudgeMutantInv ==
    ASSUME Inv, audit # Nothing, audit.phase = "mutants", NEW m \in audit.mutants, JudgeMutant(m)
    PROVE  Inv'
<1>1. /\ audit \in Audits /\ audit.todo # {} /\ m \in Mutants /\ audit.result \in Results
      /\ UNCHANGED <<pin, tree, lock, fetch, sweep, catalog, reports>>
  BY DEF JudgeMutant, Inv, TypeOK, AuditInv, Audits, results
<1>2. Subject \in Designs /\ tree[Subject] \in Contents
  BY <1>1, SubjectIsDesign DEF Inv, TypeOK, Tree
<1> DEFINE step(res) == [audit EXCEPT !.mutants = @ \ {m}, !.seen = @ \cup {tree[Subject]},
                                      !.result = res]
<1>3. PICK res \in Results :
        /\ audit' = step(res) /\ res.status = audit.result.status
        /\ \/ res.killed = audit.result.killed \cup {m} /\ Fails(m)
              /\ res.survived = audit.result.survived
           \/ res.survived = audit.result.survived \cup {m} /\ ~Fails(m)
              /\ res.killed = audit.result.killed
           \/ res.killed = audit.result.killed /\ res.survived = audit.result.survived
  <2>1. CASE /\ Fails(m)
             /\ audit' = [audit EXCEPT !.mutants = @ \ {m}, !.seen = @ \cup {tree[Subject]},
                                       !.result.killed = @ \cup {m}]
    <3> DEFINE res == [audit.result EXCEPT !.killed = @ \cup {m}]
    <3>1. res \in Results /\ res.status = audit.result.status
          /\ res.killed = audit.result.killed \cup {m} /\ res.survived = audit.result.survived
      BY <1>1 DEF Results
    <3>2. audit' = step(res)
      BY <1>1, <2>1 DEF Audits
    <3> HIDE DEF res, step
    <3> QED  BY <2>1, <3>1, <3>2
  <2>2. CASE /\ ~Fails(m)
             /\ audit' = [audit EXCEPT !.mutants = @ \ {m}, !.seen = @ \cup {tree[Subject]},
                                       !.result.survived = @ \cup {m}]
    <3> DEFINE res == [audit.result EXCEPT !.survived = @ \cup {m}]
    <3>1. res \in Results /\ res.status = audit.result.status
          /\ res.survived = audit.result.survived \cup {m} /\ res.killed = audit.result.killed
      BY <1>1 DEF Results
    <3>2. audit' = step(res)
      BY <1>1, <2>2 DEF Audits
    <3> HIDE DEF res, step
    <3> QED  BY <2>2, <3>1, <3>2
  <2>3. CASE audit' = [audit EXCEPT !.mutants = @ \ {m}, !.seen = @ \cup {tree[Subject]},
                                    !.result.undecided = @ \cup {m}]
    <3> DEFINE res == [audit.result EXCEPT !.undecided = @ \cup {m}]
    <3>1. res \in Results /\ res.status = audit.result.status
          /\ res.killed = audit.result.killed /\ res.survived = audit.result.survived
      BY <1>1 DEF Results
    <3>2. audit' = step(res)
      BY <1>1, <2>3 DEF Audits
    <3> HIDE DEF res, step
    <3> QED  BY <3>1, <3>2
  <2> HIDE DEF step
  <2> QED  BY <2>1, <2>2, <2>3 DEF JudgeMutant
<1>4. audit' \in Audits
  BY <1>1, <1>2, <1>3 DEF Audits
<1>5. /\ audit'.phase = "mutants" /\ audit'.seen = audit.seen \cup {tree[Subject]}
      /\ audit'.todo = audit.todo /\ audit'.result = res /\ audit'.cond = audit.cond
      /\ audit'.catalog = audit.catalog /\ audit'.changed = audit.changed
  BY <1>1, <1>3 DEF Audits
<1> HIDE DEF step
<1>6. AuditInv'
  <2>1. ASSUME ~audit'.changed, ~audit'.catalog.tainted
        PROVE  /\ tree' = Of(audit'.catalog.commit)
               /\ audit'.seen = {audit'.catalog.commit}
               /\ Earned(Subject, audit.catalog.commit, audit.cond.flag, audit.result)'
    <3> DEFINE caught == Caught[Subject, audit.catalog.commit]
    <3>1. tree[Subject] = audit.catalog.commit /\ tree = Of(audit.catalog.commit)
      BY <1>1, <1>2, <1>5, <2>1, TreeOfCatalog DEF Inv, AuditInv
    <3>2. /\ audit.seen = {audit.catalog.commit}
          /\ Earned(Subject, audit.catalog.commit, audit.cond.flag, audit.result)
      BY <1>5, <2>1 DEF Inv, AuditInv
    <3>3. Fails(m) <=> m \in caught
      BY <3>1 DEF Fails
    <3>4. audit.result.status = "audited" =>
             /\ <<Subject, audit.catalog.commit, audit.cond.flag>> \in Accepted
             /\ audit.result.killed \subseteq caught /\ audit.result.survived \cap caught = {}
      BY <3>2 DEF Earned
    <3>5. Subject' = Subject
      BY <1>5 DEF Subject
    <3> HIDE DEF caught
    <3>6. res.status = "audited" =>
             /\ <<Subject, audit.catalog.commit, audit.cond.flag>> \in Accepted
             /\ res.killed \subseteq caught /\ res.survived \cap caught = {}
      BY <1>3, <3>3, <3>4
    <3>7. Earned(Subject, audit.catalog.commit, audit.cond.flag, res)
      BY <3>6 DEF Earned, caught
    <3>8. Earned(Subject, audit.catalog.commit, audit.cond.flag, audit.result)'
      BY <1>5, <3>5, <3>7 DEF Earned
    <3> QED  BY <1>1, <1>5, <3>1, <3>2, <3>8
  <2> QED  BY <1>1, <1>5, <2>1 DEF AuditInv
<1> QED  BY <1>1, <1>4, <1>6, AuditOnlyInv

LEMMA RunMutantInv == Inv /\ RunMutant => Inv'
  BY JudgeMutantInv DEF RunMutant

-----------------------------------------------------------------------------
(* The reports *)

LEMMA ReportType ==
    ASSUME Inv, audit # Nothing
    PROVE  ReportOf(audit) \in Report
<1>1. /\ audit \in Audits /\ audit.result \in Results /\ audit.catalog \in Catalogs
  BY DEF Inv, TypeOK, Audits
<1>2. /\ audit.cond \in Stated /\ audit.cond.flag \in Flags /\ audit.by \in Nat
      /\ audit.changed \in BOOLEAN /\ audit.catalog.tainted \in BOOLEAN
  BY <1>1 DEF Audits, Catalogs, Conditions, Stated
<1>3. /\ audit.seen \in SUBSET Contents
      /\ audit.catalog.commit \in Revisions
      /\ audit.result.status \in {"audited", "unsupported"}
      /\ audit.result.killed \in SUBSET Mutants /\ audit.result.survived \in SUBSET Mutants
      /\ audit.result.undecided \in SUBSET Mutants
  BY <1>1 DEF Audits, Results, Catalogs
<1> QED  BY <1>2, <1>3 DEF Report, ReportOf

\* Writing one report, torn or true, keeps the others.
LEMMA OneReport ==
    ASSUME Inv, NEW out \in Outs, NEW d \in Designs, NEW r \in Report \cup {Nothing, Torn},
           reports' = [reports EXCEPT ![out][d] = r],
           Readable(r) => ReportIsTrue(d, r)
    PROVE  /\ reports' \in [Outs -> [Designs -> Report \cup {Nothing, Torn}]]
           /\ ReportInv'
<1>1. reports \in [Outs -> [Designs -> Report \cup {Nothing, Torn}]]
  BY DEF Inv, TypeOK
<1>2. reports' \in [Outs -> [Designs -> Report \cup {Nothing, Torn}]]
  BY <1>1
<1>3. \A o \in Outs, e \in Designs :
        reports'[o][e] = IF o = out /\ e = d THEN r ELSE reports[o][e]
  BY <1>1
<1>4. ASSUME NEW o \in Outs, NEW e \in Designs, Readable(reports'[o][e])
      PROVE  ReportIsTrue(e, reports'[o][e])
  <2>1. CASE o = out /\ e = d
    BY <1>3, <1>4, <2>1
  <2>2. CASE ~(o = out /\ e = d)
    <3>1. reports'[o][e] = reports[o][e]
      BY <1>3, <2>2
    <3> QED  BY <1>4, <3>1 DEF Inv, ReportInv
  <2> QED  BY <2>1, <2>2
<1>5. ReportInv'
  BY <1>4 DEF ReportInv, Readable, ReportIsTrue, Earned
<1> QED  BY <1>2, <1>5

LEMMA WriteReportInv == Inv /\ WriteReport => Inv'
<1> SUFFICES ASSUME Inv, WriteReport PROVE Inv'
  OBVIOUS
<1> DEFINE r == ReportOf(audit)
<1>1. /\ audit # Nothing /\ audit \in Audits /\ audit.phase # "baseline" /\ audit.todo # {}
      /\ audit.out \in Outs /\ audit.todo \in SUBSET Designs
      /\ reports' = [reports EXCEPT ![audit.out][Subject] = r]
      /\ UNCHANGED <<pin, tree, lock, fetch, sweep, catalog>>
  BY DEF WriteReport, ReportIsDue, Inv, TypeOK, AuditInv, Audits
<1>2. Subject \in Designs
  BY <1>1, SubjectIsDesign
<1>3. r \in Report
  BY <1>1, ReportType
<1>4. ReportIsTrue(Subject, r)
  <2>1. /\ r.status = audit.result.status /\ r.cond = audit.cond
        /\ r.commit = audit.catalog.commit /\ r.killed = audit.result.killed
        /\ r.survived = audit.result.survived /\ r.seen = audit.seen
        /\ r.ran = audit.cond.flag /\ r.changed = audit.changed
        /\ r.dubious = audit.catalog.tainted
    BY DEF ReportOf
  <2>2. ASSUME ~audit.changed, ~audit.catalog.tainted
        PROVE  /\ audit.seen = {audit.catalog.commit}
               /\ Earned(Subject, audit.catalog.commit, audit.cond.flag, audit.result)
    BY <1>1, <2>2 DEF Inv, AuditInv
  <2> HIDE DEF r
  <2> QED  BY <2>1, <2>2 DEF ReportIsTrue, Earned
<1>5. /\ reports' \in [Outs -> [Designs -> Report \cup {Nothing, Torn}]]
      /\ ReportInv'
  <2> HIDE DEF r
  <2> QED  BY <1>1, <1>2, <1>3, <1>4, OneReport
<1> DEFINE counted == audit.audited + (IF audit.result.status = "audited" THEN 1 ELSE 0)
<1>6. audit' = [audit EXCEPT !.todo = @ \ {Subject}, !.phase = "baseline",
                 !.result = Unmeasured, !.seen = {}, !.audited = counted]
  BY <1>1 DEF WriteReport
<1>7. counted \in Nat
  BY <1>1 DEF Audits
<1> HIDE DEF counted
<1>8. audit' \in Audits
  BY <1>1, <1>6, <1>7, UnmeasuredType DEF Audits
<1>9. AuditInv'
  <2>1. /\ audit'.phase = "baseline" /\ audit'.result = Unmeasured
        /\ audit'.catalog = audit.catalog /\ audit'.changed = audit.changed
    BY <1>1, <1>6 DEF Audits
  <2>2. Unmeasured' = Unmeasured
    BY DEF Unmeasured
  <2>3. ~audit.changed /\ ~audit.catalog.tainted => tree' = Of(audit.catalog.commit)
    BY <1>1 DEF Inv, AuditInv
  <2> QED  BY <2>1, <2>2, <2>3 DEF AuditInv
<1> QED  BY <1>1, <1>5, <1>8, <1>9, AuditStepInv

LEMMA FinishAuditInv == Inv /\ FinishAudit => Inv'
<1> SUFFICES ASSUME Inv, FinishAudit PROVE Inv'
  OBVIOUS
<1>1. audit' = Nothing /\ UNCHANGED <<pin, tree, lock, fetch, sweep, catalog, reports>>
  BY DEF FinishAudit
<1>2. AuditInv'
  BY <1>1 DEF AuditInv
<1> QED  BY <1>1, <1>2, AuditOnlyInv

LEMMA CrashAuditInv == Inv /\ CrashAudit => Inv'
<1> SUFFICES ASSUME Inv, CrashAudit PROVE Inv'
  OBVIOUS
<1>1. /\ audit # Nothing /\ audit \in Audits
      /\ audit' = Nothing /\ UNCHANGED <<pin, tree, lock, fetch, sweep, catalog>>
  BY DEF CrashAudit, Inv, TypeOK
<1>2. AuditInv'
  BY <1>1 DEF AuditInv
<1>3. CASE reports' = reports
  BY <1>1, <1>2, <1>3, AuditOnlyInv
<1>4. CASE ReportIsDue /\ reports' = [reports EXCEPT ![audit.out][Subject] = Torn]
  <2>1. audit.out \in Outs /\ Subject \in Designs
    BY <1>1, <1>4, SubjectIsDesign DEF Inv, AuditInv, Audits, ReportIsDue
  <2>2. /\ reports' \in [Outs -> [Designs -> Report \cup {Nothing, Torn}]]
        /\ ReportInv'
    BY <1>4, <2>1, OneReport DEF Readable
  <2> QED  BY <1>1, <1>2, <2>2, AuditStepInv
<1> QED  BY <1>3, <1>4 DEF CrashAudit, results

\* Packaging reads all this and changes none of it.
LEMMA PackagingInv ==
    ASSUME Inv,
           \/ \E seed \in Seeds : StartPackaging(seed)
           \/ \E out \in Outs : SyncSample(out)
           \/ WriteMetadata
           \/ CrashPackaging
    PROVE  Inv'
<1>1. UNCHANGED <<pin, tree, lock, fetch, sweep, audit, catalog, reports>>
  BY DEF StartPackaging, SyncSample, WriteMetadata, CrashPackaging, results
<1>2. pin' \in Revisions
  BY <1>1 DEF Inv, TypeOK
<1> QED  BY <1>1, <1>2, StutterInv

LEMMA NextInv == Inv /\ BudgetOK /\ [Next]_vars => Inv'
<1> SUFFICES ASSUME Inv, BudgetOK, [Next]_vars PROVE Inv'
  OBVIOUS
<1>1. CASE \E d \in Designs : EditTree(d)
  BY <1>1, EditTreeInv
<1>2. CASE Checkout \/ RecordProvenance \/ CrashFetch
  BY <1>2, CheckoutInv, RecordProvenanceInv, CrashFetchInv
<1>3. CASE (\E flag \in Flags : StartSweep(flag)) \/ SweepDesign \/ FinishSweep \/ CrashSweep
  BY <1>3, StartSweepInv, SweepDesignInv, FinishSweepInv, CrashSweepInv
<1>4. CASE \E r \in Requests, cond \in Conditions : StartAudit(r[1], cond, r[2])
  BY <1>4, StartAuditInv
<1>5. CASE Baseline \/ RunMutant \/ WriteReport \/ FinishAudit \/ CrashAudit
  BY <1>5, BaselineInv, RunMutantInv, WriteReportInv, FinishAuditInv, CrashAuditInv
<1>6. CASE \/ \E seed \in Seeds : StartPackaging(seed)
           \/ \E out \in Outs : SyncSample(out)
           \/ WriteMetadata
           \/ CrashPackaging
  BY <1>6, PackagingInv
<1>7. CASE UNCHANGED vars
  <2>1. UNCHANGED <<pin, tree, lock, fetch, sweep, audit, catalog, reports>>
    BY <1>7 DEF vars, procs, results
  <2>2. pin' \in Revisions
    BY <2>1 DEF Inv, TypeOK
  <2> QED  BY <2>1, <2>2, StutterInv
<1> QED  BY <1>1, <1>2, <1>3, <1>4, <1>5, <1>6, <1>7 DEF Next

-----------------------------------------------------------------------------
(* The budget *)

LEMMA UseBudget ==
    ASSUME BudgetOK, NEW kind \in Kinds, Use(kind)
    PROVE  /\ BudgetOK'
           /\ left.audits \in Nat
           /\ IF kind = "audits" THEN left.audits = left'.audits + 1
              ELSE left'.audits = left.audits
BY DEF BudgetOK, Use, Kinds

\* Only the start of an audit takes one of the audits.
LEMMA NextBudget ==
    ASSUME BudgetOK, [Next]_vars
    PROVE  /\ BudgetOK'
           /\ (~ \E r \in Requests, cond \in Conditions : StartAudit(r[1], cond, r[2]))
                => left'.audits = left.audits
<1>1. CASE left' = left
  BY <1>1 DEF BudgetOK
<1>2. CASE \E kind \in Kinds \ {"audits"} : Use(kind)
  BY <1>2, UseBudget
<1>3. CASE \E r \in Requests, cond \in Conditions : StartAudit(r[1], cond, r[2])
  <2>1. Use("audits")
    BY <1>3 DEF StartAudit
  <2> QED  BY <1>3, <2>1, UseBudget DEF Kinds
<1>4. CASE \/ \E d \in Designs : EditTree(d)
           \/ Checkout \/ CrashFetch \/ CrashSweep \/ CrashAudit \/ CrashPackaging
           \/ \E flag \in Flags : StartSweep(flag)
           \/ \E seed \in Seeds : StartPackaging(seed)
  <2>1. Use("edits") \/ Use("fetches") \/ Use("sweeps") \/ Use("packagings") \/ Use("crashes")
    BY <1>4 DEF EditTree, Checkout, CrashFetch, CrashSweep, CrashAudit, CrashPackaging,
                StartSweep, StartPackaging
  <2> QED  BY <1>2, <2>1 DEF Kinds
<1>5. CASE RecordProvenance \/ SweepDesign \/ FinishSweep
  BY <1>1, <1>5 DEF RecordProvenance, SweepDesign, FinishSweep
<1>6. CASE Baseline \/ RunMutant \/ WriteReport \/ FinishAudit
  BY <1>1, <1>6 DEF Baseline, RunMutant, JudgeMutant, WriteReport, FinishAudit
<1>7. CASE (\E out \in Outs : SyncSample(out)) \/ WriteMetadata
  BY <1>1, <1>7 DEF SyncSample, WriteMetadata
<1>8. CASE UNCHANGED vars
  BY <1>1, <1>8 DEF vars
<1> QED  BY <1>3, <1>4, <1>5, <1>6, <1>7, <1>8 DEF Next

-----------------------------------------------------------------------------
(* Whose report and whose summary it is.  The reports of an audit that went    *)
(* through are of a tree that had not changed, or was fetched again in time.  *)

\* An audit before the one that may come next; 0 for the committed campaign.
Past(by) == by = 0 \/ (by \in Nat /\ by > left.audits)

\* An edit shows in the tree until the next fetch.
AuditIsNext ==
    audit # Nothing =>
        /\ audit.by = left.audits + 1
        /\ ~audit.catalog.tainted => audit.before = Of(audit.catalog.commit)
        /\ audit.changed /\ ~audit.refetched /\ ~audit.catalog.tainted =>
             \E d \in Designs : tree[d] = Edited

SummaryIsPast(s) ==
    Readable(s) =>
        /\ Past(s.by)
        /\ audit # Nothing => s.by # audit.by

ReportIsPast(r) ==
    /\ Past(r.by)
    /\ audit # Nothing /\ r.by = audit.by =>
         /\ r.changed => audit.changed
         /\ r.dubious = audit.catalog.tainted

\* A report made under a change that its own audit would have seen has no summary.
Detected(r, s) ==
    Readable(s) /\ r.by = s.by /\ ~s.refetched /\ ~r.dubious => ~r.changed

AttributionInv ==
    /\ AuditIsNext
    /\ DOMAIN summary = Outs
    /\ \A out \in Outs : SummaryIsPast(summary[out])
    /\ \A out \in Outs, d \in Designs :
         Readable(reports[out][d]) =>
             /\ ReportIsPast(reports[out][d])
             /\ \A o \in Outs : Detected(reports[out][d], summary[o])

LEMMA InitAttribution == Init => AttributionInv
<1> SUFFICES ASSUME Init PROVE AttributionInv
  OBVIOUS
<1>1. PICK seed \in Seeds, flag \in Flags : CommittedCampaign(seed, flag)
  BY DEF Init
<1>2. audit = Nothing
  BY DEF Init
<1>3. /\ DOMAIN summary = Outs
      /\ \A out \in Outs : Readable(summary[out]) => summary[out].by = 0
  BY <1>1 DEF CommittedCampaign, Readable
<1>4. \A out \in Outs, d \in Designs :
        Readable(reports[out][d]) => reports[out][d].by = 0 /\ ~reports[out][d].changed
  BY <1>1 DEF CommittedCampaign, CommittedReport, Readable
<1> QED
  BY <1>2, <1>3, <1>4
  DEF AttributionInv, AuditIsNext, SummaryIsPast, ReportIsPast, Detected, Past

\* Neither report nor summary is written: the audit goes on, or ends.
LEMMA SameAudit ==
    ASSUME AttributionInv, UNCHANGED <<reports, summary>>, left'.audits = left.audits,
           audit' # Nothing =>
             /\ audit # Nothing
             /\ audit'.by = audit.by /\ audit'.catalog = audit.catalog
             /\ audit'.before = audit.before
             /\ audit.changed => audit'.changed
             /\ audit'.changed /\ ~audit'.refetched /\ ~audit.catalog.tainted =>
                  \E d \in Designs : tree'[d] = Edited
    PROVE  AttributionInv'
<1>1. AuditIsNext'
  BY DEF AttributionInv, AuditIsNext, Of
<1>2. \A out \in Outs : SummaryIsPast(summary[out])'
  BY DEF AttributionInv, SummaryIsPast, Past, Readable
<1>3. ASSUME NEW out \in Outs, NEW d \in Designs, Readable(reports'[out][d])
      PROVE  /\ ReportIsPast(reports[out][d])'
             /\ \A o \in Outs : Detected(reports[out][d], summary[o])'
  <2>1. /\ reports' = reports /\ summary' = summary /\ Readable(reports[out][d])
        /\ ReportIsPast(reports[out][d])
        /\ \A o \in Outs : Detected(reports[out][d], summary[o])
    BY <1>3 DEF AttributionInv, Readable
  <2>2. ReportIsPast(reports[out][d])'
    BY <2>1 DEF ReportIsPast, Past
  <2> QED  BY <2>1, <2>2 DEF Detected, Readable
<1>4. DOMAIN summary' = Outs
  BY DEF AttributionInv
<1> QED  BY <1>1, <1>2, <1>3, <1>4 DEF AttributionInv, Readable

LEMMA NothingOfThis ==
    ASSUME AttributionInv, UNCHANGED <<tree, audit, reports, summary>>,
           left'.audits = left.audits
    PROVE  AttributionInv'
<1>1. audit # Nothing /\ audit.changed /\ ~audit.refetched /\ ~audit.catalog.tainted =>
        \E d \in Designs : tree[d] = Edited
  BY DEF AttributionInv, AuditIsNext
<1> QED  BY <1>1, SameAudit

LEMMA TreeAttribution ==
    ASSUME Inv, AttributionInv, left'.audits = left.audits,
           (\E d \in Designs : EditTree(d)) \/ Checkout
    PROVE  AttributionInv'
<1>1. PICK how \in {"edited", "fetched"} :
        /\ Notice(how)
        /\ how = "edited" => \E d \in Designs : tree' = [tree EXCEPT ![d] = Edited]
  BY DEF EditTree, Checkout
<1>2. UNCHANGED <<reports, summary>>
  BY DEF EditTree, Checkout, results
<1>3. ASSUME audit' # Nothing
      PROVE  /\ audit # Nothing
             /\ audit'.by = audit.by /\ audit'.catalog = audit.catalog
             /\ audit'.before = audit.before /\ audit'.changed
             /\ audit'.refetched = (audit.refetched \/ how = "fetched")
  <2>1. /\ audit # Nothing /\ audit \in Audits
        /\ audit' = [audit EXCEPT !.changed = TRUE, !.refetched = @ \/ how = "fetched"]
    BY <1>1, <1>3, NoticeInv DEF Inv, TypeOK
  <2> QED  BY <2>1 DEF Audits
<1>4. how = "edited" => \E d \in Designs : tree'[d] = Edited
  BY <1>1 DEF Inv, TypeOK, Tree
<1> QED  BY <1>1, <1>2, <1>3, <1>4, SameAudit

LEMMA StartAuditAttribution ==
    ASSUME Inv, BudgetOK, AttributionInv,
           NEW r \in Requests, NEW cond \in Conditions, StartAudit(r[1], cond, r[2])
    PROVE  AttributionInv'
<1>1. /\ audit' # Nothing => /\ audit'.by = left.audits /\ audit'.catalog = catalog
                             /\ audit'.before = tree /\ audit'.changed = FALSE
      /\ Readable(catalog) /\ tree = catalog.content /\ audit = Nothing
      /\ UNCHANGED <<tree, reports, summary>>
  BY DEF StartAudit, results
<1>2. left.audits \in Nat /\ left'.audits \in Nat /\ left.audits = left'.audits + 1
  <2>1. Use("audits")
    BY DEF StartAudit
  <2> QED  BY <2>1, UseBudget DEF BudgetOK, Kinds
<1>3. \A by : Past(by) => Past(by)' /\ by # left.audits
  BY <1>2 DEF Past
<1>4. AuditIsNext'
  BY <1>1, <1>2 DEF AuditIsNext, Inv, ProvenanceInv, Of
<1>5. \A out \in Outs : SummaryIsPast(summary[out])'
  BY <1>1, <1>3 DEF AttributionInv, SummaryIsPast, Readable, Past
<1>6. ASSUME NEW out \in Outs, NEW d \in Designs, Readable(reports'[out][d])
      PROVE  /\ ReportIsPast(reports[out][d])'
             /\ \A o \in Outs : Detected(reports[out][d], summary[o])'
  <2>1. /\ Readable(reports[out][d]) /\ Past(reports[out][d].by)
        /\ \A o \in Outs : Detected(reports[out][d], summary[o])
    BY <1>1, <1>6 DEF AttributionInv, ReportIsPast, Readable
  <2>2. Past(reports[out][d].by)' /\ reports[out][d].by # left.audits
    BY <1>1, <1>3, <2>1 DEF Past
  <2> QED  BY <1>1, <2>1, <2>2 DEF ReportIsPast, Detected, Readable
<1>7. DOMAIN summary' = Outs
  BY <1>1 DEF AttributionInv
<1> QED  BY <1>4, <1>5, <1>6, <1>7 DEF AttributionInv, Readable

\* An audit that only measures, or ends without writing anything.
LEMMA MeasuringAttribution ==
    ASSUME Inv, AttributionInv, Baseline \/ RunMutant, left'.audits = left.audits
    PROVE  AttributionInv'
<1>1. /\ audit # Nothing /\ audit \in Audits
      /\ UNCHANGED <<tree, reports, summary>>
  BY DEF Baseline, RunMutant, JudgeMutant, Inv, TypeOK, results
<1>2. /\ audit'.by = audit.by /\ audit'.catalog = audit.catalog
      /\ audit'.before = audit.before /\ audit'.changed = audit.changed
      /\ audit'.refetched = audit.refetched
  <2>1. CASE Baseline
    <3>1. CASE audit' = [audit EXCEPT !.phase = "report", !.seen = {tree[Subject]}]
      BY <1>1, <3>1 DEF Audits
    <3>2. CASE audit' = [audit EXCEPT !.phase = "mutants", !.seen = {tree[Subject]},
                                      !.mutants = Mutants, !.result.status = "audited"]
      BY <1>1, <3>2 DEF Audits
    <3> QED  BY <2>1, <3>1, <3>2 DEF Baseline
  <2>2. CASE RunMutant
    <3>1. PICK m \in audit.mutants : JudgeMutant(m)
      BY <2>2 DEF RunMutant
    <3>2. CASE audit' = [audit EXCEPT !.mutants = @ \ {m}, !.seen = @ \cup {tree[Subject]},
                                      !.result.killed = @ \cup {m}]
      BY <1>1, <3>2 DEF Audits
    <3>3. CASE audit' = [audit EXCEPT !.mutants = @ \ {m}, !.seen = @ \cup {tree[Subject]},
                                      !.result.survived = @ \cup {m}]
      BY <1>1, <3>3 DEF Audits
    <3>4. CASE audit' = [audit EXCEPT !.mutants = @ \ {m}, !.seen = @ \cup {tree[Subject]},
                                      !.result.undecided = @ \cup {m}]
      BY <1>1, <3>4 DEF Audits
    <3> QED  BY <3>1, <3>2, <3>3, <3>4 DEF JudgeMutant
  <2> QED  BY <2>1, <2>2
<1>3. AuditIsNext
  BY DEF AttributionInv
<1> QED  BY <1>1, <1>2, <1>3, SameAudit DEF AuditIsNext

\* One report is written, whole or torn; the audit goes on or ends.
LEMMA OneAttribution ==
    ASSUME Inv, BudgetOK, AttributionInv, audit # Nothing, left'.audits = left.audits,
           UNCHANGED <<tree, summary>>,
           NEW out \in Outs, NEW d \in Designs, NEW r,
           reports' = [reports EXCEPT ![out][d] = r],
           Readable(r) => r.by = audit.by /\ r.changed = audit.changed
                          /\ r.dubious = audit.catalog.tainted,
           audit' # Nothing =>
             /\ audit'.by = audit.by /\ audit'.catalog = audit.catalog
             /\ audit'.before = audit.before /\ audit'.changed = audit.changed
             /\ audit'.refetched = audit.refetched
    PROVE  AttributionInv'
<1>1. AuditIsNext'
  BY DEF AttributionInv, AuditIsNext, Of
<1>2. \A o \in Outs : SummaryIsPast(summary[o])'
  BY DEF AttributionInv, SummaryIsPast, Past, Readable
<1>3. reports \in [Outs -> [Designs -> Report \cup {Nothing, Torn}]]
  BY DEF Inv, TypeOK
<1>4. ASSUME NEW o \in Outs, NEW e \in Designs, Readable(reports'[o][e])
      PROVE  /\ ReportIsPast(reports[o][e])'
             /\ \A x \in Outs : Detected(reports[o][e], summary[x])'
  <2>1. CASE o = out /\ e = d
    <3>1. reports'[o][e] = r
      BY <1>3, <2>1
    <3>2. /\ r.by = audit.by /\ r.changed = audit.changed
          /\ r.dubious = audit.catalog.tainted
      BY <1>4, <3>1 DEF Readable
    <3>3. left.audits \in Nat /\ audit.by = left.audits + 1
      BY DEF AttributionInv, AuditIsNext, BudgetOK, Kinds
    <3>4. ReportIsPast(reports[o][e])'
      BY <3>1, <3>2, <3>3 DEF ReportIsPast, Past
    <3>5. \A x \in Outs : Readable(summary[x]) => summary[x].by # r.by
      BY <3>2 DEF AttributionInv, SummaryIsPast
    <3> QED  BY <3>1, <3>4, <3>5 DEF Detected, Readable
  <2>2. CASE ~(o = out /\ e = d)
    <3>1. reports'[o][e] = reports[o][e]
      BY <1>3, <2>2
    <3>2. /\ ReportIsPast(reports[o][e])
          /\ \A x \in Outs : Detected(reports[o][e], summary[x])
      BY <1>4, <3>1 DEF AttributionInv, Readable
    <3>3. ReportIsPast(reports[o][e])'
      BY <3>1, <3>2 DEF ReportIsPast, Past
    <3> QED  BY <3>1, <3>2, <3>3 DEF Detected, Readable
  <2> QED  BY <2>1, <2>2
<1>5. DOMAIN summary' = Outs
  BY DEF AttributionInv
<1> QED  BY <1>1, <1>2, <1>4, <1>5 DEF AttributionInv, Readable

LEMMA WriteReportAttribution ==
    ASSUME Inv, BudgetOK, AttributionInv, WriteReport, left'.audits = left.audits
    PROVE  AttributionInv'
<1>1. /\ audit # Nothing /\ audit \in Audits /\ audit.todo # {} /\ audit.out \in Outs
      /\ reports' = [reports EXCEPT ![audit.out][Subject] = ReportOf(audit)]
      /\ UNCHANGED <<tree, summary>>
  BY DEF WriteReport, ReportIsDue, Inv, TypeOK, AuditInv, Audits
<1>2. Subject \in Designs
  BY <1>1, SubjectIsDesign
<1>3. /\ ReportOf(audit).by = audit.by /\ ReportOf(audit).changed = audit.changed
      /\ ReportOf(audit).dubious = audit.catalog.tainted
  BY DEF ReportOf
<1>4. /\ audit'.by = audit.by /\ audit'.catalog = audit.catalog
      /\ audit'.before = audit.before /\ audit'.changed = audit.changed
      /\ audit'.refetched = audit.refetched
  BY <1>1 DEF WriteReport, Audits
<1> QED  BY <1>1, <1>2, <1>3, <1>4, OneAttribution

\* A summary, or a torn one, is put in the place of another; the audit is over.
LEMMA SummaryAttribution ==
    ASSUME AttributionInv, audit' = Nothing, left'.audits = left.audits,
           UNCHANGED <<tree, reports>>, NEW out \in Outs, NEW s,
           summary' = [summary EXCEPT ![out] = s],
           Readable(s) =>
             /\ Past(s.by)
             /\ \A o \in Outs, d \in Designs :
                  Readable(reports[o][d]) => Detected(reports[o][d], s)
    PROVE  AttributionInv'
<1>1. /\ DOMAIN summary' = Outs
      /\ \A o \in Outs : summary'[o] = IF o = out THEN s ELSE summary[o]
  BY DEF AttributionInv
<1>2. ASSUME NEW o \in Outs PROVE SummaryIsPast(summary[o])'
  <2>1. Readable(summary'[o]) => Past(summary'[o].by)
    BY <1>1 DEF AttributionInv, SummaryIsPast
  <2> QED  BY <2>1 DEF SummaryIsPast, Past, Readable
<1>3. ASSUME NEW o \in Outs, NEW d \in Designs, Readable(reports[o][d])
      PROVE  /\ ReportIsPast(reports[o][d])'
             /\ \A x \in Outs : Detected(reports[o][d], summary[x])'
  <2>1. /\ ReportIsPast(reports[o][d])
        /\ \A x \in Outs : Detected(reports[o][d], summary[x])
    BY <1>3 DEF AttributionInv
  <2>2. ReportIsPast(reports[o][d])'
    BY <2>1 DEF ReportIsPast, Past
  <2>3. ASSUME NEW x \in Outs PROVE Detected(reports[o][d], summary'[x])
    <3>1. CASE x = out
      BY <1>1, <1>3, <3>1 DEF Detected
    <3>2. CASE x # out
      BY <1>1, <2>1, <3>2
    <3> QED  BY <3>1, <3>2
  <2> QED  BY <2>2, <2>3 DEF Detected, Readable
<1>4. AuditIsNext'
  BY DEF AuditIsNext
<1> QED  BY <1>1, <1>2, <1>3, <1>4 DEF AttributionInv, Readable

\* If the tree is what it was before, it has not been edited, or was fetched again.
LEMMA FinishAuditAttribution ==
    ASSUME Inv, BudgetOK, AttributionInv, FinishAudit, left'.audits = left.audits
    PROVE  AttributionInv'
<1>1. /\ audit # Nothing /\ audit \in Audits /\ audit.out \in Outs /\ audit' = Nothing
      /\ UNCHANGED <<tree, reports>>
  BY DEF FinishAudit, Inv, TypeOK, Audits
<1>2. CASE summary' = summary
  BY <1>1, <1>2, SameAudit
<1> DEFINE s == [cond |-> audit.cond, commit |-> audit.catalog.commit,
                 requested |-> audit.requested, audited |-> audit.audited,
                 by |-> audit.by, refetched |-> audit.refetched]
<1>3. CASE tree = audit.before /\ summary' = [summary EXCEPT ![audit.out] = s]
  <2>1. s.by = audit.by /\ s.refetched = audit.refetched
    OBVIOUS
  <2>2. left.audits \in Nat /\ audit.by = left.audits + 1
    BY <1>1 DEF AttributionInv, AuditIsNext, BudgetOK, Kinds
  <2> HIDE DEF s
  <2>3. Past(s.by)
    BY <2>1, <2>2 DEF Past
  <2>4. audit.changed /\ ~audit.refetched => audit.catalog.tainted
    <3> SUFFICES ASSUME audit.changed, ~audit.refetched, ~audit.catalog.tainted PROVE FALSE
      BY <1>1 DEF Audits
    <3>1. tree = Of(audit.catalog.commit) /\ \E d \in Designs : tree[d] = Edited
      BY <1>1, <1>3 DEF AttributionInv, AuditIsNext
    <3>2. audit.catalog.commit = Edited
      BY <3>1 DEF Of
    <3>3. audit.catalog.commit \in Revisions
      BY <1>1 DEF Audits, Catalogs
    <3> QED  BY <3>2, <3>3, SizeAssumption DEF Revisions, Edited
  <2>5. ASSUME NEW o \in Outs, NEW d \in Designs, Readable(reports[o][d])
        PROVE  Detected(reports[o][d], s)
    <3>1. ReportIsPast(reports[o][d])
      BY <2>5 DEF AttributionInv
    <3> QED  BY <1>1, <2>1, <2>4, <3>1 DEF ReportIsPast, Detected
  <2> QED  BY <1>1, <1>3, <2>3, <2>5, SummaryAttribution
<1> QED  BY <1>2, <1>3 DEF FinishAudit

LEMMA CrashAuditAttribution ==
    ASSUME Inv, BudgetOK, AttributionInv, CrashAudit, left'.audits = left.audits
    PROVE  AttributionInv'
<1>1. /\ audit # Nothing /\ audit \in Audits /\ audit.out \in Outs /\ audit' = Nothing
      /\ tree' = tree
  BY DEF CrashAudit, Inv, TypeOK, Audits
<1>2. CASE UNCHANGED <<results, package>>
  BY <1>1, <1>2, SameAudit DEF results
<1>3. CASE ReportIsDue /\ reports' = [reports EXCEPT ![audit.out][Subject] = Torn] /\ UNCHANGED summary
  <2>1. Subject \in Designs
    BY <1>1, <1>3, SubjectIsDesign DEF Inv, AuditInv, ReportIsDue
  <2> QED  BY <1>1, <1>3, <2>1, OneAttribution DEF Readable
<1>4. CASE summary' = [summary EXCEPT ![audit.out] = Torn] /\ UNCHANGED reports
  BY <1>1, <1>4, SummaryAttribution DEF Readable
<1> QED  BY <1>2, <1>3, <1>4 DEF CrashAudit

LEMMA NextAttribution == Inv /\ BudgetOK /\ AttributionInv /\ [Next]_vars => AttributionInv'
<1> SUFFICES ASSUME Inv, BudgetOK, AttributionInv, [Next]_vars PROVE AttributionInv'
  OBVIOUS
<1>1. CASE \E r \in Requests, cond \in Conditions : StartAudit(r[1], cond, r[2])
  BY <1>1, StartAuditAttribution
<1> SUFFICES ASSUME left'.audits = left.audits,
                    ~ \E r \in Requests, cond \in Conditions : StartAudit(r[1], cond, r[2])
             PROVE  AttributionInv'
  BY <1>1, NextBudget
<1>2. CASE (\E d \in Designs : EditTree(d)) \/ Checkout
  BY <1>2, TreeAttribution
<1>3. CASE RecordProvenance \/ CrashFetch
  BY <1>3, NothingOfThis DEF RecordProvenance, CrashFetch, results
<1>4. CASE (\E flag \in Flags : StartSweep(flag)) \/ SweepDesign \/ FinishSweep \/ CrashSweep
  BY <1>4, NothingOfThis DEF StartSweep, SweepDesign, FinishSweep, CrashSweep, results
<1>5. CASE Baseline \/ RunMutant
  BY <1>5, MeasuringAttribution
<1>6. CASE WriteReport \/ FinishAudit \/ CrashAudit
  BY <1>6, WriteReportAttribution, FinishAuditAttribution, CrashAuditAttribution
<1>7. CASE \/ \E seed \in Seeds : StartPackaging(seed)
           \/ \E out \in Outs : SyncSample(out)
           \/ WriteMetadata
           \/ CrashPackaging
  BY <1>7, NothingOfThis DEF StartPackaging, SyncSample, WriteMetadata, CrashPackaging, results
<1>8. CASE UNCHANGED vars
  BY <1>8, NothingOfThis DEF vars, procs, results
<1> QED  BY <1>2, <1>3, <1>4, <1>5, <1>6, <1>7, <1>8 DEF Next

-----------------------------------------------------------------------------
(* The sample.  Packaging checks the two reports of a design, then reads them *)
(* again for each copy: they are the same as long as nobody has written one.  *)

\* The copies in one directory are those of the designs, as first reported.
Copied(out, ds) ==
    \A d \in Designs :
        copies[out][d] = IF d \in ds THEN Bytes(reports["final"][d]) ELSE Nothing

\* From its first copy on a packaging that has not gone through attests nothing.
SampleInv ==
    /\ DOMAIN copies = Outs
    /\ package # Nothing =>
         /\ package \in Packaging /\ package.sampled # {}
         /\ package.next # "final" => attested = FALSE
    /\ package # Nothing /\ ~package.disturbed =>
         /\ \A d \in package.sampled : Readable(reports["final"][d]) /\ Reproduced(d)
         /\ package.next # "final" => Copied("final", package.sampled)
         /\ package.next = "metadata" => Copied("redo", package.sampled)
    /\ SampleIsReproduced

\* A finite set has subsets of every size up to its own.
LEMMA SubsetOfSize ==
    ASSUME NEW S, IsFiniteSet(S), NEW n \in Nat, n <= Cardinality(S)
    PROVE  \E T \in SUBSET S : Cardinality(T) = n
<1> DEFINE c == Cardinality(S)
<1>1. c \in Nat /\ ExistsBijection(1 .. c, S)
  BY FS_CardinalityType
<1>2. PICK f \in [1 .. c -> S] : \A i, j \in 1 .. c : f[i] = f[j] => i = j
  BY <1>1 DEF ExistsBijection, Bijection, Injection, IsInjective
<1> HIDE DEF c
<1>3. 1 .. n \subseteq 1 .. c
  BY <1>1 DEF c
<1> DEFINE T == {f[i] : i \in 1 .. n}
           g == [i \in 1 .. n |-> f[i]]
<1>4. g \in Bijection(1 .. n, T)
  BY <1>2, <1>3 DEF Bijection, Injection, IsInjective, Surjection
<1>5. ExistsBijection(1 .. n, T)
  BY <1>4 DEF ExistsBijection
<1>6. T \in SUBSET S
  BY <1>2, <1>3
<1> HIDE DEF T
<1>7. Cardinality(T) = n
  BY <1>5, FS_CountingElements
<1> QED  BY <1>6, <1>7

LEMMA SampleIsEligible == Eligible # {} => Sample \in SUBSET Eligible /\ Sample # {}
<1> SUFFICES ASSUME Eligible # {} PROVE Sample \in SUBSET Eligible /\ Sample # {}
  OBVIOUS
<1> DEFINE n == Cardinality(Eligible)
           size == IF n < 10 THEN 1 ELSE n \div 5
<1>1. IsFiniteSet(Eligible)
  <2>1. IsFiniteSet(Designs)
    BY SizeAssumption, FS_Interval DEF Designs
  <2>2. Eligible \in SUBSET Designs
    BY DEF Eligible
  <2> QED  BY <2>1, <2>2, FS_Subset
<1>2. n \in Nat /\ n # 0
  BY <1>1, FS_CardinalityType, FS_EmptySet
<1> HIDE DEF n
<1>3. size \in Nat /\ size <= n /\ size # 0
  BY <1>2
<1> HIDE DEF size
<1>4. \E ds \in SUBSET Eligible : Cardinality(ds) = size
  BY <1>1, <1>3, SubsetOfSize DEF n
<1>5. Sample = CHOOSE ds \in SUBSET Eligible : Cardinality(ds) = size
  BY DEF Sample, size, n
<1>6. Sample \in SUBSET Eligible /\ Cardinality(Sample) = size
  BY <1>4, <1>5
<1> QED  BY <1>3, <1>6, FS_EmptySet

\* The bytes of a report, in a sample, are no gap and nothing torn.
LEMMA BytesAreFiles ==
    ASSUME NEW r \in Report PROVE Bytes(r) \in Files /\ Bytes(r) # Nothing /\ Bytes(r) # Torn
<1>1. Bytes(r) \in Files
  BY DEF Report, Bytes, Files
<1> QED  BY <1>1, NothingAssumption

LEMMA InitSample == Init => SampleInv
<1> SUFFICES ASSUME Init PROVE SampleInv
  OBVIOUS
<1>1. PICK seed \in Seeds, flag \in Flags : CommittedCampaign(seed, flag)
  BY DEF Init
<1>2. metadata # {}
  <2>1. PICK ds \in SUBSET Designs : Cardinality(ds) = 1 /\ metadata = ds
    BY <1>1 DEF CommittedCampaign
  <2> QED  BY <2>1, FS_EmptySet
<1>3. ASSUME NEW d \in Designs
      PROVE  /\ copies["final"][d] = copies["redo"][d]
             /\ copies["final"][d] # Torn
             /\ (copies["final"][d] # Nothing) <=> d \in metadata
  <2>1. \A out \in Outs :
          copies[out][d] = IF d \in metadata THEN Bytes(CommittedReport(d, seed, flag)) ELSE Nothing
    BY <1>1, <1>3 DEF CommittedCampaign
  <2>2. Bytes(CommittedReport(d, seed, flag)) \notin {Nothing, Torn}
    BY CommittedReportIsTrue, BytesAreFiles
  <2> QED  BY <2>1, <2>2, FileAssumption DEF Outs
<1>4. DOMAIN copies = Outs /\ package = Nothing
  BY <1>1 DEF CommittedCampaign, Init
<1> QED  BY <1>2, <1>3, <1>4 DEF SampleInv, SampleIsReproduced

LEMMA SampleKept ==
    ASSUME SampleInv, UNCHANGED <<reports, package, packaged>> PROVE SampleInv'
<1>1. SampleIsReproduced'
  BY DEF SampleInv, SampleIsReproduced, packaged
<1> QED  BY <1>1 DEF SampleInv, Copied, Reproduced, Readable, Bytes, packaged

\* Nothing is known of what a packaging reads once a report is written under it.
LEMMA SampleDisturbed ==
    ASSUME SampleInv, Disturb, UNCHANGED packaged PROVE SampleInv'
<1>1. SampleIsReproduced'
  BY DEF SampleInv, SampleIsReproduced, packaged
<1>2. package' # Nothing =>
        /\ package # Nothing /\ package' \in Packaging /\ package'.disturbed
        /\ package'.sampled = package.sampled /\ package'.next = package.next
  BY DEF SampleInv, Disturb, Packaging
<1> QED  BY <1>1, <1>2 DEF SampleInv, packaged

LEMMA StartPackagingSample ==
    ASSUME SampleInv, NEW seed \in Seeds, StartPackaging(seed) PROVE SampleInv'
<1>1. /\ package' = [sampled |-> Sample, next |-> "final", disturbed |-> FALSE]
      /\ Eligible # {} /\ ReportsLoad /\ \A d \in Sample : Reproduced(d)
      /\ UNCHANGED <<reports, copies, metadata, attested>>
  BY DEF StartPackaging, results, packaged
<1>2. Sample \in SUBSET Eligible /\ Sample # {}
  BY <1>1, SampleIsEligible
<1>3. Sample \in SUBSET Designs /\ \A d \in Sample : Readable(reports["final"][d])
  BY <1>1, <1>2 DEF Eligible, ReportsLoad
<1>4. package' \in Packaging /\ package'.sampled = Sample /\ package'.next = "final"
  BY <1>1, <1>3 DEF Packaging
<1>5. \A d \in package'.sampled : Readable(reports'["final"][d]) /\ Reproduced(d)'
  BY <1>1, <1>3, <1>4 DEF Reproduced
<1>6. DOMAIN copies' = Outs /\ SampleIsReproduced'
  BY <1>1 DEF SampleInv, SampleIsReproduced
<1> QED  BY <1>2, <1>4, <1>5, <1>6 DEF SampleInv

LEMMA SyncSampleSample ==
    ASSUME Inv, SampleInv, NEW out \in Outs, SyncSample(out) PROVE SampleInv'
<1> DEFINE next == IF out = "final" THEN "redo" ELSE "metadata"
<1>0. PICK S : S = package.sampled
  OBVIOUS
<1>1. /\ package # Nothing /\ package \in Packaging /\ package.next = out /\ S # {}
      /\ package' = [package EXCEPT !.next = next]
      /\ copies' = [copies EXCEPT ![out] =
            [d \in Designs |-> IF d \in S THEN Copy(reports[out][d]) ELSE Nothing]]
      /\ attested' = FALSE /\ reports' = reports
  BY <1>0 DEF SyncSample, SampleInv, results
<1>2. /\ package' \in Packaging /\ package'.sampled = S /\ package'.next = next
      /\ package'.disturbed = package.disturbed
  BY <1>0, <1>1 DEF Packaging, Outs
<1>3. /\ DOMAIN copies' = Outs
      /\ copies'[out] = [d \in Designs |-> IF d \in S THEN Copy(reports[out][d]) ELSE Nothing]
      /\ \A o \in Outs \ {out} : copies'[o] = copies[o]
  BY <1>1 DEF SampleInv
<1>4. ASSUME ~package.disturbed
      PROVE  /\ \A d \in S : Readable(reports["final"][d]) /\ Reproduced(d)
             /\ out # "final" => Copied("final", S)
  BY <1>0, <1>1, <1>4 DEF SampleInv
<1>5. ASSUME ~package.disturbed PROVE Copied(out, S)'
  <2>1. \A d \in S : Copy(reports[out][d]) = Bytes(reports["final"][d])
    BY <1>4, <1>5 DEF Outs, Reproduced, Copy
  <2>2. \A d \in Designs :
          copies'[out][d] = IF d \in S THEN Bytes(reports["final"][d]) ELSE Nothing
    BY <1>3, <2>1, Zenon
  <2>3. \A d \in Designs : Bytes(reports["final"][d])' = Bytes(reports["final"][d])
    BY <1>1 DEF Bytes
  <2> QED  BY <2>2, <2>3 DEF Copied
<1>6. ASSUME ~package.disturbed, out # "final" PROVE Copied("final", S)'
  <2>1. copies'["final"] = copies["final"]
    BY <1>3, <1>6 DEF Outs
  <2> QED  BY <1>1, <1>4, <1>6, <2>1 DEF Copied, Bytes
<1>7. ASSUME ~package.disturbed PROVE \A d \in S : Readable(reports'["final"][d]) /\ Reproduced(d)'
  BY <1>1, <1>4, <1>7 DEF Reproduced, Readable, Bytes
<1>8. SampleIsReproduced'
  BY <1>1 DEF SampleIsReproduced
<1> QED  BY <1>1, <1>2, <1>3, <1>5, <1>6, <1>7, <1>8 DEF SampleInv, Outs

LEMMA WriteMetadataSample ==
    ASSUME Inv, SampleInv, WriteMetadata PROVE SampleInv'
<1>1. /\ package # Nothing /\ package.next = "metadata"
      /\ metadata' = package.sampled /\ package' = Nothing
      /\ attested' = ~package.disturbed
      /\ UNCHANGED <<reports, copies>>
  BY DEF WriteMetadata, results
<1>2. ASSUME attested', NEW d \in Designs
      PROVE  /\ copies["final"][d] = copies["redo"][d]
             /\ copies["final"][d] # Torn
             /\ (copies["final"][d] # Nothing) <=> d \in package.sampled
  <2>1. /\ d \in package.sampled => Readable(reports["final"][d])
        /\ \A out \in Outs :
             copies[out][d] = IF d \in package.sampled THEN Bytes(reports["final"][d]) ELSE Nothing
    BY <1>1, <1>2 DEF SampleInv, Copied, Outs
  <2>2. d \in package.sampled => reports["final"][d] \in Report
    BY <2>1 DEF Inv, TypeOK, Outs, Readable
  <2>3. d \in package.sampled => Bytes(reports["final"][d]) \notin {Nothing, Torn}
    BY <2>2, BytesAreFiles
  <2> QED  BY <2>1, <2>3, FileAssumption DEF Outs
<1>3. SampleIsReproduced'
  BY <1>1, <1>2 DEF SampleIsReproduced, SampleInv
<1>4. DOMAIN copies' = Outs
  BY <1>1 DEF SampleInv
<1> QED  BY <1>1, <1>3, <1>4 DEF SampleInv

\* What a packaging that dies leaves behind is attested by nobody.
LEMMA CrashPackagingSample ==
    ASSUME SampleInv, CrashPackaging PROVE SampleInv'
<1>1. package # Nothing /\ package' = Nothing
  BY DEF CrashPackaging
<1>2. DOMAIN copies' = Outs
  BY DEF CrashPackaging, SampleInv, packaged
<1>3. SampleIsReproduced'
  <2>1. CASE UNCHANGED packaged
    BY <2>1 DEF SampleInv, SampleIsReproduced, packaged
  <2>2. CASE attested' = FALSE
    BY <2>2 DEF SampleIsReproduced
  <2>3. CASE package.next = "metadata" /\ UNCHANGED <<copies, attested>>
    <3>1. attested = FALSE
      BY <1>1, <2>3 DEF SampleInv
    <3> QED  BY <2>3, <3>1 DEF SampleIsReproduced
  <2> QED  BY <2>1, <2>2, <2>3 DEF CrashPackaging
<1> QED  BY <1>1, <1>2, <1>3 DEF SampleInv

\* One step at a time: a report that is written, whole or torn, is noticed.
LEMMA SampleStep == Inv /\ SampleInv /\ [Next]_vars => SampleInv'
<1> SUFFICES ASSUME Inv, SampleInv, [Next]_vars PROVE SampleInv'
  OBVIOUS
<1>1. CASE (\E d \in Designs : EditTree(d)) \/ Checkout \/ RecordProvenance \/ CrashFetch
  BY <1>1, SampleKept DEF EditTree, Checkout, RecordProvenance, CrashFetch, procs, results
<1>2. CASE (\E flag \in Flags : StartSweep(flag)) \/ SweepDesign \/ FinishSweep \/ CrashSweep
  BY <1>2, SampleKept DEF StartSweep, SweepDesign, FinishSweep, CrashSweep, results
<1>3. CASE \E r \in Requests, cond \in Conditions : StartAudit(r[1], cond, r[2])
  BY <1>3, SampleKept DEF StartAudit, results
<1>4. CASE Baseline \/ RunMutant
  <2>1. UNCHANGED <<reports, package, packaged>>
    BY <1>4 DEF Baseline, RunMutant, JudgeMutant, results
  <2> QED  BY <2>1, SampleKept
<1>5. CASE WriteReport
  BY <1>5, SampleDisturbed DEF WriteReport
<1>6. CASE FinishAudit
  BY <1>6, SampleKept DEF FinishAudit
<1>7. CASE CrashAudit
  <2>1. CASE UNCHANGED <<results, package>>
    BY <1>7, <2>1, SampleKept DEF CrashAudit, results
  <2>2. CASE Disturb
    BY <1>7, <2>2, SampleDisturbed DEF CrashAudit
  <2>3. CASE UNCHANGED <<reports, package>>
    BY <1>7, <2>3, SampleKept DEF CrashAudit
  <2> QED  BY <1>7, <2>1, <2>2, <2>3 DEF CrashAudit
<1>8. CASE UNCHANGED vars
  BY <1>8, SampleKept DEF vars, procs, results
<1> QED  BY <1>1, <1>2, <1>3, <1>4, <1>5, <1>6, <1>7, <1>8, StartPackagingSample,
            SyncSampleSample, WriteMetadataSample, CrashPackagingSample DEF Next

-----------------------------------------------------------------------------
(* The theorems *)

LEMMA InitAll == Init => Inv /\ BudgetOK /\ AttributionInv
<1>1. Init => BudgetOK
  BY SizeAssumption DEF Init, BudgetOK
<1> QED  BY <1>1, InitInv, InitAttribution

LEMMA NextAll ==
    Inv /\ BudgetOK /\ AttributionInv /\ [Next]_vars => (Inv /\ BudgetOK /\ AttributionInv)'
  BY NextInv, NextBudget, NextAttribution

\* Whatever is edited, pinned, fetched or killed in between, a report under whose
\* audit the tree did not change, and whose catalog's tree was hashed as it was
\* verified, was measured on the files of the commit it names (fetch_vendor.py,
\* sweep_rtllm.py, run_audit.py).
THEOREM ReportsOfTheirCommit == Spec => []ReportsAreOfTheirCommit
<1>1. Inv => ReportsAreOfTheirCommit
  BY DEF Inv, ReportInv, ReportIsTrue, ReportsAreOfTheirCommit
<1> QED  BY InitAll, NextAll, <1>1, PTL DEF Spec

\* The appendix the paper accepts is of one commit, of the paper's flag unless no
\* file states one, and says of the commit only what was measured on it, an edit
\* under the summary's own audit included (generate_audit_appendix.py).
THEOREM AppendixEarned == Spec => []AppendixIsEarned
<1>1. Inv /\ AttributionInv => AppendixIsEarned
  <2> SUFFICES ASSUME Inv, AttributionInv, AppendixAccepts, NEW d \in Designs
               PROVE  LET r == reports["final"][d]
                      IN  /\ r.commit = reports["final"][1].commit
                          /\ (\A e \in Designs : reports["final"][e].cond.flag = Nothing)
                                \/ r.ran = PaperFlag
                          /\ ~Undetected(r, summary["final"]) /\ ~r.dubious =>
                               Earned(d, r.commit, r.ran, r)
    BY DEF AppendixIsEarned
  <2> DEFINE r == reports["final"][d]
             sum == summary["final"]
  <2>1. 1 \in Designs /\ "final" \in Outs
    BY SizeAssumption DEF Designs, Outs
  <2>2. /\ Readable(r) /\ Readable(sum)
        /\ \A e \in Designs : /\ reports["final"][e].cond = sum.cond
                               /\ reports["final"][e].commit = sum.commit
        /\ sum.cond.flag \in {Nothing, PaperFlag}
    BY DEF AppendixAccepts, RowsAgree
  <2>3. ReportIsTrue(d, r) /\ Detected(r, sum)
    BY <2>1, <2>2 DEF Inv, ReportInv, AttributionInv
  <2>4. r.commit = reports["final"][1].commit
    BY <2>1, <2>2
  <2>5. (\A e \in Designs : reports["final"][e].cond.flag = Nothing) \/ r.ran = PaperFlag
    <3>1. CASE sum.cond.flag = Nothing
      BY <2>2, <3>1
    <3>2. CASE sum.cond.flag = PaperFlag
      <4>1. r.cond.flag = PaperFlag /\ PaperFlag # Nothing
        BY <2>2, <3>2, DesignAssumption, FileAssumption
      <4> QED  BY <2>3, <4>1 DEF ReportIsTrue
    <3> QED  BY <2>2, <3>1, <3>2
  <2>6. ~Undetected(r, sum) /\ ~r.dubious => Earned(d, r.commit, r.ran, r)
    <3> HIDE DEF r, sum
    <3> QED  BY <2>2, <2>3 DEF Undetected, Detected, ReportIsTrue
  <2> QED  BY <2>4, <2>5, <2>6
<1> QED  BY InitAll, NextAll, <1>1, PTL DEF Spec

\* What determinism.json attests is so: when a packaging has gone through and no
\* report was written under it, whatever packagings died before, the two samples
\* hold the designs it names and no others, and are the same, although every report
\* is read twice (package_results.py).
THEOREM SamplesAgree == Spec => []SampleIsReproduced
<1>1. SampleInv => SampleIsReproduced
  BY DEF SampleInv
<1> QED  BY InitAll, NextAll, InitSample, SampleStep, <1>1, PTL DEF Spec
=============================================================================
