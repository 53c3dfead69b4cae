------------------------- MODULE SitePublishProofs --------------------------
(***************************************************************************)
(* Proofs about modules Rescore and SitePublish: a rescoring that finishes *)
(* leaves the same scores, of the expected means, in every file, and a     *)
(* live site is complete and its rows have means that were expected, for   *)
(* any number of models, tasks, versions and crashes.                      *)
(***************************************************************************)
EXTENDS SitePublish, TLAPS

-----------------------------------------------------------------------------
(* The inductive invariant of the rescoring *)

\* What a rescoring that writes has left to write, it has listed.
WriterInv ==
    rescore # Nothing =>
        /\ rescore.pc = "read" => rescore.stale = {}
        /\ rescore.pc = "write" =>
             /\ MeansOfOneVersion(rescore.desired)
             /\ \A file \in Files \ rescore.stale : ~Differs(file, rescore.desired)

RescoreInv ==
    /\ RescoreTypeOK
    /\ RowsOfOneVersion(summaries)
    /\ WriterInv
    /\ FinishedRescoringConverges

LEMMA EmptyBoardType == EmptyBoard \in [Models -> Scores]
  BY DEF EmptyBoard, Scores

LEMMA RatiosAreExpected ==
    ASSUME NEW v \in Versions
    PROVE  /\ Ppa[v] \in [Models -> Scores]
           /\ MeansOfOneVersion(Ppa[v])
           /\ RowsOfOneVersion(Ppa[v])
  BY OfficialAssumption, ExpectedAssumption DEF MeansOfOneVersion, RowsOfOneVersion

LEMMA FilesOfModel ==
    ASSUME NEW m \in Models
    PROVE  /\ <<m, Summary>> \in Files
           /\ \A t \in TaskIds : <<m, t>> \in Files /\ t # Summary
  BY OfficialAssumption DEF Files, Summary, TaskIds

\* Files that differ nowhere are the desired ones.
LEMMA NoneDiffers ==
    ASSUME NEW desired \in [Models -> Scores], RescoreTypeOK,
           \A file \in Files : ~Differs(file, desired)
    PROVE  manifests = desired /\ summaries = desired
<1>1. ASSUME NEW m \in Models PROVE summaries[m] = desired[m]
  <2>1. ~Differs(<<m, Summary>>, desired)
    BY FilesOfModel
  <2> QED  BY <2>1 DEF Differs
<1>2. ASSUME NEW m \in Models, NEW t \in TaskIds PROVE manifests[m][t] = desired[m][t]
  <2>1. ~Differs(<<m, t>>, desired) /\ t # Summary
    BY FilesOfModel
  <2> QED  BY <2>1 DEF Differs
<1>3. ASSUME NEW m \in Models PROVE manifests[m] = desired[m]
  <2>1. manifests[m] \in Scores /\ desired[m] \in Scores
    BY DEF RescoreTypeOK
  <2> QED  BY <1>2, <2>1 DEF Scores
<1> QED  BY <1>1, <1>3 DEF RescoreTypeOK

LEMMA RescoreInitInv == RescoreInit => RescoreInv
<1> SUFFICES ASSUME RescoreInit PROVE RescoreInv
  OBVIOUS
<1>1. 1 \in Versions
  BY OfficialAssumption DEF Versions
<1>2. RescoreTypeOK
  BY <1>1, RatiosAreExpected DEF RescoreInit, RescoreTypeOK
<1>3. RowsOfOneVersion(summaries) /\ WriterInv /\ FinishedRescoringConverges
  BY <1>1, RatiosAreExpected DEF RescoreInit, WriterInv, FinishedRescoringConverges
<1> QED  BY <1>2, <1>3 DEF RescoreInv

\* One file is written.
LEMMA WriteType ==
    ASSUME RescoreTypeOK, rescore # Nothing, NEW file \in Files, Write(file)
    PROVE  /\ manifests' \in [Models -> Scores]
           /\ summaries' \in [Models -> Scores]
           /\ RowsOfOneVersion(summaries) /\ MeansOfOneVersion(rescore.desired) =>
                RowsOfOneVersion(summaries')
           /\ manifests'[file[1]] \in Scores
           /\ \A other \in Files :
                (other = file \/ ~Differs(other, rescore.desired)) =>
                    IF other[2] = Summary THEN summaries'[other[1]] = rescore.desired[other[1]]
                    ELSE manifests'[other[1]][other[2]] = rescore.desired[other[1]][other[2]]
<1> DEFINE m == file[1]
           t == file[2]
<1>1. /\ rescore.desired \in [Models -> Scores]
      /\ manifests \in [Models -> Scores]
      /\ summaries \in [Models -> Scores]
  BY DEF RescoreTypeOK, Rescorings
<1>2. m \in Models /\ t \in 1 .. Summary /\ file = <<m, t>>
  BY DEF Files
<1>3. CASE t = Summary
  <2>1. /\ summaries' = [summaries EXCEPT ![m] = rescore.desired[m]]
        /\ manifests' = manifests
    BY <1>3 DEF Write
  <2>2. summaries' \in [Models -> Scores]
    BY <1>1, <1>2, <2>1
  <2>3. ASSUME RowsOfOneVersion(summaries), MeansOfOneVersion(rescore.desired)
        PROVE  RowsOfOneVersion(summaries')
    BY <1>1, <1>2, <2>1, <2>3 DEF RowsOfOneVersion, MeansOfOneVersion
  <2>4. ASSUME NEW other \in Files, other = file \/ ~Differs(other, rescore.desired)
        PROVE  IF other[2] = Summary THEN summaries'[other[1]] = rescore.desired[other[1]]
               ELSE manifests'[other[1]][other[2]] = rescore.desired[other[1]][other[2]]
    <3>1. other[1] \in Models
      BY DEF Files
    <3> QED  BY <1>1, <1>2, <1>3, <2>1, <2>4, <3>1 DEF Differs
  <2> QED  BY <1>1, <1>2, <2>1, <2>2, <2>3, <2>4
<1>4. CASE t # Summary
  <2>1. /\ manifests' = [manifests EXCEPT ![m][t] = rescore.desired[m][t]]
        /\ summaries' = summaries
    BY <1>4 DEF Write
  <2>2. t \in TaskIds
    BY <1>2, <1>4, OfficialAssumption DEF Summary, TaskIds
  <2>3. manifests' \in [Models -> Scores]
    BY <1>1, <1>2, <2>1, <2>2 DEF Scores
  <2>4. ASSUME NEW other \in Files, other = file \/ ~Differs(other, rescore.desired)
        PROVE  IF other[2] = Summary THEN summaries'[other[1]] = rescore.desired[other[1]]
               ELSE manifests'[other[1]][other[2]] = rescore.desired[other[1]][other[2]]
    <3>1. other[1] \in Models /\ other = <<other[1], other[2]>>
      BY DEF Files
    <3>2. CASE other = file
      BY <1>1, <1>2, <1>4, <2>1, <2>2, <3>1, <3>2 DEF Scores
    <3>3. CASE other # file
      <4>1. other[1] # m \/ other[2] # t
        BY <1>2, <3>1, <3>3
      <4>2. ~Differs(other, rescore.desired)
        BY <2>4, <3>3
      <4>3. manifests[other[1]] \in Scores
        BY <1>1, <3>1
      <4> QED  BY <1>1, <1>2, <2>1, <2>2, <3>1, <4>1, <4>2, <4>3 DEF Differs, Scores
    <3> QED  BY <3>2, <3>3
  <2> QED  BY <1>1, <1>2, <2>1, <2>3, <2>4
<1> QED  BY <1>3, <1>4

LEMMA RescoreNextInv == RescoreInv /\ RescoreNext => RescoreInv'
<1> SUFFICES ASSUME RescoreInv, RescoreNext PROVE RescoreInv'
  OBVIOUS
<1> USE DEF RescoreInv
<1>t. /\ ref \in Versions /\ expected \in Versions
      /\ manifests \in [Models -> Scores]
      /\ summaries \in [Models -> Scores]
      /\ tables \in [Models -> Scores]
      /\ rescore # Nothing => rescore \in Rescorings
      /\ unsettled \in BOOLEAN
  BY DEF RescoreTypeOK
<1>1. CASE Recalibrate \/ ExpectScores
  <2>1. UNCHANGED <<official, tables, rescore, unsettled>> /\ ref' \in Versions /\ expected' \in Versions
    BY <1>t, <1>1, OfficialAssumption DEF Recalibrate, ExpectScores, Versions
  <2> QED
    BY <1>t, <2>1 DEF official, RescoreTypeOK, RowsOfOneVersion, WriterInv, Differs, FinishedRescoringConverges
<1>2. CASE StartRescore \/ RescoreManifest
  <2>1. UNCHANGED <<ref, expected, manifests, summaries, tables, unsettled>>
    BY <1>2 DEF StartRescore, RescoreManifest, scoring, official
  <2>2. rescore' \in Rescorings /\ rescore'.pc = "read" /\ rescore'.stale = {}
    <3>1. CASE StartRescore
      BY <1>t, <3>1, EmptyBoardType DEF StartRescore, Rescorings
    <3>2. CASE RescoreManifest
      <4>1. PICK file \in First(rescore.unread) :
              rescore' = [rescore EXCEPT !.desired[file[1]][file[2]] = Rescored(file[1], file[2]),
                                         !.unread = @ \ {file}]
        BY <3>2 DEF RescoreManifest
      <4>2. rescore \in Rescorings /\ rescore.pc = "read" /\ rescore.stale = {}
        BY <1>t, <3>2 DEF RescoreManifest, WriterInv
      <4>3. file[1] \in Models /\ file[2] \in TaskIds
        BY <4>2 DEF First, Rescorings, Manifests
      <4>4. Rescored(file[1], file[2]) \in Nat
        BY <1>t, <4>3, OfficialAssumption DEF Rescored, Scores
      <4>5. [rescore.desired EXCEPT ![file[1]][file[2]] = Rescored(file[1], file[2])]
              \in [Models -> Scores]
        BY <4>2, <4>3, <4>4 DEF Rescorings, Scores
      <4> QED  BY <4>1, <4>2, <4>5 DEF Rescorings
    <3> QED  BY <1>2, <3>1, <3>2
  <2> QED
    BY <1>t, <2>1, <2>2 DEF RescoreTypeOK, RowsOfOneVersion, WriterInv, FinishedRescoringConverges
<1>3. CASE ListStale
  <2>1. UNCHANGED <<ref, expected, manifests, summaries, tables, unsettled>>
    BY <1>3 DEF ListStale, scoring, official
  <2>2. rescore \in Rescorings
    BY <1>t, <1>3 DEF ListStale
  <2>3. CASE ~ExpectedScores(rescore.desired, rescore.expected)
    <3>1. rescore' = Nothing
      BY <1>3, <2>3 DEF ListStale
    <3> QED
      BY <1>t, <2>1, <3>1 DEF RescoreTypeOK, RowsOfOneVersion, WriterInv, FinishedRescoringConverges
  <2>4. CASE ExpectedScores(rescore.desired, rescore.expected)
    <3>1. rescore' = [rescore EXCEPT !.pc = "write",
                          !.stale = {file \in Files : Differs(file, rescore.desired)}]
      BY <1>3, <2>4 DEF ListStale
    <3>2. rescore' \in Rescorings
      BY <2>2, <3>1 DEF Rescorings
    <3>3. MeansOfOneVersion(rescore.desired)
      BY <2>2, <2>4 DEF ExpectedScores, MeansOfOneVersion, Rescorings
    <3>4. /\ rescore'.pc = "write" /\ rescore'.desired = rescore.desired
          /\ rescore'.stale = {file \in Files : Differs(file, rescore.desired)}
      BY <2>2, <3>1 DEF Rescorings
    <3>5. WriterInv'
      <4>1. \A file \in Files : Differs(file, rescore.desired)' = Differs(file, rescore.desired)
        BY <2>1, <3>4 DEF Differs
      <4>2. MeansOfOneVersion(rescore.desired)'
        BY <2>2, <3>3, <3>4 DEF MeansOfOneVersion, Rescorings
      <4> QED  BY <3>4, <4>1, <4>2 DEF WriterInv
    <3> QED
      BY <1>t, <2>1, <3>2, <3>5 DEF RescoreTypeOK, RowsOfOneVersion, FinishedRescoringConverges
  <2> QED  BY <2>3, <2>4
<1>4. CASE WriteStale
  <2>1. PICK file \in First(rescore.stale) :
          Write(file) /\ rescore' = [rescore EXCEPT !.stale = @ \ {file}]
    BY <1>4 DEF WriteStale
  <2>2. rescore # Nothing /\ unsettled' = TRUE /\ UNCHANGED <<ref, expected, tables>>
    BY <1>4 DEF WriteStale, scoring
  <2>3. /\ rescore \in Rescorings
        /\ file \in rescore.stale /\ file \in Files
        /\ rescore.pc = "write" /\ MeansOfOneVersion(rescore.desired)
    <3>1. rescore \in Rescorings /\ file \in rescore.stale
      BY <1>t, <2>1, <2>2 DEF First
    <3>2. rescore.pc = "write"
      BY <2>2, <3>1 DEF WriterInv, Rescorings
    <3> QED  BY <2>2, <3>1, <3>2 DEF WriterInv, Rescorings
  <2>4. /\ rescore' \in Rescorings
        /\ rescore'.pc = "write" /\ rescore'.desired = rescore.desired
        /\ rescore'.stale = rescore.stale \ {file}
    BY <2>1, <2>3 DEF Rescorings
  <2>5. /\ manifests' \in [Models -> Scores]
        /\ summaries' \in [Models -> Scores]
        /\ RowsOfOneVersion(summaries')
        /\ \A other \in Files :
             (other = file \/ ~Differs(other, rescore.desired)) =>
                 IF other[2] = Summary THEN summaries'[other[1]] = rescore.desired[other[1]]
                 ELSE manifests'[other[1]][other[2]] = rescore.desired[other[1]][other[2]]
    BY <2>1, <2>2, <2>3, WriteType
  <2>6. WriterInv'
    <3>1. MeansOfOneVersion(rescore.desired)'
      BY <2>3, <2>4 DEF MeansOfOneVersion
    <3>2. ASSUME NEW other \in Files \ (rescore.stale \ {file})
          PROVE  ~Differs(other, rescore.desired)'
      <4>1. other = file \/ ~Differs(other, rescore.desired)
        BY <2>2, <2>3 DEF WriterInv
      <4>2. IF other[2] = Summary THEN summaries'[other[1]] = rescore.desired[other[1]]
            ELSE manifests'[other[1]][other[2]] = rescore.desired[other[1]][other[2]]
        BY <2>5, <4>1
      <4> QED  BY <2>4, <4>2 DEF Differs
    <3> QED  BY <2>4, <3>1, <3>2 DEF WriterInv
  <2>7. RowsOfOneVersion(summaries)'
    BY <2>5 DEF RowsOfOneVersion
  <2> QED  BY <1>t, <2>2, <2>4, <2>5, <2>6, <2>7 DEF RescoreTypeOK, FinishedRescoringConverges
<1>5. CASE FinishRescore
  <2>1. /\ rescore # Nothing /\ rescore.pc = "write" /\ rescore.stale = {}
        /\ tables' = summaries /\ rescore' = Nothing /\ unsettled' = FALSE
        /\ UNCHANGED <<ref, expected, manifests, summaries>>
    BY <1>5 DEF FinishRescore, scoring, official
  <2>2. /\ rescore.desired \in [Models -> Scores] /\ MeansOfOneVersion(rescore.desired)
        /\ \A file \in Files : ~Differs(file, rescore.desired)
    BY <1>t, <2>1 DEF WriterInv, Rescorings
  <2>3. manifests = rescore.desired /\ summaries = rescore.desired
    BY <2>2, NoneDiffers
  <2>4. MeansOfOneVersion(manifests)'
    BY <2>1, <2>2, <2>3 DEF MeansOfOneVersion
  <2> QED
    BY <1>t, <2>1, <2>3, <2>4 DEF RescoreTypeOK, RowsOfOneVersion, WriterInv, FinishedRescoringConverges
<1>6. CASE CrashRescore
  <2>1. rescore' = Nothing /\ UNCHANGED <<ref, expected, manifests, summaries, tables, unsettled>>
    BY <1>6 DEF CrashRescore, scoring, official
  <2> QED
    BY <1>t, <2>1 DEF RescoreTypeOK, RowsOfOneVersion, WriterInv, FinishedRescoringConverges
<1> QED  BY <1>1, <1>2, <1>3, <1>4, <1>5, <1>6 DEF RescoreNext

LEMMA RescoreStutterInv == RescoreInv /\ UNCHANGED rescoreVars => RescoreInv'
  BY DEF RescoreInv, rescoreVars, scoring, official, RescoreTypeOK, RowsOfOneVersion,
         WriterInv, Differs, FinishedRescoringConverges

LEMMA RescoreStepInv == RescoreInv /\ [Next]_vars => RescoreInv'
<1> SUFFICES ASSUME RescoreInv, [Next]_vars PROVE RescoreInv'
  OBVIOUS
<1>1. RescoreNext \/ UNCHANGED rescoreVars
  BY DEF Next, RescoreMeanwhile, SiteNext, StartGenerator, ReadSummary, ReadManifest, ClearStaging,
         WritePage, DropPrevious, MoveLiveAside, GoLive, DropReplaced, CrashGenerator, vars
<1> QED  BY <1>1, RescoreNextInv, RescoreStutterInv

\* However often rescorings die and the reference metrics change, one that
\* finishes has brought manifests, summaries and tables to the same scores, whose
\* means are those expected of one version (rescore_official.py).
THEOREM RescoringConverges == Spec => []FinishedRescoringConverges
<1>1. Init => RescoreInv
  BY RescoreInitInv DEF Init
<1>2. RescoreInv => FinishedRescoringConverges
  BY DEF RescoreInv
<1> QED  BY <1>1, <1>2, RescoreStepInv, PTL DEF Spec
-----------------------------------------------------------------------------
(* The inductive invariant of the site: what has been read so far *)

SiteTypeOK ==
    /\ output \in Directory \cup {Nothing}
    /\ previous \in Directory \cup {Nothing}
    /\ staging \in Directory \cup {Nothing}
    /\ gen # Nothing => gen \in Generators

\* Manifests that the generator has read.
HasRead(m, t) == m < gen.m \/ (m = gen.m /\ t < gen.t)

GoodBoard(board, settled) ==
    /\ RowsOfOneVersion(board)
    /\ settled => MeansOfOneVersion(board)

\* The means of the rows read are expected ones, the row being read agrees
\* with its summary; and if nothing was rescored, all agree with the manifests.
ReaderInv ==
    GenAt("summary") \/ GenAt("manifest") =>
        /\ \A m \in Models : m < gen.m => \E v \in Versions : ExpectedMean(gen.board[m], m, v)
        /\ GenAt("summary") => gen.t = 1
        /\ GenAt("manifest") =>
             /\ \E v \in Versions : ExpectedMean(gen.summary, gen.m, v)
             /\ \A t \in TaskIds : t < gen.t => gen.board[gen.m][t] = gen.summary[t]
        /\ gen.settled =>
             /\ ~unsettled
             /\ \A m \in Models, t \in TaskIds : HasRead(m, t) => gen.board[m][t] = manifests[m][t]

\* Then the staging directory is filled with one page after the other.
BuilderInv ==
    gen # Nothing /\ gen.pc \in {"clear", "write", "drop", "aside", "live"} =>
        /\ GoodBoard(gen.board, gen.settled)
        /\ gen.pc # "clear" =>
             /\ staging # Nothing
             /\ staging.board = gen.board /\ staging.settled = gen.settled
             /\ staging.pages = IF gen.pc = "write" THEN Pages \ gen.left ELSE Pages
        /\ gen.pc = "clear" => gen.left = Pages

SiteInv ==
    /\ SiteTypeOK
    /\ gen # Nothing /\ gen.pc \in {"summary", "manifest"} => gen.left = Pages
    /\ ReaderInv
    /\ BuilderInv
    /\ LiveSiteIsWhole

LEMMA SiteInitInv == Init => SiteInv
  BY DEF Init, SiteInit, SiteInv, SiteTypeOK, ReaderInv, BuilderInv, GenAt, LiveSiteIsWhole

LEMMA RescoreMeanwhileInv == RescoreInv /\ SiteInv /\ RescoreMeanwhile => SiteInv'
<1> SUFFICES ASSUME RescoreInv, SiteInv, RescoreMeanwhile PROVE SiteInv'
  OBVIOUS
<1> USE DEF SiteInv
<1>1. /\ UNCHANGED <<output, previous, staging, published, crashes>>
      /\ gen' = IF (GenAt("summary") \/ GenAt("manifest")) /\ unsettled'
                THEN [gen EXCEPT !.settled = FALSE] ELSE gen
  BY DEF RescoreMeanwhile, dirs
<1>2. CASE (GenAt("summary") \/ GenAt("manifest")) /\ unsettled'
  <2>1. /\ gen \in Generators /\ gen # Nothing /\ gen.pc \in {"summary", "manifest"}
        /\ gen' = [gen EXCEPT !.settled = FALSE]
    BY <1>1, <1>2 DEF GenAt, SiteTypeOK
  <2>2. /\ gen' \in Generators /\ gen'.settled = FALSE
        /\ gen'.pc = gen.pc /\ gen'.m = gen.m /\ gen'.t = gen.t /\ gen'.summary = gen.summary
        /\ gen'.board = gen.board /\ gen'.left = gen.left
    BY <2>1 DEF Generators
  <2>3. SiteTypeOK'
    BY <1>1, <2>2 DEF SiteTypeOK
  <2>4. ReaderInv'
    BY <2>1, <2>2 DEF ReaderInv, GenAt
  <2>5. BuilderInv'
    BY <2>1, <2>2 DEF BuilderInv
  <2>6. LiveSiteIsWhole'
    BY <1>1 DEF LiveSiteIsWhole, Whole
  <2> QED  BY <2>1, <2>2, <2>3, <2>4, <2>5, <2>6
<1>3. CASE ~((GenAt("summary") \/ GenAt("manifest")) /\ unsettled')
  <2>1. gen' = gen
    BY <1>1, <1>3
  <2>2. ReaderInv'
    <3> SUFFICES ASSUME GenAt("summary") \/ GenAt("manifest") PROVE ReaderInv'
      BY <2>1 DEF ReaderInv, GenAt
    <3>1. ~unsettled'
      BY <1>3
    <3>2. gen.settled => manifests' = manifests
      <4> SUFFICES ASSUME gen.settled PROVE manifests' = manifests
        OBVIOUS
      <4>1. ~unsettled
        BY DEF ReaderInv
      <4>2. ~WriteStale
        BY <3>1 DEF WriteStale
      <4> QED
        BY <4>2 DEF RescoreMeanwhile, RescoreNext, Recalibrate, ExpectScores, StartRescore,
                    RescoreManifest, ListStale, FinishRescore, CrashRescore, official
    <3> QED  BY <2>1, <3>1, <3>2 DEF ReaderInv, GenAt, HasRead
  <2> QED
    BY <1>1, <2>1, <2>2 DEF SiteTypeOK, BuilderInv, LiveSiteIsWhole, Whole
<1> QED  BY <1>2, <1>3

LEMMA StartGeneratorInv == RescoreInv /\ SiteInv /\ StartGenerator => SiteInv'
<1> SUFFICES ASSUME RescoreInv, SiteInv, StartGenerator PROVE SiteInv'
  OBVIOUS
<1> USE DEF SiteInv
<1>1. /\ gen' = [pc |-> "summary", m |-> 1, t |-> 1, summary |-> [t \in TaskIds |-> 0],
                 board |-> EmptyBoard, settled |-> ~unsettled, left |-> Pages]
      /\ UNCHANGED <<output, previous, staging, manifests, unsettled>>
  BY DEF StartGenerator, dirs, rescoreVars, official
<1>2. 1 \in Models /\ 1 \in TaskIds
  BY OfficialAssumption DEF Models, TaskIds
<1>3. EmptyBoard \in [Models -> Scores] /\ [t \in TaskIds |-> 0] \in Scores
  BY <1>2 DEF EmptyBoard, Scores
<1>4. gen' \in Generators
  BY <1>1, <1>2, <1>3 DEF Generators, RescoreInv, RescoreTypeOK
<1>5. \A m \in Models, t \in TaskIds : ~HasRead(m, t)'
  BY <1>1, OfficialAssumption DEF HasRead, Models, TaskIds
<1>6. \A m \in Models : ~(m < gen'.m)
  BY <1>1, OfficialAssumption DEF Models
<1>7. ReaderInv'
  BY <1>1, <1>5, <1>6 DEF ReaderInv, GenAt
<1> QED
  BY <1>1, <1>4, <1>7 DEF SiteTypeOK, BuilderInv, LiveSiteIsWhole, Whole

LEMMA ReadSummaryInv == RescoreInv /\ SiteInv /\ ReadSummary => SiteInv'
<1> SUFFICES ASSUME RescoreInv, SiteInv, ReadSummary PROVE SiteInv'
  OBVIOUS
<1> USE DEF SiteInv
<1>1. /\ gen # Nothing /\ gen.pc = "summary" /\ gen \in Generators /\ gen.t = 1
      /\ gen' = [gen EXCEPT !.pc = "manifest", !.t = 1, !.summary = summaries[gen.m]]
      /\ UNCHANGED <<output, previous, staging, manifests, unsettled>>
  BY DEF ReadSummary, GenAt, SiteTypeOK, ReaderInv, dirs, rescoreVars, official
<1>2. gen.m \in Models /\ summaries[gen.m] \in Scores /\ 1 \in TaskIds
  BY <1>1, OfficialAssumption DEF Generators, RescoreInv, RescoreTypeOK, TaskIds
<1>3. /\ gen' \in Generators
      /\ gen'.pc = "manifest" /\ gen'.m = gen.m /\ gen'.t = 1 /\ gen'.summary = summaries[gen.m]
      /\ gen'.board = gen.board /\ gen'.settled = gen.settled /\ gen'.left = gen.left
  BY <1>1, <1>2 DEF Generators
<1>4. \E v \in Versions : ExpectedMean(summaries[gen.m], gen.m, v)
  BY <1>2 DEF RescoreInv, RowsOfOneVersion
<1>5. \A t \in TaskIds : ~(t < 1)
  BY OfficialAssumption DEF TaskIds
<1>6. ReaderInv'
  BY <1>1, <1>3, <1>4, <1>5 DEF ReaderInv, GenAt, HasRead
<1> QED
  BY <1>1, <1>3, <1>6 DEF SiteTypeOK, BuilderInv, LiveSiteIsWhole, Whole
LEMMA ReadManifestInv == RescoreInv /\ SiteInv /\ ReadManifest => SiteInv'
<1> SUFFICES ASSUME RescoreInv, SiteInv, ReadManifest PROVE SiteInv'
  OBVIOUS
<1> USE DEF SiteInv
<1> DEFINE M == gen.m
           T == gen.t
           B == [gen.board EXCEPT ![M][T] = manifests[M][T]]
<1>1. /\ gen # Nothing /\ gen.pc = "manifest" /\ gen \in Generators /\ gen.left = Pages
      /\ UNCHANGED <<output, previous, staging, manifests, unsettled>>
  BY DEF ReadManifest, GenAt, SiteTypeOK, dirs, rescoreVars, official
<1>2. CASE ~ManifestMatches(M, T)
  <2>1. gen' = Nothing
    BY <1>2 DEF ReadManifest
  <2> QED
    BY <1>1, <2>1 DEF SiteTypeOK, ReaderInv, BuilderInv, GenAt, LiveSiteIsWhole, Whole
<1>3. CASE ManifestMatches(M, T)
  <2>1. gen' = [gen EXCEPT !.pc = NextPlace.pc, !.m = NextPlace.m, !.t = NextPlace.t,
                           !.board[gen.m][gen.t] = manifests[gen.m][gen.t]]
    BY <1>3 DEF ReadManifest
  <2>2. /\ M \in Models /\ T \in TaskIds /\ gen.summary \in Scores
        /\ gen.board \in [Models -> Scores] /\ manifests \in [Models -> Scores]
        /\ manifests[M][T] = gen.summary[T] /\ manifests[M][T] \in Nat
    BY <1>1, <1>3 DEF Generators, RescoreInv, RescoreTypeOK, ManifestMatches, Scores
  <2>3. /\ B \in [Models -> Scores]
        /\ B[M][T] = manifests[M][T]
        /\ \A m \in Models, t \in TaskIds : m # M \/ t # T => B[m][t] = gen.board[m][t]
        /\ \A m \in Models : m # M => B[m] = gen.board[m]
    BY <2>2 DEF Scores
  <2>4. NextPlace.m \in Models /\ NextPlace.t \in TaskIds /\ NextPlace.pc \in {"summary", "manifest", "clear"}
    BY <2>2, OfficialAssumption DEF NextPlace, Models, TaskIds
  <2>5. /\ gen' \in Generators
        /\ gen'.pc = NextPlace.pc /\ gen'.m = NextPlace.m /\ gen'.t = NextPlace.t
        /\ gen'.board = B /\ gen'.summary = gen.summary
        /\ gen'.settled = gen.settled /\ gen'.left = gen.left
    BY <1>1, <2>1, <2>3, <2>4 DEF Generators
  <2>6. /\ \A m \in Models : m < M => \E v \in Versions : ExpectedMean(B[m], m, v)
        /\ \A t \in TaskIds : t <= T => B[M][t] = gen.summary[t]
        /\ \E v \in Versions : ExpectedMean(gen.summary, M, v)
        /\ gen.settled => ~unsettled
        /\ gen.settled => \A m \in Models, t \in TaskIds :
             m < M \/ (m = M /\ t <= T) => B[m][t] = manifests[m][t]
    BY <1>1, <2>2, <2>3 DEF ReaderInv, GenAt, HasRead, Models, TaskIds
  <2>7. CASE T < NTasks
    <3>1. NextPlace = [pc |-> "manifest", m |-> M, t |-> T + 1]
      BY <2>7 DEF NextPlace
    <3>2. \A t \in TaskIds : t < T + 1 <=> t <= T
      BY <2>2 DEF TaskIds
    <3>3. ReaderInv'
      BY <1>1, <2>5, <2>6, <3>1, <3>2 DEF ReaderInv, GenAt, HasRead
    <3> QED
      BY <1>1, <2>5, <3>1, <3>3 DEF SiteTypeOK, BuilderInv, LiveSiteIsWhole, Whole
  <2>8. CASE ~(T < NTasks)
    <3>1. \A t \in TaskIds : t <= T
      BY <2>2, <2>8, OfficialAssumption DEF TaskIds
    <3>2. \E v \in Versions : ExpectedMean(B[M], M, v)
      <4>1. B[M] \in Scores
        BY <2>2, <2>3
      <4>2. \A t \in TaskIds : B[M][t] = gen.summary[t]
        BY <2>6, <3>1
      <4>3. B[M] = gen.summary
        <5> HIDE DEF B
        <5> QED  BY <2>2, <4>1, <4>2 DEF Scores
      <4> QED  BY <2>6, <4>3
    <3>3. CASE M < NModels
      <4>1. NextPlace = [pc |-> "summary", m |-> M + 1, t |-> 1]
        BY <2>8, <3>3 DEF NextPlace
      <4>2. \A m \in Models : m < M + 1 <=> (m < M \/ m = M)
        BY <2>2 DEF Models
      <4>3. \A t \in TaskIds : ~(t < 1)
        BY DEF TaskIds
      <4>4. ReaderInv'
        BY <1>1, <2>5, <2>6, <3>1, <3>2, <4>1, <4>2, <4>3 DEF ReaderInv, GenAt, HasRead
      <4> QED
        BY <1>1, <2>5, <4>1, <4>4 DEF SiteTypeOK, BuilderInv, LiveSiteIsWhole, Whole
    <3>4. CASE ~(M < NModels)
      <4>1. NextPlace = [pc |-> "clear", m |-> M, t |-> 1]
        BY <2>8, <3>4 DEF NextPlace
      <4>2. \A m \in Models : m < M \/ m = M
        BY <2>2, <3>4, OfficialAssumption DEF Models
      <4>3. RowsOfOneVersion(B)
        BY <2>6, <3>2, <4>2 DEF RowsOfOneVersion
      <4>4. ASSUME gen.settled PROVE MeansOfOneVersion(B)
        <5>1. ASSUME NEW m \in Models PROVE B[m] = manifests[m]
          <6>1. B[m] \in Scores /\ manifests[m] \in Scores
            BY <2>2, <2>3
          <6>2. \A t \in TaskIds : B[m][t] = manifests[m][t]
            BY <2>6, <3>1, <4>2, <4>4
          <6> QED  BY <6>1, <6>2 DEF Scores
        <5>2. B = manifests
          BY <2>2, <2>3, <5>1
        <5> QED  BY <2>6, <4>4, <5>2 DEF RescoreInv, FinishedRescoringConverges
      <4>5. GoodBoard(gen.board, gen.settled)'
        BY <2>5, <4>3, <4>4 DEF GoodBoard, RowsOfOneVersion, MeansOfOneVersion
      <4> QED
        BY <1>1, <2>5, <4>1, <4>5 DEF SiteTypeOK, ReaderInv, BuilderInv, GenAt, LiveSiteIsWhole, Whole
    <3> QED  BY <3>3, <3>4
  <2> QED  BY <2>7, <2>8
<1> QED  BY <1>2, <1>3

LEMMA ClearStagingInv == RescoreInv /\ SiteInv /\ ClearStaging => SiteInv'
<1> SUFFICES ASSUME RescoreInv, SiteInv, ClearStaging PROVE SiteInv'
  OBVIOUS
<1> USE DEF SiteInv
<1>1. /\ gen # Nothing /\ gen.pc = "clear" /\ gen \in Generators /\ gen.left = Pages
      /\ GoodBoard(gen.board, gen.settled)
      /\ UNCHANGED <<output, previous, manifests, unsettled>>
  BY DEF ClearStaging, GenAt, SiteTypeOK, BuilderInv, rescoreVars, official
<1>2. CASE HasPages(staging) /\ staging' = Emptied(staging) /\ UNCHANGED gen
  <2>1. staging' \in Directory
    BY <1>2 DEF HasPages, Emptied, SiteTypeOK, Directory
  <2> QED
    BY <1>1, <1>2, <2>1 DEF SiteTypeOK, ReaderInv, BuilderInv, GenAt, GoodBoard, LiveSiteIsWhole, Whole
<1>3. CASE /\ staging' = [board |-> gen.board, settled |-> gen.settled, pages |-> {}]
           /\ GenGoto("write")
  <2>1. staging' \in Directory /\ staging' # Nothing
    BY <1>1, <1>3, NothingAssumption DEF Generators, Directory
  <2>2. /\ gen' \in Generators /\ gen'.pc = "write"
        /\ gen'.board = gen.board /\ gen'.settled = gen.settled /\ gen'.left = Pages
    BY <1>1, <1>3 DEF GenGoto, Generators
  <2>3. BuilderInv'
    BY <1>1, <1>3, <2>1, <2>2 DEF BuilderInv
  <2> QED
    BY <1>1, <2>1, <2>2, <2>3 DEF SiteTypeOK, ReaderInv, GenAt, LiveSiteIsWhole, Whole
<1> QED  BY <1>2, <1>3 DEF ClearStaging

LEMMA WritePageInv == RescoreInv /\ SiteInv /\ WritePage => SiteInv'
<1> SUFFICES ASSUME RescoreInv, SiteInv, WritePage PROVE SiteInv'
  OBVIOUS
<1> USE DEF SiteInv
<1>1. /\ gen # Nothing /\ gen.pc = "write" /\ gen \in Generators
      /\ GoodBoard(gen.board, gen.settled)
      /\ staging # Nothing /\ staging.board = gen.board /\ staging.settled = gen.settled
      /\ staging.pages = Pages \ gen.left /\ staging \in Directory
      /\ UNCHANGED <<output, previous, manifests, unsettled>>
  BY DEF WritePage, GenAt, SiteTypeOK, BuilderInv, rescoreVars, official
<1>2. PICK page \in gen.left :
        /\ staging' = [staging EXCEPT !.pages = @ \cup {page}]
        /\ gen' = [gen EXCEPT !.left = @ \ {page},
                              !.pc = IF gen.left = {page} THEN "drop" ELSE "write"]
  BY DEF WritePage
<1>3. page \in Pages /\ gen.left \subseteq Pages
  BY <1>1 DEF Generators
<1>4. /\ gen' \in Generators
      /\ gen'.pc = IF gen.left = {page} THEN "drop" ELSE "write"
      /\ gen'.board = gen.board /\ gen'.settled = gen.settled /\ gen'.left = gen.left \ {page}
  BY <1>1, <1>2, <1>3 DEF Generators
<1>5. /\ staging' \in Directory
      /\ staging'.board = staging.board /\ staging'.settled = staging.settled
      /\ staging'.pages = (Pages \ gen.left) \cup {page}
  BY <1>1, <1>2, <1>3 DEF Directory
<1>6. staging'.pages = IF gen'.pc = "write" THEN Pages \ gen'.left ELSE Pages
  BY <1>3, <1>4, <1>5
<1>7. staging' # Nothing
  BY <1>5, NothingAssumption
<1>8. BuilderInv'
  BY <1>1, <1>4, <1>5, <1>6, <1>7 DEF BuilderInv
<1> QED
  BY <1>1, <1>4, <1>5, <1>8 DEF SiteTypeOK, ReaderInv, GenAt, LiveSiteIsWhole, Whole

LEMMA DropPreviousInv == RescoreInv /\ SiteInv /\ DropPrevious => SiteInv'
<1> SUFFICES ASSUME RescoreInv, SiteInv, DropPrevious PROVE SiteInv'
  OBVIOUS
<1> USE DEF SiteInv
<1>1. /\ gen # Nothing /\ gen.pc = "drop" /\ gen \in Generators
      /\ UNCHANGED <<output, staging>>
  BY DEF DropPrevious, GenAt, SiteTypeOK
<1>2. CASE HasPages(previous) /\ previous' = Emptied(previous) /\ UNCHANGED gen
  <2>1. previous' \in Directory
    BY <1>2 DEF HasPages, Emptied, SiteTypeOK, Directory
  <2> QED
    BY <1>1, <1>2, <2>1 DEF SiteTypeOK, ReaderInv, BuilderInv, GenAt, LiveSiteIsWhole, Whole
<1>3. CASE previous' = Nothing /\ GenGoto("aside")
  <2>1. /\ gen' \in Generators /\ gen'.pc = "aside"
        /\ gen'.board = gen.board /\ gen'.settled = gen.settled
    BY <1>1, <1>3 DEF GenGoto, Generators
  <2> QED
    BY <1>1, <1>3, <2>1 DEF SiteTypeOK, ReaderInv, BuilderInv, GenAt, LiveSiteIsWhole, Whole
<1> QED  BY <1>2, <1>3 DEF DropPrevious

LEMMA MoveLiveAsideInv == RescoreInv /\ SiteInv /\ MoveLiveAside => SiteInv'
<1> SUFFICES ASSUME RescoreInv, SiteInv, MoveLiveAside PROVE SiteInv'
  OBVIOUS
<1> USE DEF SiteInv
<1>1. /\ gen # Nothing /\ gen.pc = "aside" /\ gen \in Generators
      /\ gen' = [gen EXCEPT !.pc = "live"]
      /\ staging' = staging
      /\ output' = Nothing \/ output' = output
      /\ previous' = output \/ previous' = previous
  BY DEF MoveLiveAside, GenAt, GenGoto, SiteTypeOK
<1>2. /\ gen' \in Generators /\ gen'.pc = "live"
      /\ gen'.board = gen.board /\ gen'.settled = gen.settled
  BY <1>1 DEF Generators
<1>3. LiveSiteIsWhole'
  BY <1>1 DEF LiveSiteIsWhole, Whole
<1> QED
  BY <1>1, <1>2, <1>3 DEF SiteTypeOK, ReaderInv, BuilderInv, GenAt

LEMMA GoLiveInv == RescoreInv /\ SiteInv /\ GoLive => SiteInv'
<1> SUFFICES ASSUME RescoreInv, SiteInv, GoLive PROVE SiteInv'
  OBVIOUS
<1> USE DEF SiteInv
<1>1. /\ gen # Nothing /\ gen.pc = "live" /\ gen \in Generators
      /\ gen' = [gen EXCEPT !.pc = "tidy"]
      /\ output' = staging /\ staging' = Nothing /\ previous' = previous
      /\ staging # Nothing
      /\ staging.board = gen.board /\ staging.settled = gen.settled /\ staging.pages = Pages
      /\ GoodBoard(gen.board, gen.settled)
  BY DEF GoLive, GenAt, GenGoto, SiteTypeOK, BuilderInv
<1>2. gen' \in Generators /\ gen'.pc = "tidy"
  BY <1>1 DEF Generators
<1>3. LiveSiteIsWhole'
  BY <1>1 DEF LiveSiteIsWhole, Whole, GoodBoard, RowsOfOneVersion, MeansOfOneVersion
<1> QED
  BY <1>1, <1>2, <1>3 DEF SiteTypeOK, ReaderInv, BuilderInv, GenAt

LEMMA DropReplacedInv == RescoreInv /\ SiteInv /\ DropReplaced => SiteInv'
<1> SUFFICES ASSUME RescoreInv, SiteInv, DropReplaced PROVE SiteInv'
  OBVIOUS
<1> USE DEF SiteInv
<1>1. /\ gen # Nothing /\ gen.pc = "tidy" /\ gen' \in {gen, Nothing}
      /\ previous' \in Directory \cup {Nothing}
      /\ UNCHANGED <<output, staging>>
  BY DEF DropReplaced, GenAt, SiteTypeOK, HasPages, Emptied, Directory
<1> QED
  BY <1>1 DEF SiteTypeOK, ReaderInv, BuilderInv, GenAt, LiveSiteIsWhole, Whole

LEMMA CrashGeneratorInv == RescoreInv /\ SiteInv /\ CrashGenerator => SiteInv'
  BY DEF SiteInv, CrashGenerator, dirs, SiteTypeOK, ReaderInv, BuilderInv, GenAt, LiveSiteIsWhole, Whole

LEMMA SiteStutterInv == SiteInv /\ UNCHANGED vars => SiteInv'
  BY DEF SiteInv, vars, rescoreVars, official, siteVars, dirs, SiteTypeOK, ReaderInv, BuilderInv,
         GenAt, HasRead, LiveSiteIsWhole, Whole

LEMMA SiteStepInv == RescoreInv /\ SiteInv /\ [Next]_vars => SiteInv'
  BY RescoreMeanwhileInv, StartGeneratorInv, ReadSummaryInv, ReadManifestInv, ClearStagingInv,
     WritePageInv, DropPreviousInv, MoveLiveAsideInv, GoLiveInv, DropReplacedInv,
     CrashGeneratorInv, SiteStutterInv
  DEF Next, SiteNext

\* Every site that goes live (generate_site) is complete, and the means of its rows
\* are expected ones, whenever it was generated and whatever died before.
THEOREM LiveSitesAreWhole == Spec => []LiveSiteIsWhole
<1>1. Init => RescoreInv /\ SiteInv
  BY RescoreInitInv, SiteInitInv DEF Init
<1>2. RescoreInv /\ SiteInv /\ [Next]_vars => (RescoreInv /\ SiteInv)'
  BY RescoreStepInv, SiteStepInv
<1>3. SiteInv => LiveSiteIsWhole
  BY DEF SiteInv
<1> QED  BY <1>1, <1>2, <1>3, PTL DEF Spec
-----------------------------------------------------------------------------
(* One crash *)

\* Until the first crash the live site is whole, or aside.  After one, a whole site
\* is live or aside until the next has been built; from then on that one is.
SurvivalInv ==
    /\ crashes \in Nat
    /\ published /\ crashes = 0 =>
         IF GenAt("live") THEN Whole(previous) ELSE Whole(output)
    /\ published /\ crashes <= 1 =>
         /\ GenAt("tidy") => Whole(output)
         /\ (gen = Nothing \/ gen.pc \in {"summary", "manifest", "clear", "write"}) =>
              Whole(output) \/ Whole(previous)

LEMMA SurvivalStepInv == SiteInv /\ SurvivalInv /\ [Next]_vars => SurvivalInv'
<1> SUFFICES ASSUME SiteInv, SurvivalInv, [Next]_vars PROVE SurvivalInv'
  OBVIOUS
<1> USE DEF SurvivalInv, Whole, GenAt
<1>1. gen # Nothing => gen \in Generators
  BY DEF SiteInv, SiteTypeOK
<1>2. CASE RescoreMeanwhile \/ StartGenerator \/ ReadSummary \/ ReadManifest \/ ClearStaging
  <2>1. UNCHANGED <<output, previous, published, crashes>>
    BY <1>2 DEF RescoreMeanwhile, StartGenerator, ReadSummary, ReadManifest, ClearStaging, dirs
  <2>2. \/ gen' = gen
        \/ /\ gen = Nothing \/ gen.pc \in {"summary", "manifest", "clear"}
           /\ gen' = Nothing \/ gen'.pc \in {"summary", "manifest", "clear", "write"}
    <3>1. CASE RescoreMeanwhile \/ StartGenerator
      BY <1>1, <3>1 DEF RescoreMeanwhile, StartGenerator, Generators
    <3>2. CASE ReadSummary \/ ClearStaging
      BY <1>1, <3>2 DEF ReadSummary, ClearStaging, GenGoto, Generators
    <3>3. CASE ReadManifest
      <4>1. gen # Nothing /\ gen.pc = "manifest" /\ gen \in Generators
        BY <1>1, <3>3 DEF ReadManifest
      <4>2. NextPlace.pc \in {"summary", "manifest", "clear"}
        BY DEF NextPlace
      <4>3. gen' = Nothing \/ gen'.pc = NextPlace.pc
        BY <3>3, <4>1 DEF ReadManifest, Generators
      <4> QED  BY <4>1, <4>2, <4>3
    <3> QED  BY <1>2, <3>1, <3>2, <3>3
  <2>3. CASE gen' = gen
    BY <2>1, <2>3
  <2>4. CASE gen' # gen
    <3>1. ~GenAt("live") /\ ~GenAt("tidy") /\ ~GenAt("live")' /\ ~GenAt("tidy")'
      BY <2>2, <2>4
    <3> QED  BY <2>1, <2>2, <2>4, <3>1
  <2> QED  BY <2>3, <2>4
<1>3. CASE WritePage
  <2>1. UNCHANGED <<output, previous, published, crashes>> /\ gen # Nothing /\ gen.pc = "write"
    BY <1>3 DEF WritePage
  <2>2. gen' # Nothing /\ gen'.pc \in {"drop", "write"}
    <3>1. PICK page \in gen.left :
            gen' = [gen EXCEPT !.left = @ \ {page},
                               !.pc = IF gen.left = {page} THEN "drop" ELSE "write"]
      BY <1>3 DEF WritePage
    <3>2. gen' \in Generators /\ gen'.pc \in {"drop", "write"}
      BY <1>1, <2>1, <3>1 DEF Generators
    <3> QED  BY <3>2, NothingAssumption
  <2> QED  BY <2>1, <2>2
<1>4. CASE DropPrevious
  <2>1. UNCHANGED <<output, published, crashes>> /\ gen # Nothing /\ gen.pc = "drop"
    BY <1>4 DEF DropPrevious
  <2>2. gen' # Nothing /\ gen'.pc \in {"drop", "aside"}
    <3>1. gen' = gen \/ gen' = [gen EXCEPT !.pc = "aside"]
      BY <1>4 DEF DropPrevious, GenGoto
    <3>2. gen' \in Generators /\ gen'.pc \in {"drop", "aside"}
      BY <1>1, <2>1, <3>1 DEF Generators
    <3> QED  BY <3>2, NothingAssumption
  <2> QED  BY <2>1, <2>2
<1>5. CASE MoveLiveAside
  <2>1. /\ UNCHANGED <<published, crashes>> /\ gen # Nothing /\ gen.pc = "aside"
        /\ output # Nothing => previous' = output
        /\ gen' = [gen EXCEPT !.pc = "live"]
    BY <1>5 DEF MoveLiveAside, GenGoto
  <2>2. gen' # Nothing /\ gen'.pc = "live"
    BY <1>1, <2>1, NothingAssumption DEF Generators
  <2> QED  BY <2>1, <2>2
<1>6. CASE GoLive
  <2>1. /\ crashes' = crashes /\ gen # Nothing /\ gen.pc = "live"
        /\ output' = staging
        /\ gen' = [gen EXCEPT !.pc = "tidy"]
    BY <1>6 DEF GoLive, GenGoto
  <2>2. gen' # Nothing /\ gen'.pc = "tidy"
    BY <1>1, <2>1, NothingAssumption DEF Generators
  <2>3. Whole(output)'
    BY <2>1 DEF SiteInv, BuilderInv
  <2> QED  BY <2>1, <2>2, <2>3
<1>7. CASE DropReplaced
  <2>1. /\ UNCHANGED <<output, published, crashes>> /\ gen # Nothing /\ gen.pc = "tidy"
        /\ gen' = gen \/ gen' = Nothing
    BY <1>7 DEF DropReplaced
  <2> QED  BY <2>1
<1>8. CASE CrashGenerator
  <2>1. /\ UNCHANGED <<output, previous, published>> /\ gen # Nothing
        /\ gen' = Nothing /\ crashes' = crashes + 1
    BY <1>8 DEF CrashGenerator, dirs
  <2>2. crashes' \in Nat /\ crashes' # 0 /\ (crashes' <= 1 => crashes = 0)
    BY <2>1
  <2> QED  BY <2>1, <2>2
<1>9. CASE UNCHANGED vars
  BY <1>9 DEF vars, siteVars, dirs
<1> QED
  BY <1>2, <1>3, <1>4, <1>5, <1>6, <1>7, <1>8, <1>9 DEF Next, SiteNext

\* A crash of the generator, at whatever step of the swap, leaves a whole site in
\* one of the three directories, and so does the run that comes after it.
THEOREM OneCrashIsSurvived == Spec => []SiteSurvivesOneCrash
<1>1. Init => RescoreInv /\ SiteInv /\ SurvivalInv
  BY RescoreInitInv, SiteInitInv DEF Init, SiteInit, SurvivalInv, GenAt
<1>2. RescoreInv /\ SiteInv /\ SurvivalInv /\ [Next]_vars => (RescoreInv /\ SiteInv /\ SurvivalInv)'
  BY RescoreStepInv, SiteStepInv, SurvivalStepInv
<1>3. SiteInv /\ SurvivalInv => SiteSurvivesOneCrash
  <2> SUFFICES ASSUME SiteInv, SurvivalInv, published, crashes <= 1
               PROVE  \E dir \in {output, previous, staging} : Whole(dir)
    BY DEF SiteSurvivesOneCrash
  <2>1. gen # Nothing => gen \in Generators
    BY DEF SiteInv, SiteTypeOK
  <2>2. CASE gen # Nothing /\ gen.pc \in {"drop", "aside", "live"}
    BY <2>2 DEF SiteInv, BuilderInv, Whole
  <2>3. CASE ~(gen # Nothing /\ gen.pc \in {"drop", "aside", "live"})
    <3>1. GenAt("tidy") \/ gen = Nothing \/ gen.pc \in {"summary", "manifest", "clear", "write"}
      BY <2>1, <2>3 DEF GenAt, Generators
    <3> QED  BY <3>1 DEF SurvivalInv
  <2> QED  BY <2>2, <2>3
<1> QED  BY <1>1, <1>2, <1>3, PTL DEF Spec
=============================================================================
