---------------------------- MODULE SitePublish -----------------------------
(***************************************************************************)
(* The site generator (site/generate.py) reading the official results      *)
(* while they may be rescored, building the site in a staging directory    *)
(* and swapping it with the live one by two renames, where any step may be *)
(* the last.  One generator runs at a time.                                *)
(*                                                                         *)
(* Of Track B the site takes whatever manifests it finds; module AgentLoop *)
(* has the checks it makes of them.  Here they are one more page.          *)
(***************************************************************************)
EXTENDS Rescore, FiniteSets

CONSTANT MaxCrashes   \* bound on the crashes of the generator

VARIABLES
    output, previous, staging,   \* the live site and its two neighbours
    gen,         \* the generator
    published,   \* history: a site has gone live
    crashes      \* history: how often the generator died

dirs == <<output, previous, staging>>
siteVars == <<dirs, gen, published, crashes>>
vars == <<rescoreVars, siteVars>>

\* In the order of artifacts: index.html, leaderboard.json, a page per model, and
\* one for the agents.
Pages == 1 .. NModels + 3

\* A directory: the board its pages show and the pages that are there; settled is
\* history: no rescoring was under way while the results were read.
Directory == [board : [Models -> Scores], settled : BOOLEAN, pages : SUBSET Pages]

\* The generator: the place it is at, what it has read, the pages left to write.
Generators ==
    [pc : {"summary", "manifest", "clear", "write", "drop", "aside", "live", "tidy"},
     m : Models, t : TaskIds, summary : Scores, board : [Models -> Scores],
     settled : BOOLEAN, left : SUBSET Pages]

ASSUME NothingAssumption == Nothing \notin Directory /\ Nothing \notin Generators

Whole(dir) == dir # Nothing /\ dir.pages = Pages

SiteInit ==
    /\ output = Nothing /\ previous = Nothing /\ staging = Nothing
    /\ gen = Nothing
    /\ published = FALSE
    /\ crashes = 0

Init == RescoreInit /\ SiteInit

GenAt(pc) == gen # Nothing /\ gen.pc = pc
GenGoto(pc) == gen' = [gen EXCEPT !.pc = pc]

-----------------------------------------------------------------------------
(* Reading the results *)

StartGenerator ==
    /\ gen = Nothing
    /\ gen' = [pc |-> "summary", m |-> 1, t |-> 1, summary |-> [t \in TaskIds |-> 0],
               board |-> EmptyBoard, settled |-> ~unsettled, left |-> Pages]
    /\ UNCHANGED <<rescoreVars, dirs, published, crashes>>

\* _load_summary reads a model's summary, then the manifests it names.
ReadSummary ==
    /\ GenAt("summary")
    /\ gen' = [gen EXCEPT !.pc = "manifest", !.t = 1, !.summary = summaries[gen.m]]
    /\ UNCHANGED <<rescoreVars, dirs, published, crashes>>

\* Mutant: the manifests' scores and signatures are not compared.
AnyManifest(m, t) == TRUE

\* A manifest must have the score and the signature its summary records.
ManifestMatches(m, t) == manifests[m][t] = gen.summary[t]

\* Where the reader is after a manifest: the next one, the next model, the rest.
NextPlace ==
    IF gen.t < NTasks THEN [pc |-> "manifest", m |-> gen.m, t |-> gen.t + 1]
    ELSE IF gen.m < NModels THEN [pc |-> "summary", m |-> gen.m + 1, t |-> 1]
    ELSE [pc |-> "clear", m |-> gen.m, t |-> 1]

ReadManifest ==
    /\ GenAt("manifest")
    /\ IF ManifestMatches(gen.m, gen.t)
       THEN gen' = [gen EXCEPT !.pc = NextPlace.pc, !.m = NextPlace.m, !.t = NextPlace.t,
                               !.board[gen.m][gen.t] = manifests[gen.m][gen.t]]
       ELSE gen' = Nothing
    /\ UNCHANGED <<rescoreVars, dirs, published, crashes>>

-----------------------------------------------------------------------------
(* Building and publishing *)

HasPages(dir) == dir # Nothing /\ dir.pages # {}

Emptied(dir) == [dir EXCEPT !.pages = {}]

\* rmtree deletes file by file, the directory last; here in two steps.
ClearStaging ==
    /\ GenAt("clear")
    /\ \/ /\ HasPages(staging)
          /\ staging' = Emptied(staging) /\ UNCHANGED gen
       \/ /\ ~HasPages(staging)
          /\ staging' = [board |-> gen.board, settled |-> gen.settled, pages |-> {}]
          /\ GenGoto("write")
    /\ UNCHANGED <<rescoreVars, output, previous, published, crashes>>

WritePage ==
    /\ GenAt("write")
    /\ \E page \in gen.left :
         /\ \A other \in gen.left : page <= other
         /\ staging' = [staging EXCEPT !.pages = @ \cup {page}]
         /\ gen' = [gen EXCEPT !.left = @ \ {page},
                               !.pc = IF gen.left = {page} THEN "drop" ELSE "write"]
    /\ UNCHANGED <<rescoreVars, output, previous, published, crashes>>

\* What an earlier run has left at previous goes first.
DropPrevious ==
    /\ GenAt("drop")
    /\ \/ /\ HasPages(previous)
          /\ previous' = Emptied(previous) /\ UNCHANGED gen
       \/ /\ ~HasPages(previous)
          /\ previous' = Nothing
          /\ GenGoto("aside")
    /\ UNCHANGED <<rescoreVars, output, staging, published, crashes>>

\* Mutant: the live site is deleted to make room.
DeleteLive ==
    /\ GenAt("aside")
    /\ output' = Nothing
    /\ GenGoto("live")
    /\ UNCHANGED <<rescoreVars, previous, staging, published, crashes>>

MoveLiveAside ==
    /\ GenAt("aside")
    /\ IF output # Nothing THEN previous' = output /\ output' = Nothing
       ELSE UNCHANGED <<output, previous>>
    /\ GenGoto("live")
    /\ UNCHANGED <<rescoreVars, staging, published, crashes>>

GoLive ==
    /\ GenAt("live")
    /\ output' = staging /\ staging' = Nothing
    /\ published' = TRUE
    /\ GenGoto("tidy")
    /\ UNCHANGED <<rescoreVars, previous, crashes>>

DropReplaced ==
    /\ GenAt("tidy")
    /\ \/ /\ HasPages(previous)
          /\ previous' = Emptied(previous) /\ UNCHANGED gen
       \/ /\ ~HasPages(previous)
          /\ previous' = Nothing
          /\ gen' = Nothing
    /\ UNCHANGED <<rescoreVars, output, staging, published, crashes>>

\* It is killed, or an error or the nightly's time limit ends it.
CrashGenerator ==
    /\ gen # Nothing /\ crashes < MaxCrashes
    /\ gen' = Nothing
    /\ crashes' = crashes + 1
    /\ UNCHANGED <<rescoreVars, dirs, published>>

SiteNext ==
    \/ StartGenerator \/ ReadSummary \/ ReadManifest
    \/ ClearStaging \/ WritePage \/ DropPrevious
    \/ MoveLiveAside \/ GoLive \/ DropReplaced \/ CrashGenerator

\* While the generator reads, a rescoring may write.
RescoreMeanwhile ==
    /\ RescoreNext
    /\ gen' = IF (GenAt("summary") \/ GenAt("manifest")) /\ unsettled'
              THEN [gen EXCEPT !.settled = FALSE] ELSE gen
    /\ UNCHANGED <<dirs, published, crashes>>

Next == RescoreMeanwhile \/ SiteNext

Spec == Init /\ [][Next]_vars

-----------------------------------------------------------------------------
(* Properties *)

\* The live site has all its pages, and the scores of every row have the mean that
\* is expected under one version of the reference metrics, also when the site was
\* generated while the results were rescored or after a rescoring that died half
\* way; if no rescoring was under way, it is one version for all rows.
LiveSiteIsWhole ==
    output # Nothing =>
        /\ Whole(output)
        /\ RowsOfOneVersion(output.board)
        /\ output.settled => MeansOfOneVersion(output.board)

\* Once a site has gone live, a crash leaves a whole site in one of the three
\* directories, and the next run does not delete it before it has another.
SiteSurvivesOneCrash ==
    published /\ crashes <= 1 => \E dir \in {output, previous, staging} : Whole(dir)
=============================================================================
