-------------------------- MODULE MCExternalAudit ---------------------------
(* Instances of module ExternalAudit for TLC. *)
EXTENDS ExternalAudit, TLC

CONSTANTS flip, g2001, g2012

OneMutant == {flip}
BothFlags == {g2001, g2012}
OneSeed == {20260729}

\* All designs, or some of them again, and the sample a second time.
AllOrSome == {<<"final", 1 .. NDesigns>>, <<"final", {1}>>, <<"redo", {1}>>}

\* The first design's testbench catches the mutant, the second's does not; the
\* edited ones are the other way round.
CaughtBy ==
    [dc \in (1 .. NDesigns) \X (0 .. MaxPin) |->
        IF (dc[1] = 1) = (dc[2] # 0) THEN {flip} ELSE {}]

\* The first design needs the newer language.
PassesUnder ==
    {dcf \in (1 .. NDesigns) \X (0 .. MaxPin) \X BothFlags : dcf[1] = 2 \/ dcf[3] = g2012}

Budget(e, f, s, a, p, c) ==
    [edits |-> e, fetches |-> f, sweeps |-> s, audits |-> a, packagings |-> p, crashes |-> c]

\* From vendor's tree to reports; an audit beside an older summary; packaging; one
\* of the revisions from checkout to packaging.
FourBudgets ==
    {Budget(1, 2, 1, 1, 0, 1), Budget(1, 2, 0, 2, 0, 0), Budget(0, 1, 0, 2, 2, 1),
     Budget(0, 1, 1, 2, 1, 0)}
=============================================================================
