----------------------------- MODULE MCMutation -----------------------------
(* Instances of module Mutation for TLC. *)
EXTENDS Mutation, TLC

CONSTANTS t1, t2, data, corner, byData, byCorner, early, late

BothTasks == {t1, t2}
InOrder == <<t1, t2>>
SmokeTests == {data}
DeepTests == {corner}

OnlyFirst == <<t1>>
\* Nobody edits the second task, which is of Track B.
SomeMutants == (t1 :> {byData, byCorner}) @@ (t2 :> {})
CaughtBy == (byData :> {data}) @@ (byCorner :> {corner})
TwoReviews == (t1 :> {early, late}) @@ (t2 :> {})
FewEdits == (t1 :> 2) @@ (t2 :> 0)
=============================================================================
