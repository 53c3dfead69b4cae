------------------------------ MODULE MCTrackA ------------------------------
(* Small instances of TrackA for TLC. *)
EXTENDS TrackA, TLC

CONSTANTS a, b, t1, r1, r2, p1

\* Two samples of one task.
OneTask == [i \in Slots |-> t1]

\* Two temperatures of one provider.
OneProvider == [r \in Routes |-> p1]

AnswerSymmetry == Permutations(Answers)
=============================================================================
