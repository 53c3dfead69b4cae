--------------------------- MODULE MCSpendLedger ---------------------------
(* Small instances of SpendLedger for TLC. *)
EXTENDS SpendLedger, TLC

CONSTANTS c1, c2, k1, k2

\* Two campaigns of the same model: reservations are interchangeable.
SameKey == [c \in {c1, c2} |-> k1]
CallerSymmetry == Permutations(Callers)

\* Two campaigns of different models.
TwoKeys == [c \in {c1, c2} |-> IF c = c1 THEN k1 ELSE k2]
=============================================================================
