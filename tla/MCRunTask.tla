------------------------------ MODULE MCRunTask ------------------------------
(* Small instances of RunTask for TLC. *)
EXTENDS RunTask

CONSTANTS good, cheat, tight, slow, bare, huge, h1

\* cheat passes only the public tests, tight leaves no delay at all, slow misses
\* the clock, bare synthesizes to nothing, huge is above the size limit.
MCSound == [g \in Gates |->
    CASE g = Public -> Designs
      [] g \in Revisions -> Designs \ {cheat}
      [] g = "size" -> Designs \ {huge}
      [] OTHER -> Designs]
MCReport == [d \in Designs |->
    [area |-> IF d = bare THEN 0 ELSE 1, power |-> 1,
     wns |-> CASE d = tight -> 2 [] d = slow -> -1 [] OTHER -> 1]]

Ref(area, clock) == [area |-> area, delay |-> 1, power |-> 1, clock |-> clock]
\* The second gives more than the cap; the third has another clock.
MCReferences == {Ref(1, 2), Ref(2, 2), Ref(1, 1)}
=============================================================================
