---------------------------- MODULE MCAgentLoop ----------------------------
(* Instances of module AgentLoop for TLC. *)
EXTENDS AgentLoop

CONSTANTS t1, t2, good, cheat

BothDesigns == {good, cheat}
BothTasks == {t1, t2}
OneAfterTheOther == <<t1, t2>>
Preserves == {t2}

\* cheat knows the public tests and gains by changing the behaviour.
SoundDesigns ==
    [g \in Gates |-> IF g \in {"hidden", "sec"} THEN {good} ELSE BothDesigns]

ShippedDesign == [t \in BothTasks |-> good]
Reviews == {{t2}}
=============================================================================
