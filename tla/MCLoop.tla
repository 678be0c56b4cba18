------------------------------- MODULE MCLoop -------------------------------
(* Instances of LoopWorker for TLC.                                         *)
EXTENDS LoopWorker

CONSTANTS w1, w2, a, b

\* Step b follows step a.
Chain == [s \in Step |-> IF s = b THEN {a} ELSE {}]

\* w1 has every handler, w2 not that of step b: a rolling deployment.
RollingDeploy == [w \in Worker |-> IF w = w2 THEN Step \ {b} ELSE Step]
\* w2's handler of step a was registered with another effect class.
Misdeployed == {<<w2, a>>}
FullRegistry == [w \in Worker |-> Step]
=============================================================================
