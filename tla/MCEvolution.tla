---------------------------- MODULE MCEvolution ----------------------------
(* Instances of Evolution for TLC.                                          *)
EXTENDS Evolution, TLC

CONSTANTS o1, o2

\* Requests are interchangeable.
Requests == Permutations({o1, o2})
=============================================================================
