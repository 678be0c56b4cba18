----------------------------- MODULE MCSignals -----------------------------
(* Instances of Signals for TLC.                                            *)
EXTENDS Signals, TLC

CONSTANTS o1, o2

\* Callers are interchangeable.
Callers == Permutations({o1, o2})
=============================================================================
