------------------------------ MODULE MCSwarm -------------------------------
(* The durable swarm by itself, for TLC.                                     *)
EXTENDS DurableSwarm

Spec == DurableInit /\ [][DurableNext]_durableVars
=============================================================================
