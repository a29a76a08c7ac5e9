------------------------------ MODULE MCSwarm -------------------------------
(* Instances of Swarm for TLC.                                             *)
EXTENDS Swarm, TLC

CONSTANTS p1, p2, p3

Symmetry == Permutations(Peers)
=============================================================================
