----------------------------- MODULE MCIngress ------------------------------
(***************************************************************************)
(* Small instances of Ingress.  All signals are of one route.              *)
(***************************************************************************)
EXTENDS Ingress, TLC

CONSTANTS r1

MCRouteOf == [e \in Events |-> r1]

Symmetry == Permutations(Workers) \cup Permutations(Events) \cup Permutations(Incidents)
=============================================================================
