----------------------------- MODULE MCCleanup -----------------------------
(***************************************************************************)
(* A small instance of Cleanup.                                            *)
(***************************************************************************)
EXTENDS Cleanup, TLC

\* Requests and writers act before the clock first moves: while the first sweep works.
MCNext == Purge \/ Leases \/ (clock = 0 /\ Others)

MCSpec == CleanupInit /\ [][MCNext]_<<vars, cleanupVars>>

Symmetry == Permutations(Invocations)
=============================================================================
