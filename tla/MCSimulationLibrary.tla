------------------------ MODULE MCSimulationLibrary -------------------------
(***************************************************************************)
(* Small instances of SimulationLibrary.                                   *)
(***************************************************************************)
EXTENDS SimulationLibrary, TLC

Symmetry == Permutations(Generations) \cup Permutations(Savers) \cup Permutations(Readers)
            \cup Permutations(Items)
=============================================================================
