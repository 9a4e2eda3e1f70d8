-------------------------- MODULE MCSimulationRuns --------------------------
(***************************************************************************)
(* Small instances of SimulationRuns.                                      *)
(***************************************************************************)
EXTENDS SimulationRuns, TLC

CONSTANTS both, second, first, a, b, i1

\* A run of two devices, one of the second of them, one of the first.
MCRows == [r \in Runs |-> IF r = both THEN <<a, b>> ELSE IF r = second THEN <<b>> ELSE <<a>>]

MCOnce == [d \in Devices |-> 1]
MCRepeatA == [d \in Devices |-> IF d = a THEN 3 ELSE 1]
MCRepeatB == [d \in Devices |-> IF d = b THEN 2 ELSE 1]

\* The run of the first device is for an incident, the others find it.
MCTarget == [r \in Runs |-> IF r = first THEN i1 ELSE None]
=============================================================================
