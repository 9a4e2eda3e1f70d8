----------------------- MODULE MCSimulationRunsCalls ------------------------
(***************************************************************************)
(* Instances of SimulationRuns that differ in who calls and what fails,    *)
(* checked in one run.                                                     *)
(***************************************************************************)
EXTENDS MCSimulationRuns

CONSTANTS i2

VARIABLE scenario

Scenarios ==
  {\* one run of two devices; any call fails
   [runs |-> {both}, clients |-> 1, commands |-> 1, incidents |-> {i1},
    failures |-> TRUE, later |-> TRUE],
   \* two requests for that run race each other
   [runs |-> {both}, clients |-> 2, commands |-> 2, incidents |-> {i1},
    failures |-> FALSE, later |-> TRUE],
   \* the run is resumed and stopped, with one report of each device; any call fails
   [runs |-> {both}, clients |-> 1, commands |-> 2, incidents |-> {i1},
    failures |-> TRUE, later |-> FALSE],
   \* one run that has to find its incident; any call fails
   [runs |-> {second}, clients |-> 1, commands |-> 0, incidents |-> {i1, i2},
    failures |-> TRUE, later |-> TRUE],
   \* two runs that share nothing but the SIMLOCKS row
   [runs |-> {first, second}, clients |-> 2, commands |-> 1, incidents |-> {i1},
    failures |-> FALSE, later |-> FALSE],
   \* two runs that want the same device
   [runs |-> {both, second}, clients |-> 2, commands |-> 1, incidents |-> {i1},
    failures |-> FALSE, later |-> TRUE]}

Called ==
  /\ started \subseteq scenario.runs /\ commands <= scenario.commands
  /\ Cardinality({c \in Clients : client[c].pc # "idle"}) <= scenario.clients
  /\ \A r \in Runs, d \in Devices : due[r][d] > 1 => scenario.later
  /\ \A c \in Clients : client[c].id \in scenario.runs \cup {None}
  /\ \A i \in Incidents \ scenario.incidents : incident[i] = "open"
  /\ \A x \in Ids : receipts[x].incident \in scenario.incidents \cup {None}

MCInit == Init /\ scenario \in Scenarios

MCNext ==
  /\ scenario' = scenario
  /\ Progress \/ (scenario.failures /\ Failure)
  /\ Called'

MCSpec == MCInit /\ [][MCNext]_<<vars, scenario>>

\* In every scenario the incidents are alike, or only one is used.
Symmetry == Permutations(Incidents) \cup Permutations(Clients)
=============================================================================
