------------------------- MODULE MCAssessmentInputs -------------------------
(***************************************************************************)
(* Instances of Assessment that differ in what the world contributes,      *)
(* checked in one run.                                                     *)
(***************************************************************************)
EXTENDS MCAssessment

VARIABLE scenario

\* Two signals that repeat each other and a review; two that differ; a signal, a
\* note and a review; a signal and a reassessment request where anything may fail
\* and people close.
Scenarios ==
  {[inputs |-> {s1, s2, r1}, failures |-> FALSE, closing |-> FALSE],
   [inputs |-> {s1, s3, r1}, failures |-> FALSE, closing |-> FALSE],
   [inputs |-> {s1, n1, r1}, failures |-> FALSE, closing |-> FALSE],
   [inputs |-> {s1, q1}, failures |-> TRUE, closing |-> TRUE]}

\* Two signals that repeat each other; a signal and a note; nothing fails.
FairScenarios ==
  {[inputs |-> {s1, s2}, failures |-> FALSE, closing |-> FALSE],
   [inputs |-> {s1, n1}, failures |-> FALSE, closing |-> TRUE]}

\* Only the scenario's inputs are used.
Contributed ==
  /\ summary.resolved \/ summary.deleting => scenario.closing
  /\ \A m \in Messages \ scenario.inputs : delivered[m] \in {0, None}
  /\ notes \subseteq scenario.inputs
  /\ \A q \in Requests \ scenario.inputs : delivered[q] = None
  /\ {entry.request : entry \in audit} \subseteq scenario.inputs

MCInit == Init /\ scenario \in Scenarios

MCFairInit == Init /\ scenario \in FairScenarios

MCNext ==
  /\ scenario' = scenario
  /\ Progress \/ (scenario.failures /\ Failure)
  /\ Contributed'

MCSpec == MCInit /\ [][MCNext]_<<vars, scenario>>

\* FairSpec, for the messages that the scenario has.
MCFairSpec ==
  /\ MCFairInit /\ [][MCNext]_<<vars, scenario>> /\ Begun
  /\ \A m \in Messages : WF_vars(m \in scenario.inputs /\ \E w \in Workers : Deliver(w, m))

\* In every scenario the first two signals are alike, or only one is used.
Symmetry == Permutations(Workers) \cup Permutations({s1, s2})
=============================================================================
