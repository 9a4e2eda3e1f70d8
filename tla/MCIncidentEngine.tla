-------------------------- MODULE MCIncidentEngine --------------------------
(***************************************************************************)
(* Alerts of one route that race each other at different claimed times,    *)
(* with one closer; two closers that race each other, one sender and       *)
(* correlation; and a closer whose incident gets notes and evidence.       *)
(* Senders, closers and incident identities are interchangeable.           *)
(***************************************************************************)
EXTENDS IncidentEngine, FiniteSets, TLC

CONSTANTS e1, e2, e3, r1

MCRouteOf == [e \in Events |-> r1]

MCOccurred == [e \in Events |-> IF e = e1 THEN 1 ELSE IF e = e2 THEN 2 ELSE 3]

VARIABLE scenario

\* The calls of one scenario: how many at a time, which alerts, whether evidence and notes
\* are written.
Scenarios == {[senders |-> 2, closers |-> 1, events |-> {e1, e2, e3},
               counting |-> FALSE, noting |-> FALSE],
              [senders |-> 1, closers |-> 2, events |-> {e1, e2},
               counting |-> TRUE, noting |-> FALSE],
              [senders |-> 1, closers |-> 1, events |-> {e1},
               counting |-> TRUE, noting |-> TRUE]}

Called ==
  /\ Cardinality({s \in Senders : pc[s] # "idle"}) <= scenario.senders
  /\ Cardinality({c \in Closers : closer[c].pc # "idle"}) <= scenario.closers
  /\ {event[s] : s \in Senders} \subseteq scenario.events \cup {None}
  /\ \A i \in Incidents : /\ summary[i].event_count > 0 => scenario.counting
                          /\ summary[i].note_revision > 0 => scenario.noting

MCInit == Init /\ scenario \in Scenarios

MCNext == scenario' = scenario /\ Next /\ Called'

MCSpec == MCInit /\ [][MCNext]_<<vars, scenario>>

Symmetry == Permutations(Senders) \cup Permutations(Closers) \cup Permutations(Incidents)
=============================================================================
