----------------------------- MODULE Assignment -----------------------------
(***************************************************************************)
(* What the incident engine promises, with every operation atomic: an      *)
(* alert is assigned once, for ever, to the one open incident of its route *)
(* (its registered location and hazard family), or opens a new one; a      *)
(* route remembers when its last incident closed, and an alert that had    *)
(* already occurred by then is never assigned to anything new.             *)
(* IncidentEngine implements this with optimistic transactions.            *)
(***************************************************************************)
EXTENDS Naturals

CONSTANTS Events,    \* alerts, by idempotency key
          Incidents, \* incident identities (UUIDs)
          Routes,    \* ROUTE#location#family keys
          None,
          RouteOf,   \* the route an alert belongs to
          Occurred,  \* the time an alert claims to have occurred at
          Times      \* times at which an incident may close

VARIABLES assigned,  \* event -> incident, or None
          home,      \* incident -> route, or None before it is opened
          open,      \* the incidents that are open
          closedAt   \* route -> time its last incident closed, 0 if never

avars == <<assigned, home, open, closedAt>>

AInit ==
  /\ assigned = [e \in Events |-> None]
  /\ home = [i \in Incidents |-> None]
  /\ open = {}
  /\ closedAt = [r \in Routes |-> 0]

\* The incidents an alert of route r may join.
Current(r) == {i \in open : home[i] = r}

Join(e, i) ==
  /\ assigned[e] = None
  /\ Occurred[e] > closedAt[RouteOf[e]]
  /\ i \in Current(RouteOf[e])
  /\ assigned' = [assigned EXCEPT ![e] = i]
  /\ UNCHANGED <<home, open, closedAt>>

Open(e, i) ==
  /\ assigned[e] = None
  /\ Occurred[e] > closedAt[RouteOf[e]]
  /\ Current(RouteOf[e]) = {}
  /\ home[i] = None
  /\ home' = [home EXCEPT ![i] = RouteOf[e]]
  /\ open' = open \cup {i}
  /\ assigned' = [assigned EXCEPT ![e] = i]
  /\ UNCHANGED closedAt

Close(i, t) ==
  /\ i \in open
  /\ t >= closedAt[home[i]]
  /\ open' = open \ {i}
  /\ closedAt' = [closedAt EXCEPT ![home[i]] = t]
  /\ UNCHANGED <<assigned, home>>

ANext ==
  \/ \E e \in Events, i \in Incidents : Join(e, i) \/ Open(e, i)
  \/ \E i \in Incidents, t \in Times : Close(i, t)

ASpec == AInit /\ [][ANext]_avars
=============================================================================
