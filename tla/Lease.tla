------------------------------- MODULE Lease -------------------------------
(***************************************************************************)
(* The lease that serialises the scheduled Lambdas.  The simulation worker *)
(* and the cleanup sweep each keep one LOCK row; an invocation that cannot *)
(* take the lease returns at once.  The platform ends an invocation when   *)
(* its timeout is up, wherever it stands, and nothing else ends the lease  *)
(* of one that was ended so.                                               *)
(***************************************************************************)
EXTENDS Naturals

CONSTANTS Invocations,  \* scheduled invocations; each runs once, its token is itself
          LeaseTime,    \* how long a lease lasts (240 s)
          Timeout,      \* the Lambda timeout (170 s)
          None,
          MaxClock      \* bound

ASSUME LeaseAssumption ==
  /\ LeaseTime \in Nat /\ Timeout \in Nat /\ Timeout <= LeaseTime
  /\ MaxClock \in Nat
  /\ None \notin [token : Invocations, until : Nat]

VARIABLES
  clock,  \* seconds
  lease,  \* lease_token and lease_until of the LOCK row
  run     \* what each invocation is at

vars == <<clock, lease, run>>

-----------------------------------------------------------------------------
Running == {"start", "claim", "work"}

Invocation == [pc : {"scheduled", "ended"} \cup Running, started : Nat, now : Nat]

Init ==
  /\ clock = 0 /\ lease = None
  /\ run = [p \in Invocations |-> [pc |-> "scheduled", started |-> 0, now |-> 0]]

Goto(p, label) == run' = [run EXCEPT ![p].pc = label]

Invoke(p) ==
  /\ run[p].pc = "scheduled"
  /\ run' = [run EXCEPT ![p].pc = "start", ![p].started = clock]
  /\ UNCHANGED <<clock, lease>>

ReadNow(p) ==
  /\ run[p].pc = "start"
  /\ run' = [run EXCEPT ![p].pc = "claim", ![p].now = clock]
  /\ UNCHANGED <<clock, lease>>

\* (defect) The slack for truncated seconds is on the wrong side.
Available_Early(p) == lease = None \/ lease.until <= run[p].now + 1

\* attribute_not_exists(lease_until) OR lease_until < :now
Available(p) == lease = None \/ lease.until < run[p].now

Claim(p) ==
  /\ run[p].pc = "claim"
  /\ IF Available(p)
     THEN lease' = [token |-> p, until |-> run[p].now + LeaseTime] /\ Goto(p, "work")
     ELSE UNCHANGED lease /\ Goto(p, "ended")
  /\ UNCHANGED clock

\* The release is conditional on the token, whether the work succeeded or not.
Release(p) ==
  /\ run[p].pc = "work"
  /\ lease' = IF lease # None /\ lease.token = p THEN None ELSE lease
  /\ Goto(p, "ended")
  /\ UNCHANGED clock

\* The invocation dies, at the latest when its time is up.
Die(p) ==
  /\ run[p].pc \in Running
  /\ Goto(p, "ended")
  /\ UNCHANGED <<clock, lease>>

\* No invocation outlives its timeout.
Tick ==
  /\ clock < MaxClock
  /\ \A p \in Invocations : run[p].pc \in Running => clock < run[p].started + Timeout
  /\ clock' = clock + 1
  /\ UNCHANGED <<lease, run>>

Next ==
  \/ Tick
  \/ \E p \in Invocations : \/ Invoke(p) \/ ReadNow(p) \/ Claim(p)
                            \/ Release(p) \/ Die(p)

Spec == Init /\ [][Next]_vars

-----------------------------------------------------------------------------
TypeOK ==
  /\ clock \in Nat
  /\ lease \in [token : Invocations, until : Nat] \cup {None}
  /\ run \in [Invocations -> Invocation]

\* Two invocations never work at the same time, however long one hesitates
\* between reading the clock and taking the lease, and whoever died holding
\* it: SimulationRuns and Cleanup rely on a single worker and a single sweep.
AtMostOneWorks ==
  \A p, q \in Invocations : run[p].pc = "work" /\ run[q].pc = "work" => p = q

\* Whoever works holds a lease that outlasts it; nobody outlives its timeout.
LeaseOutlasts ==
  \A p \in Invocations :
    /\ run[p].pc \in Running => /\ run[p].started <= clock
                                /\ clock <= run[p].started + Timeout
    /\ run[p].pc \in {"claim", "work"} => run[p].started <= run[p].now /\ run[p].now <= clock
    /\ run[p].pc = "work" => /\ lease # None /\ lease.token = p
                             /\ lease.until = run[p].now + LeaseTime

\* The inductive invariant.
LeaseInv == TypeOK /\ LeaseOutlasts

=============================================================================
