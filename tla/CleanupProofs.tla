---------------------------- MODULE CleanupProofs ---------------------------
(***************************************************************************)
(* Proofs about Lease, for any number of invocations and any timeout no    *)
(* longer than the lease, and about Cleanup under it, for any number of    *)
(* incidents and receipts, any amount of data and any time a sweep has.    *)
(***************************************************************************)
EXTENDS Cleanup, FiniteSetTheorems, TLAPS

-----------------------------------------------------------------------------
(* The lease *)

\* What a step of one invocation does to the invocations.
LEMMA StepType ==
  ASSUME TypeOK, NEW p \in Invocations,
         NEW label \in {"scheduled", "ended"} \cup Running
  PROVE  [run EXCEPT ![p].pc = label] \in [Invocations -> Invocation]
<1>1. run[p] \in Invocation  BY DEF TypeOK
<1>2. [run[p] EXCEPT !.pc = label] \in Invocation  BY <1>1 DEF Invocation
<1> QED  BY <1>2 DEF TypeOK

LEMMA InvInit == Init => LeaseInv
<1> SUFFICES ASSUME Init PROVE LeaseInv  OBVIOUS
<1>1. TypeOK  BY DEF Init, TypeOK, Invocation, Running
<1>2. LeaseOutlasts  BY DEF Init, LeaseOutlasts, Running
<1> QED  BY <1>1, <1>2 DEF LeaseInv

LEMMA InvNext == LeaseInv /\ [Next]_vars => LeaseInv'
<1> SUFFICES ASSUME LeaseInv, [Next]_vars PROVE LeaseInv'  OBVIOUS
<1> USE LeaseAssumption DEF LeaseInv
<1>1. ASSUME NEW p \in Invocations, Invoke(p) PROVE LeaseInv'
  <2>1. run[p] \in Invocation  BY DEF TypeOK
  <2>2. [run[p] EXCEPT !.pc = "start", !.started = clock] \in Invocation
    BY <2>1 DEF TypeOK, Invocation, Running
  <2>3. TypeOK'  BY <1>1, <2>2 DEF Invoke, TypeOK
  <2>4. LeaseOutlasts'
    BY <1>1 DEF Invoke, TypeOK, LeaseOutlasts, Invocation, Running
  <2> QED  BY <2>3, <2>4
<1>2. ASSUME NEW p \in Invocations, ReadNow(p) PROVE LeaseInv'
  <2>1. run[p] \in Invocation  BY DEF TypeOK
  <2>2. [run[p] EXCEPT !.pc = "claim", !.now = clock] \in Invocation
    BY <2>1 DEF TypeOK, Invocation, Running
  <2>3. TypeOK'  BY <1>2, <2>2 DEF ReadNow, TypeOK
  <2>4. LeaseOutlasts'
    <3> SUFFICES ASSUME NEW q \in Invocations
                 PROVE  /\ run'[q].pc \in Running =>
                               run'[q].started <= clock' /\ clock' <= run'[q].started + Timeout
                        /\ run'[q].pc \in {"claim", "work"} =>
                             run'[q].started <= run'[q].now /\ run'[q].now <= clock'
                        /\ run'[q].pc = "work" =>
                             /\ lease' # None /\ lease'.token = q
                             /\ lease'.until = run'[q].now + LeaseTime
      BY DEF LeaseOutlasts
    <3>1. run'[p] = [run[p] EXCEPT !.pc = "claim", !.now = clock]
      BY <1>2 DEF ReadNow, TypeOK
    <3>2. clock' = clock /\ lease' = lease /\ run[p].pc = "start"  BY <1>2 DEF ReadNow
    <3>3. CASE q = p
      <4>1. clock <= run[p].started + Timeout  BY <3>2 DEF LeaseOutlasts, Running
      <4>2. run[p].started <= clock  BY <1>2 DEF ReadNow, LeaseOutlasts, Running
      <4>3. /\ run'[p].pc = "claim" /\ run'[p].now = clock
            /\ run'[p].started = run[p].started
        BY <3>1, <2>1 DEF Invocation
      <4>4. clock \in Nat  BY DEF TypeOK
      <4> QED  BY <3>2, <3>3, <4>1, <4>2, <4>3, <4>4
    <3>4. CASE q # p
      <4>1. run'[q] = run[q]  BY <3>4, <1>2 DEF ReadNow, TypeOK
      <4> QED  BY <4>1, <3>2 DEF LeaseOutlasts
    <3> QED  BY <3>3, <3>4
  <2> QED  BY <2>3, <2>4
<1>3. ASSUME NEW p \in Invocations, Claim(p) PROVE LeaseInv'
  <2>1. CASE Available(p)
    <3>1. run' = [run EXCEPT ![p].pc = "work"] /\ clock' = clock
      BY <1>3, <2>1 DEF Claim, Goto
    <3>2. lease' = [token |-> p, until |-> run[p].now + LeaseTime]
      BY <1>3, <2>1 DEF Claim
    <3>3. run[p].now \in Nat  BY DEF TypeOK, Invocation
    <3>4. TypeOK'
      <4>1. lease' \in [token : Invocations, until : Nat]  BY <3>2, <3>3
      <4>2. [run EXCEPT ![p].pc = "work"] \in [Invocations -> Invocation]
        BY StepType DEF Running
      <4> QED  BY <3>1, <4>1, <4>2 DEF TypeOK
    \* Whoever else was at work would hold the lease beyond now.
    <3>5. ASSUME NEW q \in Invocations, run[q].pc = "work" PROVE FALSE
      <4>1. lease # None /\ lease.until = run[q].now + LeaseTime
        BY <3>5 DEF LeaseOutlasts
      <4>2. lease.until < run[p].now  BY <2>1, <4>1 DEF Available
      <4>3. run[p].now <= clock  BY <1>3 DEF LeaseOutlasts, Claim
      <4>4. clock <= run[q].started + Timeout /\ run[q].started <= run[q].now
        BY <3>5 DEF LeaseOutlasts, Running
      <4>5. run[q] \in Invocation /\ clock \in Nat  BY DEF TypeOK
      <4> QED  BY <3>3, <4>1, <4>2, <4>3, <4>4, <4>5 DEF Invocation
    <3>6. LeaseOutlasts'
      <4> SUFFICES ASSUME NEW q \in Invocations
                   PROVE  /\ run'[q].pc \in Running =>
                               run'[q].started <= clock' /\ clock' <= run'[q].started + Timeout
                          /\ run'[q].pc \in {"claim", "work"} =>
                               run'[q].started <= run'[q].now /\ run'[q].now <= clock'
                          /\ run'[q].pc = "work" =>
                               /\ lease' # None /\ lease'.token = q
                               /\ lease'.until = run'[q].now + LeaseTime
        BY DEF LeaseOutlasts
      <4>1. CASE q = p
        BY <4>1, <1>3, <3>1, <3>2, <3>3 DEF Claim, LeaseOutlasts, TypeOK, Invocation, Running
      <4>2. CASE q # p
        <5>1. run'[q] = run[q]  BY <4>2, <3>1 DEF TypeOK
        <5> QED  BY <5>1, <3>1, <3>5 DEF LeaseOutlasts
      <4> QED  BY <4>1, <4>2
    <3> QED  BY <3>4, <3>6
  <2>2. CASE ~Available(p)
    <3>1. run' = [run EXCEPT ![p].pc = "ended"] /\ UNCHANGED <<clock, lease>>
      BY <1>3, <2>2 DEF Claim, Goto
    <3>2. TypeOK'  BY <3>1, StepType DEF TypeOK
    <3>3. LeaseOutlasts'
      BY <3>1 DEF TypeOK, LeaseOutlasts, Invocation, Running
    <3> QED  BY <3>2, <3>3
  <2> QED  BY <2>1, <2>2
<1>4. ASSUME NEW p \in Invocations, Release(p) PROVE LeaseInv'
  <2>1. run' = [run EXCEPT ![p].pc = "ended"] /\ clock' = clock
    BY <1>4 DEF Release, Goto
  <2>2. lease' \in {lease, None}  BY <1>4 DEF Release
  <2>3. TypeOK'  BY <2>1, <2>2, StepType DEF TypeOK
  <2>4. ASSUME NEW q \in Invocations, q # p PROVE run[q].pc # "work"
    BY <1>4, <2>4 DEF Release, LeaseOutlasts
  <2>5. LeaseOutlasts'
    BY <2>1, <2>4 DEF TypeOK, LeaseOutlasts, Invocation, Running
  <2> QED  BY <2>3, <2>5
<1>5. ASSUME NEW p \in Invocations, Die(p) PROVE LeaseInv'
  <2>1. run' = [run EXCEPT ![p].pc = "ended"] /\ UNCHANGED <<clock, lease>>
    BY <1>5 DEF Die, Goto
  <2>2. TypeOK'  BY <2>1, StepType DEF TypeOK
  <2>3. LeaseOutlasts'  BY <2>1 DEF TypeOK, LeaseOutlasts, Invocation, Running
  <2> QED  BY <2>2, <2>3
<1>6. CASE Tick
  <2>1. TypeOK'  BY <1>6 DEF Tick, TypeOK
  <2>2. LeaseOutlasts'
    BY <1>6 DEF Tick, TypeOK, LeaseOutlasts, Invocation, Running
  <2> QED  BY <2>1, <2>2
<1>7. CASE UNCHANGED vars
  BY <1>7 DEF vars, TypeOK, LeaseOutlasts
<1> QED  BY <1>1, <1>2, <1>3, <1>4, <1>5, <1>6, <1>7 DEF Next

\* The inductive invariant holds (whoever works holds a lease that outlasts
\* it), in every reachable state.
THEOREM LeaseCorrect == Spec => []LeaseInv
<1> QED  BY InvInit, InvNext, PTL DEF Spec

\* A lease has one token, so two invocations at work are one.
LEMMA InvExcludes == LeaseInv => AtMostOneWorks
  BY DEF LeaseInv, LeaseOutlasts, AtMostOneWorks

\* However many invocations are scheduled, and wherever they die, at most
\* one of them works at a time (the lease of simulation_worker and cleanup).
THEOREM MutualExclusion == Spec => []AtMostOneWorks
<1> QED  BY LeaseCorrect, InvExcludes, PTL

-----------------------------------------------------------------------------
(* The inductive invariant *)

\* The measure that a sweep notes when it begins is nobody's concern here.
SweepShape ==
  \E n : sweep \in [pc : Purging \cup {"idle", "next", "over"}, page : SUBSET Incidents,
                    at : Incidents \cup {None}, cursor : Nat, left : Nat,
                    first : Incidents \cup {None}, found : {n}, failed : BOOLEAN]

Shape ==
  /\ marker \in [Incidents -> {"none", "pending", "purging", "retrying", "completed"}]
  /\ job \in [Incidents -> Nat \cup {None}]
  /\ eligible \in [Incidents -> BOOLEAN]
  /\ stored \in [Incidents -> [Kinds -> Nat]]
  /\ receipt \in [Keys -> Receipt \cup {None}]
  /\ SweepShape

\* The scan is through with the receipts of an incident up to a key.
Passed(i, cursor) ==
  \A k \in Keys : k <= cursor /\ receipt[k] # None /\ receipt[k].incident = i =>
    receipt[k].redacted
PassedAll(i) ==
  \A k \in Keys : receipt[k] # None /\ receipt[k].incident = i => receipt[k].redacted

\* A job's cursor tells no lie, and nobody writes for an incident whose cleanup
\* has begun; what has no job any more, or is complete, is gone.
JobsOK ==
  \A i \in Incidents :
    /\ marker[i] = "none" => job[i] = None /\ ~eligible[i]
    /\ job[i] # None => /\ Passed(i, job[i])
                        /\ job[i] > 0 => eligible[i]
    /\ marker[i] = "completed" \/ (marker[i] # "none" /\ job[i] = None) =>
         Gone(i) /\ eligible[i]

\* Each stage of a purge comes after what the earlier ones removed.
StagesOK(i) ==
  /\ sweep.pc \in Purging \ {"objects"} => stored[i].objects = 0
  /\ sweep.pc \in Purging \ {"objects", "records"} => stored[i].records = 0
  /\ sweep.pc \in {"objects", "records", "receipts", "cursor"} => Passed(i, sweep.cursor)
  /\ sweep.pc \in {"outputs", "summary", "runs", "complete", "drop"} => PassedAll(i)
  /\ sweep.pc \in {"summary", "runs", "complete", "drop"} => stored[i].outputs = 0
  /\ sweep.pc \in {"runs", "complete", "drop"} => stored[i].summary = 0
  /\ sweep.pc \in {"complete", "drop"} => stored[i].runs = 0

SweepOK ==
  /\ \A i \in sweep.page : job[i] # None
  /\ Working =>
       /\ sweep.at \in Incidents \ sweep.page
       /\ marker[sweep.at] # "none" /\ eligible[sweep.at] /\ job[sweep.at] # None
       /\ StagesOK(sweep.at)

CleanupInv == Shape /\ JobsOK /\ SweepOK

\* There is a sweep exactly while an invocation works.
SweepHasWorker == sweep.pc # "idle" <=> \E p \in Invocations : run[p].pc = "work"

-----------------------------------------------------------------------------
(* Initial states, and the parts of a step *)

LEMMA CleanupInvInit == CleanupInit => CleanupInv
<1> SUFFICES ASSUME CleanupInit PROVE CleanupInv  OBVIOUS
<1> USE CleanupAssumption DEF CleanupInit
<1>1. SweepShape  BY DEF SweepShape, IdleSweep
<1>2. stored \in [Incidents -> [Kinds -> Nat]]  BY DEF Kinds
<1>3. Shape  BY <1>1, <1>2 DEF Shape
<1>4. JobsOK  BY DEF JobsOK
<1>5. SweepOK  BY DEF SweepOK, Working, IdleSweep, Purging, Kinds
<1> QED  BY <1>3, <1>4, <1>5 DEF CleanupInv

\* The sweep's record, whatever the measure in it is.
LEMMA SweepFields ==
  ASSUME SweepShape
  PROVE  /\ sweep.pc \in Purging \cup {"idle", "next", "over"}
         /\ sweep.page \in SUBSET Incidents /\ sweep.at \in Incidents \cup {None}
         /\ sweep.cursor \in Nat /\ sweep.left \in Nat
         /\ sweep.first \in Incidents \cup {None} /\ sweep.failed \in BOOLEAN
  BY DEF SweepShape

\* A sweep that goes on with its incident, at another stage or not.
LEMMA SweepGoesOn ==
  ASSUME SweepShape, NEW pc \in Purging, NEW left \in Nat, NEW cursor \in Nat,
         \/ sweep' = [sweep EXCEPT !.pc = pc]
         \/ sweep' = [sweep EXCEPT !.left = left, !.pc = pc]
         \/ sweep' = [sweep EXCEPT !.left = left] /\ pc = sweep.pc
         \/ sweep' = [sweep EXCEPT !.left = left, !.pc = pc, !.cursor = cursor]
  PROVE  /\ SweepShape'
         /\ sweep'.pc = pc /\ sweep'.page = sweep.page /\ sweep'.at = sweep.at
         /\ sweep'.cursor = cursor \/ sweep'.cursor = sweep.cursor
<1>1. PICK n : sweep \in [pc : Purging \cup {"idle", "next", "over"}, page : SUBSET Incidents,
                          at : Incidents \cup {None}, cursor : Nat, left : Nat,
                          first : Incidents \cup {None}, found : {n}, failed : BOOLEAN]
  BY DEF SweepShape
<1>2. sweep' \in [pc : Purging \cup {"idle", "next", "over"}, page : SUBSET Incidents,
                  at : Incidents \cup {None}, cursor : Nat, left : Nat,
                  first : Incidents \cup {None}, found : {n}, failed : BOOLEAN]
  BY <1>1
<1>3. SweepShape'  BY <1>2 DEF SweepShape
<1> QED  BY <1>1, <1>3

\* One that is between two jobs, or over.
LEMMA SweepPauses ==
  ASSUME SweepShape, NEW pc \in {"next", "over"}, NEW f \in BOOLEAN, NEW page \in SUBSET Incidents,
         \/ sweep' = [sweep EXCEPT !.pc = pc]
         \/ sweep' = [sweep EXCEPT !.pc = pc, !.at = None]
         \/ sweep' = [[sweep EXCEPT !.pc = pc, !.at = None] EXCEPT !.failed = f]
         \/ sweep' = [[sweep EXCEPT !.page = page] EXCEPT !.pc = pc]
         \/ sweep' = [sweep EXCEPT !.page = page] /\ pc = sweep.pc
  PROVE  /\ SweepShape'
         /\ sweep'.pc = pc
         /\ sweep'.page = page \/ sweep'.page = sweep.page
<1>1. PICK n : sweep \in [pc : Purging \cup {"idle", "next", "over"}, page : SUBSET Incidents,
                          at : Incidents \cup {None}, cursor : Nat, left : Nat,
                          first : Incidents \cup {None}, found : {n}, failed : BOOLEAN]
  BY DEF SweepShape
<1>2. sweep' \in [pc : Purging \cup {"idle", "next", "over"}, page : SUBSET Incidents,
                  at : Incidents \cup {None}, cursor : Nat, left : Nat,
                  first : Incidents \cup {None}, found : {n}, failed : BOOLEAN]
  BY <1>1
<1>3. SweepShape'  BY <1>2 DEF SweepShape
<1> QED  BY <1>1, <1>3

\* What holds of the incident being purged.
LEMMA AtWork ==
  ASSUME CleanupInv, Working
  PROVE  \E i \in Incidents \ sweep.page :
           /\ i = sweep.at /\ marker[i] # "none" /\ eligible[i]
           /\ job[i] \in Nat \ {None} /\ StagesOK(i)
  BY DEF CleanupInv, SweepOK, Shape

\* The sweep stays at its incident: what is left to show.
LEMMA StaysAtWork ==
  ASSUME CleanupInv, NEW i \in Incidents \ sweep.page, i = sweep.at,
         marker'[i] # "none", eligible[i], job'[i] # None, StagesOK(i)',
         sweep'.at = i, sweep'.page = sweep.page, UNCHANGED eligible,
         \A j \in Incidents \ {i} : job'[j] = job[j]
  PROVE  SweepOK'
<1>1. \A j \in sweep.page : job'[j] # None
  BY SweepFields DEF CleanupInv, SweepOK, Shape
<1>2. StagesOK(sweep.at)'  BY DEF StagesOK, Passed, PassedAll
<1> QED  BY <1>1, <1>2 DEF SweepOK

\* Steps that only take away: what was gone, or passed by the scan, stays so.
Fewer ==
  /\ \A j \in Incidents, kind \in Kinds : stored'[j][kind] <= stored[j][kind]
  /\ \A k \in Keys :
       \/ receipt'[k] = receipt[k]
       \/ /\ receipt[k] # None /\ receipt'[k].incident = receipt[k].incident
          /\ receipt[k].redacted => receipt'[k].redacted

LEMMA FewerKeeps ==
  ASSUME Shape, Shape', Fewer, NEW j \in Incidents
  PROVE  /\ Gone(j) => Gone(j)'
         /\ \A c \in Nat : Passed(j, c) => Passed(j, c)'
         /\ PassedAll(j) => PassedAll(j)'
         /\ \A kind \in Kinds : stored[j][kind] = 0 => stored'[j][kind] = 0
<1>1. \A kind \in Kinds : stored[j][kind] \in Nat /\ stored'[j][kind] \in Nat
  BY DEF Shape
<1>2. \A kind \in Kinds : stored[j][kind] = 0 => stored'[j][kind] = 0
  <2> SUFFICES ASSUME NEW kind \in Kinds, stored[j][kind] = 0 PROVE stored'[j][kind] = 0
    OBVIOUS
  <2>1. stored'[j][kind] <= 0  BY DEF Fewer
  <2> QED  BY <1>1, <2>1
<1>3. \A k \in Keys : receipt'[k] # None /\ receipt'[k].incident = j =>
        /\ receipt[k] # None /\ receipt[k].incident = j
        /\ receipt[k].redacted => receipt'[k].redacted
  BY DEF Fewer
<1>4. PassedAll(j) => PassedAll(j)'  BY <1>3 DEF PassedAll
<1>5. \A c \in Nat : Passed(j, c) => Passed(j, c)'  BY <1>3 DEF Passed
<1>6. Gone(j) => Gone(j)'  BY <1>2, <1>3 DEF Gone
<1> QED  BY <1>2, <1>4, <1>5, <1>6

LEMMA JobsKept ==
  ASSUME CleanupInv, Shape', Fewer, UNCHANGED <<job, eligible>>,
         \A j \in Incidents :
           \/ marker'[j] = marker[j]
           \/ /\ marker[j] # "none" /\ marker'[j] # "none"
              /\ marker'[j] = "completed" => Gone(j)' /\ eligible[j]
  PROVE  JobsOK'
<1> USE DEF CleanupInv
<1> SUFFICES ASSUME NEW j \in Incidents
             PROVE  /\ marker'[j] = "none" => job'[j] = None /\ ~eligible'[j]
                    /\ job'[j] # None => /\ Passed(j, job[j])'
                                         /\ job'[j] > 0 => eligible'[j]
                    /\ marker'[j] = "completed" \/ (marker'[j] # "none" /\ job'[j] = None) =>
                         Gone(j)' /\ eligible'[j]
  BY DEF JobsOK
<1>1. marker'[j] = "none" => job'[j] = None /\ ~eligible'[j]  BY DEF JobsOK
<1>2. job'[j] # None => Passed(j, job[j])' /\ (job'[j] > 0 => eligible'[j])
  <2> SUFFICES ASSUME job[j] # None PROVE Passed(j, job[j])' /\ (job[j] > 0 => eligible[j])
    BY DEF Passed
  <2>1. PICK c \in Nat : c = job[j]  BY DEF Shape
  <2>2. Passed(j, c) /\ (job[j] > 0 => eligible[j])  BY <2>1 DEF JobsOK
  <2>3. Passed(j, c)'  BY <2>2, FewerKeeps
  <2>4. c = job'[j]  BY <2>1
  <2> QED  BY <2>2, <2>3, <2>4 DEF Passed
<1>3. marker'[j] = "completed" \/ (marker'[j] # "none" /\ job'[j] = None) =>
        Gone(j)' /\ eligible'[j]
  BY FewerKeeps DEF JobsOK
<1> QED  BY <1>1, <1>2, <1>3

-----------------------------------------------------------------------------
(* The stages of a purge *)

LEMMA InvDeletesPage ==
  ASSUME CleanupInv, DeletesPage
  PROVE  CleanupInv'
<1> USE DEF CleanupInv
<1>1. /\ Working /\ sweep.pc \in {"objects", "records"} /\ sweep.pc \in Kinds
      /\ sweep.left \in Nat /\ sweep.left > 0
  BY SweepFields DEF DeletesPage, Paged, Working, Purging, Kinds, Shape
<1>2. PICK i \in Incidents \ sweep.page :
        /\ i = sweep.at /\ marker[i] # "none" /\ eligible[i]
        /\ job[i] \in Nat \ {None} /\ StagesOK(i)
  BY <1>1, AtWork
<1>3. /\ sweep' = [sweep EXCEPT !.left = sweep.left - 1]
      /\ stored' = [stored EXCEPT ![i][sweep.pc] = stored[i][sweep.pc] - 1]
      /\ stored[i][sweep.pc] > 0
      /\ UNCHANGED <<marker, job, eligible, receipt>>
  BY <1>2 DEF DeletesPage, Continue, Shape
<1>4. SweepShape' /\ sweep'.pc = sweep.pc /\ sweep'.page = sweep.page /\ sweep'.at = i
      /\ sweep'.cursor = sweep.cursor
  <2>1. sweep.left - 1 \in Nat /\ sweep.pc \in Purging /\ sweep.cursor \in Nat
    BY <1>1, SweepFields DEF Working, Shape
  <2> QED  BY <1>2, <1>3, <2>1, SweepGoesOn DEF Shape
<1>5. /\ \A j \in Incidents, kind \in Kinds :
           stored'[j][kind] = IF j = i /\ kind = sweep.pc THEN stored[j][kind] - 1
                              ELSE stored[j][kind]
      /\ \A j \in Incidents, kind \in Kinds : stored[j][kind] \in Nat
  BY <1>3 DEF Shape
<1>6. stored' \in [Incidents -> [Kinds -> Nat]]
  <2>1. stored[i][sweep.pc] - 1 \in Nat  BY <1>1, <1>3, <1>5
  <2> QED  BY <1>3, <2>1 DEF Shape
<1>7. Shape'  BY <1>3, <1>4, <1>6 DEF Shape
<1>8. Fewer
  <2>1. \A j \in Incidents, kind \in Kinds : stored'[j][kind] <= stored[j][kind]
    BY <1>5
  <2> QED  BY <1>3, <2>1 DEF Fewer
<1>9. JobsOK'  BY <1>3, <1>7, <1>8, JobsKept
<1>10. StagesOK(i)'
  <2>1. /\ PassedAll(i) => PassedAll(i)'
        /\ Passed(i, sweep.cursor) => Passed(i, sweep.cursor)'
    BY <1>3, <1>4 DEF Passed, PassedAll
  <2>2. sweep.pc = "records" => stored'[i].objects = 0
    BY <1>2, <1>5 DEF StagesOK, Kinds, Purging
  <2> QED  BY <1>1, <1>2, <1>4, <2>1, <2>2 DEF StagesOK
<1>11. SweepOK'
  <2>1. \A j \in Incidents \ {i} : job'[j] = job[j]  BY <1>3
  <2> QED  BY <1>2, <1>3, <1>4, <1>10, <2>1, StaysAtWork
<1> QED  BY <1>7, <1>9, <1>11

LEMMA InvScans ==
  ASSUME CleanupInv, Scans \/ DeletesSummary
  PROVE  CleanupInv'
<1> USE DEF CleanupInv
<1>1. Working /\ sweep.pc \in {"outputs", "summary", "runs"} /\ sweep.pc \in Kinds
  BY DEF Scans, DeletesSummary, Scanned, Working, Purging, Kinds
<1>2. PICK i \in Incidents \ sweep.page :
        /\ i = sweep.at /\ marker[i] # "none" /\ eligible[i]
        /\ job[i] \in Nat \ {None} /\ StagesOK(i)
  BY <1>1, AtWork
<1>3. /\ stored' = [stored EXCEPT ![i][sweep.pc] = 0]
      /\ UNCHANGED <<marker, job, eligible, receipt>>
  BY <1>2 DEF Scans, DeletesSummary, Shape
<1>4. PICK pc \in {"summary", "runs", "complete"} :
        /\ SweepShape' /\ sweep'.pc = pc /\ sweep'.page = sweep.page /\ sweep'.at = i
        /\ pc = "summary" => sweep.pc = "outputs"
        /\ pc = "runs" => sweep.pc = "summary"
        /\ pc = "complete" => sweep.pc = "runs"
  <2>1. CASE Scans
    <3>1. sweep.left - 1 \in Nat /\ sweep.cursor \in Nat
      BY <2>1, SweepFields DEF Scans, Shape
    <3>2. CASE sweep.pc = "outputs"
      <4>1. sweep' = [sweep EXCEPT !.left = sweep.left - 1, !.pc = "summary"]
        BY <2>1, <3>2 DEF Scans, Continue, After, Shape, SweepShape
      <4> QED  BY <1>2, <3>1, <3>2, <4>1, SweepGoesOn DEF Purging, Kinds, Shape
    <3>3. CASE sweep.pc = "runs"
      <4>1. sweep' = [sweep EXCEPT !.left = sweep.left - 1, !.pc = "complete"]
        BY <2>1, <3>3 DEF Scans, Continue, After, Shape, SweepShape
      <4> QED  BY <1>2, <3>1, <3>3, <4>1, SweepGoesOn DEF Purging, Kinds, Shape
    <3> QED  BY <2>1, <3>2, <3>3 DEF Scans, Scanned
  <2>2. CASE DeletesSummary
    <3>1. sweep' = [sweep EXCEPT !.pc = "runs"] /\ sweep.pc = "summary"
      BY <2>2 DEF DeletesSummary, Continue, GoOn
    <3>2. sweep.left \in Nat /\ sweep.cursor \in Nat  BY SweepFields DEF Shape
    <3> QED  BY <1>2, <3>1, <3>2, SweepGoesOn DEF Purging, Kinds, Shape
  <2> QED  BY <2>1, <2>2
<1>5. /\ \A j \in Incidents, kind \in Kinds :
           stored'[j][kind] = IF j = i /\ kind = sweep.pc THEN 0 ELSE stored[j][kind]
      /\ \A j \in Incidents, kind \in Kinds : stored[j][kind] \in Nat
  BY <1>3 DEF Shape
<1>6. stored' \in [Incidents -> [Kinds -> Nat]]  BY <1>3 DEF Shape
<1>7. Shape'  BY <1>3, <1>4, <1>6 DEF Shape
<1>8. Fewer
  <2>1. \A j \in Incidents, kind \in Kinds : stored'[j][kind] <= stored[j][kind]
    BY <1>5
  <2> QED  BY <1>3, <2>1 DEF Fewer
<1>9. JobsOK'  BY <1>3, <1>7, <1>8, JobsKept
<1>10. StagesOK(i)'
  <2>1. PassedAll(i)'  BY <1>1, <1>2, <1>3 DEF PassedAll, StagesOK
  <2>2. stored'[i][sweep.pc] = 0  BY <1>1, <1>5
  <2>3. \A kind \in Kinds : stored[i][kind] = 0 => stored'[i][kind] = 0  BY <1>5
  <2>4. stored'[i].objects = 0 /\ stored'[i].records = 0
    BY <1>1, <1>2, <2>3 DEF StagesOK, Kinds, Purging
  <2>5. stored'[i].outputs = 0  BY <1>1, <1>2, <2>2, <2>3 DEF StagesOK, Kinds
  <2>6. sweep.pc \in {"summary", "runs"} => stored'[i].summary = 0
    BY <1>1, <1>2, <2>2, <2>3 DEF StagesOK, Kinds
  <2>7. sweep.pc = "runs" => stored'[i].runs = 0  BY <2>2
  <2> QED  BY <1>4, <2>1, <2>4, <2>5, <2>6, <2>7 DEF StagesOK
<1>11. SweepOK'
  <2>1. \A j \in Incidents \ {i} : job'[j] = job[j]  BY <1>3
  <2> QED  BY <1>2, <1>3, <1>4, <1>10, <2>1, StaysAtWork
<1> QED  BY <1>7, <1>9, <1>11

\* Nothing is left of what the stage removes.
LEMMA InvFinishesStage ==
  ASSUME CleanupInv, FindsNone \/ LastPage
  PROVE  CleanupInv'
<1> USE DEF CleanupInv
<1>1. /\ Working /\ sweep.pc \in {"objects", "records", "receipts"}
      /\ UNCHANGED <<marker, job, eligible, stored, receipt>>
  BY DEF FindsNone, LastPage, Paged, Working, Purging, Kinds
<1>2. PICK i \in Incidents \ sweep.page :
        /\ i = sweep.at /\ marker[i] # "none" /\ eligible[i]
        /\ job[i] \in Nat \ {None} /\ StagesOK(i)
  BY <1>1, AtWork
<1>3. sweep.left - 1 \in Nat /\ sweep.cursor \in Nat
  BY SweepFields DEF FindsNone, LastPage, Shape
<1>4. PICK pc \in {"records", "receipts", "outputs"} :
        /\ sweep' = [sweep EXCEPT !.left = sweep.left - 1, !.pc = pc]
        /\ pc = "records" => sweep.pc = "objects" /\ stored[i].objects = 0
        /\ pc = "receipts" => sweep.pc = "records" /\ stored[i].records = 0
        /\ pc = "outputs" => sweep.pc = "receipts" /\ NextPage = {}
  <2>1. CASE FindsNone
    <3>1. sweep.pc \in {"objects", "records"} /\ stored[i][sweep.pc] = 0
      BY <1>2, <2>1 DEF FindsNone, Paged
    <3>2. CASE sweep.pc = "objects"
      <4>1. sweep' = [sweep EXCEPT !.left = sweep.left - 1, !.pc = "records"]
        BY <2>1, <3>2 DEF FindsNone, Continue, After, Shape, SweepShape
      <4> QED  BY <3>1, <3>2, <4>1
    <3>3. CASE sweep.pc = "records"
      <4>1. sweep' = [sweep EXCEPT !.left = sweep.left - 1, !.pc = "receipts"]
        BY <2>1, <3>3 DEF FindsNone, Continue, After, Shape, SweepShape
      <4> QED  BY <3>1, <3>3, <4>1
    <3> QED  BY <3>1, <3>2, <3>3
  <2>2. CASE LastPage
    <3>1. /\ sweep' = [sweep EXCEPT !.left = sweep.left - 1, !.pc = "outputs"]
          /\ sweep.pc = "receipts" /\ NextPage = {}
      BY <2>2 DEF LastPage, Continue
    <3> QED  BY <3>1
  <2> QED  BY <2>1, <2>2
<1>5. /\ SweepShape' /\ sweep'.pc = pc /\ sweep'.page = sweep.page /\ sweep'.at = i
      /\ sweep'.cursor = sweep.cursor
  <2>1. pc \in Purging  BY <1>4 DEF Purging, Kinds
  <2>2. sweep' = [sweep EXCEPT !.left = sweep.left - 1, !.pc = pc]  BY <1>4
  <2> QED  BY <1>2, <1>3, <2>1, <2>2, SweepGoesOn DEF Shape
<1>6. Shape'  BY <1>1, <1>5 DEF Shape
<1>7. Fewer
  <2>1. \A j \in Incidents, kind \in Kinds : stored[j][kind] \in Nat  BY DEF Shape
  <2> QED  BY <1>1, <2>1 DEF Fewer
<1>8. JobsOK'  BY <1>1, <1>6, <1>7, JobsKept
<1>9. StagesOK(i)'
  <2>1. Passed(i, sweep.cursor) => Passed(i, sweep.cursor)'
    BY <1>1, <1>5 DEF Passed
  <2>2. pc = "outputs" => PassedAll(i)'
    <3> SUFFICES ASSUME pc = "outputs" PROVE PassedAll(i)  BY <1>1 DEF PassedAll
    <3>1. Passed(i, sweep.cursor)  BY <1>2, <1>4 DEF StagesOK
    <3>2. \A k \in Keys : receipt[k] # None => k <= sweep.cursor
      BY <1>3, <1>4, CleanupAssumption DEF NextPage
    <3> QED  BY <3>1, <3>2 DEF Passed, PassedAll
  <2>3. stored'[i].objects = 0  BY <1>1, <1>2, <1>4 DEF StagesOK, Purging, Kinds
  <2>4. pc # "records" => stored'[i].records = 0
    BY <1>1, <1>2, <1>4 DEF StagesOK, Purging, Kinds
  <2> QED  BY <1>2, <1>4, <1>5, <2>1, <2>2, <2>3, <2>4 DEF StagesOK
<1>10. SweepOK'
  <2>1. \A j \in Incidents \ {i} : job'[j] = job[j]  BY <1>1
  <2> QED  BY <1>1, <1>2, <1>5, <1>9, <2>1, StaysAtWork
<1> QED  BY <1>6, <1>8, <1>10

\* The page's receipt is redacted if it is the incident's; no receipt lies
\* between it and the cursor.
LEMMA InvRedactsPage ==
  ASSUME CleanupInv, NEW k \in Keys, RedactsPage(k)
  PROVE  CleanupInv'
<1> USE DEF CleanupInv
<1>1. /\ Working /\ sweep.pc = "receipts" /\ k \in NextPage
      /\ \A other \in NextPage : k <= other
      /\ receipt' = [receipt EXCEPT ![k] = Redacted(k)]
      /\ UNCHANGED <<marker, job, eligible, stored>>
  BY DEF RedactsPage, Working, Purging
<1>2. PICK i \in Incidents \ sweep.page :
        /\ i = sweep.at /\ marker[i] # "none" /\ eligible[i]
        /\ job[i] \in Nat \ {None} /\ StagesOK(i)
  BY <1>1, AtWork
<1>3. sweep.left - 1 \in Nat /\ sweep.cursor \in Nat /\ k \in Nat
  BY SweepFields, CleanupAssumption DEF RedactsPage, Shape
<1>4. /\ SweepShape' /\ sweep'.pc = "cursor" /\ sweep'.page = sweep.page /\ sweep'.at = i
      /\ sweep'.cursor = k
  <2>1. sweep' = [sweep EXCEPT !.left = sweep.left - 1, !.pc = "cursor", !.cursor = k]
    BY DEF RedactsPage, Continue
  <2>2. sweep'.cursor = k  BY <2>1 DEF Shape, SweepShape
  <2> QED  BY <1>2, <1>3, <2>1, <2>2, SweepGoesOn DEF Purging, Shape
<1>5. /\ receipt[k] \in Receipt /\ receipt[k] # None /\ Redacted(k) \in Receipt
      /\ Redacted(k).incident = receipt[k].incident
      /\ receipt[k].redacted => Redacted(k).redacted
      /\ receipt[k].incident = i => Redacted(k).redacted
  BY <1>1, <1>2 DEF NextPage, Redacted, Receipt, Shape
<1>6. receipt'[k] = Redacted(k) /\ \A x \in Keys \ {k} : receipt'[x] = receipt[x]
  BY <1>1 DEF Shape
<1>7. Shape'
  <2>1. receipt' \in [Keys -> Receipt \cup {None}]  BY <1>1, <1>5 DEF Shape
  <2> QED  BY <1>1, <1>4, <2>1 DEF Shape
<1>8. Fewer
  <2>1. \A j \in Incidents, kind \in Kinds : stored[j][kind] \in Nat  BY DEF Shape
  <2> QED  BY <1>1, <1>5, <1>6, <2>1 DEF Fewer
<1>9. JobsOK'  BY <1>1, <1>7, <1>8, JobsKept
<1>10. Passed(i, k)'
  <2> SUFFICES ASSUME NEW x \in Keys, x <= k, receipt'[x] # None, receipt'[x].incident = i
               PROVE  receipt'[x].redacted
    BY DEF Passed
  <2>1. CASE x = k  BY <1>5, <1>6, <2>1
  <2>2. CASE x # k
    <3>1. receipt'[x] = receipt[x] /\ x \in Nat  BY <1>6, <2>2, CleanupAssumption
    <3>2. x \notin NextPage  BY <1>1, <1>3, <2>2, <3>1
    <3>3. x <= sweep.cursor  BY <1>3, <3>1, <3>2 DEF NextPage
    <3> QED  BY <1>1, <1>2, <3>1, <3>3 DEF StagesOK, Passed
  <2> QED  BY <2>1, <2>2
<1>11. StagesOK(i)'
  <2>1. Passed(i, sweep.cursor)'  BY <1>4, <1>10 DEF Passed
  <2> QED  BY <1>1, <1>2, <1>4, <2>1 DEF StagesOK, Purging, Kinds
<1>12. SweepOK'
  <2>1. \A j \in Incidents \ {i} : job'[j] = job[j]  BY <1>1
  <2> QED  BY <1>1, <1>2, <1>4, <1>11, <2>1, StaysAtWork
<1> QED  BY <1>7, <1>9, <1>12

LEMMA InvSavesCursor ==
  ASSUME CleanupInv, SavesCursor
  PROVE  CleanupInv'
<1> USE CleanupAssumption DEF CleanupInv
<1>1. Working /\ sweep.pc = "cursor"  BY DEF SavesCursor, Working, Purging
<1>2. PICK i \in Incidents \ sweep.page :
        /\ i = sweep.at /\ marker[i] # "none" /\ eligible[i]
        /\ job[i] \in Nat \ {None} /\ StagesOK(i)
  BY <1>1, AtWork
<1>3. PICK c \in Nat : c = sweep.cursor /\ c # None  BY SweepFields DEF Shape
<1>4. /\ job' = [job EXCEPT ![i] = c]
      /\ sweep' = [sweep EXCEPT !.pc = "receipts"]
      /\ UNCHANGED <<marker, eligible, stored, receipt>>
  BY <1>2, <1>3 DEF SavesCursor, Continue, GoOn, Kept
<1>5. /\ SweepShape' /\ sweep'.pc = "receipts" /\ sweep'.page = sweep.page /\ sweep'.at = i
      /\ sweep'.cursor = c
  <2>1. "receipts" \in Purging /\ sweep.left \in Nat
    BY SweepFields DEF Purging, Shape
  <2> QED  BY <1>2, <1>3, <1>4, <2>1, SweepGoesOn DEF Shape
<1>6. Shape'
  <2>1. job' \in [Incidents -> Nat \cup {None}]  BY <1>4 DEF Shape
  <2> QED  BY <1>4, <1>5, <2>1 DEF Shape
<1>7. job'[i] = c /\ \A j \in Incidents \ {i} : job'[j] = job[j]  BY <1>4 DEF Shape
<1>8. Passed(i, c)  BY <1>1, <1>2, <1>3 DEF StagesOK
<1>9. JobsOK'
  <2> SUFFICES ASSUME NEW j \in Incidents
               PROVE  /\ marker'[j] = "none" => job'[j] = None /\ ~eligible'[j]
                      /\ job'[j] # None => /\ Passed(j, job[j])'
                                           /\ job'[j] > 0 => eligible'[j]
                      /\ marker'[j] = "completed" \/ (marker'[j] # "none" /\ job'[j] = None) =>
                           Gone(j)' /\ eligible'[j]
    BY DEF JobsOK
  <2>1. CASE j = i
    BY <1>2, <1>3, <1>4, <1>7, <1>8, <2>1 DEF JobsOK, Passed, Gone
  <2>2. CASE j # i  BY <1>4, <1>7, <2>2 DEF JobsOK, Passed, Gone
  <2> QED  BY <2>1, <2>2
<1>10. StagesOK(i)'
  BY <1>1, <1>2, <1>3, <1>4, <1>5 DEF StagesOK, Passed, PassedAll, Purging, Kinds
<1>11. SweepOK'
  BY <1>2, <1>3, <1>4, <1>5, <1>7, <1>10, StaysAtWork
<1> QED  BY <1>6, <1>9, <1>11

LEMMA StagesGone ==
  ASSUME NEW i, StagesOK(i), sweep.pc \in {"complete", "drop"}
  PROVE  Gone(i)
  BY DEF StagesOK, PassedAll, Gone, Kinds, Purging

LEMMA InvCompletes ==
  ASSUME CleanupInv, Completes
  PROVE  CleanupInv'
<1> USE CleanupAssumption DEF CleanupInv
<1>1. Working /\ sweep.pc = "complete"  BY DEF Completes, Working, Purging
<1>2. PICK i \in Incidents \ sweep.page :
        /\ i = sweep.at /\ marker[i] # "none" /\ eligible[i]
        /\ job[i] \in Nat \ {None} /\ StagesOK(i)
  BY <1>1, AtWork
<1>3. /\ marker' = [marker EXCEPT ![i] = "completed"]
      /\ sweep' = [sweep EXCEPT !.pc = "drop"]
      /\ UNCHANGED <<job, eligible, stored, receipt>>
  BY <1>2 DEF Completes, Continue, GoOn
<1>4. SweepShape' /\ sweep'.pc = "drop" /\ sweep'.page = sweep.page /\ sweep'.at = i
  <2>1. "drop" \in Purging /\ sweep.left \in Nat /\ sweep.cursor \in Nat
    BY SweepFields DEF Purging, Shape
  <2> QED  BY <1>2, <1>3, <2>1, SweepGoesOn DEF Shape
<1>5. Shape'  BY <1>3, <1>4 DEF Shape
<1>6. Gone(i) /\ Gone(i)'
  <2>1. Gone(i)  BY <1>1, <1>2, StagesGone
  <2> QED  BY <1>3, <2>1 DEF Gone
<1>7. Fewer
  <2>1. \A j \in Incidents, kind \in Kinds : stored[j][kind] \in Nat  BY DEF Shape
  <2> QED  BY <1>3, <2>1 DEF Fewer
<1>8. marker'[i] = "completed" /\ \A j \in Incidents \ {i} : marker'[j] = marker[j]
  BY <1>3 DEF Shape
<1>9. JobsOK'  BY <1>2, <1>3, <1>5, <1>6, <1>7, <1>8, JobsKept
<1>10. StagesOK(i)'
  BY <1>1, <1>2, <1>3, <1>4 DEF StagesOK, PassedAll, Purging, Kinds
<1>11. SweepOK'  BY <1>2, <1>3, <1>4, <1>8, <1>10, StaysAtWork
<1> QED  BY <1>5, <1>9, <1>11

-----------------------------------------------------------------------------
(* Between two jobs *)

\* A sweep that holds no incident has only its page to answer for.
LEMMA PageKept ==
  ASSUME CleanupInv, sweep'.pc \in {"idle", "next", "over"},
         \A j \in sweep'.page : j \in sweep.page /\ job'[j] = job[j]
  PROVE  SweepOK'
  BY DEF CleanupInv, SweepOK, Working, Purging, Kinds

\* The sweep leaves its incident: with an error, or with its job dropped.
LEMMA InvEndsJob ==
  ASSUME CleanupInv, Fails \/ DropsJob \/ DropUnanswered \/ ReportFails
  PROVE  CleanupInv'
<1> USE CleanupAssumption DEF CleanupInv
<1>1. Working  BY DEF Fails, DropsJob, DropUnanswered, ReportFails, Working, Purging
<1>2. PICK i \in Incidents \ sweep.page :
        /\ i = sweep.at /\ marker[i] # "none" /\ eligible[i]
        /\ job[i] \in Nat \ {None} /\ StagesOK(i)
  BY <1>1, AtWork
<1>3. UNCHANGED <<eligible, stored, receipt>>
  BY DEF Fails, DropsJob, DropUnanswered, ReportFails
<1>4. /\ SweepShape' /\ sweep'.pc \in {"next", "over"} /\ sweep'.page = sweep.page
  <2>1. PICK pc \in {"next", "over"} : pc = IF sweep.left = 0 THEN "over" ELSE "next"
    OBVIOUS
  <2>2. PICK page \in SUBSET Incidents : page = sweep.page  BY SweepFields DEF Shape
  <2>3. CASE DropsJob
    <3>1. sweep' = [sweep EXCEPT !.pc = pc, !.at = None]
      BY <2>1, <2>3 DEF DropsJob, Continue, EndsJob
    <3> QED  BY <2>2, <3>1, SweepPauses DEF Shape
  <2>4. CASE Fails \/ DropUnanswered
    <3>1. EndsJob = [sweep EXCEPT !.pc = pc, !.at = None]  BY <2>1 DEF EndsJob
    <3>2. EndsJob.failed = sweep.failed  BY <3>1 DEF Shape, SweepShape
    <3>3. \E v \in BOOLEAN : sweep' = [EndsJob EXCEPT !.failed = v]
      BY <2>4, <3>2, SweepFields DEF Fails, DropUnanswered, Continue, Shape
    <3> QED  BY <2>2, <3>1, <3>3, SweepPauses DEF Shape
  <2>5. CASE ReportFails
    <3>1. sweep' = [[sweep EXCEPT !.pc = "over", !.at = None] EXCEPT !.failed = TRUE]
      BY <2>5 DEF ReportFails, Continue
    <3> QED  BY <2>2, <3>1, SweepPauses DEF Shape
  <2> QED  BY <2>3, <2>4, <2>5
<1>5. /\ \A j \in Incidents \ {i} : job'[j] = job[j] /\ marker'[j] = marker[j]
      /\ job'[i] = job[i] \/ (job'[i] = None /\ sweep.pc = "drop")
      /\ marker'[i] = marker[i] \/ marker'[i] = "retrying"
      /\ job' \in [Incidents -> Nat \cup {None}]
      /\ marker' \in [Incidents -> {"none", "pending", "purging", "retrying", "completed"}]
  BY <1>2 DEF Fails, DropsJob, DropUnanswered, ReportFails, Shape
<1>6. Shape'  BY <1>3, <1>4, <1>5 DEF Shape
<1>7. JobsOK'
  <2> SUFFICES ASSUME NEW j \in Incidents
               PROVE  /\ marker'[j] = "none" => job'[j] = None /\ ~eligible'[j]
                      /\ job'[j] # None => /\ Passed(j, job[j])'
                                           /\ job'[j] > 0 => eligible'[j]
                      /\ marker'[j] = "completed" \/ (marker'[j] # "none" /\ job'[j] = None) =>
                           Gone(j)' /\ eligible'[j]
    BY DEF JobsOK
  <2>1. CASE j = i
    <3>1. sweep.pc = "drop" => Gone(i)  BY <1>2, StagesGone
    <3> QED  BY <1>2, <1>3, <1>5, <2>1, <3>1 DEF JobsOK, Passed, Gone
  <2>2. CASE j # i  BY <1>3, <1>5, <2>2 DEF JobsOK, Passed, Gone
  <2> QED  BY <2>1, <2>2
<1>8. SweepOK'
  <2>1. \A j \in sweep'.page : j \in sweep.page /\ job'[j] = job[j]
    BY <1>2, <1>4, <1>5, SweepFields DEF Shape
  <2> QED  BY <1>4, <2>1, PageKept
<1> QED  BY <1>6, <1>7, <1>8

\* A job that could not be taken is as it was, or dropped because its incident is done.
LEMMA InvFailsToTake ==
  ASSUME CleanupInv, NEW i \in Incidents, FailsToTake(i)
  PROVE  CleanupInv'
<1> USE CleanupAssumption DEF CleanupInv
<1>1. /\ sweep.pc = "next" /\ i \in sweep.page /\ sweep.page \in SUBSET Incidents
      /\ marker[i] # "none" /\ eligible[i] /\ UNCHANGED <<eligible, stored, receipt>>
  BY SweepFields DEF FailsToTake, MayPurge, Shape
<1>2. PICK page \in SUBSET Incidents : page = sweep.page \ {i}  BY <1>1
<1>3. PICK pc \in {"next", "over"} : sweep' = [sweep EXCEPT !.page = page, !.pc = pc, !.failed = TRUE]
  BY <1>2 DEF FailsToTake, Continue
<1>4. SweepShape' /\ sweep'.pc = pc /\ sweep'.page = page
  <2>1. PICK n : sweep \in [pc : Purging \cup {"idle", "next", "over"}, page : SUBSET Incidents,
                            at : Incidents \cup {None}, cursor : Nat, left : Nat,
                            first : Incidents \cup {None}, found : {n}, failed : BOOLEAN]
    BY DEF Shape, SweepShape
  <2>2. /\ sweep' \in [pc : Purging \cup {"idle", "next", "over"}, page : SUBSET Incidents,
                       at : Incidents \cup {None}, cursor : Nat, left : Nat,
                       first : Incidents \cup {None}, found : {n}, failed : BOOLEAN]
        /\ sweep'.pc = pc /\ sweep'.page = page
    BY <1>3, <2>1
  <2> QED  BY <2>2 DEF SweepShape
<1>5. /\ \A j \in Incidents \ {i} : job'[j] = job[j] /\ marker'[j] = marker[j]
      /\ job'[i] = job[i] \/ (job'[i] = None /\ marker[i] = "completed")
      /\ marker'[i] = marker[i] \/ marker'[i] = "retrying"
      /\ job' \in [Incidents -> Nat \cup {None}]
      /\ marker' \in [Incidents -> {"none", "pending", "purging", "retrying", "completed"}]
  BY DEF FailsToTake, Shape
<1>6. Shape'  BY <1>1, <1>4, <1>5 DEF Shape
<1>7. JobsOK'
  <2> SUFFICES ASSUME NEW j \in Incidents
               PROVE  /\ marker'[j] = "none" => job'[j] = None /\ ~eligible'[j]
                      /\ job'[j] # None => /\ Passed(j, job[j])'
                                           /\ job'[j] > 0 => eligible'[j]
                      /\ marker'[j] = "completed" \/ (marker'[j] # "none" /\ job'[j] = None) =>
                           Gone(j)' /\ eligible'[j]
    BY DEF JobsOK
  <2>1. CASE j = i  BY <1>1, <1>5, <2>1 DEF JobsOK, Passed, Gone
  <2>2. CASE j # i  BY <1>1, <1>5, <2>2 DEF JobsOK, Passed, Gone
  <2> QED  BY <2>1, <2>2
<1>8. SweepOK'
  <2>1. \A j \in sweep'.page : j \in sweep.page /\ job'[j] = job[j]  BY <1>1, <1>2, <1>4, <1>5
  <2> QED  BY <1>4, <2>1, PageKept
<1> QED  BY <1>6, <1>7, <1>8

LEMMA InvFinishesPage ==
  ASSUME CleanupInv, FinishesPage
  PROVE  CleanupInv'
<1> USE DEF CleanupInv
<1>1. /\ sweep' = [sweep EXCEPT !.pc = "over"]
      /\ UNCHANGED <<marker, job, eligible, stored, receipt>>
  BY DEF FinishesPage, Continue, GoOn
<1>2. PICK page \in SUBSET Incidents : page = sweep.page  BY SweepFields DEF Shape
<1>3. SweepShape' /\ sweep'.pc = "over" /\ sweep'.page = sweep.page
  BY <1>1, <1>2, SweepPauses DEF Shape
<1>4. Shape'  BY <1>1, <1>3 DEF Shape
<1>5. JobsOK'  BY <1>1 DEF JobsOK, Passed, Gone
<1>6. SweepOK'  BY <1>1, <1>3, PageKept
<1> QED  BY <1>4, <1>5, <1>6

\* The next job is passed over, dropped because its incident is done, or begun
\* at the cursor it has.
LEMMA InvTakesJob ==
  ASSUME CleanupInv, NEW i \in Incidents, TakesJob(i)
  PROVE  CleanupInv'
<1> USE CleanupAssumption DEF CleanupInv
<1>1. /\ sweep.pc = "next" /\ i \in sweep.page /\ job[i] \in Nat /\ job[i] # None
      /\ sweep.page \in SUBSET Incidents
      /\ UNCHANGED <<eligible, stored, receipt>>
  BY SweepFields DEF TakesJob, SweepOK, Shape
<1>2. PICK page \in SUBSET Incidents : page = sweep.page \ {i}  BY <1>1
<1>3. CASE ~MayPurge(i)
  <2>1. sweep' = [sweep EXCEPT !.page = page] /\ UNCHANGED <<marker, job>>
    BY <1>2, <1>3 DEF TakesJob, Continue
  <2>2. sweep.pc \in {"next", "over"}  BY <1>1
  <2>3. SweepShape'  BY <2>1, <2>2, SweepPauses DEF Shape
  <2>4. sweep'.pc = "next" /\ sweep'.page = page  BY <1>1, <2>1 DEF Shape, SweepShape
  <2>5. Shape'  BY <1>1, <2>1, <2>3 DEF Shape
  <2>6. JobsOK'  BY <1>1, <2>1 DEF JobsOK, Passed, Gone
  <2>7. SweepOK'  BY <1>2, <2>1, <2>4, PageKept
  <2> QED  BY <2>5, <2>6, <2>7
<1>4. CASE MayPurge(i) /\ marker[i] = "completed"
  <2>1. PICK pc \in {"next", "over"} : pc = IF sweep.left = 0 THEN "over" ELSE "next"
    OBVIOUS
  <2>2. /\ sweep' = [[sweep EXCEPT !.page = page] EXCEPT !.pc = pc]
        /\ job' = [job EXCEPT ![i] = None] /\ UNCHANGED marker
    BY <1>2, <1>4, <2>1 DEF TakesJob, Continue
  <2>3. SweepShape'  BY <2>2, SweepPauses DEF Shape
  <2>4. sweep'.pc = pc /\ sweep'.page = page  BY <2>2 DEF Shape, SweepShape
  <2>5. job'[i] = None /\ \A j \in Incidents \ {i} : job'[j] = job[j]  BY <2>2 DEF Shape
  <2>6. Shape'
    <3>1. job' \in [Incidents -> Nat \cup {None}]  BY <2>2 DEF Shape
    <3> QED  BY <1>1, <2>2, <2>3, <3>1 DEF Shape
  <2>7. JobsOK'
    <3>1. Gone(i) /\ eligible[i]  BY <1>4 DEF JobsOK
    <3> QED  BY <1>1, <1>4, <2>2, <2>5, <3>1 DEF JobsOK, Passed, Gone
  <2>8. SweepOK'
    <3>1. \A j \in sweep'.page : j \in sweep.page /\ job'[j] = job[j]
      BY <1>1, <1>2, <2>4, <2>5
    <3> QED  BY <2>4, <3>1, PageKept
  <2> QED  BY <2>6, <2>7, <2>8
<1>5. CASE MayPurge(i) /\ marker[i] # "completed"
  <2>1. PICK c \in Nat : c = job[i]  BY <1>1
  <2>2. PICK first \in Incidents \cup {None} :
          first = IF sweep.first = None THEN i ELSE sweep.first
    BY SweepFields DEF Shape
  <2>3. PICK n : n = IF sweep.first = None THEN Remaining(i) ELSE sweep.found  OBVIOUS
  <2>4. /\ marker' = [marker EXCEPT ![i] = "purging"] /\ UNCHANGED job
        /\ sweep' = [[sweep EXCEPT !.page = page] EXCEPT !.pc = "objects", !.at = i, !.cursor = c,
                       !.first = first, !.found = n]
    <3>1. PICK m : sweep \in [pc : Purging \cup {"idle", "next", "over"}, page : SUBSET Incidents,
                              at : Incidents \cup {None}, cursor : Nat, left : Nat,
                              first : Incidents \cup {None}, found : {m}, failed : BOOLEAN]
      BY DEF Shape, SweepShape
    <3>2. PICK rest : rest = [sweep EXCEPT !.page = page]  OBVIOUS
    <3>3. rest.first = sweep.first /\ rest.found = sweep.found  BY <3>1, <3>2
    <3>4. /\ marker' = [marker EXCEPT ![i] = "purging"] /\ UNCHANGED job
          /\ sweep' = [rest EXCEPT !.pc = "objects", !.at = i, !.cursor = job[i],
                         !.first = IF @ = None THEN i ELSE @,
                         !.found = IF sweep.first = None THEN Remaining(i) ELSE @]
      BY <1>2, <1>5, <3>2 DEF TakesJob, Continue
    <3>5. sweep' = [rest EXCEPT !.pc = "objects", !.at = i, !.cursor = c,
                      !.first = first, !.found = n]
      BY <2>1, <2>2, <2>3, <3>3, <3>4
    <3> QED  BY <3>2, <3>4, <3>5
  <2>5. /\ sweep' \in [pc : Purging \cup {"idle", "next", "over"}, page : SUBSET Incidents,
                       at : Incidents \cup {None}, cursor : Nat, left : Nat,
                       first : Incidents \cup {None}, found : {n}, failed : BOOLEAN]
        /\ sweep'.pc = "objects" /\ sweep'.page = page /\ sweep'.at = i /\ sweep'.cursor = c
    BY <2>4 DEF Shape, SweepShape, Purging, Kinds
  <2>6. marker'[i] = "purging" /\ \A j \in Incidents \ {i} : marker'[j] = marker[j]
    BY <2>4 DEF Shape
  <2>7. Shape'
    <3>1. SweepShape'  BY <2>5 DEF SweepShape
    <3> QED  BY <1>1, <2>4, <3>1 DEF Shape
  <2>8. JobsOK'  BY <1>1, <1>5, <2>4, <2>6 DEF JobsOK, MayPurge, Passed, Gone
  <2>9. StagesOK(i)'
    BY <1>1, <2>1, <2>5 DEF StagesOK, JobsOK, Passed, Purging, Kinds
  <2>10. SweepOK'
    <3>1. \A j \in page : job'[j] # None  BY <1>2, <2>4 DEF SweepOK
    <3>2. i \in Incidents \ page /\ eligible[i]  BY <1>2, <1>5 DEF MayPurge
    <3>3. StagesOK(sweep.at)'  BY <2>5, <2>9 DEF StagesOK, Passed, PassedAll
    <3> QED  BY <1>1, <2>4, <2>5, <2>6, <3>1, <3>2, <3>3 DEF SweepOK
  <2> QED  BY <2>7, <2>8, <2>10
<1> QED  BY <1>3, <1>4, <1>5

-----------------------------------------------------------------------------
(* Invocations, and everyone else *)

LEMMA InvLeases ==
  ASSUME CleanupInv, Leases
  PROVE  CleanupInv'
<1> USE CleanupAssumption DEF CleanupInv
<1>1. UNCHANGED <<marker, job, eligible, stored, receipt>>
  BY DEF Leases, Begins, Ends, Dies, cleanupVars
<1>2. JobsOK'  BY <1>1 DEF JobsOK, Passed, Gone
<1>3. CASE UNCHANGED sweep
  <2>1. Shape'  BY <1>1, <1>3 DEF Shape, SweepShape
  <2>2. SweepOK'  BY <1>1, <1>3 DEF SweepOK, Working, StagesOK, Passed, PassedAll
  <2> QED  BY <1>2, <2>1, <2>2
<1>4. CASE sweep' = IdleSweep
  <2>1. SweepShape' /\ sweep'.pc = "idle" /\ sweep'.page = {}
    BY <1>4 DEF SweepShape, IdleSweep
  <2>2. Shape'  BY <1>1, <2>1 DEF Shape
  <2>3. SweepOK'  BY <2>1, PageKept
  <2> QED  BY <1>2, <2>2, <2>3
<1>5. CASE sweep' = [IdleSweep EXCEPT !.pc = "next", !.left = Patience,
                                      !.page = {i \in Incidents : job[i] # None}]
  <2>1. SweepShape' /\ sweep'.pc = "next" /\ sweep'.page = {i \in Incidents : job[i] # None}
    BY <1>5 DEF SweepShape, IdleSweep
  <2>2. Shape'  BY <1>1, <2>1 DEF Shape
  <2>3. SweepOK'  BY <1>1, <2>1 DEF SweepOK, Working, Purging, Kinds
  <2> QED  BY <1>2, <2>2, <2>3
<1> QED  BY <1>3, <1>4, <1>5 DEF Leases, Begins, Ends, Dies, cleanupVars

\* Whoever writes does so before the cleanup of its incident has begun.
LEMMA InvOthers ==
  ASSUME CleanupInv, Others
  PROVE  CleanupInv'
<1> USE CleanupAssumption DEF CleanupInv
<1>1. PICK i \in Incidents :
        \/ RequestsDeletion(i) \/ FallsDue(i)
        \/ \E k \in Keys : Binds(k, i)
        \/ \E kind \in Paged : Stores(i, kind)
  BY DEF Others
<1>2. UNCHANGED sweep  BY <1>1 DEF RequestsDeletion, FallsDue, Binds, Stores
<1>3. CASE RequestsDeletion(i)
  <2>1. /\ marker[i] = "none" /\ marker' = [marker EXCEPT ![i] = "pending"]
        /\ job' = [job EXCEPT ![i] = 0] /\ UNCHANGED <<eligible, stored, receipt>>
    BY <1>3 DEF RequestsDeletion
  <2>2. /\ marker'[i] = "pending" /\ job'[i] = 0
        /\ \A j \in Incidents \ {i} : marker'[j] = marker[j] /\ job'[j] = job[j]
    BY <2>1 DEF Shape
  <2>3. Shape'
    <3>1. job' \in [Incidents -> Nat \cup {None}]  BY <2>1 DEF Shape
    <3> QED  BY <1>2, <2>1, <3>1 DEF Shape, SweepShape
  <2>4. JobsOK'
    <3>1. \A k \in Keys : ~(k <= 0)  OBVIOUS
    <3>2. Passed(i, 0)'  BY <3>1 DEF Passed
    <3>3. Passed(i, job[i])'  BY <2>2, <3>2 DEF Passed
    <3> QED  BY <2>1, <2>2, <3>3 DEF JobsOK, Passed, Gone
  <2>5. SweepOK'
    BY <1>2, <2>1, <2>2 DEF SweepOK, Working, StagesOK, Passed, PassedAll
  <2> QED  BY <2>3, <2>4, <2>5
<1>4. CASE FallsDue(i)
  <2>1. /\ marker[i] # "none" /\ eligible' = [eligible EXCEPT ![i] = TRUE]
        /\ UNCHANGED <<marker, job, stored, receipt>>
    BY <1>4 DEF FallsDue
  <2>2. eligible'[i] /\ \A j \in Incidents : eligible[j] => eligible'[j]
    BY <2>1 DEF Shape
  <2>3. \A j \in Incidents : marker[j] = "none" => eligible'[j] = eligible[j]
    BY <2>1 DEF Shape
  <2>4. Shape'  BY <1>2, <2>1 DEF Shape, SweepShape
  <2>5. JobsOK'  BY <2>1, <2>2, <2>3 DEF JobsOK, Passed, Gone
  <2>6. SweepOK'
    BY <1>2, <2>1, <2>2 DEF SweepOK, Working, StagesOK, Passed, PassedAll
  <2> QED  BY <2>4, <2>5, <2>6
<1>5. ASSUME NEW k \in Keys, Binds(k, i) PROVE CleanupInv'
  <2>1. /\ ~eligible[i] /\ receipt[k] = None
        /\ receipt' = [receipt EXCEPT ![k] = [incident |-> i, redacted |-> FALSE]]
        /\ UNCHANGED <<marker, job, eligible, stored>>
    BY <1>5 DEF Binds
  <2>2. /\ receipt'[k] = [incident |-> i, redacted |-> FALSE]
        /\ receipt'[k].incident = i
        /\ \A x \in Keys \ {k} : receipt'[x] = receipt[x]
    BY <2>1 DEF Shape
  <2>3. Shape'
    <3>1. receipt' \in [Keys -> Receipt \cup {None}]  BY <2>1 DEF Shape, Receipt
    <3> QED  BY <1>2, <2>1, <3>1 DEF Shape, SweepShape
  <2>4. \A j \in Incidents \ {i} :
          /\ \A c \in Nat : Passed(j, c) => Passed(j, c)'
          /\ PassedAll(j) => PassedAll(j)'
          /\ Gone(j) => Gone(j)'
    BY <2>1, <2>2 DEF Passed, PassedAll, Gone
  <2>5. Passed(i, 0)'  BY DEF Passed
  <2>6. JobsOK'
    <3> SUFFICES ASSUME NEW j \in Incidents
                 PROVE  /\ marker'[j] = "none" => job'[j] = None /\ ~eligible'[j]
                        /\ job'[j] # None => /\ Passed(j, job[j])'
                                             /\ job'[j] > 0 => eligible'[j]
                        /\ marker'[j] = "completed" \/ (marker'[j] # "none" /\ job'[j] = None) =>
                             Gone(j)' /\ eligible'[j]
      BY DEF JobsOK
    <3>1. CASE j = i
      <4>1. job[i] # None => job[i] = 0  BY <2>1 DEF JobsOK, Shape
      <4>2. Passed(i, job[i])' \/ job[i] = None  BY <2>1, <2>5, <4>1 DEF Passed
      <4> QED  BY <2>1, <3>1, <4>2 DEF JobsOK
    <3>2. CASE j # i
      <4>1. job[j] # None => Passed(j, job[j])'
        <5>1. job[j] # None => \E c \in Nat : c = job[j] /\ Passed(j, c)'
          BY <2>4, <3>2 DEF JobsOK, Shape
        <5> QED  BY <2>1, <5>1 DEF Passed
      <4> QED  BY <2>1, <2>4, <3>2, <4>1 DEF JobsOK
    <3> QED  BY <3>1, <3>2
  <2>7. SweepOK'
    <3>1. CASE ~Working  BY <1>2, <2>1, <3>1 DEF SweepOK, Working
    <3>2. CASE Working
      <4>1. PICK j \in Incidents \ sweep.page :
              /\ j = sweep.at /\ marker[j] # "none" /\ eligible[j]
              /\ job[j] \in Nat \ {None} /\ StagesOK(j)
        BY <3>2, AtWork
      <4>2. j # i  BY <2>1, <4>1
      <4>3. sweep.cursor \in Nat  BY SweepFields DEF Shape
      <4>4. Passed(j, sweep.cursor) => Passed(j, sweep.cursor)'
        <5>1. PICK c \in Nat : c = sweep.cursor  BY <4>3
        <5>2. Passed(j, c) => Passed(j, c)'  BY <2>4, <4>2
        <5>3. c = sweep'.cursor  BY <1>2, <5>1
        <5> QED  BY <5>1, <5>2, <5>3 DEF Passed
      <4>5. StagesOK(j)'
        BY <1>2, <2>1, <2>4, <4>1, <4>2, <4>4 DEF StagesOK
      <4>6. sweep'.at = j /\ sweep'.page = sweep.page  BY <1>2, <4>1
      <4> QED  BY <2>1, <4>1, <4>5, <4>6, StaysAtWork
    <3> QED  BY <3>1, <3>2
  <2> QED  BY <2>3, <2>6, <2>7
<1>6. ASSUME NEW kind \in Paged, Stores(i, kind) PROVE CleanupInv'
  <2>1. /\ ~eligible[i] /\ stored' = [stored EXCEPT ![i][kind] = @ + 1]
        /\ UNCHANGED <<marker, job, eligible, receipt>>
    BY <1>6 DEF Stores
  <2>2. \A j \in Incidents \ {i} : stored'[j] = stored[j]  BY <2>1 DEF Shape
  <2>3. Shape'
    <3>1. stored' \in [Incidents -> [Kinds -> Nat]]
      <4>1. kind \in Kinds /\ stored[i][kind] + 1 \in Nat  BY DEF Paged, Kinds, Shape
      <4>2. [stored[i] EXCEPT ![kind] = stored[i][kind] + 1] \in [Kinds -> Nat]
        BY <4>1 DEF Shape
      <4>3. stored' = [stored EXCEPT ![i] = [stored[i] EXCEPT ![kind] = stored[i][kind] + 1]]
        BY <2>1 DEF Shape
      <4> QED  BY <4>2, <4>3 DEF Shape
    <3> QED  BY <1>2, <2>1, <3>1 DEF Shape, SweepShape
  <2>4. JobsOK'  BY <2>1, <2>2 DEF JobsOK, Passed, Gone
  <2>5. SweepOK'
    BY <1>2, <2>1, <2>2 DEF SweepOK, Working, StagesOK, Passed, PassedAll
  <2> QED  BY <2>3, <2>4, <2>5
<1> QED  BY <1>1, <1>3, <1>4, <1>5, <1>6

-----------------------------------------------------------------------------
(* The theorems *)

allVars == <<vars, cleanupVars>>

LEMMA CleanupInvNext == CleanupInv /\ [CleanupNext]_allVars => CleanupInv'
<1> SUFFICES ASSUME CleanupInv, [CleanupNext]_allVars PROVE CleanupInv'  OBVIOUS
<1>1. CASE Purge
  BY <1>1, InvDeletesPage, InvScans, InvFinishesStage, InvRedactsPage, InvSavesCursor,
     InvCompletes, InvEndsJob, InvFinishesPage, InvTakesJob, InvFailsToTake
  DEF Purge
<1>2. CASE Leases  BY <1>2, InvLeases
<1>3. CASE Others  BY <1>3, InvOthers
<1>4. CASE UNCHANGED allVars
  BY <1>4 DEF allVars, cleanupVars, CleanupInv, Shape, SweepShape, JobsOK, SweepOK, Working,
              StagesOK, Passed, PassedAll, Gone
<1> QED  BY <1>1, <1>2, <1>3, <1>4 DEF CleanupNext

\* Jobs, stages and the sweep under way agree in every reachable state: a job is as
\* far as its marker and its stage say, and what a stage has passed is gone (purge).
THEOREM CleanupCorrect == CleanupSpec => []CleanupInv
  BY CleanupInvInit, CleanupInvNext, PTL DEF CleanupSpec, allVars

\* What is reported complete, or has no job any more, has left nothing but
\* redacted receipts (the order of purge, its cursor and the drain before it).
THEOREM CompletedIsAlwaysGone == CleanupSpec => []CompletedIsGone
<1>1. CleanupInv => CompletedIsGone  BY DEF CleanupInv, JobsOK, CompletedIsGone
<1> QED  BY <1>1, CleanupCorrect, PTL

\* No sweep takes anything from an incident whose deletion nobody asked for
\* (purge deletes by incident; the scan of the household's receipts compares).
THEOREM OthersAreUntouched == CleanupSpec => OthersUntouched
<1> DEFINE Untouched ==
      \A i \in Incidents : marker[i] = "none" =>
         /\ \A kind \in Kinds : stored'[i][kind] >= stored[i][kind]
         /\ \A k \in Keys : receipt[k] # None /\ receipt[k].incident = i =>
              receipt'[k] = receipt[k]
<1>1. ASSUME CleanupInv, [CleanupNext]_allVars PROVE [Untouched]_<<stored, receipt>>
  <2> USE <1>1 DEF CleanupInv
  <2>0. \A i \in Incidents, kind \in Kinds : stored[i][kind] \in Nat  BY DEF Shape
  <2>1. CASE UNCHANGED <<stored, receipt>>  BY <2>1
  <2>2. CASE DeletesPage \/ Scans \/ DeletesSummary
    <3>1. Working  BY <2>2 DEF DeletesPage, Scans, DeletesSummary, Paged, Scanned, Working,
                               Purging, Kinds
    <3>2. marker[sweep.at] # "none"  BY <3>1, AtWork
    <3>3. UNCHANGED receipt /\ \A i \in Incidents : i # sweep.at => stored'[i] = stored[i]
      BY <2>2 DEF DeletesPage, Scans, DeletesSummary, Shape
    <3> QED  BY <2>0, <3>2, <3>3
  <2>3. ASSUME NEW k \in Keys, RedactsPage(k) PROVE Untouched
    <3>1. Working  BY <2>3 DEF RedactsPage, Working, Purging
    <3>2. marker[sweep.at] # "none"  BY <3>1, AtWork
    <3>3. /\ UNCHANGED stored
          /\ \A x \in Keys : receipt'[x] = receipt[x] \/ (x = k /\ receipt[x].incident = sweep.at)
      BY <2>3 DEF RedactsPage, Redacted, Shape
    <3> QED  BY <2>0, <3>2, <3>3
  <2>4. ASSUME NEW i \in Incidents, NEW k \in Keys, Binds(k, i) PROVE Untouched
    <3>1. UNCHANGED stored /\ \A x \in Keys : receipt[x] # None => receipt'[x] = receipt[x]
      BY <2>4 DEF Binds, Shape
    <3> QED  BY <2>0, <3>1
  <2>5. ASSUME NEW i \in Incidents, NEW kind \in Paged, Stores(i, kind) PROVE Untouched
    <3>1. kind \in Kinds  BY DEF Paged, Kinds
    <3>2. UNCHANGED receipt /\ stored' = [stored EXCEPT ![i][kind] = stored[i][kind] + 1]
      BY <2>5 DEF Stores
    <3>3. \A j \in Incidents, other \in Kinds : stored'[j][other] >= stored[j][other]
      BY <2>0, <3>1, <3>2 DEF Shape
    <3> QED  BY <3>2, <3>3
  <2>6. CASE Purge
    <3>1. \/ DeletesPage \/ Scans \/ DeletesSummary
          \/ \E k \in Keys : RedactsPage(k)
          \/ UNCHANGED <<stored, receipt>>
      BY <2>6 DEF Purge, FindsNone, SavesCursor, LastPage, Completes, DropsJob, DropUnanswered,
                  Fails, ReportFails, FinishesPage, TakesJob, FailsToTake
    <3> HIDE DEF Untouched
    <3> QED  BY <2>1, <2>2, <2>3, <3>1
  <2>7. CASE Leases  BY <2>1, <2>7 DEF Leases, Begins, Ends, Dies, cleanupVars
  <2>8. CASE Others
    <3>1. PICK i \in Incidents :
            \/ \E k \in Keys : Binds(k, i)
            \/ \E kind \in Paged : Stores(i, kind)
            \/ UNCHANGED <<stored, receipt>>
      BY <2>8 DEF Others, RequestsDeletion, FallsDue
    <3> HIDE DEF Untouched
    <3> QED  BY <2>1, <2>4, <2>5, <3>1
  <2>9. CASE UNCHANGED allVars  BY <2>1, <2>9 DEF allVars, cleanupVars
  <2> HIDE DEF Untouched
  <2> QED  BY <2>6, <2>7, <2>8, <2>9 DEF CleanupNext
<1>2. []CleanupInv /\ [][CleanupNext]_allVars => [][Untouched]_<<stored, receipt>>
  BY <1>1, PTL
<1> QED  BY <1>2, CleanupCorrect DEF CleanupSpec, OthersUntouched, allVars

\* To the lease, a sweep is an invocation that works: what Lease promises holds
\* of cleanup (acquire and release around run_cleanup).
THEOREM CleanupImplementsLease == CleanupSpec => Spec
<1>1. CleanupInit => Init  BY DEF CleanupInit
<1>2. [CleanupNext]_allVars => [Next]_vars
  <2> SUFFICES ASSUME [CleanupNext]_allVars PROVE [Next]_vars  OBVIOUS
  <2>1. CASE Purge
    BY <2>1 DEF Purge, DeletesPage, FindsNone, SavesCursor, LastPage, Scans, DeletesSummary,
                Completes, DropsJob, DropUnanswered, Fails, ReportFails, FinishesPage, TakesJob, FailsToTake, RedactsPage,
                Continue
  <2>2. CASE Leases  BY <2>2 DEF Leases, Begins, Ends, Dies, Next
  <2>3. CASE Others  BY <2>3 DEF Others, RequestsDeletion, FallsDue, Binds, Stores
  <2>4. CASE UNCHANGED allVars  BY <2>4 DEF allVars
  <2> QED  BY <2>1, <2>2, <2>3, <2>4 DEF CleanupNext
<1> QED  BY <1>1, <1>2, PTL DEF CleanupSpec, Spec, allVars

\* So no two sweeps are under way at a time (LOCK row of the cleanup handler).
THEOREM SweepsExclude == CleanupSpec => []AtMostOneWorks
  BY CleanupImplementsLease, MutualExclusion, PTL

\* An invocation that gets the lease finds no sweep under way: none is ever
\* taken over half done while its invocation still runs.
LEMMA WorkerNext ==
  ASSUME LeaseInv, LeaseInv', CleanupInv, SweepHasWorker, [CleanupNext]_allVars
  PROVE  SweepHasWorker'
<1> USE DEF SweepHasWorker, LeaseInv, CleanupInv
<1>1. CASE UNCHANGED <<run, sweep>>  BY <1>1
<1>2. CASE Purge
  <2>1. UNCHANGED run
    BY <1>2 DEF Purge, DeletesPage, FindsNone, SavesCursor, LastPage, Scans, DeletesSummary,
                Completes, DropsJob, DropUnanswered, Fails, ReportFails, FinishesPage, TakesJob, FailsToTake, RedactsPage,
                Continue, vars
  <2>2. sweep.pc # "idle"
    BY <1>2 DEF Purge, DeletesPage, FindsNone, SavesCursor, LastPage, Scans, DeletesSummary,
                Completes, DropsJob, DropUnanswered, Fails, ReportFails, FinishesPage, TakesJob, FailsToTake, RedactsPage,
                Working, Purging, Kinds, Paged, Scanned
  <2>3. sweep'.pc # "idle"
    <3>1. PICK n : sweep \in [pc : Purging \cup {"idle", "next", "over"}, page : SUBSET Incidents,
                              at : Incidents \cup {None}, cursor : Nat, left : Nat,
                              first : Incidents \cup {None}, found : {n}, failed : BOOLEAN]
      BY DEF Shape, SweepShape
    <3> HIDE DEF SweepHasWorker, LeaseInv, CleanupInv
    <3>2. CASE DeletesPage
      BY <2>2, <3>1, <3>2 DEF DeletesPage, Continue
    <3>7. CASE FindsNone \/ Scans
      <4>1. sweep.pc \in {"objects", "records", "outputs", "runs"}
        BY <3>7 DEF FindsNone, Scans, Paged, Scanned
      <4>2. After[sweep.pc] \in {"records", "receipts", "summary", "complete"}
        BY <4>1 DEF After
      <4>3. sweep'.pc = After[sweep.pc]
        BY <3>1, <3>7 DEF FindsNone, Scans, Continue
      <4> QED  BY <4>2, <4>3
    <3>3. CASE SavesCursor \/ LastPage \/ DeletesSummary \/ Completes \/ FinishesPage
      BY <3>1, <3>3 DEF SavesCursor, LastPage, DeletesSummary, Completes, FinishesPage, Continue,
                        GoOn
    <3>4. CASE DropsJob \/ DropUnanswered \/ Fails
      BY <3>1, <3>4 DEF DropsJob, DropUnanswered, Fails, EndsJob, Continue
    <3>8. CASE ReportFails
      BY <3>1, <3>8 DEF ReportFails, Continue
    <3>5. ASSUME NEW i \in Incidents, TakesJob(i) \/ FailsToTake(i) PROVE sweep'.pc # "idle"
      BY <3>1, <3>5 DEF TakesJob, FailsToTake, Continue
    <3>6. ASSUME NEW k \in Keys, RedactsPage(k) PROVE sweep'.pc # "idle"
      BY <3>1, <3>6 DEF RedactsPage, Continue
    <3> QED  BY <1>2, <3>2, <3>3, <3>4, <3>5, <3>6, <3>7, <3>8 DEF Purge
  <2> QED  BY <2>1, <2>2, <2>3
<1>3. ASSUME NEW p \in Invocations, Begins(p) PROVE SweepHasWorker'
  <2>1. CASE Available(p)
    <3>1. sweep'.pc = "next"  BY <1>3, <2>1 DEF Begins, IdleSweep
    <3>2. run'[p].pc = "work"
      BY <1>3, <2>1 DEF Begins, Claim, Goto, TypeOK, Invocation
    <3> QED  BY <3>1, <3>2
  <2>2. CASE ~Available(p)
    <3>1. /\ UNCHANGED sweep /\ run[p].pc # "work" /\ run'[p].pc # "work"
          /\ \A q \in Invocations \ {p} : run'[q] = run[q]
      BY <1>3, <2>2 DEF Begins, Claim, Goto, TypeOK, Invocation
    <3> QED  BY <3>1
  <2> QED  BY <2>1, <2>2
<1>4. ASSUME NEW p \in Invocations, Ends(p) PROVE SweepHasWorker'
  <2>1. sweep'.pc = "idle"  BY <1>4 DEF Ends, IdleSweep
  <2>2. /\ run[p].pc = "work" /\ run'[p].pc = "ended"
        /\ \A q \in Invocations \ {p} : run'[q] = run[q]
    BY <1>4 DEF Ends, Release, Goto, TypeOK, Invocation
  <2>3. \A q \in Invocations : run'[q].pc # "work"
    BY <2>2, InvExcludes DEF AtMostOneWorks
  <2> QED  BY <2>1, <2>3
<1>5. ASSUME NEW p \in Invocations, Dies(p) PROVE SweepHasWorker'
  <2>1. run'[p].pc = "ended" /\ \A q \in Invocations \ {p} : run'[q] = run[q]
    BY <1>5 DEF Dies, Die, Goto, TypeOK, Invocation
  <2>2. CASE run[p].pc = "work"
    <3>1. sweep'.pc = "idle"  BY <1>5, <2>2 DEF Dies, IdleSweep
    <3>2. \A q \in Invocations : run'[q].pc # "work"
      BY <2>1, <2>2, InvExcludes DEF AtMostOneWorks
    <3> QED  BY <3>1, <3>2
  <2>3. CASE run[p].pc # "work"
    <3>1. UNCHANGED sweep  BY <1>5, <2>3 DEF Dies
    <3> QED  BY <2>1, <2>3, <3>1
  <2> QED  BY <2>2, <2>3
<1>6. CASE (Tick \/ \E p \in Invocations : Invoke(p) \/ ReadNow(p)) /\ UNCHANGED cleanupVars
  <2>1. UNCHANGED sweep /\ \A q \in Invocations : run'[q].pc = "work" <=> run[q].pc = "work"
    BY <1>6 DEF Tick, Invoke, ReadNow, cleanupVars, TypeOK, Invocation
  <2> QED  BY <2>1
<1>7. CASE Others  BY <1>1, <1>7 DEF Others, RequestsDeletion, FallsDue, Binds, Stores, vars
<1>8. CASE UNCHANGED allVars  BY <1>1, <1>8 DEF allVars, vars, cleanupVars
<1> HIDE DEF SweepHasWorker
<1> QED  BY <1>2, <1>3, <1>4, <1>5, <1>6, <1>7, <1>8 DEF CleanupNext, Leases

\* Whenever a sweep is under way, an invocation works for it: one that was ended or
\* released its lease leaves no sweep behind.
THEOREM SweepIsItsWorkers == CleanupSpec => []SweepHasWorker
<1>1. CleanupInit => SweepHasWorker  BY DEF CleanupInit, Init, SweepHasWorker, IdleSweep
<1>2. CleanupSpec => []LeaseInv  BY CleanupImplementsLease, LeaseCorrect, PTL
<1> QED  BY <1>1, <1>2, CleanupCorrect, WorkerNext, PTL DEF CleanupSpec, allVars

-----------------------------------------------------------------------------
(* Every sweep without an error gets on *)

\* The pages that a purge spends, up to a stage, on seeing that something is gone: they
\* leave no trace.
Spent == [objects |-> 0, records |-> 1, receipts |-> 2, cursor |-> 3, outputs |-> 3,
          summary |-> 4, runs |-> 4, complete |-> 5, drop |-> 5]

\* The cursor of the job is that of the sweep, or behind it until it is saved.
CursorOK ==
  Working => IF sweep.pc = "cursor" THEN sweep.cursor \in Ahead(sweep.at)
             ELSE sweep.cursor = job[sweep.at]

\* All other pages were taken off what the first incident had, by the time the sweep leaves it.
GettingOn ==
  /\ sweep \in Sweep /\ sweep.left <= Patience
  /\ sweep.pc # "idle" /\ sweep.first = None => ~Working /\ sweep.left = Patience
  /\ sweep.first # None =>
       /\ sweep.first \notin sweep.page /\ sweep.found > 0
       /\ marker[sweep.first] # "none" /\ eligible[sweep.first]
       /\ job[sweep.first] # None /\ ~sweep.failed =>
            IF Working /\ sweep.at = sweep.first
            THEN Remaining(sweep.first) + Patience <= sweep.found + sweep.left + Spent[sweep.pc]
            ELSE Remaining(sweep.first) < sweep.found

ProgressInv == CursorOK /\ GettingOn

LEMMA SpentIs ==
  /\ Spent["objects"] = 0 /\ Spent["records"] = 1 /\ Spent["receipts"] = 2 /\ Spent["cursor"] = 3
  /\ Spent["outputs"] = 3 /\ Spent["summary"] = 4 /\ Spent["runs"] = 4
  /\ Spent["complete"] = 5 /\ Spent["drop"] = 5
  BY DEF Spent

LEMMA RemainingStays ==
  ASSUME NEW i, job'[i] = job[i], stored'[i] = stored[i]
  PROVE  Remaining(i)' = Remaining(i)
  BY DEF Remaining, Pages, Ahead

\* What is left of a job, as a sum.
LEMMA RemainingIs ==
  ASSUME Shape, NEW i \in Incidents
  PROVE  /\ Remaining(i) \in Nat
         /\ job[i] # None =>
              /\ Remaining(i) = 1 + Pages(i) + Cardinality(Ahead(i))
              /\ Pages(i) \in Nat /\ Cardinality(Ahead(i)) \in Nat
              /\ IsFiniteSet(Ahead(i))
<1>1. \A kind \in Kinds : stored[i][kind] \in Nat  BY DEF Shape
<1>2. Pages(i) \in Nat  BY <1>1 DEF Pages, Kinds
<1>3. IsFiniteSet(Ahead(i)) /\ Cardinality(Ahead(i)) \in Nat
  <2>1. Ahead(i) \in SUBSET Keys  BY DEF Ahead
  <2> QED  BY <2>1, FS_Subset, FS_CardinalityType, CleanupAssumption DEF CleanupAssumption
<1> QED  BY <1>2, <1>3 DEF Remaining

\* Steps that leave the sweep where it is.
LEMMA ProgressStays ==
  ASSUME CleanupInv, ProgressInv, sweep' = sweep,
         \A i \in Incidents : marker[i] # "none" /\ eligible[i] =>
           /\ marker'[i] # "none" /\ eligible'[i] /\ job'[i] = job[i] /\ stored'[i] = stored[i]
  PROVE  ProgressInv'
<1> USE DEF ProgressInv, CleanupInv
<1>1. CursorOK'
  <2>1. Working => /\ sweep.at \in Incidents /\ marker[sweep.at] # "none" /\ eligible[sweep.at]
    BY DEF SweepOK
  <2>2. Working => job'[sweep.at] = job[sweep.at]  BY <2>1
  <2> QED  BY <2>2 DEF CursorOK, Working, Ahead
<1>2. GettingOn'
  <2>1. sweep.first # None => sweep.first \in Incidents  BY DEF GettingOn, Sweep
  <2>2. sweep.first # None => Remaining(sweep.first)' = Remaining(sweep.first)
    BY <2>1, RemainingStays DEF GettingOn
  <2> QED  BY <2>1, <2>2 DEF GettingOn, Working
<1> QED  BY <1>1, <1>2

LEMMA ProgressInit == CleanupInit => ProgressInv
<1> SUFFICES ASSUME CleanupInit PROVE ProgressInv  OBVIOUS
<1> USE CleanupAssumption DEF CleanupAssumption, CleanupInit
<1>1. sweep \in Sweep  BY DEF IdleSweep, Sweep
<1>2. sweep.pc = "idle" /\ sweep.left = 0 /\ sweep.first = None  BY DEF IdleSweep
<1>3. ~Working  BY <1>2 DEF Working, Purging, Kinds
<1> QED  BY <1>1, <1>2, <1>3 DEF ProgressInv, CursorOK, GettingOn

\* The sweep goes on with its incident: what is left to show.
LEMMA ProgressAtWork ==
  ASSUME CleanupInv, ProgressInv, NEW i \in Incidents, i = sweep.at, Working, Working', sweep' \in Sweep,
         sweep'.at = i, sweep'.page = sweep.page, sweep'.first = sweep.first,
         sweep'.found = sweep.found, sweep'.failed = sweep.failed, sweep'.left <= sweep.left,
         UNCHANGED eligible, CursorOK',
         \A j \in Incidents : marker[j] # "none" => marker'[j] # "none",
         \A j \in Incidents \ {i} : job'[j] = job[j] /\ stored'[j] = stored[j],
         Remaining(i)' + sweep.left + Spent[sweep.pc] <= Remaining(i) + sweep'.left + Spent[sweep'.pc],
         job[i] # None,
         Remaining(i) \in Nat, Remaining(i)' \in Nat, Spent[sweep.pc] \in Nat, Spent[sweep'.pc] \in Nat
  PROVE  ProgressInv'
<1> USE DEF ProgressInv
<1>1. /\ sweep.left \in Nat /\ sweep'.left \in Nat /\ sweep.found \in Nat /\ Patience \in Nat
      /\ sweep.first \in Incidents \cup {None}
  BY CleanupAssumption DEF CleanupAssumption, Sweep, GettingOn
<1>2. sweep.first # None  BY DEF GettingOn, Working, Purging, Kinds
<1>3. sweep'.left <= Patience  BY <1>1 DEF GettingOn
<1>4. CASE sweep.first = i
  <2>1. ~sweep.failed => Remaining(i) + Patience <= sweep.found + sweep.left + Spent[sweep.pc]
    BY <1>2, <1>4 DEF GettingOn
  <2>2. ~sweep.failed => Remaining(i)' + Patience <= sweep'.found + sweep'.left + Spent[sweep'.pc]
    BY <1>1, <2>1
  <2> QED  BY <1>2, <1>3, <1>4, <2>2 DEF GettingOn
<1>5. CASE sweep.first # i
  <2>1. Remaining(sweep.first)' = Remaining(sweep.first) /\ job'[sweep.first] = job[sweep.first]
    BY <1>1, <1>2, <1>5, RemainingStays
  <2> QED  BY <1>1, <1>2, <1>3, <1>5, <2>1 DEF GettingOn
<1> QED  BY <1>4, <1>5

\* What holds of the incident at work, and of its record.
LEMMA ProgressFacts ==
  ASSUME CleanupInv, ProgressInv, Working
  PROVE  /\ sweep.at \in Incidents /\ sweep.at \notin sweep.page
         /\ marker[sweep.at] # "none" /\ eligible[sweep.at] /\ job[sweep.at] # None
         /\ job[sweep.at] \in Nat
         /\ sweep \in Sweep /\ sweep.left \in Nat /\ Remaining(sweep.at) \in Nat
         /\ Spent[sweep.pc] \in Nat
<1> USE DEF CleanupInv, ProgressInv
<1>1. /\ sweep.at \in Incidents /\ sweep.at \notin sweep.page
      /\ marker[sweep.at] # "none" /\ eligible[sweep.at] /\ job[sweep.at] # None
  BY DEF SweepOK
<1>2. job[sweep.at] \in Nat /\ Remaining(sweep.at) \in Nat  BY <1>1, RemainingIs DEF Shape
<1>3. sweep \in Sweep /\ sweep.left \in Nat  BY DEF GettingOn, Sweep
<1>4. Spent[sweep.pc] \in Nat  BY DEF Spent, Working, Purging, Kinds
<1> QED  BY <1>1, <1>2, <1>3, <1>4

\* A step that spends a page, or none, and takes nothing away.
LEMMA ProgressSpends ==
  ASSUME CleanupInv, ProgressInv, FindsNone \/ LastPage \/ Completes
  PROVE  ProgressInv'
<1> USE DEF Purging, Kinds, Paged
<1>1. Working  BY DEF FindsNone, LastPage, Completes, Working
<1>2. PICK i \in Incidents : i = sweep.at  BY <1>1, ProgressFacts
<1>3. UNCHANGED <<job, stored, eligible>> /\ \A j \in Incidents : marker[j] # "none" => marker'[j] # "none"
  BY <1>2 DEF FindsNone, LastPage, Completes, CleanupInv, Shape
<1> DEFINE Spends(pc, n) ==
      /\ sweep' = [sweep EXCEPT !.left = n, !.pc = pc] /\ n <= sweep.left
      /\ sweep.pc # "cursor" /\ pc # "cursor"
      /\ sweep.left + Spent[sweep.pc] <= n + Spent[pc]
<1>0. sweep.left \in Nat  BY <1>1, ProgressFacts
<1>4. PICK pc \in Purging, n \in Nat : Spends(pc, n)
  <2>1. CASE Completes
    <3>1. sweep' = [sweep EXCEPT !.left = sweep.left, !.pc = "drop"]
      BY <2>1, <1>1, ProgressFacts DEF Completes, Continue, GoOn, Sweep
    <3>9. Spends("drop", sweep.left)  BY <2>1, <3>1, <1>0, SpentIs DEF Completes
    <3> QED  BY <3>9, <1>0
  <2>2. CASE LastPage
    <3>1. sweep' = [sweep EXCEPT !.left = sweep.left - 1, !.pc = "outputs"]
          /\ sweep.left - 1 \in Nat
      BY <2>2, <1>1, ProgressFacts DEF LastPage, Continue
    <3>9. Spends("outputs", sweep.left - 1)  BY <2>2, <3>1, <1>0, SpentIs DEF LastPage
    <3> QED  BY <3>9, <1>0, <3>1
  <2>3. CASE FindsNone
    <3>1. sweep.left - 1 \in Nat  BY <2>3, <1>1, ProgressFacts DEF FindsNone
    <3>2. CASE sweep.pc = "objects"
      <4>1. sweep' = [sweep EXCEPT !.left = sweep.left - 1, !.pc = "records"]
        BY <2>3, <3>2, <1>1, ProgressFacts DEF FindsNone, Continue, After, Sweep
      <4>9. Spends("records", sweep.left - 1)  BY <3>1, <3>2, <4>1, <1>0, SpentIs
      <4> QED  BY <4>9, <1>0, <3>1
    <3>3. CASE sweep.pc = "records"
      <4>1. sweep' = [sweep EXCEPT !.left = sweep.left - 1, !.pc = "receipts"]
        BY <2>3, <3>3, <1>1, ProgressFacts DEF FindsNone, Continue, After, Sweep
      <4>9. Spends("receipts", sweep.left - 1)  BY <3>1, <3>3, <4>1, <1>0, SpentIs
      <4> QED  BY <4>9, <1>0, <3>1
    <3> QED  BY <2>3, <3>2, <3>3 DEF FindsNone
  <2> QED  BY <2>1, <2>2, <2>3
<1>5. /\ sweep' \in Sweep /\ sweep'.pc = pc /\ sweep'.left = n /\ sweep'.at = i
      /\ sweep'.page = sweep.page /\ sweep'.first = sweep.first /\ sweep'.found = sweep.found
      /\ sweep'.failed = sweep.failed /\ sweep'.cursor = sweep.cursor
  BY <1>1, <1>2, <1>4, ProgressFacts DEF Sweep
<1>6. Working' /\ CursorOK'
  BY <1>1, <1>2, <1>3, <1>4, <1>5 DEF Working, CursorOK, ProgressInv
<1>7. Remaining(i)' = Remaining(i)  BY <1>3, RemainingStays
<1>8. Spent[pc] \in Nat  BY DEF Spent
<1> QED  BY <1>1, <1>2, <1>3, <1>4, <1>5, <1>6, <1>7, <1>8, ProgressFacts, ProgressAtWork

\* A page of evidence or of rows is one less.
LEMMA ProgressDeletes ==
  ASSUME CleanupInv, ProgressInv, DeletesPage
  PROVE  ProgressInv'
<1>1. Working  BY DEF DeletesPage, Paged, Working, Purging, Kinds
<1>2. PICK i \in Incidents : i = sweep.at  BY <1>1, ProgressFacts
<1>3. /\ sweep' = [sweep EXCEPT !.left = sweep.left - 1] /\ sweep.left > 0
      /\ stored' = [stored EXCEPT ![i][sweep.pc] = stored[i][sweep.pc] - 1]
      /\ stored[i][sweep.pc] > 0 /\ sweep.pc \in {"objects", "records"}
      /\ UNCHANGED <<marker, job, eligible>>
  BY <1>2 DEF DeletesPage, Continue, CleanupInv, Shape, Paged
<1>4. sweep.left - 1 \in Nat  BY <1>1, <1>3, ProgressFacts
<1>5. /\ sweep' \in Sweep /\ sweep'.pc = sweep.pc /\ sweep'.left = sweep.left - 1 /\ sweep'.at = i
      /\ sweep'.page = sweep.page /\ sweep'.first = sweep.first /\ sweep'.found = sweep.found
      /\ sweep'.failed = sweep.failed /\ sweep'.cursor = sweep.cursor
  BY <1>1, <1>2, <1>3, <1>4, ProgressFacts DEF Sweep
<1>6. Working' /\ CursorOK'
  BY <1>1, <1>2, <1>3, <1>5 DEF Working, CursorOK, ProgressInv
<1>7. Pages(i)' = Pages(i) - 1
  <2>1. \A kind \in Kinds : /\ stored[i][kind] \in Nat
                            /\ stored'[i][kind] = IF kind = sweep.pc THEN stored[i][kind] - 1 ELSE stored[i][kind]
    BY <1>3 DEF CleanupInv, Shape
  <2> QED  BY <1>3, <2>1 DEF Pages, Kinds
<1>8. Remaining(i)' = Remaining(i) - 1 /\ Remaining(i)' \in Nat
  <2>1. /\ Remaining(i) = 1 + Pages(i) + Cardinality(Ahead(i)) /\ Pages(i) \in Nat
        /\ Cardinality(Ahead(i)) \in Nat /\ job[i] # None
    BY <1>1, <1>2, ProgressFacts, RemainingIs DEF CleanupInv
  <2>2. Remaining(i)' = 1 + Pages(i)' + Cardinality(Ahead(i))  BY <1>3, <2>1 DEF Remaining, Ahead
  <2>3. Pages(i) > 0
    <3>1. \A kind \in Kinds : stored[i][kind] \in Nat  BY DEF CleanupInv, Shape
    <3> QED  BY <1>3, <3>1 DEF Pages, Kinds
  <2> QED  BY <1>7, <2>1, <2>2, <2>3
<1>9. \A j \in Incidents \ {i} : job'[j] = job[j] /\ stored'[j] = stored[j]
  BY <1>3 DEF CleanupInv, Shape
<1> QED  BY <1>1, <1>2, <1>3, <1>5, <1>6, <1>8, <1>9, ProgressFacts, ProgressAtWork

\* What a scan or the deletion of the summary finds is gone, and at least a page spent.
LEMMA ProgressScans ==
  ASSUME CleanupInv, ProgressInv, Scans \/ DeletesSummary
  PROVE  ProgressInv'
<1>1. Working  BY DEF Scans, DeletesSummary, Scanned, Working, Purging, Kinds
<1>2. PICK i \in Incidents : i = sweep.at  BY <1>1, ProgressFacts
<1>3. /\ stored' = [stored EXCEPT ![i][sweep.pc] = 0] /\ sweep.pc \in {"outputs", "summary", "runs"}
      /\ UNCHANGED <<marker, job, eligible>>
  BY <1>2 DEF Scans, DeletesSummary, Scanned, CleanupInv, Shape
<1> DEFINE Spends(pc, n) ==
      /\ sweep' = [sweep EXCEPT !.left = n, !.pc = pc] /\ n <= sweep.left
      /\ sweep.left + Spent[sweep.pc] <= n + Spent[pc]
<1>0. sweep.left \in Nat  BY <1>1, ProgressFacts
<1>4. PICK pc \in {"summary", "runs", "complete"}, n \in Nat : Spends(pc, n)
  <2>1. CASE DeletesSummary
    <3>1. sweep' = [sweep EXCEPT !.left = sweep.left, !.pc = "runs"]
      BY <2>1, <1>1, ProgressFacts DEF DeletesSummary, Continue, GoOn, Sweep
    <3>9. Spends("runs", sweep.left)  BY <2>1, <3>1, <1>0, SpentIs DEF DeletesSummary
    <3> QED  BY <3>9, <1>0
  <2>2. CASE Scans
    <3>1. sweep.left - 1 \in Nat  BY <2>2, <1>1, ProgressFacts DEF Scans
    <3>2. CASE sweep.pc = "outputs"
      <4>1. sweep' = [sweep EXCEPT !.left = sweep.left - 1, !.pc = "summary"]
        BY <2>2, <3>2, <1>1, ProgressFacts DEF Scans, Continue, After, Sweep
      <4>9. Spends("summary", sweep.left - 1)  BY <3>1, <3>2, <4>1, <1>0, SpentIs
      <4> QED  BY <4>9, <1>0, <3>1
    <3>3. CASE sweep.pc = "runs"
      <4>1. sweep' = [sweep EXCEPT !.left = sweep.left - 1, !.pc = "complete"]
        BY <2>2, <3>3, <1>1, ProgressFacts DEF Scans, Continue, After, Sweep
      <4>9. Spends("complete", sweep.left - 1)  BY <3>1, <3>3, <4>1, <1>0, SpentIs
      <4> QED  BY <4>9, <1>0, <3>1
    <3> QED  BY <2>2, <3>2, <3>3 DEF Scans, Scanned
  <2> QED  BY <2>1, <2>2
<1>5. /\ sweep' \in Sweep /\ sweep'.pc = pc /\ sweep'.left = n /\ sweep'.at = i
      /\ sweep'.page = sweep.page /\ sweep'.first = sweep.first /\ sweep'.found = sweep.found
      /\ sweep'.failed = sweep.failed /\ sweep'.cursor = sweep.cursor
  BY <1>1, <1>2, <1>4, ProgressFacts DEF Sweep, Purging, Kinds
<1>6. Working' /\ CursorOK'
  BY <1>1, <1>2, <1>3, <1>4, <1>5 DEF Working, CursorOK, ProgressInv, Purging, Kinds
<1>7. Pages(i)' \in Nat /\ Pages(i)' <= Pages(i)
  <2>1. \A kind \in Kinds : /\ stored[i][kind] \in Nat
                            /\ stored'[i][kind] = IF kind = sweep.pc THEN 0 ELSE stored[i][kind]
    BY <1>3 DEF CleanupInv, Shape
  <2> QED  BY <1>3, <2>1 DEF Pages, Kinds
<1>8. Remaining(i)' <= Remaining(i) /\ Remaining(i)' \in Nat
  <2>1. /\ Remaining(i) = 1 + Pages(i) + Cardinality(Ahead(i)) /\ Pages(i) \in Nat
        /\ Cardinality(Ahead(i)) \in Nat /\ job[i] # None
    BY <1>1, <1>2, ProgressFacts, RemainingIs DEF CleanupInv
  <2>2. Remaining(i)' = 1 + Pages(i)' + Cardinality(Ahead(i))  BY <1>3, <2>1 DEF Remaining, Ahead
  <2> QED  BY <1>7, <2>1, <2>2
<1>9. \A j \in Incidents \ {i} : job'[j] = job[j] /\ stored'[j] = stored[j]
  BY <1>3 DEF CleanupInv, Shape
<1>10. Spent[pc] \in Nat  BY DEF Spent
<1> QED  BY <1>1, <1>2, <1>3, <1>4, <1>5, <1>6, <1>8, <1>9, <1>10, ProgressFacts, ProgressAtWork

\* A page of receipts spends time, and is counted when its cursor is saved.
LEMMA ProgressRedacts ==
  ASSUME CleanupInv, ProgressInv, NEW k \in Keys, RedactsPage(k)
  PROVE  ProgressInv'
<1>1. Working /\ sweep.pc = "receipts"  BY DEF RedactsPage, Working, Purging
<1>2. PICK i \in Incidents : i = sweep.at  BY <1>1, ProgressFacts
<1>3. /\ sweep' = [sweep EXCEPT !.left = sweep.left - 1, !.pc = "cursor", !.cursor = k]
      /\ sweep.left > 0 /\ k > sweep.cursor
      /\ UNCHANGED <<marker, job, eligible, stored>>
  BY DEF RedactsPage, Continue, NextPage
<1>4. sweep.left - 1 \in Nat /\ k \in Nat
  BY <1>1, <1>3, ProgressFacts, CleanupAssumption DEF CleanupAssumption
<1>5. /\ sweep' \in Sweep /\ sweep'.pc = "cursor" /\ sweep'.left = sweep.left - 1 /\ sweep'.at = i
      /\ sweep'.page = sweep.page /\ sweep'.first = sweep.first /\ sweep'.found = sweep.found
      /\ sweep'.failed = sweep.failed /\ sweep'.cursor = k
  BY <1>1, <1>2, <1>3, <1>4, ProgressFacts DEF Sweep, Purging
<1>6. Working' /\ CursorOK'
  BY <1>1, <1>2, <1>3, <1>5 DEF Working, CursorOK, ProgressInv, Purging, Ahead
<1>7. Remaining(i)' = Remaining(i)  BY <1>3, RemainingStays
<1> QED  BY <1>1, <1>2, <1>3, <1>4, <1>5, <1>6, <1>7, SpentIs, ProgressFacts, ProgressAtWork

\* One receipt at least is then behind the job's cursor.
LEMMA ProgressSavesCursor ==
  ASSUME CleanupInv, ProgressInv, SavesCursor
  PROVE  ProgressInv'
<1>1. Working /\ sweep.pc = "cursor"  BY DEF SavesCursor, Working, Purging
<1>2. PICK i \in Incidents : i = sweep.at  BY <1>1, ProgressFacts
<1>3. PICK c : c = sweep.cursor  OBVIOUS
<1>4. /\ sweep' = [sweep EXCEPT !.pc = "receipts"] /\ job' = [job EXCEPT ![i] = c]
      /\ UNCHANGED <<marker, eligible, stored>>
  BY <1>2, <1>3 DEF SavesCursor, Continue, GoOn, Kept
<1>5. c \in Ahead(i) /\ c \in Keys /\ c \in Nat /\ c # None /\ c > job[i]
  BY <1>1, <1>2, <1>3, CleanupAssumption DEF CleanupAssumption, ProgressInv, CursorOK, Ahead
<1>6. /\ sweep' \in Sweep /\ sweep'.pc = "receipts" /\ sweep'.left = sweep.left /\ sweep'.at = i
      /\ sweep'.page = sweep.page /\ sweep'.first = sweep.first /\ sweep'.found = sweep.found
      /\ sweep'.failed = sweep.failed /\ sweep'.cursor = c
  BY <1>1, <1>2, <1>3, <1>4, ProgressFacts DEF Sweep, Purging
<1>7. job'[i] = c /\ \A j \in Incidents \ {i} : job'[j] = job[j] /\ stored'[j] = stored[j]
  BY <1>4 DEF CleanupInv, Shape
<1>8. Working' /\ CursorOK'
  BY <1>6, <1>7 DEF Working, CursorOK, Purging
<1>9. Cardinality(Ahead(i)') < Cardinality(Ahead(i)) /\ Cardinality(Ahead(i)') \in Nat
  <2>1. IsFiniteSet(Ahead(i)) /\ Cardinality(Ahead(i)) \in Nat
    BY <1>1, <1>2, ProgressFacts, RemainingIs DEF CleanupInv
  <2>2. Ahead(i)' \in SUBSET Ahead(i) /\ Ahead(i)' # Ahead(i)
    <3>1. job[i] \in Nat  BY <1>1, <1>2, ProgressFacts
    <3>2. \A k \in Keys : k \in Nat  BY CleanupAssumption DEF CleanupAssumption
    <3>3. Ahead(i)' = {k \in Keys : k > c}  BY <1>7 DEF Ahead
    <3>4. \A k \in Keys : k > c => k > job[i]  BY <1>5, <3>1, <3>2
    <3>5. c \notin Ahead(i)'  BY <1>5, <3>3
    <3> QED  BY <1>5, <3>3, <3>4, <3>5 DEF Ahead
  <2>3. /\ Cardinality(Ahead(i)') <= Cardinality(Ahead(i))
        /\ Cardinality(Ahead(i)) # Cardinality(Ahead(i)') /\ IsFiniteSet(Ahead(i)')
    BY <2>1, <2>2, FS_Subset
  <2> QED  BY <2>1, <2>3, FS_CardinalityType
<1>10. Remaining(i)' + 1 <= Remaining(i) /\ Remaining(i)' \in Nat
  <2>1. /\ Remaining(i) = 1 + Pages(i) + Cardinality(Ahead(i)) /\ Pages(i) \in Nat
        /\ Cardinality(Ahead(i)) \in Nat /\ job[i] # None
    BY <1>1, <1>2, ProgressFacts, RemainingIs DEF CleanupInv
  <2>2. Remaining(i)' = 1 + Pages(i) + Cardinality(Ahead(i)')
    BY <1>4, <1>5, <1>7 DEF Remaining, Pages
  <2> QED  BY <1>9, <2>1, <2>2
<1>11. \A j \in Incidents : marker'[j] = marker[j]  BY <1>4
<1> QED  BY <1>1, <1>2, <1>4, <1>6, <1>7, <1>8, <1>10, <1>11, SpentIs, ProgressFacts, ProgressAtWork

\* Time runs out: something was taken off the first incident before.
LEMMA ProgressEndsJob ==
  ASSUME CleanupInv, ProgressInv, DropsJob \/ DropUnanswered \/ Fails
  PROVE  ProgressInv'
<1> USE DEF ProgressInv, Purging, Kinds, Paged, Scanned
<1>1. Working  BY DEF DropsJob, DropUnanswered, Fails, Working
<1>2. PICK i \in Incidents : i = sweep.at  BY <1>1, ProgressFacts
<1>3. PICK pc \in {"next", "over"} : pc = IF sweep.left = 0 THEN "over" ELSE "next"  OBVIOUS
<1>4. PICK failed \in BOOLEAN :
        /\ sweep' = [sweep EXCEPT !.pc = pc, !.at = None, !.failed = failed]
        /\ failed = \/ sweep.failed
                    \/ ~DropsJob /\ ~(Fails /\ OutOfTime)
  <2>1. CASE DropsJob
    <3>1. sweep' = [sweep EXCEPT !.pc = pc, !.at = None, !.failed = sweep.failed]
      BY <1>1, <1>3, <2>1, ProgressFacts DEF DropsJob, EndsJob, Continue, Sweep
    <3> QED  BY <1>1, <2>1, <3>1, ProgressFacts DEF Sweep
  <2>2. CASE DropUnanswered /\ ~DropsJob
    <3>1. sweep' = [sweep EXCEPT !.pc = pc, !.at = None, !.failed = TRUE]
      BY <1>3, <2>2 DEF DropUnanswered, EndsJob, Continue
    <3>2. ~OutOfTime  BY <2>2 DEF DropUnanswered, OutOfTime
    <3> QED  BY <2>2, <3>1, <3>2
  <2>3. CASE Fails /\ ~DropsJob
    <3>1. sweep' = [sweep EXCEPT !.pc = pc, !.at = None, !.failed = sweep.failed \/ ~OutOfTime]
      BY <1>3, <2>3 DEF Fails, EndsJob, Continue
    <3> QED  BY <1>1, <2>3, <3>1, ProgressFacts DEF Sweep
  <2> QED  BY <2>1, <2>2, <2>3
<1>5. /\ sweep' \in Sweep /\ sweep'.pc = pc /\ sweep'.left = sweep.left
      /\ sweep'.page = sweep.page /\ sweep'.first = sweep.first /\ sweep'.found = sweep.found
      /\ sweep'.failed = failed
  BY <1>1, <1>4, ProgressFacts DEF Sweep
<1>6. ~Working' /\ CursorOK'  BY <1>5 DEF Working, CursorOK
<1>7. /\ UNCHANGED <<stored, eligible>> /\ \A j \in Incidents : marker[j] # "none" => marker'[j] # "none"
      /\ \A j \in Incidents \ {i} : job'[j] = job[j]
  BY <1>2 DEF DropsJob, DropUnanswered, Fails, CleanupInv, Shape
<1>8. sweep.first # None /\ sweep.first \in Incidents
  BY <1>1, ProgressFacts DEF GettingOn, Working, Sweep
<1>9. ASSUME job'[sweep.first] # None, ~failed PROVE Remaining(sweep.first)' < sweep.found
  <2>1. CASE sweep.first # i
    BY <1>2, <1>4, <1>7, <1>8, <1>9, <2>1, RemainingStays DEF GettingOn
  <2>2. CASE sweep.first = i
    <3>1. ~DropsJob /\ Fails /\ OutOfTime
      <4>1. job[i] # None  BY <1>1, <1>2, ProgressFacts
      <4>2. DropsJob => job'[i] = None  BY <1>2 DEF DropsJob, CleanupInv, Shape
      <4> QED  BY <1>4, <1>9, <2>2, <4>1, <4>2
    <3>2. UNCHANGED job  BY <3>1 DEF Fails
    <3>3. Remaining(i) + Patience <= sweep.found + sweep.left + Spent[sweep.pc]
      BY <1>1, <1>2, <1>4, <1>8, <1>9, <2>2, <3>2 DEF GettingOn
    <3>4. sweep.left = 0 /\ Spent[sweep.pc] \in Nat /\ Spent[sweep.pc] <= 4
      BY <3>1, SpentIs DEF OutOfTime
    <3>5. Remaining(i)' = Remaining(i)  BY <1>7, <3>2, RemainingStays
    <3>6. Remaining(i) \in Nat /\ sweep.found \in Nat  BY <1>1, <1>2, ProgressFacts DEF Sweep
    <3>7. Patience \in Nat /\ Patience >= 5  BY CleanupAssumption DEF CleanupAssumption
    <3>8. Remaining(i) + Patience <= sweep.found + Spent[sweep.pc]  BY <3>3, <3>4, <3>6, <3>7
    <3>9. Remaining(i) < sweep.found  BY <3>4, <3>6, <3>7, <3>8
    <3> QED  BY <1>5, <2>2, <3>5, <3>9
  <2> QED  BY <2>1, <2>2
<1> QED  BY <1>5, <1>6, <1>7, <1>8, <1>9 DEF GettingOn

\* A failure excuses the sweep; what a sweep has that worked on nothing yet is all its time.
LEMMA ProgressFailing ==
  ASSUME CleanupInv, ProgressInv, ReportFails \/ \E i \in Incidents : FailsToTake(i)
  PROVE  ProgressInv'
<1> USE DEF ProgressInv
<1>1. sweep \in Sweep  BY DEF GettingOn
<1>2. PICK pc \in {"next", "over"}, page \in SUBSET Incidents, at \in Incidents \cup {None} :
        /\ sweep' = [sweep EXCEPT !.page = page, !.pc = pc, !.at = at, !.failed = TRUE]
        /\ page \subseteq sweep.page
  <2>1. CASE ReportFails
    <3>1. sweep' = [sweep EXCEPT !.page = sweep.page, !.pc = "over", !.at = None, !.failed = TRUE]
      BY <1>1, <2>1 DEF ReportFails, Continue, Sweep
    <3> QED  BY <1>1, <3>1 DEF Sweep
  <2>2. ASSUME NEW i \in Incidents, FailsToTake(i)
        PROVE  \E pc \in {"next", "over"}, page \in SUBSET Incidents, at \in Incidents \cup {None} :
                 /\ sweep' = [sweep EXCEPT !.page = page, !.pc = pc, !.at = at, !.failed = TRUE]
                 /\ page \subseteq sweep.page
    <3>1. PICK pc \in {"next", "over"} :
            sweep' = [sweep EXCEPT !.page = @ \ {i}, !.pc = pc, !.failed = TRUE]
      BY <2>2 DEF FailsToTake, Continue
    <3>2. sweep' = [sweep EXCEPT !.page = sweep.page \ {i}, !.pc = pc, !.at = sweep.at, !.failed = TRUE]
      BY <1>1, <3>1 DEF Sweep
    <3>3. sweep.at \in Incidents \cup {None} /\ sweep.page \ {i} \in SUBSET Incidents
      BY <1>1 DEF Sweep
    <3> QED  BY <3>2, <3>3
  <2> QED  BY <2>1, <2>2
<1>3. /\ sweep' \in Sweep /\ sweep'.pc = pc /\ sweep'.left = sweep.left /\ sweep'.page = page
      /\ sweep'.first = sweep.first /\ sweep'.found = sweep.found /\ sweep'.failed
  BY <1>1, <1>2 DEF Sweep
<1>4. ~Working' /\ CursorOK'  BY <1>3 DEF Working, Purging, Kinds, CursorOK
<1>5. /\ UNCHANGED eligible /\ sweep.pc # "idle"
      /\ \A j \in Incidents : marker[j] # "none" => marker'[j] # "none"
  BY DEF ReportFails, FailsToTake, Working, Purging, Kinds, CleanupInv, Shape
<1>6. sweep.first \in Incidents \cup {None}  BY <1>1 DEF Sweep
<1> QED  BY <1>2, <1>3, <1>4, <1>5, <1>6 DEF GettingOn

\* The next job of the page: what the first one has left is noted when it is taken.
LEMMA ProgressTakesJob ==
  ASSUME CleanupInv, ProgressInv, NEW i \in Incidents, TakesJob(i)
  PROVE  ProgressInv'
<1> USE DEF ProgressInv
<1>1. /\ sweep.pc = "next" /\ ~Working /\ i \in sweep.page
      /\ UNCHANGED <<eligible, stored>> /\ sweep \in Sweep
  BY DEF TakesJob, Working, Purging, Kinds, GettingOn
<1>2. PICK page \in SUBSET Incidents : page = sweep.page \ {i}  BY <1>1 DEF Sweep
<1>3. sweep.first # None => sweep.first \in Incidents /\ sweep.first # i
  BY <1>1 DEF GettingOn, Sweep
<1>4. CASE ~MayPurge(i)
  <2>1. sweep' = [sweep EXCEPT !.page = page] /\ UNCHANGED <<marker, job>>
    BY <1>2, <1>4 DEF TakesJob, Continue
  <2>2. /\ sweep' \in Sweep /\ sweep'.pc = "next" /\ sweep'.left = sweep.left /\ sweep'.page = page
        /\ sweep'.first = sweep.first /\ sweep'.found = sweep.found /\ sweep'.failed = sweep.failed
    BY <1>1, <2>1 DEF Sweep
  <2>3. ~Working' /\ CursorOK'  BY <2>2 DEF Working, Purging, Kinds, CursorOK
  <2>4. sweep.first # None => Remaining(sweep.first)' = Remaining(sweep.first)
    BY <1>1, <2>1, RemainingStays
  <2>5. GettingOn'  BY <1>1, <1>2, <2>1, <2>2, <2>3, <2>4 DEF GettingOn
  <2> QED  BY <2>3, <2>5
<1>5. CASE MayPurge(i) /\ marker[i] = "completed"
  <2>1. PICK pc \in {"next", "over"} : pc = IF sweep.left = 0 THEN "over" ELSE "next"  OBVIOUS
  <2>2. /\ sweep' = [sweep EXCEPT !.page = page, !.pc = pc] /\ job' = [job EXCEPT ![i] = None]
        /\ UNCHANGED marker
    BY <1>1, <1>2, <1>5, <2>1 DEF TakesJob, Continue, Sweep
  <2>3. /\ sweep' \in Sweep /\ sweep'.pc = pc /\ sweep'.left = sweep.left /\ sweep'.page = page
        /\ sweep'.first = sweep.first /\ sweep'.found = sweep.found /\ sweep'.failed = sweep.failed
    BY <1>1, <2>2 DEF Sweep
  <2>4. ~Working' /\ CursorOK'  BY <2>3 DEF Working, Purging, Kinds, CursorOK
  <2>5. sweep.first # None => /\ job'[sweep.first] = job[sweep.first]
                              /\ Remaining(sweep.first)' = Remaining(sweep.first)
    BY <1>1, <1>3, <2>2, RemainingStays DEF CleanupInv, Shape
  <2>6. GettingOn'  BY <1>1, <1>2, <2>2, <2>3, <2>4, <2>5 DEF GettingOn
  <2> QED  BY <2>4, <2>6
<1>6. CASE MayPurge(i) /\ marker[i] # "completed"
  <2>1. PICK first \in Incidents : first = IF sweep.first = None THEN i ELSE sweep.first
    BY <1>3
  <2>2. job[i] # None /\ job[i] \in Nat
    BY <1>1 DEF CleanupInv, SweepOK, Shape
  <2>3. Remaining(i) \in Nat /\ Remaining(i) > 0
    BY <2>2, RemainingIs DEF CleanupInv
  <2>4. PICK n \in Nat : n = IF sweep.first = None THEN Remaining(i) ELSE sweep.found
    BY <1>1, <2>3 DEF Sweep
  <2>5. PICK c \in Nat : c = job[i]  BY <2>2
  <2>6. /\ sweep' = [sweep EXCEPT !.page = page, !.pc = "objects", !.at = i, !.cursor = c,
                                  !.first = first, !.found = n]
        /\ UNCHANGED job /\ marker' = [marker EXCEPT ![i] = "purging"]
    <3> DEFINE rest == [sweep EXCEPT !.page = @ \ {i}]
    <3>1. rest.first = sweep.first /\ rest.found = sweep.found  BY <1>1 DEF Sweep
    <3>2. /\ sweep' = [rest EXCEPT !.pc = "objects", !.at = i, !.cursor = job[i],
                           !.first = IF @ = None THEN i ELSE @,
                           !.found = IF sweep.first = None THEN Remaining(i) ELSE @]
          /\ UNCHANGED job /\ marker' = [marker EXCEPT ![i] = "purging"]
      BY <1>6 DEF TakesJob, Continue
    <3> HIDE DEF rest
    <3>3. sweep' = [rest EXCEPT !.pc = "objects", !.at = i, !.cursor = c,
                        !.first = first, !.found = n]
      BY <2>1, <2>4, <2>5, <3>1, <3>2
    <3> QED  BY <1>2, <3>2, <3>3 DEF rest
  <2>7. /\ sweep' \in Sweep /\ sweep'.pc = "objects" /\ sweep'.left = sweep.left /\ sweep'.page = page
        /\ sweep'.first = first /\ sweep'.found = n /\ sweep'.failed = sweep.failed
        /\ sweep'.at = i /\ sweep'.cursor = c
    BY <1>1, <2>6 DEF Sweep, Purging, Kinds
  <2>8. Working' /\ CursorOK'  BY <2>5, <2>6, <2>7 DEF Working, Purging, Kinds, CursorOK
  <2>9. /\ Remaining(i)' = Remaining(i) /\ first # None /\ i # None
        /\ sweep.first # None => Remaining(sweep.first)' = Remaining(sweep.first)
    BY <1>1, <2>1, <2>6, RemainingStays, CleanupAssumption DEF CleanupAssumption
  <2>10. \A j \in Incidents : marker[j] # "none" => marker'[j] # "none"
    BY <2>6 DEF CleanupInv, Shape
  <2>11. marker[i] # "none" /\ eligible[i]  BY <1>6 DEF MayPurge
  <2>12. GettingOn'
    <3>1. sweep.left \in Nat /\ Patience \in Nat
      BY <1>1, CleanupAssumption DEF CleanupAssumption, Sweep
    <3>2. CASE sweep.first = None
      <4>1. first = i /\ n = Remaining(i) /\ sweep.left = Patience  BY <1>1, <2>1, <2>4, <3>2 DEF GettingOn
      <4>2. Remaining(i)' + Patience <= n + sweep.left + Spent["objects"]
        BY <2>3, <2>9, <3>1, <4>1, SpentIs
      <4> QED  BY <1>1, <1>2, <2>1, <2>3, <2>7, <2>8, <2>9, <2>10, <2>11, <3>1, <4>1, <4>2 DEF GettingOn
    <3>3. CASE sweep.first # None
      <4>1. first = sweep.first /\ n = sweep.found /\ first # i  BY <1>3, <2>1, <2>4, <3>3
      <4> QED  BY <1>1, <1>2, <2>1, <2>6, <2>7, <2>8, <2>9, <2>10, <3>3, <4>1 DEF GettingOn
    <3> QED  BY <3>2, <3>3
  <2> QED  BY <2>8, <2>12
<1> QED  BY <1>4, <1>5, <1>6

LEMMA ProgressFinishesPage ==
  ASSUME CleanupInv, ProgressInv, FinishesPage
  PROVE  ProgressInv'
<1> USE DEF ProgressInv
<1>1. /\ sweep.pc = "next" /\ sweep' = [sweep EXCEPT !.pc = "over"] /\ sweep \in Sweep
      /\ UNCHANGED <<marker, job, eligible, stored>> /\ ~Working
  BY DEF FinishesPage, Continue, GoOn, GettingOn, Working, Purging, Kinds
<1>2. /\ sweep' \in Sweep /\ sweep'.pc = "over" /\ sweep'.left = sweep.left /\ sweep'.page = sweep.page
      /\ sweep'.first = sweep.first /\ sweep'.found = sweep.found /\ sweep'.failed = sweep.failed
  BY <1>1 DEF Sweep
<1>3. ~Working' /\ CursorOK'  BY <1>2 DEF Working, Purging, Kinds, CursorOK
<1>4. sweep.first # None => Remaining(sweep.first)' = Remaining(sweep.first)  BY <1>1, RemainingStays
<1>5. GettingOn'  BY <1>1, <1>2, <1>3, <1>4 DEF GettingOn
<1> QED  BY <1>3, <1>5

\* A new sweep has all its time before it.
LEMMA ProgressLeases ==
  ASSUME CleanupInv, ProgressInv, Leases
  PROVE  ProgressInv'
<1> USE DEF ProgressInv
<1>1. UNCHANGED <<marker, job, eligible, stored>>
  BY DEF Leases, Begins, Ends, Dies, cleanupVars
<1>2. PICK page \in SUBSET Incidents : page = {i \in Incidents : job[i] # None}  OBVIOUS
<1>3. \/ sweep' = sweep \/ sweep' = IdleSweep
      \/ sweep' = [IdleSweep EXCEPT !.pc = "next", !.left = Patience, !.page = page]
  BY <1>2 DEF Leases, Begins, Ends, Dies, cleanupVars
<1>4. CASE sweep' = sweep  BY <1>1, <1>4, ProgressStays
<1>5. CASE sweep' # sweep
  <2>1. /\ sweep' \in Sweep /\ sweep'.first = None /\ sweep'.left <= Patience
        /\ \/ sweep'.pc = "idle"
           \/ sweep'.pc = "next" /\ sweep'.left = Patience
    <3>1. Patience \in Nat /\ 0 <= Patience  BY CleanupAssumption DEF CleanupAssumption
    <3>2. /\ IdleSweep \in Sweep /\ IdleSweep.pc = "idle" /\ IdleSweep.left = 0
          /\ IdleSweep.first = None
      BY DEF IdleSweep, Sweep
    <3>3. CASE sweep' = [IdleSweep EXCEPT !.pc = "next", !.left = Patience, !.page = page]
      <4>1. /\ sweep'.pc = "next" /\ sweep'.left = Patience /\ sweep'.first = None /\ sweep' \in Sweep
        BY <3>1, <3>2, <3>3 DEF Sweep
      <4> QED  BY <3>1, <4>1
    <3> QED  BY <1>3, <1>5, <3>1, <3>2, <3>3
  <2>2. ~Working'  BY <2>1 DEF Working, Purging, Kinds
  <2> QED  BY <2>1, <2>2 DEF CursorOK, GettingOn
<1> QED  BY <1>4, <1>5

\* Nobody adds to an incident that is due.
LEMMA ProgressOthers ==
  ASSUME CleanupInv, ProgressInv, Others
  PROVE  ProgressInv'
<1>1. UNCHANGED sweep  BY DEF Others, RequestsDeletion, FallsDue, Binds, Stores
<1>2. ASSUME NEW j \in Incidents, marker[j] # "none", eligible[j]
      PROVE  marker'[j] # "none" /\ eligible'[j] /\ job'[j] = job[j] /\ stored'[j] = stored[j]
  BY <1>2 DEF Others, RequestsDeletion, FallsDue, Binds, Stores, CleanupInv, Shape
<1> QED  BY <1>1, <1>2, ProgressStays

LEMMA ProgressNext == CleanupInv /\ ProgressInv /\ [CleanupNext]_allVars => ProgressInv'
<1> SUFFICES ASSUME CleanupInv, ProgressInv, [CleanupNext]_allVars PROVE ProgressInv'  OBVIOUS
<1>1. CASE Purge
  BY <1>1, ProgressDeletes, ProgressSpends, ProgressSavesCursor, ProgressScans, ProgressEndsJob,
     ProgressFinishesPage, ProgressTakesJob, ProgressFailing, ProgressRedacts
  DEF Purge
<1>2. CASE Leases  BY <1>2, ProgressLeases
<1>3. CASE Others  BY <1>3, ProgressOthers
<1>4. CASE UNCHANGED allVars
  BY <1>4, ProgressStays DEF allVars, cleanupVars
<1> QED  BY <1>1, <1>2, <1>3, <1>4 DEF CleanupNext

\* A sweep that meets no error leaves less to do for the first incident it worked on than it
\* found: five pages at most show only that something is gone, and Patience allows for one
\* more (run_cleanup: the deadline, the cursor of the job).
THEOREM SweepsAlwaysGetOn == CleanupSpec => []SweepsGetOn
<1>1. CleanupInv /\ ProgressInv => SweepsGetOn
  <2> SUFFICES ASSUME CleanupInv, ProgressInv, sweep.pc = "over", sweep.first # None, ~sweep.failed
               PROVE  Remaining(sweep.first) < sweep.found
    BY DEF SweepsGetOn
  <2> USE DEF ProgressInv
  <2>1. ~Working  BY DEF Working, Purging, Kinds
  <2>2. CASE job[sweep.first] = None
    BY <2>2 DEF Remaining, GettingOn
  <2>3. CASE job[sweep.first] # None  BY <2>1, <2>3 DEF GettingOn
  <2> QED  BY <2>2, <2>3
<1> QED  BY <1>1, CleanupCorrect, ProgressInit, ProgressNext, PTL DEF CleanupSpec, allVars

=============================================================================
