---------------------------- MODULE IngressProofs ---------------------------
(***************************************************************************)
(* Proofs about Ingress for any number of workers, signals and incidents,  *)
(* any routes and any limits.                                              *)
(***************************************************************************)
EXTENDS Ingress, FiniteSetTheorems, TLAPS

-----------------------------------------------------------------------------
(* The inductive invariant *)

\* The labels at which an invocation goes by the receipt it holds, and those
\* at which its signal is paid.
Charging == {"charge", "meter", "spend", "reread", "store", "publish", "confirm"}
Paid == {"store", "publish", "confirm"}

Bound(e, i) ==
  /\ receipt[e].status \in {"pending", "published"}
  /\ receipt[e].incident_id = i

\* What an invocation holds is still so: it is past the look at the marker only
\* for an incident that was not marked when it started, and which therefore is
\* not purged while it runs; so its receipt is still bound to that incident.
CallOK(c) ==
  c.pc # "idle" =>
    /\ c.event \in Events /\ c.target \in Targets
    /\ \A i \in c.marked : Marked(i)
    /\ c.target \in Incidents => c.target \notin c.marked /\ marker[c.target] # "completed"
    /\ c.pc = "reserve" => c.target = Automatic
    /\ c.pc \in {"explicit", "put"} => c.target \in Incidents
    /\ c.pc = "marker" =>
         /\ c.incident \in Incidents
         /\ \/ Bound(c.event, c.incident)
            \/ receipt[c.event].status = "deleted" /\ marker[c.incident] = "completed"
    /\ c.pc \in Charging =>
         /\ c.incident \in Incidents /\ c.incident \notin c.marked
         /\ marker[c.incident] # "completed" /\ Bound(c.event, c.incident)
    /\ c.pc \in Paid => receipt[c.event].quota_reserved
    /\ c.pc = "confirm" => <<c.event, c.incident>> \in bus

WorkersOK == \A w \in Workers : CallOK(worker[w])

\* Only a receipt that is bound has anything in it, and one that says so is
\* published.
ReceiptsOK ==
  \A e \in Events :
    /\ receipt[e].status \in {"absent", "deleted"} =>
         receipt[e].incident_id = None /\ ~receipt[e].quota_reserved
    /\ receipt[e].status \in {"pending", "published"} => receipt[e].incident_id \in Incidents
    /\ receipt[e].status = "published" => <<e, receipt[e].incident_id>> \in bus

\* The rows of an incident agree with its marker; those that are not there
\* have nothing that would count.
IncidentsOK ==
  \A i \in Incidents :
    /\ summary[i].deleting <=> marker[i] = "pending"
    /\ ~summary[i].present =>
         /\ ~summary[i].resolved /\ summary[i].event_count = 0
         /\ \A e \in Events : <<e, i>> \notin timeline
    /\ ~budget[i].present =>
         budget[i].used = 0 /\ budget[i].ceiling = 0 /\ Charged(i) = {}

IngressInv ==
  /\ TypeOK /\ WorkersOK /\ ReceiptsOK /\ IncidentsOK
  /\ ChargedOnce /\ PublishedIsPaid /\ CountIsTimeline /\ NoResurrection

-----------------------------------------------------------------------------
(* Initial states, and what is left to show of a step *)

LEMMA InvInit == Init => IngressInv
<1> SUFFICES ASSUME Init PROVE IngressInv  OBVIOUS
<1> USE IngressAssumption DEF Init
<1>1. TypeOK
  BY DEF TypeOK, Receipt, NoReceipt, Summary, NoSummary, Budget, NoBudget, Call, Idle, Labels,
         Targets
<1>2. WorkersOK /\ ReceiptsOK  BY DEF WorkersOK, CallOK, ReceiptsOK, NoReceipt, Idle
<1>3. \A i \in Incidents : Charged(i) = {}  BY DEF Charged, NoReceipt
<1>4. IncidentsOK  BY <1>3 DEF IncidentsOK, NoSummary, NoBudget
<1>5. ChargedOnce /\ NoResurrection  BY DEF ChargedOnce, NoResurrection, NoBudget
<1>6. PublishedIsPaid  BY <1>1 DEF PublishedIsPaid
<1>7. CountIsTimeline
  <2> SUFFICES ASSUME NEW i \in Incidents
               PROVE  summary[i].event_count
                        = Cardinality({e \in Events : <<e, i>> \in timeline \ late})
    BY DEF CountIsTimeline
  <2>1. {e \in Events : <<e, i>> \in timeline \ late} = {}  OBVIOUS
  <2> QED  BY <2>1, FS_EmptySet DEF NoSummary
<1> QED  BY <1>1, <1>2, <1>4, <1>5, <1>6, <1>7 DEF IngressInv

\* The invocations at another label.
LEMMA GotoStep ==
  ASSUME TypeOK, NEW w \in Workers, NEW label \in Labels, Goto(w, label)
  PROVE  \E c \in Call : /\ worker' = [worker EXCEPT ![w] = c] /\ c.pc = label
                        /\ c.event = worker[w].event /\ c.target = worker[w].target
                        /\ c.incident = worker[w].incident /\ c.marked = worker[w].marked
<1> DEFINE c == [worker[w] EXCEPT !.pc = label]
<1>1. worker[w] \in Call  BY DEF TypeOK
<1>2. c \in Call /\ c.pc = label  BY <1>1 DEF Call
<1>3. /\ c.event = worker[w].event /\ c.target = worker[w].target
      /\ c.incident = worker[w].incident /\ c.marked = worker[w].marked
  BY <1>1 DEF Call
<1>4. worker' = [worker EXCEPT ![w] = c]  BY DEF Goto, TypeOK
<1> QED  BY <1>2, <1>3, <1>4

LEMMA IdleCall == Idle \in Call /\ Idle.pc = "idle"
  BY DEF Idle, Call, Labels, Targets

\* A step that writes nothing and leaves its worker with a call that is in order.
LEMMA QuietStep ==
  ASSUME IngressInv, NEW w \in Workers, NEW c \in Call, CallOK(c),
         worker' = [worker EXCEPT ![w] = c], UNCHANGED <<rows, stores>>
  PROVE  IngressInv'
<1> USE DEF IngressInv, rows, stores
<1>1. worker' \in [Workers -> Call]  BY DEF TypeOK
<1>2. TypeOK'  BY <1>1 DEF TypeOK
<1>3. WorkersOK'
  <2> SUFFICES ASSUME NEW v \in Workers PROVE CallOK(worker[v])'  BY DEF WorkersOK
  <2>1. worker'[v] = c \/ worker'[v] = worker[v]  BY DEF TypeOK
  <2>2. CallOK(worker'[v])  BY <2>1 DEF WorkersOK
  <2> QED  BY <2>2 DEF CallOK, Marked, Bound
<1>4. ReceiptsOK' /\ IncidentsOK'  BY DEF ReceiptsOK, IncidentsOK, Charged
<1>5. ChargedOnce' /\ CountIsTimeline' /\ NoResurrection'
  BY DEF ChargedOnce, Charged, CountIsTimeline, NoResurrection
<1>6. PublishedIsPaid'  BY <1>2 DEF PublishedIsPaid
<1> QED  BY <1>2, <1>3, <1>4, <1>5, <1>6

LEMMA AnswerStep ==
  ASSUME IngressInv, NEW w \in Workers, Answer(w), UNCHANGED <<rows, stores>>
  PROVE  IngressInv'
  BY QuietStep, IdleCall DEF Answer, CallOK

\* What comes of considering a receipt.
LEMMA ConsiderStep ==
  ASSUME TypeOK, NEW w \in Workers, NEW rec \in Receipt, rec.status # "absent",
         Consider(w, rec)
  PROVE  \/ Answer(w)
         \/ /\ rec.status \in {"pending", "published"}
            /\ \E c \in Call :
                 /\ worker' = [worker EXCEPT ![w] = c]
                 /\ c.pc = "marker" /\ c.incident = rec.incident_id
                 /\ c.event = worker[w].event /\ c.target = worker[w].target
                 /\ c.marked = worker[w].marked
<1> USE DEF TypeOK
<1>1. worker[w] \in Call  OBVIOUS
<1>2. CASE rec.status = "deleted" \/ rec.target # worker[w].target
  BY <1>2 DEF Consider
<1>3. CASE ~(rec.status = "deleted" \/ rec.target # worker[w].target)
  <2>1. rec.status \in {"pending", "published"} /\ rec.incident_id \in Incidents \cup {None}
    BY <1>3 DEF Receipt
  <2> DEFINE c == [worker[w] EXCEPT !.pc = "marker", !.incident = rec.incident_id,
                                    !.status = rec.status]
  <2>2. c \in Call  BY <1>1, <2>1 DEF Call, Labels
  <2>3. /\ c.pc = "marker" /\ c.incident = rec.incident_id /\ c.event = worker[w].event
        /\ c.target = worker[w].target /\ c.marked = worker[w].marked
    BY <1>1 DEF Call
  <2>4. worker' = [worker EXCEPT ![w] = c]  BY <1>3 DEF Consider
  <2> QED  BY <1>3, <2>1, <2>2, <2>3, <2>4
<1> QED  BY <1>2, <1>3

-----------------------------------------------------------------------------
(* Steps that write nothing *)

LEMMA InvReceive ==
  ASSUME IngressInv, NEW w \in Workers, NEW e \in Events, NEW t \in Targets, Receive(w, e, t)
  PROVE  IngressInv'
<1> USE IngressAssumption
<1>1. PICK c : c = [pc |-> "receipt", event |-> e, target |-> t, incident |-> None,
                    status |-> "absent", marked |-> {i \in Incidents : Marked(i)}]
  OBVIOUS
<1>2. c \in Call  BY <1>1 DEF Call, Labels
<1>3. worker' = [worker EXCEPT ![w] = c]  BY <1>1 DEF Receive
<1>4. CallOK(c)
  <2>1. c.pc = "receipt" /\ c.event \in Events /\ c.target = t
    BY <1>1
  <2>2. \A i \in Incidents : i \in c.marked <=> Marked(i)
    BY <1>1
  <2>3. \A i \in c.marked : Marked(i)
    BY <1>1
  <2>4. t \in Incidents => ~Marked(t)
    BY DEF Receive
  <2> QED  BY <2>1, <2>2, <2>3, <2>4 DEF CallOK, Charging, Paid, Marked
<1> QED  BY <1>2, <1>3, <1>4, QuietStep DEF Receive

\* What the handler does with a receipt that was there already.
LEMMA InvConsider ==
  ASSUME IngressInv, NEW w \in Workers, worker[w].pc # "idle",
         receipt[worker[w].event].status # "absent",
         Consider(w, receipt[worker[w].event]), UNCHANGED <<rows, stores>>
  PROVE  IngressInv'
<1> USE DEF IngressInv
<1>1. worker[w] \in Call /\ CallOK(worker[w])  BY DEF TypeOK, WorkersOK
<1> DEFINE rec == receipt[worker[w].event]
<1>2. rec \in Receipt /\ worker[w].event \in Events  BY <1>1 DEF TypeOK, CallOK
<1>3. CASE Answer(w)  BY <1>3, AnswerStep
<1>4. CASE ~Answer(w)
  <2>1. rec.status \in {"pending", "published"}
    BY <1>1, <1>2, <1>4, ConsiderStep
  <2>2. PICK c \in Call :
          /\ worker' = [worker EXCEPT ![w] = c]
          /\ c.pc = "marker" /\ c.incident = rec.incident_id
          /\ c.event = worker[w].event /\ c.target = worker[w].target
          /\ c.marked = worker[w].marked
    BY <1>1, <1>2, <1>4, ConsiderStep
  <2>3. Bound(c.event, c.incident) /\ c.incident \in Incidents
    BY <1>2, <2>1, <2>2 DEF Bound, ReceiptsOK
  <2>4. CallOK(c)  BY <1>1, <2>2, <2>3 DEF CallOK, Charging, Paid
  <2> QED  BY <2>2, <2>4, QuietStep
<1> QED  BY <1>3, <1>4

LEMMA InvReadReceipt ==
  ASSUME IngressInv, NEW w \in Workers, ReadReceipt(w)
  PROVE  IngressInv'
<1> USE IngressAssumption DEF IngressInv, ReadReceipt
<1>1. worker[w] \in Call /\ CallOK(worker[w]) /\ worker[w].pc # "idle"
  BY DEF TypeOK, WorkersOK
<1> DEFINE rec == receipt[worker[w].event]
<1>2. rec \in Receipt /\ worker[w].event \in Events  BY <1>1 DEF TypeOK, CallOK
<1>3. CASE rec.status # "absent"
  <2>1. Consider(w, rec)  BY <1>3
  <2> QED  BY <1>1, <1>3, <2>1, InvConsider
<1>4. CASE rec.status = "absent"
  <2>1. Goto(w, IF worker[w].target = Automatic THEN "reserve" ELSE "explicit")
    BY <1>4
  <2>2. CASE worker[w].target = Automatic
    <3>1. PICK c \in Call :
            /\ worker' = [worker EXCEPT ![w] = c] /\ c.pc = "reserve"
            /\ c.event = worker[w].event /\ c.target = worker[w].target
            /\ c.marked = worker[w].marked
      BY <2>1, <2>2, GotoStep DEF Labels
    <3>2. CallOK(c)  BY <1>1, <2>2, <3>1 DEF CallOK, Charging, Paid
    <3> QED  BY <3>1, <3>2, QuietStep
  <2>3. CASE worker[w].target # Automatic
    <3>1. worker[w].target \in Incidents  BY <1>1, <2>3 DEF CallOK, Targets
    <3>2. PICK c \in Call :
            /\ worker' = [worker EXCEPT ![w] = c] /\ c.pc = "explicit"
            /\ c.event = worker[w].event /\ c.target = worker[w].target
            /\ c.marked = worker[w].marked
      BY <2>1, <2>3, GotoStep DEF Labels
    <3>3. CallOK(c)  BY <1>1, <3>1, <3>2 DEF CallOK, Charging, Paid
    <3> QED  BY <3>2, <3>3, QuietStep
  <2> QED  BY <2>2, <2>3
<1> QED  BY <1>3, <1>4

\* A step to another label whose conditions are met.
LEMMA InvGoto ==
  ASSUME IngressInv, NEW w \in Workers, worker[w].pc # "idle",
         NEW label \in Labels \ {"idle", "marker", "reserve", "confirm"},
         label \in {"explicit", "put"} => worker[w].target \in Incidents,
         label \in Charging => /\ worker[w].incident \in Incidents \ worker[w].marked
                               /\ marker[worker[w].incident] # "completed"
                               /\ Bound(worker[w].event, worker[w].incident),
         label \in Paid => receipt[worker[w].event].quota_reserved,
         Goto(w, label), UNCHANGED <<rows, stores>>
  PROVE  IngressInv'
<1>1. worker[w] \in Call /\ CallOK(worker[w])  BY DEF IngressInv, TypeOK, WorkersOK
<1>2. PICK c \in Call :
          /\ worker' = [worker EXCEPT ![w] = c] /\ c.pc = label
          /\ c.event = worker[w].event /\ c.target = worker[w].target
          /\ c.incident = worker[w].incident /\ c.marked = worker[w].marked
    BY GotoStep DEF IngressInv
<1>3. CallOK(c)  BY <1>1, <1>2 DEF CallOK
<1> QED  BY <1>2, <1>3, QuietStep

LEMMA InvQuiet ==
  ASSUME IngressInv, NEW w \in Workers,
         \/ CheckExplicit(w) \/ CheckMarker(w) \/ ReadQuota(w) \/ RereadQuota(w) \/ Stop(w)
  PROVE  IngressInv'
<1>1. CallOK(worker[w])  BY DEF IngressInv, WorkersOK
<1>2. CASE CheckExplicit(w)
  <2>1. Answer(w) \/ Goto(w, "put")  BY <1>2 DEF CheckExplicit
  <2>2. worker[w].target \in Incidents  BY <1>1, <1>2 DEF CheckExplicit, CallOK
  <2> QED
    BY <1>2, <2>1, <2>2, AnswerStep, InvGoto DEF CheckExplicit, Labels, Charging, Paid
<1>3. CASE CheckMarker(w)
  <2>1. CASE Answer(w)  BY <1>3, <2>1, AnswerStep DEF CheckMarker
  <2>2. CASE ~Answer(w)
    <3>1. Goto(w, "charge") /\ ~Marked(worker[w].incident)
      BY <1>3, <2>2 DEF CheckMarker
    <3>2. /\ worker[w].incident \in Incidents \ worker[w].marked
          /\ marker[worker[w].incident] # "completed"
          /\ Bound(worker[w].event, worker[w].incident)
      BY <1>1, <1>3, <3>1 DEF CheckMarker, CallOK, Marked
    <3> QED  BY <1>3, <3>1, <3>2, InvGoto DEF CheckMarker, Labels, Charging, Paid
  <2> QED  BY <2>1, <2>2
<1>4. CASE ReadQuota(w) \/ RereadQuota(w)
  <2>1. /\ worker[w].incident \in Incidents \ worker[w].marked
        /\ marker[worker[w].incident] # "completed"
        /\ Bound(worker[w].event, worker[w].incident)
    BY <1>1, <1>4 DEF ReadQuota, RereadQuota, CallOK, Charging
  <2>2. \/ Answer(w)
        \/ Goto(w, "meter")
        \/ Goto(w, "store") /\ receipt[worker[w].event].quota_reserved
    BY <1>4 DEF ReadQuota, RereadQuota
  <2> QED
    BY <1>4, <2>1, <2>2, AnswerStep, InvGoto DEF ReadQuota, RereadQuota, Labels, Paid
<1>5. CASE Stop(w)  BY <1>5, AnswerStep DEF Stop
<1> QED  BY <1>2, <1>3, <1>4, <1>5

-----------------------------------------------------------------------------
(* Steps that write, other than the purge *)

\* What they keep: a receipt stays bound to its incident, charged if it was,
\* redacted if it was; marks and messages stay, and no purge completes.
Forward ==
  /\ \A e \in Events, i \in Incidents : Bound(e, i) => Bound(e, i)'
  /\ \A e \in Events : receipt[e].quota_reserved => receipt'[e].quota_reserved
  /\ \A e \in Events : receipt[e].status = "deleted" => receipt'[e].status = "deleted"
  /\ \A i \in Incidents : Marked(i) => Marked(i)'
  /\ \A i \in Incidents : marker'[i] = "completed" <=> marker[i] = "completed"
  /\ bus \subseteq bus'

LEMMA CallForward ==
  ASSUME NEW c \in Call, CallOK(c), Forward
  PROVE  CallOK(c)'
<1> SUFFICES ASSUME c.pc # "idle" PROVE CallOK(c)'  BY DEF CallOK
<1>1. c.event \in Events /\ c.target \in Targets  BY DEF CallOK
<1>2. \A i \in c.marked : i \in Incidents  BY DEF Call
<1>3. \A i \in c.marked : Marked(i)'  BY <1>2 DEF CallOK, Forward
<1>4. c.target \in Incidents => c.target \notin c.marked /\ marker'[c.target] # "completed"
  BY DEF CallOK, Forward
<1>5. c.pc = "marker" =>
        /\ c.incident \in Incidents
        /\ \/ Bound(c.event, c.incident)'
           \/ receipt'[c.event].status = "deleted" /\ marker'[c.incident] = "completed"
  BY <1>1 DEF CallOK, Forward
<1>6. c.pc \in Charging =>
         /\ c.incident \in Incidents /\ c.incident \notin c.marked
         /\ marker'[c.incident] # "completed" /\ Bound(c.event, c.incident)'
  BY <1>1 DEF CallOK, Forward
<1>7. c.pc \in Paid => receipt'[c.event].quota_reserved  BY <1>1 DEF CallOK, Forward
<1>8. c.pc = "confirm" => <<c.event, c.incident>> \in bus'  BY DEF CallOK, Forward
<1>9. /\ c.pc = "reserve" => c.target = Automatic
      /\ c.pc \in {"explicit", "put"} => c.target \in Incidents
  BY DEF CallOK
<1> QED  BY <1>1, <1>3, <1>4, <1>5, <1>6, <1>7, <1>8, <1>9 DEF CallOK

LEMMA WorkersForward ==
  ASSUME TypeOK, WorkersOK, Forward,
         \/ UNCHANGED worker
         \/ \E w \in Workers, c \in Call :
              CallOK(c)' /\ worker' = [worker EXCEPT ![w] = c]
  PROVE  worker' \in [Workers -> Call] /\ WorkersOK'
<1>1. \A v \in Workers : CallOK(worker[v]) /\ worker[v] \in Call
  BY DEF TypeOK, WorkersOK
<1>2. \A c \in Call : CallOK(c) => CallOK(c)'  BY CallForward
<1>3. CASE UNCHANGED worker
  <2>1. worker' \in [Workers -> Call]  BY <1>3 DEF TypeOK
  <2>2. ASSUME NEW v \in Workers PROVE CallOK(worker[v])'
    <3>1. PICK c \in Call : c = worker[v]  BY <1>1
    <3>2. CallOK(c)'  BY <1>1, <1>2, <3>1
    <3>3. c = worker'[v]  BY <1>3, <3>1
    <3> QED  BY <3>2, <3>3 DEF CallOK
  <2> QED  BY <2>1, <2>2 DEF WorkersOK
<1>4. CASE \E w \in Workers, c \in Call : CallOK(c)' /\ worker' = [worker EXCEPT ![w] = c]
  <2>1. PICK w \in Workers, c \in Call : CallOK(c)' /\ worker' = [worker EXCEPT ![w] = c]
    BY <1>4
  <2>2. worker' \in [Workers -> Call]  BY <2>1 DEF TypeOK
  <2>3. ASSUME NEW v \in Workers PROVE CallOK(worker[v])'
    <3>1. PICK d \in Call : d = worker[v]  BY <1>1
    <3>2. CallOK(d)'  BY <1>1, <1>2, <3>1
    <3>3. c = worker'[v] \/ d = worker'[v]  BY <2>1, <3>1 DEF TypeOK
    <3>4. CASE c = worker'[v]  BY <2>1, <3>4 DEF CallOK
    <3>5. CASE d = worker'[v]  BY <3>2, <3>5 DEF CallOK
    <3> QED  BY <3>3, <3>4, <3>5
  <2> QED  BY <2>2, <2>3 DEF WorkersOK
<1> QED  BY <1>3, <1>4

\* A receipt that was not there is bound to an incident that is not purged,
\* which may be a new one.
LEMMA BindStep ==
  ASSUME IngressInv, NEW w \in Workers, NEW e \in Events, NEW i \in Incidents, NEW t \in Targets,
         receipt[e].status = "absent", marker[i] # "completed",
         receipt' = [receipt EXCEPT ![e] = Reserved(i, t)],
         \/ UNCHANGED summary
         \/ /\ ~summary[i].present /\ ~Marked(i)
            /\ summary' = [summary EXCEPT ![i] = [NoSummary EXCEPT
                              !.present = TRUE, !.route_key = RouteOf[e]]],
         UNCHANGED <<marker, budget, stores>>,
         NEW c \in Call, CallOK(c)', worker' = [worker EXCEPT ![w] = c]
  PROVE  IngressInv'
<1> USE IngressAssumption DEF IngressInv, stores
<1>1. receipt \in [Events -> Receipt] /\ Reserved(i, t) \in Receipt
  BY DEF TypeOK, Receipt, Reserved
<1>2. /\ \A x \in Events : x # e => receipt'[x] = receipt[x]
      /\ receipt'[e] = Reserved(i, t)
  BY <1>1
<1>3. receipt[e].incident_id = None /\ ~receipt[e].quota_reserved
  BY DEF ReceiptsOK
<1>4. Forward  BY <1>2, <1>3 DEF Forward, Bound, Marked, Reserved
<1>5. worker' \in [Workers -> Call] /\ WorkersOK'  BY <1>4, WorkersForward
<1>6. summary' \in [Incidents -> Summary]
  <2>1. [NoSummary EXCEPT !.present = TRUE, !.route_key = RouteOf[e]] \in Summary
    BY DEF NoSummary, Summary
  <2> QED  BY <2>1 DEF TypeOK
<1>7. TypeOK'
  <2>1. receipt' \in [Events -> Receipt]  BY <1>1
  <2> QED  BY <1>5, <1>6, <2>1 DEF TypeOK
<1>8. ReceiptsOK'  BY <1>2 DEF ReceiptsOK, Reserved
<1>9. \A j \in Incidents : Charged(j)' = Charged(j)
  BY <1>2, <1>3 DEF Charged, Reserved
<1>10. ChargedOnce'  BY <1>9 DEF ChargedOnce
<1>11. \A j \in Incidents :
         /\ summary'[j].event_count = summary[j].event_count
         /\ summary'[j].deleting = summary[j].deleting
         /\ \/ summary'[j] = summary[j]
            \/ j = i /\ summary'[j].present /\ ~Marked(i)
  <2>1. CASE UNCHANGED summary  BY <2>1
  <2>2. CASE ~UNCHANGED summary
    <3>1. PICK new : new = [NoSummary EXCEPT !.present = TRUE, !.route_key = RouteOf[e]]
      OBVIOUS
    <3>2. new.event_count = 0 /\ ~new.deleting /\ new.present  BY <3>1 DEF NoSummary
    <3>3. summary' = [summary EXCEPT ![i] = new]  BY <2>2, <3>1
    <3>4. summary'[i] = new /\ \A j \in Incidents : j # i => summary'[j] = summary[j]
      BY <3>3 DEF TypeOK
    <3>5. summary[i].event_count = 0 /\ summary[i].deleting \in BOOLEAN /\ ~Marked(i)
      BY <2>2 DEF IncidentsOK, TypeOK, Summary
    <3>6. ~summary[i].deleting  BY <3>5 DEF IncidentsOK, Marked
    <3>7. summary'[i].deleting = summary[i].deleting  BY <3>1, <3>4, <3>5, <3>6 DEF NoSummary
    <3> QED  BY <3>2, <3>4, <3>5, <3>7
  <2> QED  BY <2>1, <2>2
<1>12. IncidentsOK'
  <2> SUFFICES ASSUME NEW j \in Incidents
               PROVE  /\ summary'[j].deleting <=> marker'[j] = "pending"
                      /\ ~summary'[j].present =>
                           /\ ~summary'[j].resolved /\ summary'[j].event_count = 0
                           /\ \A x \in Events : <<x, j>> \notin timeline'
                      /\ ~budget'[j].present =>
                           budget'[j].used = 0 /\ budget'[j].ceiling = 0 /\ Charged(j)' = {}
    BY DEF IncidentsOK
  <2> QED  BY <1>9, <1>11 DEF IncidentsOK
<1>13. PublishedIsPaid'
  <2>1. \A j \in Incidents : <<e, j>> \notin evidence \cup bus \cup timeline
    BY <1>3 DEF PublishedIsPaid
  <2> QED  BY <1>2, <1>7, <2>1 DEF PublishedIsPaid
<1>14. CountIsTimeline'  BY <1>11 DEF CountIsTimeline
<1>15. NoResurrection'  BY <1>2, <1>11 DEF NoResurrection, Reserved, Marked
<1> QED  BY <1>5, <1>7, <1>8, <1>10, <1>12, <1>13, <1>14, <1>15

LEMMA InvReserve ==
  ASSUME IngressInv, NEW w \in Workers, Reserve(w)
  PROVE  IngressInv'
<1> USE IngressAssumption DEF IngressInv
<1>1. worker[w] \in Call /\ CallOK(worker[w]) /\ worker[w].pc # "idle"
  BY DEF TypeOK, WorkersOK, Reserve
<1>2. PICK e \in Events : e = worker[w].event  BY <1>1 DEF CallOK
<1>3. receipt[e] \in Receipt  BY DEF TypeOK
<1>4. CASE receipt[e].status # "absent"
  <2>1. Consider(w, receipt[worker[w].event]) /\ UNCHANGED <<rows, stores>>
    BY <1>2, <1>4 DEF Reserve, rows
  <2> QED  BY <1>1, <1>2, <1>4, <2>1, InvConsider
<1>5. CASE receipt[e].status = "absent"
  <2>1. PICK i \in Incidents :
          /\ \/ UNCHANGED summary /\ summary[i].present /\ ~Closed(i)
             \/ /\ ~summary[i].present /\ ~Marked(i)
                /\ summary' = [summary EXCEPT ![i] = [NoSummary EXCEPT
                                  !.present = TRUE, !.route_key = RouteOf[e]]]
          /\ receipt' = [receipt EXCEPT ![e] = Reserved(i, Automatic)]
          /\ Consider(w, Reserved(i, Automatic))
    BY <1>2, <1>5 DEF Reserve
  <2>2. marker[i] # "completed"  BY <2>1 DEF NoResurrection, Marked
  <2>3. UNCHANGED <<marker, budget, stores>>  BY DEF Reserve
  <2>4. Reserved(i, Automatic) \in Receipt /\ Reserved(i, Automatic).status = "pending"
        /\ Reserved(i, Automatic).incident_id = i
    BY DEF Reserved, Receipt, Targets
  <2>5. receipt'[e] = Reserved(i, Automatic)  BY <2>1 DEF TypeOK
  <2>6. PICK c \in Call : worker' = [worker EXCEPT ![w] = c] /\ CallOK(c)'
    <3>1. CASE Answer(w)
      BY <3>1, IdleCall DEF Answer, CallOK
    <3>2. CASE ~Answer(w)
      <4>1. PICK c \in Call :
              /\ worker' = [worker EXCEPT ![w] = c]
              /\ c.pc = "marker" /\ c.incident = i
              /\ c.event = worker[w].event /\ c.target = worker[w].target
              /\ c.marked = worker[w].marked
        BY <2>1, <2>4, <3>2, ConsiderStep
      <4>2. Bound(c.event, c.incident)'  BY <1>2, <2>4, <2>5, <4>1 DEF Bound
      <4>3. CallOK(c)'
        BY <1>1, <2>3, <4>1, <4>2 DEF CallOK, Charging, Paid, Marked
      <4> QED  BY <4>1, <4>3
    <3> QED  BY <3>1, <3>2
  <2> QED  BY <1>5, <2>1, <2>2, <2>3, <2>6, BindStep DEF Targets
<1> QED  BY <1>4, <1>5

LEMMA InvPutExplicit ==
  ASSUME IngressInv, NEW w \in Workers, PutExplicit(w)
  PROVE  IngressInv'
<1> USE IngressAssumption DEF IngressInv
<1>1. worker[w] \in Call /\ CallOK(worker[w]) /\ worker[w].pc = "put"
  BY DEF TypeOK, WorkersOK, PutExplicit
<1>2. PICK e \in Events : e = worker[w].event  BY <1>1 DEF CallOK
<1>3. PICK t \in Incidents : t = worker[w].target  BY <1>1 DEF CallOK
<1>4. CASE receipt[e].status # "absent"
  <2>1. Consider(w, receipt[worker[w].event]) /\ UNCHANGED <<rows, stores>>
    BY <1>2, <1>4 DEF PutExplicit, rows
  <2> QED  BY <1>1, <1>2, <1>4, <2>1, InvConsider
<1>5. CASE receipt[e].status = "absent"
  <2>1. /\ receipt' = [receipt EXCEPT ![e] = Reserved(t, t)]
        /\ UNCHANGED summary /\ UNCHANGED <<marker, budget, stores>>
        /\ worker' = [worker EXCEPT ![w].pc = "charge", ![w].incident = t,
                                    ![w].status = "pending"]
    BY <1>2, <1>3, <1>5 DEF PutExplicit
  <2>2. PICK c \in Call :
          /\ worker' = [worker EXCEPT ![w] = c]
          /\ c.pc = "charge" /\ c.incident = t /\ c.event = worker[w].event
          /\ c.target = worker[w].target /\ c.marked = worker[w].marked
    <3> DEFINE c == [worker[w] EXCEPT !.pc = "charge", !.incident = t, !.status = "pending"]
    <3>1. c \in Call  BY <1>1 DEF Call, Labels
    <3>2. /\ c.pc = "charge" /\ c.incident = t /\ c.event = worker[w].event
          /\ c.target = worker[w].target /\ c.marked = worker[w].marked
      BY <1>1 DEF Call
    <3>3. worker' = [worker EXCEPT ![w] = c]  BY <2>1
    <3> QED  BY <3>1, <3>2, <3>3
  <2>3. t \notin worker[w].marked /\ marker[t] # "completed"  BY <1>1, <1>3 DEF CallOK
  <2>4. Bound(c.event, c.incident)'
    BY <1>2, <2>1, <2>2 DEF Bound, Reserved, TypeOK
  <2>5. CallOK(c)'
    BY <1>1, <1>3, <2>1, <2>2, <2>3, <2>4 DEF CallOK, Charging, Paid, Marked
  <2>6. worker' = [worker EXCEPT ![w] = c] /\ t \in Targets  BY <2>2 DEF Targets
  <2> QED  BY <1>5, <2>1, <2>3, <2>5, <2>6, BindStep
<1> QED  BY <1>4, <1>5

\* The allowance of an incident that is not purged is created or extended.
LEMMA MeterStep ==
  ASSUME IngressInv, NEW i \in Incidents, NEW b \in Budget, marker[i] # "completed",
         b.present, b.used = Cardinality(Charged(i)),
         b.used <= b.ceiling, b.ceiling \in DefaultLimit..MaxLimit,
         budget' = [budget EXCEPT ![i] = b], UNCHANGED <<receipt, summary, marker, stores>>,
         \/ UNCHANGED worker
         \/ \E w \in Workers, c \in Call :
              CallOK(c)' /\ worker' = [worker EXCEPT ![w] = c]
  PROVE  IngressInv'
<1> USE DEF IngressInv, stores
<1>1. Forward  BY DEF Forward, Bound, Marked
<1>2. worker' \in [Workers -> Call] /\ WorkersOK'  BY <1>1, WorkersForward
<1>3. TypeOK'  BY <1>2 DEF TypeOK
<1>4. /\ budget'[i] = b
      /\ \A j \in Incidents : j # i => budget'[j] = budget[j]
  BY DEF TypeOK
<1>5. \A j \in Incidents : Charged(j)' = Charged(j)  BY DEF Charged
<1>6. ReceiptsOK' /\ PublishedIsPaid' /\ CountIsTimeline'
  BY <1>3 DEF ReceiptsOK, PublishedIsPaid, CountIsTimeline
<1>7. IncidentsOK'  BY <1>4, <1>5 DEF IncidentsOK
<1>8. ChargedOnce'  BY <1>4, <1>5 DEF ChargedOnce
<1>9. NoResurrection'  BY <1>4 DEF NoResurrection
<1> QED  BY <1>2, <1>3, <1>6, <1>7, <1>8, <1>9

LEMMA InvOpenMeter ==
  ASSUME IngressInv, NEW w \in Workers, OpenMeter(w)
  PROVE  IngressInv'
<1> USE IngressAssumption DEF IngressInv
<1>1. worker[w] \in Call /\ CallOK(worker[w]) /\ worker[w].pc = "meter"
  BY DEF TypeOK, WorkersOK, OpenMeter
<1>2. PICK i \in Incidents : i = worker[w].incident  BY <1>1 DEF CallOK, Charging
<1>3. /\ marker[i] # "completed" /\ i \notin worker[w].marked
      /\ Bound(worker[w].event, worker[w].incident)
  BY <1>1, <1>2 DEF CallOK, Charging
<1>4. UNCHANGED <<receipt, summary, marker, stores>>  BY DEF OpenMeter
<1>5. PICK c \in Call :
        /\ worker' = [worker EXCEPT ![w] = c] /\ c.pc = "spend"
        /\ c.event = worker[w].event /\ c.target = worker[w].target
        /\ c.incident = worker[w].incident /\ c.marked = worker[w].marked
  BY GotoStep DEF OpenMeter, Labels
<1>6. CallOK(c)  BY <1>1, <1>2, <1>3, <1>5 DEF CallOK, Charging, Paid
<1>7. CallOK(c)'  BY <1>4, <1>6 DEF CallOK, Bound, Marked, stores
<1>8. CASE budget[i].present
  <2>1. budget' = [budget EXCEPT ![i] = budget[i]]
    BY <1>2, <1>8 DEF OpenMeter, TypeOK
  <2>2. PICK b \in Budget : b = budget[i]  BY DEF TypeOK
  <2>3. /\ b.present /\ b.used = Cardinality(Charged(i))
        /\ b.used <= b.ceiling /\ b.ceiling \in DefaultLimit..MaxLimit
    BY <1>8, <2>2 DEF ChargedOnce
  <2>4. budget' = [budget EXCEPT ![i] = b]  BY <2>1, <2>2
  <2> QED  BY <1>3, <1>4, <1>5, <1>7, <2>3, <2>4, MeterStep
<1>9. CASE ~budget[i].present
  <2>1. PICK b : b = [present |-> TRUE, used |-> 0, ceiling |-> DefaultLimit]  OBVIOUS
  <2>2. b \in Budget  BY <2>1 DEF Budget
  <2>3. budget' = [budget EXCEPT ![i] = b]  BY <1>2, <1>9, <2>1 DEF OpenMeter
  <2>4. Cardinality(Charged(i)) = 0  BY <1>9, FS_EmptySet DEF IncidentsOK
  <2>5. /\ b.present /\ b.used = Cardinality(Charged(i))
        /\ b.used <= b.ceiling /\ b.ceiling \in DefaultLimit..MaxLimit
    BY <2>1, <2>4
  <2> QED  BY <1>3, <1>4, <1>5, <1>7, <2>2, <2>3, <2>5, MeterStep
<1> QED  BY <1>8, <1>9

LEMMA InvExtendBudget ==
  ASSUME IngressInv, NEW i \in Incidents, NEW limit \in DefaultLimit..MaxLimit,
         ExtendBudget(i, limit)
  PROVE  IngressInv'
<1> USE IngressAssumption DEF IngressInv
<1>1. marker[i] # "completed"  BY DEF ExtendBudget, NoResurrection
<1>2. budget[i] \in Budget /\ limit \in Nat /\ 0 <= limit  BY DEF TypeOK
<1>3. PICK b : b = [budget[i] EXCEPT !.present = TRUE, !.ceiling = limit]  OBVIOUS
<1>4. b \in Budget /\ b.present /\ b.used = budget[i].used /\ b.ceiling = limit
  BY <1>2, <1>3 DEF Budget
<1>5. budget' = [budget EXCEPT ![i] = b]  BY <1>3 DEF ExtendBudget, TypeOK
<1>6. budget[i].used = Cardinality(Charged(i)) /\ budget[i].used <= limit
  <2>1. CASE budget[i].present  BY <2>1 DEF ExtendBudget, ChargedOnce
  <2>2. CASE ~budget[i].present
    <3>1. Cardinality(Charged(i)) = 0  BY <2>2, FS_EmptySet DEF IncidentsOK
    <3>2. budget[i].used = 0 /\ 0 <= limit  BY <1>2, <2>2 DEF IncidentsOK
    <3> QED  BY <3>1, <3>2
  <2> QED  BY <2>1, <2>2
<1>7. UNCHANGED <<receipt, summary, marker, stores>> /\ UNCHANGED worker
  BY DEF ExtendBudget
<1> QED  BY <1>1, <1>4, <1>5, <1>6, <1>7, MeterStep

LEMMA InvSpend ==
  ASSUME IngressInv, NEW w \in Workers, Spend(w)
  PROVE  IngressInv'
<1> USE IngressAssumption DEF IngressInv
<1>1. worker[w] \in Call /\ CallOK(worker[w]) /\ worker[w].pc = "spend"
  BY DEF TypeOK, WorkersOK, Spend
<1>2. PICK i \in Incidents : i = worker[w].incident  BY <1>1 DEF CallOK, Charging
<1>3. PICK e \in Events : e = worker[w].event  BY <1>1 DEF CallOK
<1>4. Bound(e, i) /\ marker[i] # "completed" /\ i \notin worker[w].marked
  BY <1>1, <1>2, <1>3 DEF CallOK, Charging
<1>5. CASE ~Affordable(w)
  <2>1. Goto(w, "reread") /\ UNCHANGED <<rows, stores>>  BY <1>5 DEF Spend, rows
  <2> QED  BY <1>1, <1>2, <1>3, <1>4, <2>1, InvGoto DEF Labels, Paid
<1>6. CASE Affordable(w)
  <2>1. /\ budget' = [budget EXCEPT ![i].used = @ + 1]
        /\ receipt' = [receipt EXCEPT ![e].quota_reserved = TRUE]
        /\ Goto(w, "store") /\ UNCHANGED <<summary, marker, stores>>
    BY <1>2, <1>3, <1>6 DEF Spend
  <2>2. budget[i].used < budget[i].ceiling /\ ~receipt[e].quota_reserved
    BY <1>2, <1>3, <1>6 DEF Affordable
  <2>3. receipt[e] \in Receipt /\ budget[i] \in Budget  BY DEF TypeOK
  <2>4. budget[i].present  BY <2>2, <2>3 DEF IncidentsOK
  <2>5. /\ receipt'[e].quota_reserved /\ receipt'[e].status = receipt[e].status
        /\ receipt'[e].incident_id = receipt[e].incident_id /\ receipt'[e] \in Receipt
        /\ \A x \in Events : x # e => receipt'[x] = receipt[x]
    BY <2>1, <2>3 DEF TypeOK, Receipt
  <2>6. /\ budget'[i].used = budget[i].used + 1 /\ budget'[i].present
        /\ budget'[i].ceiling = budget[i].ceiling /\ budget'[i] \in Budget
        /\ \A j \in Incidents : j # i => budget'[j] = budget[j]
    BY <2>1, <2>3, <2>4 DEF TypeOK, Budget
  <2>7. Forward  BY <2>1, <2>5 DEF Forward, Bound, Marked, stores
  <2>8. PICK c \in Call :
          /\ worker' = [worker EXCEPT ![w] = c] /\ c.pc = "store"
          /\ c.event = worker[w].event /\ c.target = worker[w].target
          /\ c.incident = worker[w].incident /\ c.marked = worker[w].marked
    BY <2>1, GotoStep DEF Labels
  <2>9. CallOK(c)'
    <3>1. Bound(c.event, c.incident)' /\ receipt'[c.event].quota_reserved
      BY <1>2, <1>3, <1>4, <2>5, <2>8 DEF Bound
    <3> QED
      BY <1>1, <1>2, <1>3, <1>4, <2>1, <2>8, <3>1 DEF CallOK, Charging, Paid, Marked
  <2>10. worker' \in [Workers -> Call] /\ WorkersOK'  BY <2>7, <2>8, <2>9, WorkersForward
  <2>11. receipt' \in [Events -> Receipt] /\ budget' \in [Incidents -> Budget]
    BY <2>1, <2>5, <2>6 DEF TypeOK
  <2>12. TypeOK'  BY <2>1, <2>10, <2>11 DEF TypeOK, stores
  <2>13. ReceiptsOK'  BY <1>4, <2>1, <2>5 DEF ReceiptsOK, Bound, stores
  <2>14. \A j \in Incidents : j # i => Charged(j)' = Charged(j)
    BY <1>4, <2>5 DEF Charged, Bound
  <2>15. Charged(i)' = Charged(i) \cup {e} /\ e \notin Charged(i)
    BY <1>4, <2>2, <2>5 DEF Charged, Bound
  <2>16. Cardinality(Charged(i)') = Cardinality(Charged(i)) + 1
    <3>1. IsFiniteSet(Charged(i))  BY FS_Subset DEF Charged
    <3> QED  BY <2>15, <3>1, FS_AddElement
  <2>17. ChargedOnce'
    <3> SUFFICES ASSUME NEW j \in Incidents, budget'[j].present
                 PROVE  /\ budget'[j].used = Cardinality(Charged(j)')
                        /\ budget'[j].used <= budget'[j].ceiling
                        /\ budget'[j].ceiling \in DefaultLimit..MaxLimit
      BY DEF ChargedOnce
    <3>1. CASE j = i
      BY <2>2, <2>3, <2>4, <2>6, <2>16, <3>1 DEF ChargedOnce, Budget
    <3>2. CASE j # i  BY <2>6, <2>14, <3>2 DEF ChargedOnce
    <3> QED  BY <3>1, <3>2
  <2>18. IncidentsOK'
    BY <2>1, <2>6, <2>14 DEF IncidentsOK, stores
  <2>19. PublishedIsPaid'  BY <2>1, <2>5, <2>12 DEF PublishedIsPaid, stores
  <2>20. CountIsTimeline'  BY <2>1 DEF CountIsTimeline, stores
  <2>21. NoResurrection'  BY <1>4, <2>1, <2>5, <2>6 DEF NoResurrection, stores
  <2> QED  BY <2>10, <2>12, <2>13, <2>17, <2>18, <2>19, <2>20, <2>21
<1> QED  BY <1>5, <1>6

-----------------------------------------------------------------------------
(* Publication *)

\* The worker of a publication step is paid and bound.
LEMMA PaidCall ==
  ASSUME IngressInv, NEW w \in Workers, worker[w].pc \in Paid
  PROVE  \E e \in Events, i \in Incidents :
           /\ e = worker[w].event /\ i = worker[w].incident
           /\ Bound(e, i) /\ receipt[e].quota_reserved
           /\ marker[i] # "completed" /\ i \notin worker[w].marked
  BY DEF IngressInv, WorkersOK, CallOK, Charging, Paid

\* Evidence or a message of a paid signal.
LEMMA OutputStep ==
  ASSUME IngressInv, NEW e \in Events, NEW i \in Incidents, Bound(e, i),
         receipt[e].quota_reserved, marker[i] # "completed",
         \/ evidence' = evidence \cup {<<e, i>>} /\ UNCHANGED bus
         \/ bus' = bus \cup {<<e, i>>} /\ UNCHANGED evidence,
         UNCHANGED <<rows, timeline, late>>,
         NEW w \in Workers, NEW c \in Call, CallOK(c)', worker' = [worker EXCEPT ![w] = c]
  PROVE  IngressInv'
<1> USE DEF IngressInv, rows
<1>1. Forward  BY DEF Forward, Bound, Marked
<1>2. worker' \in [Workers -> Call] /\ WorkersOK'  BY <1>1, WorkersForward
<1>3. TypeOK'  BY <1>2 DEF TypeOK
<1>4. ReceiptsOK' /\ IncidentsOK' /\ ChargedOnce' /\ CountIsTimeline'
  BY DEF ReceiptsOK, IncidentsOK, ChargedOnce, CountIsTimeline, Charged
<1>5. PublishedIsPaid'  BY <1>3 DEF PublishedIsPaid, Bound
<1>6. NoResurrection'  BY DEF NoResurrection
<1> QED  BY <1>2, <1>3, <1>4, <1>5, <1>6

LEMMA InvPublication ==
  ASSUME IngressInv, NEW w \in Workers, StoreEvidence(w) \/ Publish(w)
  PROVE  IngressInv'
<1>1. CallOK(worker[w]) /\ worker[w].pc \in Paid
  BY DEF IngressInv, WorkersOK, StoreEvidence, Publish, Paid
<1>2. PICK e \in Events, i \in Incidents :
        /\ e = worker[w].event /\ i = worker[w].incident
        /\ Bound(e, i) /\ receipt[e].quota_reserved
        /\ marker[i] # "completed" /\ i \notin worker[w].marked
  BY <1>1, PaidCall
<1>3. /\ \/ evidence' = evidence \cup {<<e, i>>} /\ UNCHANGED bus /\ Goto(w, "publish")
         \/ bus' = bus \cup {<<e, i>>} /\ UNCHANGED evidence /\ Goto(w, "confirm")
      /\ UNCHANGED <<rows, timeline, late>>
  BY <1>2 DEF StoreEvidence, Publish
<1>4. PICK label \in Labels :
        /\ Goto(w, label)
        /\ label \in {"publish", "confirm"}
        /\ label = "confirm" => <<e, i>> \in bus'
  <2>1. CASE Goto(w, "publish")  BY <2>1 DEF Labels, Goto
  <2>2. CASE Goto(w, "confirm") /\ bus' = bus \cup {<<e, i>>}  BY <2>2 DEF Labels, Goto
  <2> QED  BY <1>3, <2>1, <2>2
<1>5. PICK c \in Call :
        /\ worker' = [worker EXCEPT ![w] = c] /\ c.pc = label
        /\ c.event = worker[w].event /\ c.target = worker[w].target
        /\ c.incident = worker[w].incident /\ c.marked = worker[w].marked
  BY <1>4, GotoStep DEF IngressInv
<1>6. Bound(e, i)' /\ receipt'[e].quota_reserved  BY <1>2, <1>3 DEF Bound, rows
<1>7. CallOK(c)'
  BY <1>1, <1>2, <1>3, <1>4, <1>5, <1>6 DEF CallOK, Charging, Paid, Bound, Marked, rows
<1> QED  BY <1>2, <1>3, <1>5, <1>7, OutputStep

LEMMA InvConfirm ==
  ASSUME IngressInv, NEW w \in Workers, Confirm(w)
  PROVE  IngressInv'
<1> USE DEF IngressInv
<1>1. worker[w].pc \in Paid  BY DEF Confirm, Paid
<1>2. PICK e \in Events, i \in Incidents :
        /\ e = worker[w].event /\ i = worker[w].incident
        /\ Bound(e, i) /\ receipt[e].quota_reserved
        /\ marker[i] # "completed" /\ i \notin worker[w].marked
  BY <1>1, PaidCall
<1>3. <<e, i>> \in bus  BY <1>2 DEF Confirm, WorkersOK, CallOK
<1>4. /\ receipt' = [receipt EXCEPT ![e].status = "published"]
      /\ Answer(w) /\ UNCHANGED <<summary, marker, budget, stores>>
  BY <1>2 DEF Confirm
<1>5. /\ receipt'[e].status = "published" /\ receipt'[e] \in Receipt
      /\ receipt'[e].incident_id = receipt[e].incident_id
      /\ receipt'[e].quota_reserved = receipt[e].quota_reserved
      /\ \A x \in Events : x # e => receipt'[x] = receipt[x]
  BY <1>4 DEF TypeOK, Receipt
<1>6. Forward  BY <1>2, <1>4, <1>5 DEF Forward, Bound, Marked, stores
<1>7. Idle \in Call /\ CallOK(Idle)' /\ worker' = [worker EXCEPT ![w] = Idle]
  BY <1>4, IdleCall DEF Answer, CallOK
<1>8. worker' \in [Workers -> Call] /\ WorkersOK'  BY <1>6, <1>7, WorkersForward
<1>9. receipt' \in [Events -> Receipt]  BY <1>4, <1>5 DEF TypeOK
<1>10. TypeOK'  BY <1>4, <1>8, <1>9 DEF TypeOK, stores
<1>11. ReceiptsOK'  BY <1>2, <1>3, <1>4, <1>5 DEF ReceiptsOK, Bound, stores
<1>12. \A j \in Incidents : Charged(j)' = Charged(j)  BY <1>5 DEF Charged
<1>13. IncidentsOK' /\ ChargedOnce'
  BY <1>4, <1>12 DEF IncidentsOK, ChargedOnce, stores
<1>14. CountIsTimeline'  BY <1>4 DEF CountIsTimeline, stores
<1>15. PublishedIsPaid'  BY <1>2, <1>4, <1>5, <1>10 DEF PublishedIsPaid, Bound, stores
<1>16. NoResurrection'  BY <1>4, <1>5 DEF NoResurrection, stores
<1> QED  BY <1>8, <1>10, <1>11, <1>13, <1>14, <1>15, <1>16

-----------------------------------------------------------------------------
(* Correlation *)

LEMMA InvRecordEvidence ==
  ASSUME IngressInv, NEW e \in Events, NEW i \in Incidents, RecordEvidence(e, i)
  PROVE  IngressInv'
<1> USE IngressAssumption DEF IngressInv
<1>1. /\ <<e, i>> \in bus /\ ~Marked(i) /\ <<e, i>> \notin timeline
      /\ timeline' = timeline \cup {<<e, i>>}
      /\ summary' = [summary EXCEPT ![i].event_count = @ + 1, ![i].present = TRUE]
      /\ UNCHANGED <<receipt, marker, budget, evidence, bus, late, worker>>
  BY DEF RecordEvidence
<1>2. summary[i] \in Summary  BY DEF TypeOK
<1>3. /\ summary'[i] \in Summary /\ summary'[i].present
      /\ summary'[i].event_count = summary[i].event_count + 1
      /\ summary'[i].deleting = summary[i].deleting
      /\ \A j \in Incidents : j # i => summary'[j] = summary[j]
  <2>1. PICK s : s = [summary[i] EXCEPT !.event_count = @ + 1, !.present = TRUE]  OBVIOUS
  <2>2. /\ s.present /\ s.event_count = summary[i].event_count + 1
        /\ s.deleting = summary[i].deleting
    BY <1>2, <2>1 DEF Summary
  <2>4. s \in Summary
    <3>1. summary[i].event_count + 1 \in Nat  BY <1>2 DEF Summary
    <3>2. s = [summary[i] EXCEPT !.event_count = summary[i].event_count + 1, !.present = TRUE]
      BY <2>1
    <3> QED  BY <1>2, <3>1, <3>2 DEF Summary
  <2>3. summary' = [summary EXCEPT ![i] = s]  BY <1>1, <2>1 DEF TypeOK
  <2> QED  BY <2>2, <2>3, <2>4 DEF TypeOK
<1>4. Forward  BY <1>1 DEF Forward, Bound, Marked
<1>5. worker' \in [Workers -> Call] /\ WorkersOK'  BY <1>1, <1>4, WorkersForward
<1>6. TypeOK'
  <2>1. summary' \in [Incidents -> Summary]  BY <1>1, <1>3 DEF TypeOK
  <2> QED  BY <1>1, <1>5, <2>1 DEF TypeOK
<1>7. ReceiptsOK' /\ ChargedOnce'  BY <1>1 DEF ReceiptsOK, ChargedOnce, Charged
<1>8. \A j \in Incidents, x \in Events :
        j # i => (<<x, j>> \in timeline' <=> <<x, j>> \in timeline)
  BY <1>1
<1>9. IncidentsOK'  BY <1>1, <1>3, <1>8 DEF IncidentsOK, Charged
<1>10. PublishedIsPaid'
  <2>1. timeline' \subseteq timeline \cup bus  BY <1>1
  <2> QED  BY <1>1, <1>6, <2>1 DEF PublishedIsPaid
<1>11. CountIsTimeline'
  <2> SUFFICES ASSUME NEW j \in Incidents
               PROVE  summary'[j].event_count
                        = Cardinality({x \in Events : <<x, j>> \in timeline' \ late'})
    BY DEF CountIsTimeline
  <2> DEFINE S == {x \in Events : <<x, j>> \in timeline \ late}
             T == {x \in Events : <<x, j>> \in timeline' \ late'}
  <2>1. summary[j].event_count = Cardinality(S) /\ IsFiniteSet(S)
    BY FS_Subset DEF CountIsTimeline
  <2>2. CASE j = i
    <3>1. e \notin S /\ <<e, i>> \notin late  BY <1>1, <2>2 DEF TypeOK
    <3>2. T = S \cup {e}  BY <1>1, <2>2, <3>1
    <3>3. Cardinality(T) = Cardinality(S) + 1
      <4> HIDE DEF S, T
      <4> QED  BY <2>1, <3>1, <3>2, FS_AddElement
    <3> QED  BY <1>3, <2>1, <2>2, <3>3
  <2>3. CASE j # i
    <3>1. T = S  BY <1>1, <1>8, <2>3
    <3> QED  BY <1>3, <2>1, <2>3, <3>1
  <2> QED  BY <2>2, <2>3
<1>12. NoResurrection'  BY <1>1, <1>3, <1>8 DEF NoResurrection, Marked
<1> QED  BY <1>5, <1>6, <1>7, <1>9, <1>10, <1>11, <1>12

LEMMA InvArchiveLate ==
  ASSUME IngressInv, NEW e \in Events, NEW i \in Incidents, ArchiveLate(e, i)
  PROVE  IngressInv'
<1> USE DEF IngressInv
<1>1. /\ <<e, i>> \in bus /\ ~Marked(i) /\ <<e, i>> \notin timeline /\ summary[i].resolved
      /\ timeline' = timeline \cup {<<e, i>>} /\ late' = late \cup {<<e, i>>}
      /\ UNCHANGED <<receipt, summary, marker, budget>> /\ UNCHANGED <<evidence, bus, worker>>
  BY DEF ArchiveLate, rows
<1>2. Forward  BY <1>1 DEF Forward, Bound, Marked
<1>3. worker' \in [Workers -> Call] /\ WorkersOK'  BY <1>1, <1>2, WorkersForward
<1>4. TypeOK'  BY <1>1, <1>3 DEF TypeOK
<1>5. ReceiptsOK' /\ ChargedOnce'  BY <1>1 DEF ReceiptsOK, ChargedOnce, Charged
<1>6. \A j \in Incidents, x \in Events :
        j # i => (<<x, j>> \in timeline' <=> <<x, j>> \in timeline)
  BY <1>1
<1>7. IncidentsOK'  BY <1>1, <1>6 DEF IncidentsOK, Charged
<1>8. PublishedIsPaid'
  <2>1. timeline' \subseteq timeline \cup bus  BY <1>1
  <2> QED  BY <1>1, <1>4, <2>1 DEF PublishedIsPaid
<1>9. CountIsTimeline'
  <2>1. timeline' \ late' = timeline \ late  BY <1>1
  <2> QED  BY <1>1, <2>1 DEF CountIsTimeline
<1>10. NoResurrection'  BY <1>1, <1>6 DEF NoResurrection, Marked
<1> QED  BY <1>3, <1>4, <1>5, <1>7, <1>8, <1>9, <1>10

-----------------------------------------------------------------------------
(* Operators and cleanup *)

LEMMA InvResolve ==
  ASSUME IngressInv, NEW i \in Incidents, Resolve(i)
  PROVE  IngressInv'
<1> USE DEF IngressInv
<1>1. /\ summary[i].present /\ summary' = [summary EXCEPT ![i].resolved = TRUE]
      /\ UNCHANGED <<receipt, marker, budget, evidence, bus, timeline, late, worker>>
  BY DEF Resolve, stores
<1>2. summary[i] \in Summary  BY DEF TypeOK
<1>3. /\ summary'[i] \in Summary /\ summary'[i].present
      /\ summary'[i].event_count = summary[i].event_count
      /\ summary'[i].deleting = summary[i].deleting
      /\ \A j \in Incidents : j # i => summary'[j] = summary[j]
  BY <1>1, <1>2 DEF TypeOK, Summary
<1>4. Forward  BY <1>1 DEF Forward, Bound, Marked
<1>5. worker' \in [Workers -> Call] /\ WorkersOK'  BY <1>1, <1>4, WorkersForward
<1>6. TypeOK'
  <2>1. summary' \in [Incidents -> Summary]  BY <1>1, <1>3 DEF TypeOK
  <2> QED  BY <1>1, <1>5, <2>1 DEF TypeOK
<1>7. ReceiptsOK' /\ ChargedOnce'  BY <1>1 DEF ReceiptsOK, ChargedOnce, Charged
<1>8. IncidentsOK'  BY <1>1, <1>3 DEF IncidentsOK, Charged
<1>9. PublishedIsPaid'  BY <1>1, <1>6 DEF PublishedIsPaid
<1>10. CountIsTimeline'  BY <1>1, <1>3 DEF CountIsTimeline
<1>11. NoResurrection'  BY <1>1, <1>3 DEF NoResurrection
<1> QED  BY <1>5, <1>6, <1>7, <1>8, <1>9, <1>10, <1>11

LEMMA InvRequestDeletion ==
  ASSUME IngressInv, NEW i \in Incidents, RequestDeletion(i)
  PROVE  IngressInv'
<1> USE DEF IngressInv
<1>1. /\ summary[i].present /\ ~Marked(i)
      /\ marker' = [marker EXCEPT ![i] = "pending"]
      /\ summary' = [summary EXCEPT ![i].deleting = TRUE]
      /\ UNCHANGED <<receipt, budget, evidence, bus, timeline, late, worker>>
  BY DEF RequestDeletion, stores
<1>2. summary[i] \in Summary  BY DEF TypeOK
<1>3. /\ summary'[i] \in Summary /\ summary'[i].present
      /\ summary'[i].event_count = summary[i].event_count /\ summary'[i].deleting
      /\ \A j \in Incidents : j # i => summary'[j] = summary[j]
  BY <1>1, <1>2 DEF TypeOK, Summary
<1>4. /\ marker'[i] = "pending" /\ marker[i] = "none"
      /\ \A j \in Incidents : j # i => marker'[j] = marker[j]
  BY <1>1 DEF TypeOK, Marked
<1>5. Forward  BY <1>1, <1>4 DEF Forward, Bound, Marked
<1>6. worker' \in [Workers -> Call] /\ WorkersOK'  BY <1>1, <1>5, WorkersForward
<1>7. TypeOK'
  <2>1. summary' \in [Incidents -> Summary]  BY <1>1, <1>3 DEF TypeOK
  <2>2. marker' \in [Incidents -> {"none", "pending", "completed"}]  BY <1>1 DEF TypeOK
  <2> QED  BY <1>1, <1>6, <2>1, <2>2 DEF TypeOK
<1>8. ReceiptsOK' /\ ChargedOnce'  BY <1>1 DEF ReceiptsOK, ChargedOnce, Charged
<1>9. IncidentsOK'  BY <1>1, <1>3, <1>4 DEF IncidentsOK, Charged
<1>10. PublishedIsPaid'  BY <1>1, <1>4, <1>7 DEF PublishedIsPaid
<1>11. CountIsTimeline'  BY <1>1, <1>3 DEF CountIsTimeline
<1>12. NoResurrection'  BY <1>1, <1>3, <1>4 DEF NoResurrection
<1> QED  BY <1>6, <1>7, <1>8, <1>9, <1>10, <1>11, <1>12

\* The purge takes everything of its incident away; whoever is still running
\* started after the request, so it holds no charge of that incident.
LEMMA InvPurge ==
  ASSUME IngressInv, NEW i \in Incidents, Purge(i)
  PROVE  IngressInv'
<1> USE IngressAssumption DEF IngressInv
<1>1. /\ marker[i] = "pending" /\ Drained(i)
      /\ evidence' = {x \in evidence : x[2] # i}
      /\ timeline' = {x \in timeline : x[2] # i}
      /\ late' = {x \in late : x[2] # i}
      /\ UNCHANGED <<bus, worker>>
  BY DEF Purge
<1>2. \A x \in Events : receipt'[x] = IF receipt[x].incident_id = i THEN Redacted ELSE receipt[x]
  BY DEF Purge
<1>3. /\ summary'[i] = NoSummary /\ budget'[i] = NoBudget /\ marker'[i] = "completed"
      /\ \A j \in Incidents : j # i => /\ summary'[j] = summary[j] /\ budget'[j] = budget[j]
                                       /\ marker'[j] = marker[j]
  BY DEF Purge, TypeOK
<1>4. Redacted \in Receipt /\ NoSummary \in Summary /\ NoBudget \in Budget
  BY DEF Redacted, NoReceipt, Receipt, NoSummary, Summary, NoBudget, Budget
<1>5. /\ Redacted.status = "deleted" /\ Redacted.incident_id = None /\ ~Redacted.quota_reserved
      /\ None # i
  BY DEF Redacted, NoReceipt
<1>6. /\ ~NoSummary.present /\ ~NoSummary.resolved /\ ~NoSummary.deleting
      /\ NoSummary.event_count = 0
      /\ ~NoBudget.present /\ NoBudget.used = 0 /\ NoBudget.ceiling = 0
  BY DEF NoSummary, NoBudget
<1>7. TypeOK'
  <2>1. receipt' \in [Events -> Receipt]  BY <1>4 DEF TypeOK, Purge
  <2>2. /\ summary' \in [Incidents -> Summary] /\ budget' \in [Incidents -> Budget]
        /\ marker' \in [Incidents -> {"none", "pending", "completed"}]
    BY <1>4 DEF TypeOK, Purge
  <2>3. /\ evidence' \subseteq Events \X Incidents /\ timeline' \subseteq Events \X Incidents
        /\ late' \subseteq timeline'
    BY <1>1 DEF TypeOK
  <2> QED  BY <1>1, <2>1, <2>2, <2>3 DEF TypeOK
<1>8. \A x \in Events, j \in Incidents :
        /\ <<x, j>> \in evidence' <=> <<x, j>> \in evidence /\ j # i
        /\ <<x, j>> \in timeline' <=> <<x, j>> \in timeline /\ j # i
        /\ <<x, j>> \in late' <=> <<x, j>> \in late /\ j # i
  BY <1>1
<1>9. \A x \in Events : receipt[x].status = "deleted" => receipt'[x] = receipt[x]
  BY <1>2, <1>5 DEF ReceiptsOK
<1>10. ASSUME NEW c \in Call, CallOK(c), c.pc # "idle" => i \in c.marked
       PROVE  CallOK(c)'
  <2> SUFFICES ASSUME c.pc # "idle" PROVE CallOK(c)'  BY DEF CallOK
  <2>1. c.event \in Events /\ c.target \in Targets  BY <1>10 DEF CallOK
  <2>2. \A j \in c.marked : j \in Incidents /\ Marked(j)  BY <1>10 DEF CallOK, Call
  <2>3. \A j \in c.marked : Marked(j)'  BY <1>3, <2>2 DEF Marked
  <2>4. c.target \in Incidents => c.target \notin c.marked /\ marker'[c.target] # "completed"
    BY <1>3, <1>10 DEF CallOK
  <2>5. c.pc = "marker" =>
          /\ c.incident \in Incidents
          /\ \/ Bound(c.event, c.incident)'
             \/ receipt'[c.event].status = "deleted" /\ marker'[c.incident] = "completed"
    <3> SUFFICES ASSUME c.pc = "marker"
                 PROVE  /\ c.incident \in Incidents
                        /\ \/ Bound(c.event, c.incident)'
                           \/ /\ receipt'[c.event].status = "deleted"
                              /\ marker'[c.incident] = "completed"
      OBVIOUS
    <3>1. c.incident \in Incidents  BY <1>10 DEF CallOK
    <3>2. CASE Bound(c.event, c.incident)  BY <1>2, <1>3, <1>5, <2>1, <3>1, <3>2 DEF Bound
    <3>3. CASE receipt[c.event].status = "deleted" /\ marker[c.incident] = "completed"
      BY <1>1, <1>3, <1>9, <2>1, <3>1, <3>3
    <3> QED  BY <1>10, <3>1, <3>2, <3>3 DEF CallOK
  <2>6. c.pc \in Charging =>
          /\ c.incident \in Incidents /\ c.incident \notin c.marked
          /\ marker'[c.incident] # "completed" /\ Bound(c.event, c.incident)'
          /\ receipt'[c.event] = receipt[c.event]
    BY <1>2, <1>3, <1>10, <2>1 DEF CallOK, Bound
  <2>7. c.pc \in Paid => receipt'[c.event].quota_reserved
    BY <1>10, <2>6 DEF CallOK, Charging, Paid
  <2>8. /\ c.pc = "confirm" => <<c.event, c.incident>> \in bus'
        /\ c.pc = "reserve" => c.target = Automatic
        /\ c.pc \in {"explicit", "put"} => c.target \in Incidents
    BY <1>1, <1>10 DEF CallOK
  <2> QED  BY <2>1, <2>3, <2>4, <2>5, <2>6, <2>7, <2>8 DEF CallOK
<1>11. WorkersOK'
  <2> SUFFICES ASSUME NEW v \in Workers PROVE CallOK(worker[v])'  BY DEF WorkersOK
  <2>1. PICK c \in Call : c = worker[v]  BY DEF TypeOK
  <2>2. CallOK(c) /\ (c.pc # "idle" => i \in c.marked)
    BY <1>1, <2>1 DEF WorkersOK, Drained
  <2>3. CallOK(c)'  BY <1>10, <2>2
  <2>4. c = worker'[v]  BY <1>1, <2>1
  <2> QED  BY <2>3, <2>4 DEF CallOK
<1>12. ReceiptsOK'  BY <1>1, <1>2, <1>5 DEF ReceiptsOK
<1>13. Charged(i)' = {} /\ \A j \in Incidents : j # i => Charged(j)' = Charged(j)
  BY <1>2, <1>5 DEF Charged
<1>14. IncidentsOK'
  <2> SUFFICES ASSUME NEW j \in Incidents
               PROVE  /\ summary'[j].deleting <=> marker'[j] = "pending"
                      /\ ~summary'[j].present =>
                           /\ ~summary'[j].resolved /\ summary'[j].event_count = 0
                           /\ \A x \in Events : <<x, j>> \notin timeline'
                      /\ ~budget'[j].present =>
                           budget'[j].used = 0 /\ budget'[j].ceiling = 0 /\ Charged(j)' = {}
    BY DEF IncidentsOK
  <2>1. CASE j = i  BY <1>3, <1>6, <1>8, <1>13, <2>1
  <2>2. CASE j # i  BY <1>3, <1>8, <1>13, <2>2 DEF IncidentsOK
  <2> QED  BY <2>1, <2>2
<1>15. ChargedOnce'  BY <1>3, <1>6, <1>13 DEF ChargedOnce
<1>16. PublishedIsPaid'
  <2> SUFFICES ASSUME NEW x \in Events, NEW j \in Incidents,
                      <<x, j>> \in evidence' \cup bus' \cup timeline'
               PROVE  \/ receipt'[x].incident_id = j /\ receipt'[x].quota_reserved
                      \/ receipt'[x].status = "deleted" /\ marker'[j] = "completed"
    BY <1>7 DEF PublishedIsPaid
  <2>1. \/ receipt[x].incident_id = j /\ receipt[x].quota_reserved
        \/ receipt[x].status = "deleted" /\ marker[j] = "completed"
    BY <1>1, <1>8 DEF PublishedIsPaid
  <2> QED  BY <1>1, <1>2, <1>3, <1>5, <1>9, <2>1
<1>17. CountIsTimeline'
  <2> SUFFICES ASSUME NEW j \in Incidents
               PROVE  summary'[j].event_count
                        = Cardinality({x \in Events : <<x, j>> \in timeline' \ late'})
    BY DEF CountIsTimeline
  <2>1. CASE j = i
    <3>1. {x \in Events : <<x, j>> \in timeline' \ late'} = {}  BY <1>8, <2>1
    <3> QED  BY <1>3, <1>6, <2>1, <3>1, FS_EmptySet
  <2>2. CASE j # i
    <3>1. {x \in Events : <<x, j>> \in timeline' \ late'}
            = {x \in Events : <<x, j>> \in timeline \ late}
      BY <1>8, <2>2
    <3> QED  BY <1>3, <2>2, <3>1 DEF CountIsTimeline
  <2> QED  BY <2>1, <2>2
<1>18. NoResurrection'  BY <1>2, <1>3, <1>5, <1>6, <1>8 DEF NoResurrection
<1> QED  BY <1>7, <1>11, <1>12, <1>14, <1>15, <1>16, <1>17, <1>18

-----------------------------------------------------------------------------
(* The theorems *)

LEMMA InvNext == IngressInv /\ [Next]_vars => IngressInv'
<1> SUFFICES ASSUME IngressInv, [Next]_vars PROVE IngressInv'  OBVIOUS
<1>1. CASE UNCHANGED vars
  <2>1. UNCHANGED <<rows, stores>> /\ UNCHANGED worker  BY <1>1 DEF vars, rows, stores
  <2>2. ASSUME NEW w \in Workers PROVE IngressInv'
    <3>1. PICK c \in Call : c = worker[w]  BY DEF IngressInv, TypeOK
    <3>2. CallOK(c)  BY <3>1 DEF IngressInv, WorkersOK
    <3>3. worker' = [worker EXCEPT ![w] = c]  BY <2>1, <3>1 DEF IngressInv, TypeOK
    <3> QED  BY <2>1, <3>2, <3>3, QuietStep
  <2>3. CASE Workers = {}
    BY <1>1, <2>3 DEF vars, IngressInv, TypeOK, WorkersOK, ReceiptsOK, IncidentsOK, ChargedOnce,
                      Charged, PublishedIsPaid, CountIsTimeline, NoResurrection
  <2> QED  BY <2>2, <2>3
<1>2. ASSUME NEW w \in Workers, Ingest(w) PROVE IngressInv'
  <2>1. CASE \E e \in Events, t \in Targets : Receive(w, e, t)  BY <2>1, InvReceive
  <2>2. CASE ReadReceipt(w)  BY <2>2, InvReadReceipt
  <2>3. CASE Reserve(w)  BY <2>3, InvReserve
  <2>4. CASE PutExplicit(w)  BY <2>4, InvPutExplicit
  <2>5. CASE OpenMeter(w)  BY <2>5, InvOpenMeter
  <2>6. CASE Spend(w)  BY <2>6, InvSpend
  <2>7. CASE StoreEvidence(w) \/ Publish(w)  BY <2>7, InvPublication
  <2>8. CASE Confirm(w)  BY <2>8, InvConfirm
  <2>9. CASE CheckExplicit(w) \/ CheckMarker(w) \/ ReadQuota(w) \/ RereadQuota(w) \/ Stop(w)
    BY <2>9, InvQuiet
  <2> QED  BY <1>2, <2>1, <2>2, <2>3, <2>4, <2>5, <2>6, <2>7, <2>8, <2>9 DEF Ingest
<1>3. ASSUME NEW e \in Events, NEW i \in Incidents, RecordEvidence(e, i) \/ ArchiveLate(e, i)
      PROVE  IngressInv'
  BY <1>3, InvRecordEvidence, InvArchiveLate
<1>4. ASSUME NEW i \in Incidents, Operate(i) PROVE IngressInv'
  BY <1>4, InvResolve, InvRequestDeletion, InvExtendBudget, InvPurge DEF Operate
<1> QED  BY <1>1, <1>2, <1>3, <1>4 DEF Next

\* Receipts, meters, bus, timelines and what each call remembers of them agree in
\* every reachable state, whatever calls were cut short or repeated (ingest, correlate).
THEOREM IngressCorrect == Spec => []IngressInv
  BY InvInit, InvNext, PTL DEF Spec

\* The meter of an incident is the number of its charged receipts, within its
\* ceiling (ingest charge, its transaction and the retries around it).
THEOREM ChargedOnceAlways == Spec => []ChargedOnce
<1>1. IngressInv => ChargedOnce  BY DEF IngressInv
<1> QED  BY <1>1, IngressCorrect, PTL

\* Nothing is stored, published or counted that is not paid for by the incident
\* it is in (ingest charge before evidence and publication).
THEOREM PublishedIsPaidAlways == Spec => []PublishedIsPaid
<1>1. IngressInv => PublishedIsPaid  BY DEF IngressInv
<1> QED  BY <1>1, IngressCorrect, PTL

\* event_count counts every signal on the timeline once (correlate).
THEOREM CountIsTimelineAlways == Spec => []CountIsTimeline
<1>1. IngressInv => CountIsTimeline  BY DEF IngressInv
<1> QED  BY <1>1, IngressCorrect, PTL

\* What a purge removed stays removed (cleanup, against ingest and correlate).
THEOREM NoResurrectionAlways == Spec => []NoResurrection
<1>1. IngressInv => NoResurrection  BY DEF IngressInv
<1> QED  BY <1>1, IngressCorrect, PTL

\* The conditions of one of correlate's two transactions hold.
CanDeliver(e, i) ==
  /\ <<e, i>> \in bus /\ ~Marked(i) /\ <<e, i>> \notin timeline
  /\ ~Closed(i) \/ summary[i].resolved

AcceptedCanBeDelivered ==
  \A e \in Events, i \in Incidents :
    receipt[e].status = "published" /\ receipt[e].incident_id = i =>
      <<e, i>> \in timeline \/ Marked(i) \/ CanDeliver(e, i)

\* A signal answered 202 is on the bus; unless it has been counted or archived, or its
\* incident is being deleted, correlate can deliver it: AcceptedIsKept with its ENABLED
\* spelt out (ingest publishes before it answers; the bus redelivers).
THEOREM AcceptedIsDeliverable == Spec => []AcceptedCanBeDelivered
<1>1. IngressInv => AcceptedCanBeDelivered
  BY DEF IngressInv, AcceptedCanBeDelivered, CanDeliver, ReceiptsOK, IncidentsOK, Closed, Marked
<1> QED  BY <1>1, IngressCorrect, PTL

\* A closed incident is frozen until its purge (the conditions of charge, of
\* extend and of correlate on resolved_at and deletion_started_at).
THEOREM ClosedStaysFrozen == Spec => ClosedIsFrozen
<1> DEFINE Frozen == \A i \in Incidents : Closed(i) /\ marker'[i] # "completed" =>
                       /\ Closed(i)'
                       /\ summary'[i].event_count = summary[i].event_count
                       /\ budget'[i].used = budget[i].used
<1>1. ASSUME IngressInv, [Next]_vars PROVE [Frozen]_vars
  <2> USE <1>1, IngressAssumption DEF IngressInv, Frozen, Closed
  <2>1. CASE UNCHANGED vars  BY <2>1
  <2>2. CASE UNCHANGED <<summary, budget>>  BY <2>2
  <2>3. ASSUME NEW w \in Workers, Reserve(w) PROVE Frozen
    <3>1. UNCHANGED <<marker, budget, stores>>  BY <2>3 DEF Reserve
    <3>2. CASE UNCHANGED summary  BY <3>1, <3>2
    <3>3. CASE ~UNCHANGED summary
      <4>1. PICK i \in Incidents :
              /\ ~summary[i].present /\ ~Marked(i)
              /\ \E s : summary' = [summary EXCEPT ![i] = s]
        BY <2>3, <3>3 DEF Reserve
      <4>2. ~Closed(i)  BY <4>1 DEF IncidentsOK, Marked
      <4>3. \A j \in Incidents : j # i => summary'[j] = summary[j]  BY <4>1 DEF TypeOK
      <4> QED  BY <3>1, <4>2, <4>3
    <3> QED  BY <3>2, <3>3
  <2>4. ASSUME NEW w \in Workers, OpenMeter(w) PROVE Frozen
    <3>1. UNCHANGED summary  BY <2>4 DEF OpenMeter
    <3>2. CASE UNCHANGED budget  BY <3>1, <3>2
    <3>3. CASE ~UNCHANGED budget
      <4>1. PICK b : b = [present |-> TRUE, used |-> 0, ceiling |-> DefaultLimit]  OBVIOUS
      <4>2. /\ ~budget[worker[w].incident].present
            /\ budget' = [budget EXCEPT ![worker[w].incident] = b]
        BY <2>4, <3>3, <4>1 DEF OpenMeter
      <4>3. \A i \in Incidents : budget'[i].used = budget[i].used
        BY <4>1, <4>2 DEF TypeOK, IncidentsOK
      <4> QED  BY <3>1, <4>3
    <3> QED  BY <3>2, <3>3
  <2>5. ASSUME NEW w \in Workers, Spend(w) PROVE Frozen
    <3>1. UNCHANGED summary  BY <2>5 DEF Spend
    <3>2. CASE UNCHANGED budget  BY <3>1, <3>2
    <3>3. CASE ~UNCHANGED budget
      <4>1. ~Closed(worker[w].incident)  BY <2>5, <3>3 DEF Spend, Affordable
      <4>2. \A i \in Incidents : i # worker[w].incident => budget'[i] = budget[i]
        BY <2>5, <3>3 DEF Spend, TypeOK
      <4> QED  BY <3>1, <4>1, <4>2
    <3> QED  BY <3>2, <3>3
  <2>6. ASSUME NEW e \in Events, NEW i \in Incidents, RecordEvidence(e, i) PROVE Frozen
    <3>1. ~Closed(i) /\ UNCHANGED budget  BY <2>6 DEF RecordEvidence
    <3>2. \A j \in Incidents : j # i => summary'[j] = summary[j]
      BY <2>6 DEF RecordEvidence, TypeOK
    <3> QED  BY <3>1, <3>2
  <2>7. ASSUME NEW i \in Incidents, Resolve(i) PROVE Frozen
    <3>1. ~Closed(i) /\ UNCHANGED budget  BY <2>7 DEF Resolve
    <3>2. \A j \in Incidents : j # i => summary'[j] = summary[j]  BY <2>7 DEF Resolve, TypeOK
    <3> QED  BY <3>1, <3>2
  <2>8. ASSUME NEW i \in Incidents, RequestDeletion(i) PROVE Frozen
    <3>1. UNCHANGED budget  BY <2>8 DEF RequestDeletion
    <3>2. \A j \in Incidents : j # i => summary'[j] = summary[j]
      BY <2>8 DEF RequestDeletion, TypeOK
    <3>3. summary'[i].deleting /\ summary'[i].event_count = summary[i].event_count
      BY <2>8 DEF RequestDeletion, TypeOK, Summary
    <3> QED  BY <3>1, <3>2, <3>3
  <2>9. ASSUME NEW i \in Incidents, NEW limit \in Nat, ExtendBudget(i, limit) PROVE Frozen
    <3>1. ~Closed(i) /\ UNCHANGED summary  BY <2>9 DEF ExtendBudget
    <3>2. \A j \in Incidents : j # i => budget'[j] = budget[j]
      BY <2>9 DEF ExtendBudget, TypeOK
    <3> QED  BY <3>1, <3>2
  <2>10. ASSUME NEW i \in Incidents, Purge(i) PROVE Frozen
    BY <2>10 DEF Purge, TypeOK
  <2>11. ASSUME NEW w \in Workers, Ingest(w) PROVE Frozen
    <3>1. CASE Reserve(w) \/ OpenMeter(w) \/ Spend(w)  BY <2>3, <2>4, <2>5, <3>1
    <3>2. CASE ~(Reserve(w) \/ OpenMeter(w) \/ Spend(w))
      BY <2>2, <2>11, <3>2 DEF Ingest, Receive, ReadReceipt, CheckExplicit, PutExplicit,
         CheckMarker, ReadQuota, RereadQuota, StoreEvidence, Publish, Confirm, Stop, rows
    <3> QED  BY <3>1, <3>2
  <2>12. ASSUME NEW e \in Events, NEW i \in Incidents, ArchiveLate(e, i) PROVE Frozen
    BY <2>2, <2>12 DEF ArchiveLate, rows
  <2>13. ASSUME NEW i \in Incidents, Operate(i) PROVE Frozen
    BY <2>7, <2>8, <2>9, <2>10, <2>13 DEF Operate
  <2> HIDE DEF Frozen
  <2> QED  BY <2>1, <2>6, <2>11, <2>12, <2>13 DEF Next
<1>2. []IngressInv /\ [][Next]_vars => [][Frozen]_vars  BY <1>1, PTL
<1> QED  BY <1>2, IngressCorrect DEF Spec, ClosedIsFrozen

\* A receipt only moves forward and stays bound to its incident (the
\* conditional puts of ingest, its unconditional confirmation, the redaction).
THEOREM ReceiptOnlyMovesForward == Spec => ReceiptMovesForward
<1> DEFINE Onward ==
      \A e \in Events :
        /\ receipt[e].status = "deleted" => receipt'[e] = receipt[e]
        /\ receipt[e].status = "published" => receipt'[e].status \in {"published", "deleted"}
        /\ receipt[e].status # "absent" /\ receipt'[e].status # "deleted" =>
             /\ receipt'[e].incident_id = receipt[e].incident_id
             /\ receipt[e].quota_reserved => receipt'[e].quota_reserved
<1>1. ASSUME IngressInv, [Next]_vars PROVE [Onward]_vars
  <2> USE <1>1, IngressAssumption DEF IngressInv, Onward
  <2>1. CASE UNCHANGED receipt  BY <2>1
  <2>2. ASSUME NEW w \in Workers, Reserve(w) \/ PutExplicit(w) PROVE Onward
    <3>1. CASE ~UNCHANGED receipt
      <4>1. /\ receipt[worker[w].event].status = "absent"
            /\ \E r : receipt' = [receipt EXCEPT ![worker[w].event] = r]
        BY <2>2, <3>1 DEF Reserve, PutExplicit
      <4>2. \A e \in Events : receipt[e].status # "absent" => receipt'[e] = receipt[e]
        BY <4>1 DEF TypeOK
      <4> QED  BY <4>2
    <3> QED  BY <2>1, <3>1
  <2>3. ASSUME NEW w \in Workers, Spend(w) PROVE Onward
    <3>1. CASE ~UNCHANGED receipt
      <4>1. /\ Affordable(w)
            /\ receipt' = [receipt EXCEPT ![worker[w].event].quota_reserved = TRUE]
        BY <2>3, <3>1 DEF Spend
      <4>2. receipt[worker[w].event].status # "deleted"  BY <4>1 DEF Affordable
      <4>3. \A e \in Events :
              \/ receipt'[e] = receipt[e]
              \/ /\ receipt[e].status # "deleted" /\ receipt'[e].status = receipt[e].status
                 /\ receipt'[e].incident_id = receipt[e].incident_id
                 /\ receipt'[e].quota_reserved
        BY <4>1, <4>2 DEF TypeOK, Receipt
      <4> QED  BY <4>3
    <3> QED  BY <2>1, <3>1
  <2>4. ASSUME NEW w \in Workers, Confirm(w) PROVE Onward
    <3>1. worker[w].pc \in Paid  BY <2>4 DEF Confirm, Paid
    <3>2. PICK x \in Events : x = worker[w].event /\ receipt[x].status # "deleted"
      BY <3>1, PaidCall DEF Bound
    <3>3. receipt' = [receipt EXCEPT ![x].status = "published"]  BY <2>4, <3>2 DEF Confirm
    <3>4. \A e \in Events :
            \/ receipt'[e] = receipt[e]
            \/ /\ receipt[e].status # "deleted" /\ receipt'[e].status = "published"
               /\ receipt'[e].incident_id = receipt[e].incident_id
               /\ receipt'[e].quota_reserved = receipt[e].quota_reserved
      BY <3>2, <3>3 DEF TypeOK, Receipt
    <3> QED  BY <3>4
  <2>5. ASSUME NEW i \in Incidents, Purge(i) PROVE Onward
    <3>1. Redacted.status = "deleted"  BY DEF Redacted, NoReceipt
    <3>2. \A e \in Events :
            \/ receipt'[e] = receipt[e]
            \/ receipt[e].incident_id = i /\ receipt'[e].status = "deleted"
      BY <2>5, <3>1 DEF Purge
    <3> QED  BY <3>2 DEF ReceiptsOK
  <2>6. ASSUME NEW w \in Workers, Ingest(w) PROVE Onward
    <3>1. CASE Reserve(w) \/ PutExplicit(w) \/ Spend(w) \/ Confirm(w)
      BY <2>2, <2>3, <2>4, <3>1
    <3>2. CASE ~(Reserve(w) \/ PutExplicit(w) \/ Spend(w) \/ Confirm(w))
      BY <2>1, <2>6, <3>2 DEF Ingest, Receive, ReadReceipt, CheckExplicit, OpenMeter,
         CheckMarker, ReadQuota, RereadQuota, StoreEvidence, Publish, Stop, rows
    <3> QED  BY <3>1, <3>2
  <2>7. ASSUME NEW e \in Events, NEW i \in Incidents, RecordEvidence(e, i) \/ ArchiveLate(e, i)
        PROVE  Onward
    BY <2>1, <2>7 DEF RecordEvidence, ArchiveLate, rows
  <2>8. ASSUME NEW i \in Incidents, Operate(i) PROVE Onward
    BY <2>1, <2>5, <2>8 DEF Operate, Resolve, RequestDeletion, ExtendBudget
  <2>9. CASE UNCHANGED vars  BY <2>1, <2>9 DEF vars
  <2> HIDE DEF Onward
  <2> QED  BY <2>6, <2>7, <2>8, <2>9 DEF Next
<1>2. []IngressInv /\ [][Next]_vars => [][Onward]_vars  BY <1>1, PTL
<1> QED  BY <1>2, IngressCorrect DEF Spec, ReceiptMovesForward

=============================================================================
