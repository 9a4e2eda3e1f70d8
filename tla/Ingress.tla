------------------------------- MODULE Ingress ------------------------------
(***************************************************************************)
(* The path of a simulated signal: the ingest handler, its receipt, the    *)
(* simulation allowance it is charged to, its evidence object, the event   *)
(* bus, and correlation, which counts it into its incident or archives it; *)
(* with resolution, deletion, purge and limit changes happening at once.   *)
(*                                                                         *)
(* A worker is one invocation of functions/ingest/handler.py at a time and *)
(* may stop for good between any two steps; clients retry with the same    *)
(* event identity as often as they like.  Automatic assignment is one step *)
(* here: IncidentEngine is shown to implement it.                          *)
(***************************************************************************)
EXTENDS Naturals, FiniteSets

CONSTANTS Workers,      \* concurrent invocations of the ingest handler
          Events,       \* signals, by idempotency key
          Incidents,    \* incident identities (UUIDs)
          Routes,       \* location and hazard family, as one key
          RouteOf,      \* the route of a signal
          None,
          Automatic,    \* request_target of an event without incident_id
          DefaultLimit, \* ceiling a new allowance starts with (2000)
          MaxLimit      \* ceiling an operator can raise it to (10000)

ASSUME IngressAssumption ==
  /\ None \notin Incidents \cup Events \cup Routes \cup {Automatic}
  /\ Automatic \notin Incidents
  /\ RouteOf \in [Events -> Routes]
  /\ DefaultLimit \in Nat /\ MaxLimit \in Nat /\ DefaultLimit <= MaxLimit
  /\ IsFiniteSet(Events)

VARIABLES
  receipt,  \* INGEST#key rows
  summary,  \* INCIDENT#id rows
  marker,   \* DELETED#id rows: "none", "pending" or "completed"
  budget,   \* SIMBUDGET#id rows
  evidence, \* evidence objects, as <<event, incident>>
  bus,      \* published messages: delivered at any time, any number of times
  timeline, \* EVENT# rows, as <<event, incident>>
  late,     \* those of them archived as late_after_resolution
  worker    \* the invocation each worker is executing

rows == <<receipt, summary, marker, budget>>
stores == <<evidence, bus, timeline, late>>
vars == <<receipt, summary, marker, budget, evidence, bus, timeline, late, worker>>

-----------------------------------------------------------------------------
Targets == Incidents \cup {Automatic}

\* A receipt row; a redacted one keeps nothing but its status.
Receipt == [status : {"absent", "pending", "published", "deleted"},
            incident_id : Incidents \cup {None},
            target : Targets \cup {None},
            quota_reserved : BOOLEAN]

NoReceipt == [status |-> "absent", incident_id |-> None, target |-> None,
              quota_reserved |-> FALSE]
Redacted == [NoReceipt EXCEPT !.status = "deleted"]
Reserved(i, t) == [status |-> "pending", incident_id |-> i, target |-> t,
                   quota_reserved |-> FALSE]

Summary == [present : BOOLEAN, route_key : Routes \cup {None}, event_count : Nat,
            resolved : BOOLEAN, deleting : BOOLEAN]

NoSummary == [present |-> FALSE, route_key |-> None, event_count |-> 0,
              resolved |-> FALSE, deleting |-> FALSE]

Budget == [present : BOOLEAN, used : Nat, ceiling : Nat]
NoBudget == [present |-> FALSE, used |-> 0, ceiling |-> 0]

\* The conditions attribute_not_exists(resolved_at) and (deletion_started_at),
\* which a row that does not exist satisfies.
Closed(i) == summary[i].resolved \/ summary[i].deleting
Marked(i) == marker[i] # "none"

\* A call of the handler: what it was sent and what it has read so far, and
\* which incidents were already marked for deletion when it started.
Idle == [pc |-> "idle", event |-> None, target |-> None, incident |-> None,
         status |-> "absent", marked |-> {}]

Init ==
  /\ receipt = [e \in Events |-> NoReceipt]
  /\ summary = [i \in Incidents |-> NoSummary]
  /\ marker = [i \in Incidents |-> "none"]
  /\ budget = [i \in Incidents |-> NoBudget]
  /\ evidence = {} /\ bus = {} /\ timeline = {} /\ late = {}
  /\ worker = [w \in Workers |-> Idle]

-----------------------------------------------------------------------------
(* The ingest handler *)

\* The handler answers, or the invocation dies: nothing of it is left.
Answer(w) == worker' = [worker EXCEPT ![w] = Idle]
Goto(w, label) == worker' = [worker EXCEPT ![w].pc = label]

\* The handler was called; an explicit target already deleted is refused.
Receive(w, e, t) ==
  /\ worker[w].pc = "idle"
  /\ t # Automatic => ~Marked(t)
  /\ worker' = [worker EXCEPT ![w] = [pc |-> "receipt", event |-> e, target |-> t,
       incident |-> None, status |-> "absent", marked |-> {i \in Incidents : Marked(i)}]]
  /\ UNCHANGED <<rows, stores>>

\* What the handler does with a receipt it found, was given or collided with.
Consider(w, rec) ==
  IF rec.status = "deleted" \/ rec.target # worker[w].target
  THEN Answer(w)
  ELSE worker' = [worker EXCEPT ![w].pc = "marker", ![w].incident = rec.incident_id,
                                ![w].status = rec.status]

ReadReceipt(w) ==
  LET rec == receipt[worker[w].event] IN
  /\ worker[w].pc = "receipt"
  /\ IF rec.status # "absent" THEN Consider(w, rec)
     ELSE Goto(w, IF worker[w].target = Automatic THEN "reserve" ELSE "explicit")
  /\ UNCHANGED <<rows, stores>>

\* reserve: the receipt that is there, or one bound to the open incident of
\* the route, or one bound to a new incident.
Reserve(w) ==
  LET e == worker[w].event
      current == {i \in Incidents : /\ summary[i].present /\ ~Closed(i)
                                    /\ summary[i].route_key = RouteOf[e]} IN
  /\ worker[w].pc = "reserve"
  /\ \/ /\ receipt[e].status # "absent"
        /\ Consider(w, receipt[e])
        /\ UNCHANGED <<receipt, summary>>
     \/ /\ receipt[e].status = "absent"
        /\ \E i \in Incidents :
             /\ IF current # {} THEN i \in current /\ UNCHANGED summary
                ELSE /\ ~summary[i].present /\ ~Marked(i)
                     /\ \A x \in Events : receipt[x].target # i
                     /\ \A v \in Workers : worker[v].target # i
                     /\ summary' = [summary EXCEPT ![i] = [NoSummary EXCEPT
                                      !.present = TRUE, !.route_key = RouteOf[e]]]
             /\ receipt' = [receipt EXCEPT ![e] = Reserved(i, Automatic)]
             /\ Consider(w, Reserved(i, Automatic))
  /\ UNCHANGED <<marker, budget, stores>>

\* An explicit target must be open and of the same route, as far as known;
\* by the time the receipt is written it may not be.
CheckExplicit(w) ==
  LET s == summary[worker[w].target] IN
  /\ worker[w].pc = "explicit"
  /\ IF s.resolved \/ s.route_key \notin {None, RouteOf[worker[w].event]}
     THEN Answer(w)
     ELSE Goto(w, "put")
  /\ UNCHANGED <<rows, stores>>

\* (defect) The put has no condition.
PutExplicit_Overwrite(w) ==
  LET t == worker[w].target IN
  /\ worker[w].pc = "put"
  /\ receipt' = [receipt EXCEPT ![worker[w].event] = Reserved(t, t)]
  /\ worker' = [worker EXCEPT ![w].pc = "charge", ![w].incident = t, ![w].status = "pending"]
  /\ UNCHANGED <<summary, marker, budget, stores>>

\* The conditional put of the receipt; a receipt written meanwhile is reread.
PutExplicit(w) ==
  LET e == worker[w].event
      t == worker[w].target IN
  /\ worker[w].pc = "put"
  /\ IF receipt[e].status = "absent"
     THEN /\ receipt' = [receipt EXCEPT ![e] = Reserved(t, t)]
          /\ worker' = [worker EXCEPT ![w].pc = "charge", ![w].incident = t,
                                      ![w].status = "pending"]
     ELSE Consider(w, receipt[e]) /\ UNCHANGED receipt
  /\ UNCHANGED <<summary, marker, budget, stores>>

\* An event of a deleted incident is refused; one already published is a
\* duplicate.  The receipt's status is the one read earlier.
CheckMarker(w) ==
  /\ worker[w].pc = "marker"
  /\ IF Marked(worker[w].incident) \/ worker[w].status = "published"
     THEN Answer(w)
     ELSE Goto(w, "charge")
  /\ UNCHANGED <<rows, stores>>

-----------------------------------------------------------------------------
(* charge *)

ReadQuota(w) ==
  /\ worker[w].pc = "charge"
  /\ Goto(w, IF receipt[worker[w].event].quota_reserved THEN "store" ELSE "meter")
  /\ UNCHANGED <<rows, stores>>

\* Creates the allowance if it is not there.
OpenMeter(w) ==
  LET i == worker[w].incident IN
  /\ worker[w].pc = "meter"
  /\ budget' = IF budget[i].present THEN budget
               ELSE [budget EXCEPT ![i] = [present |-> TRUE, used |-> 0,
                                           ceiling |-> DefaultLimit]]
  /\ Goto(w, "spend")
  /\ UNCHANGED <<receipt, summary, marker, stores>>

\* (defect) A receipt already charged is charged again.
Affordable_Twice(w) ==
  LET i == worker[w].incident
      rec == receipt[worker[w].event] IN
  /\ ~Closed(i)
  /\ budget[i].used < budget[i].ceiling
  /\ rec.status \notin {"absent", "deleted"}

\* (defect) A closed incident goes on being charged.
Affordable_Closed(w) ==
  LET i == worker[w].incident
      rec == receipt[worker[w].event] IN
  /\ budget[i].used < budget[i].ceiling
  /\ rec.status \notin {"absent", "deleted"} /\ ~rec.quota_reserved

\* One transaction spends one unit and marks the receipt as charged.
Affordable(w) ==
  LET i == worker[w].incident
      rec == receipt[worker[w].event] IN
  /\ ~Closed(i)
  /\ budget[i].used < budget[i].ceiling
  /\ rec.status \notin {"absent", "deleted"} /\ ~rec.quota_reserved

Spend(w) ==
  LET i == worker[w].incident IN
  /\ worker[w].pc = "spend"
  /\ IF Affordable(w)
     THEN /\ budget' = [budget EXCEPT ![i].used = @ + 1]
          /\ receipt' = [receipt EXCEPT ![worker[w].event].quota_reserved = TRUE]
          /\ Goto(w, "store")
     ELSE /\ UNCHANGED <<budget, receipt>>
          /\ Goto(w, "reread")
  /\ UNCHANGED <<summary, marker, stores>>

\* (defect) A cancelled charge is taken for a paid one.
RereadQuota_Trusting(w) ==
  /\ worker[w].pc = "reread"
  /\ Goto(w, "store")
  /\ UNCHANGED <<rows, stores>>

\* After a cancelled transaction: another invocation may have paid.
RereadQuota(w) ==
  /\ worker[w].pc = "reread"
  /\ IF receipt[worker[w].event].quota_reserved THEN Goto(w, "store") ELSE Answer(w)
  /\ UNCHANGED <<rows, stores>>

-----------------------------------------------------------------------------
(* publication *)

StoreEvidence(w) ==
  /\ worker[w].pc = "store"
  /\ evidence' = evidence \cup {<<worker[w].event, worker[w].incident>>}
  /\ Goto(w, "publish")
  /\ UNCHANGED <<rows, bus, timeline, late>>

\* A failed publication is answered 503, which Stop also allows.
Publish(w) ==
  /\ worker[w].pc = "publish"
  /\ bus' = bus \cup {<<worker[w].event, worker[w].incident>>}
  /\ Goto(w, "confirm")
  /\ UNCHANGED <<rows, evidence, timeline, late>>

\* The update of the receipt has no condition.
Confirm(w) ==
  /\ worker[w].pc = "confirm"
  /\ receipt' = [receipt EXCEPT ![worker[w].event].status = "published"]
  /\ Answer(w)
  /\ UNCHANGED <<summary, marker, budget, stores>>

\* A refusal that writes nothing (a delayed alert, contention, a failed
\* publication), a timeout, or the end of the process.
Stop(w) ==
  /\ worker[w].pc # "idle"
  /\ Answer(w)
  /\ UNCHANGED <<rows, stores>>

Ingest(w) ==
  \/ \E e \in Events, t \in Targets : Receive(w, e, t)
  \/ ReadReceipt(w) \/ Reserve(w) \/ CheckExplicit(w) \/ PutExplicit(w) \/ CheckMarker(w)
  \/ ReadQuota(w) \/ OpenMeter(w) \/ Spend(w) \/ RereadQuota(w)
  \/ StoreEvidence(w) \/ Publish(w) \/ Confirm(w)
  \/ Stop(w)

-----------------------------------------------------------------------------
(* correlation *)

\* (defect) The EVENT row is put without a condition.
RecordEvidence_Recount(e, i) ==
  /\ <<e, i>> \in bus
  /\ ~Marked(i)
  /\ ~Closed(i)
  /\ timeline' = timeline \cup {<<e, i>>}
  /\ summary' = [summary EXCEPT ![i].event_count = @ + 1, ![i].present = TRUE]
  /\ UNCHANGED <<receipt, marker, budget, evidence, bus, late, worker>>

\* The first transaction of correlate: a new EVENT row and the count, created
\* if need be, of an incident neither marked, resolved nor being deleted.
RecordEvidence(e, i) ==
  /\ <<e, i>> \in bus
  /\ ~Marked(i)
  /\ <<e, i>> \notin timeline
  /\ ~Closed(i)
  /\ timeline' = timeline \cup {<<e, i>>}
  /\ summary' = [summary EXCEPT ![i].event_count = @ + 1, ![i].present = TRUE]
  /\ UNCHANGED <<receipt, marker, budget, evidence, bus, late, worker>>

\* (defect) What comes after the resolution is dropped.
ArchiveLate_Dropped(e, i) == FALSE /\ UNCHANGED vars

\* Accepted before the resolution but delivered after it: kept, not counted.
ArchiveLate(e, i) ==
  /\ <<e, i>> \in bus
  /\ ~Marked(i)
  /\ <<e, i>> \notin timeline
  /\ summary[i].resolved
  /\ timeline' = timeline \cup {<<e, i>>}
  /\ late' = late \cup {<<e, i>>}
  /\ UNCHANGED <<rows, evidence, bus, worker>>

-----------------------------------------------------------------------------
(* operators and cleanup *)

\* The operator confirmed the present evidence revision (IncidentEngine has
\* the race in which it moves on).
Resolve(i) ==
  /\ summary[i].present /\ ~Closed(i)
  /\ summary' = [summary EXCEPT ![i].resolved = TRUE]
  /\ UNCHANGED <<receipt, marker, budget, stores, worker>>

RequestDeletion(i) ==
  /\ summary[i].present /\ ~Marked(i)
  /\ marker' = [marker EXCEPT ![i] = "pending"]
  /\ summary' = [summary EXCEPT ![i].deleting = TRUE]
  /\ UNCHANGED <<receipt, budget, stores, worker>>

\* extend: never below what is used, nor below the present ceiling.
ExtendBudget(i, limit) ==
  /\ summary[i].present /\ ~Closed(i)
  /\ budget[i].present => budget[i].used <= limit /\ budget[i].ceiling <= limit
  /\ budget' = [budget EXCEPT ![i].present = TRUE, ![i].ceiling = limit]
  /\ UNCHANGED <<receipt, summary, marker, stores, worker>>

\* (defect) Cleanup does not wait.
Drained_Never(i) == TRUE

\* The drain: cleanup starts 900 s after the request and an invocation lasts
\* at most 25 s, so whoever is still running started after the request.
Drained(i) == \A w \in Workers : worker[w].pc # "idle" => i \in worker[w].marked

\* The whole purge of one incident, from the marker to the marker; the rows
\* it goes through one by one are no longer written by then.
Purge(i) ==
  /\ marker[i] = "pending"
  /\ Drained(i)
  /\ evidence' = {x \in evidence : x[2] # i}
  /\ timeline' = {x \in timeline : x[2] # i}
  /\ late' = {x \in late : x[2] # i}
  /\ receipt' = [e \in Events |-> IF receipt[e].incident_id = i THEN Redacted ELSE receipt[e]]
  /\ summary' = [summary EXCEPT ![i] = NoSummary]
  /\ budget' = [budget EXCEPT ![i] = NoBudget]
  /\ marker' = [marker EXCEPT ![i] = "completed"]
  /\ UNCHANGED <<bus, worker>>

Operate(i) ==
  \/ Resolve(i)
  \/ RequestDeletion(i)
  \/ \E limit \in DefaultLimit..MaxLimit : ExtendBudget(i, limit)
  \/ Purge(i)

Next ==
  \/ \E w \in Workers : Ingest(w)
  \/ \E e \in Events, i \in Incidents : RecordEvidence(e, i) \/ ArchiveLate(e, i)
  \/ \E i \in Incidents : Operate(i)

Spec == Init /\ [][Next]_vars

-----------------------------------------------------------------------------
(* Properties *)

Labels == {"idle", "receipt", "reserve", "explicit", "put", "marker", "charge", "meter",
           "spend", "reread", "store", "publish", "confirm"}

Call == [pc : Labels, event : Events \cup {None}, target : Targets \cup {None},
         incident : Incidents \cup {None},
         status : {"absent", "pending", "published"}, marked : SUBSET Incidents]

\* Types.
TypeOK ==
  /\ receipt \in [Events -> Receipt]
  /\ summary \in [Incidents -> Summary]
  /\ marker \in [Incidents -> {"none", "pending", "completed"}]
  /\ budget \in [Incidents -> Budget]
  /\ evidence \subseteq Events \X Incidents
  /\ bus \subseteq Events \X Incidents
  /\ timeline \subseteq Events \X Incidents
  /\ late \subseteq timeline
  /\ worker \in [Workers -> Call]

Charged(i) == {e \in Events : receipt[e].incident_id = i /\ receipt[e].quota_reserved}

\* The meter of an incident is exactly the number of its charged receipts,
\* within its ceiling, whatever was retried, raced or interrupted.
ChargedOnce ==
  \A i \in Incidents : budget[i].present =>
    /\ budget[i].used = Cardinality(Charged(i))
    /\ budget[i].used <= budget[i].ceiling
    /\ budget[i].ceiling \in DefaultLimit..MaxLimit

\* Evidence, messages and timeline rows exist only for a signal whose receipt
\* is charged to that very incident, or was redacted with it: no signal is
\* published unpaid, or for two incidents.
PublishedIsPaid ==
  /\ TypeOK
  /\ \A e \in Events, i \in Incidents :
       <<e, i>> \in evidence \cup bus \cup timeline =>
         \/ receipt[e].incident_id = i /\ receipt[e].quota_reserved
         \/ receipt[e].status = "deleted" /\ marker[i] = "completed"

\* event_count is the number of distinct signals on the timeline that were
\* not archived late: redelivery counts nothing twice.
CountIsTimeline ==
  \A i \in Incidents :
    summary[i].event_count = Cardinality({e \in Events : <<e, i>> \in timeline \ late})

\* What the purge of an incident removed never comes back, though clients go
\* on retrying and the bus goes on delivering.
NoResurrection ==
  \A i \in Incidents : marker[i] = "completed" =>
    /\ ~summary[i].present /\ ~budget[i].present
    /\ \A e \in Events : /\ <<e, i>> \notin evidence \cup timeline
                         /\ receipt[e].incident_id # i

\* A closed incident is frozen: until it is purged, neither its count nor its
\* meter moves, and it does not reopen.
ClosedIsFrozen ==
  [][\A i \in Incidents : Closed(i) /\ marker'[i] # "completed" =>
       /\ Closed(i)'
       /\ summary'[i].event_count = summary[i].event_count
       /\ budget'[i].used = budget[i].used]_vars

\* A receipt only moves forward and never changes what it is bound to: in
\* particular the unconditional confirmation never revives a redacted one.
ReceiptMovesForward ==
  [][\A e \in Events :
       /\ receipt[e].status = "deleted" => receipt'[e] = receipt[e]
       /\ receipt[e].status = "published" => receipt'[e].status \in {"published", "deleted"}
       /\ receipt[e].status # "absent" /\ receipt'[e].status # "deleted" =>
            /\ receipt'[e].incident_id = receipt[e].incident_id
            /\ receipt[e].quota_reserved => receipt'[e].quota_reserved]_vars

\* A signal that was answered 202 is never stranded: until it is counted in its
\* incident or archived with it, delivering its message would do one of the two,
\* unless the incident is deleted.
AcceptedIsKept ==
  \A e \in Events, i \in Incidents :
    receipt[e].status = "published" /\ receipt[e].incident_id = i =>
      \/ <<e, i>> \in timeline \/ Marked(i)
      \/ ENABLED <<RecordEvidence(e, i) \/ ArchiveLate(e, i)>>_vars
=============================================================================
