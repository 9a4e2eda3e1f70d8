--------------------------- MODULE IncidentEngine ---------------------------
(***************************************************************************)
(* Automatic assignment of alerts to incidents: reserve and resolve of     *)
(* functions/incident_engine.py and request_deletion of lifecycle.py.      *)
(* Any number of Lambda invocations run these at once against one table;   *)
(* each reads rows one at a time and then writes them in one conditional   *)
(* transaction, so everything read may be stale when it is used.           *)
(*                                                                         *)
(* A sender is one call of reserve at a time, a closer one call of resolve *)
(* or request_deletion.  A step is one read of the table or one            *)
(* transaction, with the local work up to the next one; the naming model   *)
(* called between them (propose_name) touches no shared state.             *)
(***************************************************************************)
EXTENDS Naturals

CONSTANTS Senders,   \* concurrent invocations of ingest
          Closers,   \* concurrent invocations of resolve or delete
          Events,    \* alerts, by idempotency key
          Incidents, \* incident identities (UUIDs)
          Routes,    \* ROUTE#location#family keys
          None,
          RouteOf,   \* routing_key of an alert
          Occurred,  \* occurred_at of an alert: claimed by its source, so
                     \* unrelated to the clock of the closers
          Attempts,  \* rounds of the optimistic loop (5 in the code)
          MaxTime,   \* bound on the clock
          MaxCount,  \* bound on event_count
          MaxNotes   \* bound on note_revision

ASSUME EngineAssumption ==
  /\ None \notin Incidents \cup Events \cup Routes
  /\ RouteOf \in [Events -> Routes]
  /\ Occurred \in [Events -> Nat \ {0}]
  /\ Attempts \in Nat \ {0}
  /\ MaxTime \in Nat \ {0}
  /\ MaxCount \in Nat
  /\ MaxNotes \in Nat

VARIABLES
  now,      \* the wall clock
  receipt,  \* INGEST#key rows: event -> the incident it is bound to, or None
  summary,  \* INCIDENT#id rows
  route,    \* ROUTE#location#family rows
  marker,   \* DELETED#id rows
  audit,    \* AUDIT#resolved rows: the evidence revision that was confirmed
  pc,       \* where each sender is in reserve
  event,    \* its argument
  attempt,  \* its round
  seen,     \* the route row it read in this round
  closer,   \* the call each closer is executing
  earlier   \* history: incidents already on the route when one was opened

table == <<receipt, summary, route, marker, audit, earlier>>
sending == <<pc, event, attempt, seen>>
vars == <<now, receipt, summary, route, marker, audit, pc, event, attempt,
          seen, closer, earlier>>

-----------------------------------------------------------------------------
(* Rows.  An attribute that is absent is 0 (a time) or None (an id), which *)
(* the code treats alike: it tests attributes for truth.  A generation is  *)
(* a fresh UUID in the code and a counter here, 0 when there is no row.    *)
Row == [incident_id : Incidents \cup {None}, generation : Nat, closed_at : Nat]

NoRow == [incident_id |-> None, generation |-> 0, closed_at |-> 0]

Summary == [present : BOOLEAN, route_key : Routes \cup {None},
            event_count : Nat, note_revision : Nat,
            resolved_at : Nat, deletion_started_at : Nat]

NoSummary == [present |-> FALSE, route_key |-> None, event_count |-> 0,
              note_revision |-> 0, resolved_at |-> 0, deletion_started_at |-> 0]

Usable(i) == /\ summary[i].present
             /\ summary[i].resolved_at = 0
             /\ summary[i].deletion_started_at = 0

\* (defect) The route's own closing time is not consulted.
ClosedAt_SummaryOnly(row, s) ==
  IF s.resolved_at # 0 THEN s.resolved_at ELSE s.deletion_started_at

\* closed_at as reserve computes it from a route row and a summary.
ClosedAt(row, s) ==
  IF row.closed_at # 0 THEN row.closed_at
  ELSE IF s.resolved_at # 0 THEN s.resolved_at
  ELSE s.deletion_started_at

Idle == [op |-> "none", pc |-> "idle", incident |-> None, stamp |-> 0,
         revision |-> 0, notes |-> 0, held |-> FALSE]

Init ==
  /\ now = 1
  /\ receipt = [e \in Events |-> None]
  /\ summary = [i \in Incidents |-> NoSummary]
  /\ route = [r \in Routes |-> NoRow]
  /\ marker = [i \in Incidents |-> FALSE]
  /\ audit = [i \in Incidents |-> 0]
  /\ pc = [s \in Senders |-> "idle"]
  /\ event = [s \in Senders |-> None]
  /\ attempt = [s \in Senders |-> 0]
  /\ seen = [s \in Senders |-> NoRow]
  /\ closer = [c \in Closers |-> Idle]
  /\ earlier = [i \in Incidents |-> {}]

Tick ==
  /\ now < MaxTime
  /\ now' = now + 1
  /\ UNCHANGED <<table, sending, closer>>

-----------------------------------------------------------------------------
(* reserve *)

Goto(s, label) ==
  /\ pc' = [pc EXCEPT ![s] = label]
  /\ UNCHANGED <<now, receipt, summary, route, marker, audit, closer, earlier>>

\* Leaves reserve: returned, refused, out of rounds, or the Lambda died.
\* Nothing a sender holds outlives the call.
Return(s) ==
  /\ pc' = [pc EXCEPT ![s] = "idle"]
  /\ event' = [event EXCEPT ![s] = None]
  /\ attempt' = [attempt EXCEPT ![s] = 0]
  /\ seen' = [seen EXCEPT ![s] = NoRow]

Call(s, e) ==
  /\ pc[s] = "idle"
  /\ event' = [event EXCEPT ![s] = e]
  /\ attempt' = [attempt EXCEPT ![s] = 1]
  /\ UNCHANGED seen
  /\ Goto(s, "receipt")

ReadReceipt(s) ==
  /\ pc[s] = "receipt"
  /\ IF receipt[event[s]] # None
     THEN /\ Return(s)
          /\ UNCHANGED <<now, table, closer>>
     ELSE /\ UNCHANGED <<event, attempt, seen>>
          /\ Goto(s, "route")

\* With no incident on the route there is no summary to read and the
\* decision falls in the same step.
ReadRoute(s) ==
  /\ pc[s] = "route"
  /\ LET row == route[RouteOf[event[s]]] IN
     IF row.incident_id # None
     THEN /\ seen' = [seen EXCEPT ![s] = row]
          /\ UNCHANGED <<event, attempt>>
          /\ Goto(s, "summary")
     ELSE IF Occurred[event[s]] <= ClosedAt(row, NoSummary)
     THEN /\ Return(s)
          /\ UNCHANGED <<now, table, closer>>
     ELSE /\ seen' = [seen EXCEPT ![s] = row]
          /\ UNCHANGED <<event, attempt>>
          /\ Goto(s, "create")

\* The summary of the incident the route named when it was read, which may
\* have been resolved or marked for deletion since.
ReadSummary(s) ==
  /\ pc[s] = "summary"
  /\ LET i == seen[s].incident_id IN
     IF Occurred[event[s]] <= ClosedAt(seen[s], summary[i])
     THEN /\ Return(s)
          /\ UNCHANGED <<now, table, closer>>
     ELSE /\ UNCHANGED <<event, attempt, seen>>
          /\ Goto(s, IF Usable(i) THEN "join" ELSE "create")

\* (defect) Claiming the route drops its closing time.
Claimed_Forgetful(row, i) == [incident_id |-> i, generation |-> row.generation + 1,
                              closed_at |-> 0]

\* The route row a transaction writes: closed_at is carried over.
Claimed(row, i) == [incident_id |-> i, generation |-> row.generation + 1,
                    closed_at |-> row.closed_at]

\* (defect) The route is written whatever its generation.
Unraced_NoGeneration(s) == receipt[event[s]] = None

\* (defect) The transaction has no conditions.
Unraced_Unconditional(s) == TRUE

\* What every assignment transaction requires of the receipt and the route.
Unraced(s) ==
  /\ receipt[event[s]] = None
  /\ route[RouteOf[event[s]]].generation = seen[s].generation

CommitJoin(s) ==
  LET i == seen[s].incident_id
      r == RouteOf[event[s]] IN
  /\ pc[s] = "join"
  /\ Unraced(s)
  /\ Usable(i)
  /\ receipt' = [receipt EXCEPT ![event[s]] = i]
  /\ route' = [route EXCEPT ![r] = Claimed(seen[s], i)]
  /\ Return(s)
  /\ UNCHANGED <<now, summary, marker, audit, closer, earlier>>

NewSummary(r) == [present |-> TRUE, route_key |-> r, event_count |-> 0,
                  note_revision |-> 0, resolved_at |-> 0, deletion_started_at |-> 0]

\* A new incident takes a fresh UUID, chosen here when it becomes visible.
CommitCreate(s, i) ==
  LET r == RouteOf[event[s]] IN
  /\ pc[s] = "create"
  /\ Unraced(s)
  /\ ~summary[i].present
  /\ summary' = [summary EXCEPT ![i] = NewSummary(r)]
  /\ receipt' = [receipt EXCEPT ![event[s]] = i]
  /\ route' = [route EXCEPT ![r] = Claimed(seen[s], i)]
  /\ earlier' = [earlier EXCEPT ![i] = {j \in Incidents : /\ summary[j].present
                                                          /\ summary[j].route_key = r}]
  /\ Return(s)
  /\ UNCHANGED <<now, marker, audit, closer>>

MayRetry(s) == attempt[s] < Attempts

\* The transaction was cancelled: read everything again, five times at most.
Conflict(s) ==
  /\ pc[s] \in {"join", "create"}
  /\ ~Unraced(s) \/ (pc[s] = "join" /\ ~Usable(seen[s].incident_id))
  /\ IF MayRetry(s)
     THEN /\ attempt' = [attempt EXCEPT ![s] = @ + 1]
          /\ UNCHANGED <<event, seen>>
          /\ Goto(s, "receipt")
     ELSE /\ Return(s)
          /\ UNCHANGED <<now, table, closer>>

\* The invocation times out or is killed between two steps.
Crash(s) ==
  /\ pc[s] # "idle"
  /\ Return(s)
  /\ UNCHANGED <<now, table, closer>>

-----------------------------------------------------------------------------
(* resolve and request_deletion *)

\* The operator confirms evidence and notes seen at some earlier time.
StartResolve(c, i, revision, notes) ==
  /\ closer[c].op = "none"
  /\ summary[i].present
  /\ summary[i].resolved_at = 0
  /\ revision <= summary[i].event_count
  /\ notes <= summary[i].note_revision
  /\ closer' = [closer EXCEPT ![c] = [op |-> "resolve", pc |-> "route", incident |-> i,
                  stamp |-> now, revision |-> revision, notes |-> notes, held |-> FALSE]]
  /\ UNCHANGED <<now, table, sending>>

\* Reads the marker and the summary; a summary's route_key never changes, so
\* the two reads are one step.
StartDelete(c, i) ==
  /\ closer[c].op = "none"
  /\ summary[i].present
  /\ ~marker[i]
  /\ closer' = [closer EXCEPT ![c] = [op |-> "delete", pc |-> "route", incident |-> i,
                  stamp |-> now, revision |-> 0, notes |-> 0, held |-> FALSE]]
  /\ UNCHANGED <<now, table, sending>>

\* Whether the route still names the incident decides whether the
\* transaction will also take the incident off its route.
CloserReadsRoute(c) ==
  LET i == closer[c].incident IN
  /\ closer[c].pc = "route"
  /\ closer' = [closer EXCEPT ![c].pc = "commit",
                              ![c].held = /\ summary[i].route_key # None
                                          /\ route[summary[i].route_key].incident_id = i]
  /\ UNCHANGED <<now, table, sending>>

\* (defect) The confirmed evidence revision is not compared.
Granted_AnyRevision(c) ==
  LET i == closer[c].incident IN
  /\ IF closer[c].op = "resolve"
     THEN Usable(i) /\ summary[i].note_revision = closer[c].notes
     ELSE summary[i].present /\ ~marker[i]
  /\ closer[c].held => route[summary[i].route_key].incident_id = i

\* The conditions of the whole transaction.
Granted(c) ==
  LET i == closer[c].incident IN
  /\ IF closer[c].op = "resolve"
     THEN /\ Usable(i)
          /\ summary[i].event_count = closer[c].revision
          /\ summary[i].note_revision = closer[c].notes
     ELSE summary[i].present /\ ~marker[i]
  /\ closer[c].held => route[summary[i].route_key].incident_id = i

\* (defect) The incident is left on its route.
Released_Kept(c) == route

\* The route row after the transaction: no incident, and the closing time.
Released(c) ==
  LET r == summary[closer[c].incident].route_key IN
  IF closer[c].held
  THEN [route EXCEPT ![r] = [incident_id |-> None, generation |-> @.generation + 1,
                             closed_at |-> closer[c].stamp]]
  ELSE route

CommitResolve(c) ==
  LET i == closer[c].incident IN
  /\ closer[c].op = "resolve" /\ closer[c].pc = "commit"
  /\ Granted(c)
  /\ summary' = [summary EXCEPT ![i].resolved_at = closer[c].stamp]
  /\ audit' = [audit EXCEPT ![i] = closer[c].revision]
  /\ route' = Released(c)
  /\ closer' = [closer EXCEPT ![c] = Idle]
  /\ UNCHANGED <<now, receipt, marker, earlier, sending>>

CommitDelete(c) ==
  LET i == closer[c].incident IN
  /\ closer[c].op = "delete" /\ closer[c].pc = "commit"
  /\ Granted(c)
  /\ marker' = [marker EXCEPT ![i] = TRUE]
  /\ summary' = [summary EXCEPT ![i].deletion_started_at = closer[c].stamp]
  /\ route' = Released(c)
  /\ closer' = [closer EXCEPT ![c] = Idle]
  /\ UNCHANGED <<now, receipt, audit, earlier, sending>>

\* Cancelled (409), or the invocation died.
Abandon(c) ==
  /\ closer[c].op # "none"
  /\ closer' = [closer EXCEPT ![c] = Idle]
  /\ UNCHANGED <<now, table, sending>>

\* Correlation (correlate/handler.py) counts one published alert.  An alert
\* sent to an explicit incident may be the first thing known of it: the
\* update then creates a summary that has no route.
RecordEvidence(i) ==
  /\ ~marker[i]
  /\ summary[i].resolved_at = 0
  /\ summary[i].deletion_started_at = 0
  /\ summary[i].event_count < MaxCount
  /\ summary' = [summary EXCEPT ![i].present = TRUE, ![i].event_count = @ + 1]
  /\ UNCHANGED <<now, receipt, route, marker, audit, earlier, sending, closer>>

\* The transaction that stores a resident's note (incident_notes.py) counts it.
SavesNote(i) ==
  /\ Usable(i)
  /\ summary[i].note_revision < MaxNotes
  /\ summary' = [summary EXCEPT ![i].note_revision = @ + 1]
  /\ UNCHANGED <<now, receipt, route, marker, audit, earlier, sending, closer>>

-----------------------------------------------------------------------------
Reserve(s) ==
  \/ \E e \in Events : Call(s, e)
  \/ ReadReceipt(s)
  \/ ReadRoute(s)
  \/ ReadSummary(s)
  \/ CommitJoin(s)
  \/ \E i \in Incidents : CommitCreate(s, i)
  \/ Conflict(s)
  \/ Crash(s)

CloseIncident(c) ==
  \/ \E i \in Incidents : \/ \E n \in 0..MaxCount, m \in 0..MaxNotes : StartResolve(c, i, n, m)
                          \/ StartDelete(c, i)
  \/ CloserReadsRoute(c)
  \/ CommitResolve(c)
  \/ CommitDelete(c)
  \/ Abandon(c)

Next ==
  \/ \E s \in Senders : Reserve(s)
  \/ \E c \in Closers : CloseIncident(c)
  \/ \E i \in Incidents : RecordEvidence(i) \/ SavesNote(i)
  \/ Tick

Spec == Init /\ [][Next]_vars

-----------------------------------------------------------------------------
(* Properties *)

\* One call of resolve or request_deletion.
ClosingCall == [op : {"none", "resolve", "delete"}, pc : {"idle", "route", "commit"},
                incident : Incidents \cup {None}, stamp : Nat, revision : Nat,
                notes : Nat, held : BOOLEAN]

TableOK ==
  /\ receipt \in [Events -> Incidents \cup {None}]
  /\ summary \in [Incidents -> Summary]
  /\ route \in [Routes -> Row]
  /\ marker \in [Incidents -> BOOLEAN]
  /\ audit \in [Incidents -> Nat]
  /\ earlier \in [Incidents -> SUBSET Incidents]

SendingOK ==
  /\ pc \in [Senders -> {"idle", "receipt", "route", "summary", "join", "create"}]
  /\ event \in [Senders -> Events \cup {None}]
  /\ attempt \in [Senders -> 0..Attempts]
  /\ seen \in [Senders -> Row]
  /\ \A s \in Senders : pc[s] # "idle" => event[s] # None

\* Types, and the ranges of the bounded counters.
TypeOK ==
  /\ now \in 1..MaxTime
  /\ TableOK
  /\ SendingOK
  /\ closer \in [Closers -> ClosingCall]

\* Two alerts of one location and hazard family never end up in two open
\* incidents, however many senders race to open the first one.
OneOpenPerRoute ==
  \A i, j \in Incidents :
    Usable(i) /\ Usable(j) /\ summary[i].route_key # None
      /\ summary[i].route_key = summary[j].route_key => i = j

\* A route names exactly its open incident: closing takes it off the route in
\* the same transaction, and no open incident is lost from its route, where
\* no later alert would find it.
RouteNamesOpenIncident ==
  /\ \A r \in Routes : LET i == route[r].incident_id IN
       i # None => Usable(i) /\ summary[i].route_key = r
  /\ \A i \in Incidents :
       Usable(i) /\ summary[i].route_key # None => route[summary[i].route_key].incident_id = i

\* When an incident closed.
EndOf(i) == IF summary[i].resolved_at # 0 THEN summary[i].resolved_at
            ELSE summary[i].deletion_started_at

\* An alert that had occurred when an earlier incident of its route was
\* resolved or deleted is never part of a later one: a delayed or replayed
\* alert cannot open new activity.
NoStaleAlert ==
  \A e \in Events : \A i \in Incidents : receipt[e] = i =>
    \A j \in earlier[i] : EndOf(j) # 0 /\ Occurred[e] > EndOf(j)

\* The audit row of a resolution names the evidence the incident holds ever
\* after: nothing arrives unseen between the operator's look and the close.
ResolvedAsConfirmed ==
  \A i \in Incidents : summary[i].resolved_at # 0 => audit[i] = summary[i].event_count

\* An incident on a route always has the alert that opened it: receipt,
\* incident and route commit together or not at all.
NoOrphanIncident ==
  \A i \in Incidents : summary[i].route_key # None =>
    \E e \in Events : receipt[e] = i /\ RouteOf[e] = summary[i].route_key

\* A receipt is bound once, and only to an incident that is open at that
\* moment; what is resolved or being deleted stays so.
BoundOnceToOpen ==
  [][/\ \A e \in Events : receipt[e] # None => receipt'[e] = receipt[e]
     /\ \A e \in Events, i \in Incidents :
          receipt[e] # i /\ receipt'[e] = i => Usable(i)'
     /\ \A i \in Incidents : summary[i].present /\ ~Usable(i) => ~Usable(i)']_vars

\* The engine implements atomic assignment.
Abstract == INSTANCE Assignment WITH
  assigned <- receipt,
  home <- [i \in Incidents |-> summary[i].route_key],
  open <- {i \in Incidents : Usable(i) /\ summary[i].route_key # None},
  closedAt <- [r \in Routes |-> route[r].closed_at],
  Times <- 1..MaxTime

\* Every step of the optimistic protocol is one step of atomic assignment or
\* none: reserve, resolve and request_deletion look instantaneous.
ImplementsAssignment == Abstract!ASpec

-----------------------------------------------------------------------------
(* Why it works: an inductive invariant *)

\* What the rows say about each other.
RowsAgree ==
  /\ \A i \in Incidents :
       /\ ~summary[i].present => /\ summary[i].route_key = None
                                 /\ summary[i].resolved_at = 0
                                 /\ summary[i].deletion_started_at = 0
       /\ marker[i] <=> summary[i].deletion_started_at # 0
  /\ \A e \in Events : \A i \in Incidents :
       receipt[e] = i => summary[i].present /\ summary[i].route_key = RouteOf[e]

\* A route's closing time is no earlier than the end of any incident it had.
ClosingTimes ==
  /\ \A r \in Routes : route[r].closed_at <= now
  /\ \A i \in Incidents : summary[i].present /\ ~Usable(i) =>
       /\ EndOf(i) > 0
       /\ summary[i].route_key # None => EndOf(i) <= route[summary[i].route_key].closed_at

\* The incidents a new one follows on its route are all closed.
EarlierAreClosed ==
  \A i \in Incidents : \A j \in earlier[i] :
    /\ summary[j].present /\ ~Usable(j)
    /\ summary[j].route_key # None /\ summary[j].route_key = summary[i].route_key

\* What a sender has read of its route is the present row, or the generation
\* has moved on and its transaction will be cancelled.
SenderInv(s) ==
  pc[s] \in {"summary", "join", "create"} =>
    LET row == route[RouteOf[event[s]]]
        i == seen[s].incident_id IN
    /\ seen[s].generation <= row.generation
    /\ seen[s].generation = row.generation =>
         i = row.incident_id /\ seen[s].closed_at = row.closed_at
    /\ i # None => summary[i].present
    /\ pc[s] \in {"summary", "join"} => i # None
    /\ pc[s] = "create" => i = None \/ ~Usable(i)
    /\ pc[s] # "summary" => Occurred[event[s]] > seen[s].closed_at

\* A closer either saw its incident on the route, or the incident has closed;
\* its time stamp is later than any close its incident followed.
CloserInv(c) ==
  LET i == closer[c].incident IN
  IF closer[c].op = "none" THEN closer[c].pc = "idle"
  ELSE /\ i # None /\ summary[i].present
       /\ closer[c].stamp \in 1..now
       /\ closer[c].held => summary[i].route_key # None
       /\ Usable(i) /\ summary[i].route_key # None =>
            /\ route[summary[i].route_key].closed_at <= closer[c].stamp
            /\ closer[c].pc = "commit" => closer[c].held

TableInv ==
  /\ RowsAgree
  /\ RouteNamesOpenIncident
  /\ ClosingTimes
  /\ EarlierAreClosed
  /\ NoStaleAlert
  /\ ResolvedAsConfirmed
  /\ NoOrphanIncident

EngineInv ==
  /\ TypeOK
  /\ TableInv
  /\ \A s \in Senders : SenderInv(s)
  /\ \A c \in Closers : CloserInv(c)
=============================================================================
