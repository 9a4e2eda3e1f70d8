------------------------ MODULE IncidentEngineProofs ------------------------
(***************************************************************************)
(* Proofs about IncidentEngine for any number of senders, closers, alerts, *)
(* routes and incidents, any claimed times and any number of rounds.       *)
(***************************************************************************)
EXTENDS IncidentEngine, TLAPS

USE EngineAssumption

-----------------------------------------------------------------------------
(* Types *)

\* Initial values have their types.
LEMMA TypeInit == Init => TypeOK
  BY DEF Init, TypeOK, TableOK, SendingOK, NoSummary, Summary, NoRow, Row, Idle,
         ClosingCall

\* Leaving reserve keeps the types of a sender's variables.
LEMMA ReturnType ==
  ASSUME SendingOK, NEW s \in Senders, Return(s) PROVE SendingOK'
  BY DEF SendingOK, Return, NoRow, Row

\* Moving on to another step of reserve does too.
LEMMA GotoType ==
  ASSUME TypeOK, NEW s \in Senders,
         NEW label \in {"receipt", "route", "summary", "join", "create"},
         Goto(s, label),
         event'[s] # None,
         \A t \in Senders : t # s => event'[t] = event[t],
         event' \in [Senders -> Events \cup {None}],
         attempt' \in [Senders -> 0..Attempts],
         seen' \in [Senders -> Row]
  PROVE  TypeOK'
  BY DEF TypeOK, TableOK, SendingOK, Goto

\* A step of a sender that leaves reserve without writing.
LEMMA QuietReturnType ==
  ASSUME TypeOK, NEW s \in Senders, Return(s), UNCHANGED <<now, table, closer>>
  PROVE  TypeOK'
<1>1. SendingOK'
  BY ReturnType DEF TypeOK
<1> QED
  BY <1>1 DEF TypeOK, TableOK, table

\* Every step of a sender keeps the types.
LEMMA TypeReserve ==
  ASSUME TypeOK, NEW s \in Senders, Reserve(s)
  PROVE  TypeOK'
<1> USE DEF TypeOK
<1>1. ASSUME NEW e \in Events, Call(s, e) PROVE TypeOK'
  <2>1. /\ event' \in [Senders -> Events \cup {None}]
        /\ event'[s] # None
        /\ \A t \in Senders : t # s => event'[t] = event[t]
        /\ attempt' \in [Senders -> 0..Attempts]
        /\ seen' \in [Senders -> Row]
    BY <1>1 DEF SendingOK, Call
  <2> QED
    BY <1>1, <2>1, GotoType DEF Call
<1>2. CASE ReadReceipt(s)
  <2>1. CASE Return(s) /\ UNCHANGED <<now, table, closer>>
    BY <2>1, QuietReturnType
  <2>2. CASE UNCHANGED <<event, attempt, seen>> /\ Goto(s, "route")
    BY <1>2, <2>2, GotoType DEF SendingOK, ReadReceipt
  <2> QED
    BY <1>2, <2>1, <2>2 DEF ReadReceipt
<1>3. CASE ReadRoute(s)
  <2>1. CASE Return(s) /\ UNCHANGED <<now, table, closer>>
    BY <2>1, QuietReturnType
  <2>2. ASSUME NEW label \in {"summary", "create"}, Goto(s, label),
               seen' = [seen EXCEPT ![s] = route[RouteOf[event[s]]]],
               UNCHANGED <<event, attempt>>
        PROVE  TypeOK'
    <3>1. event[s] \in Events
      BY <1>3 DEF SendingOK, ReadRoute
    <3>2. seen' \in [Senders -> Row]
      BY <2>2, <3>1 DEF SendingOK, TableOK
    <3> QED
      BY <1>3, <2>2, <3>2, GotoType DEF SendingOK, ReadRoute
  <2> QED
    BY <1>3, <2>1, <2>2 DEF ReadRoute
<1>4. CASE ReadSummary(s)
  <2>1. CASE Return(s) /\ UNCHANGED <<now, table, closer>>
    BY <2>1, QuietReturnType
  <2>2. ASSUME NEW label \in {"join", "create"}, Goto(s, label),
               UNCHANGED <<event, attempt, seen>>
        PROVE  TypeOK'
    BY <1>4, <2>2, GotoType DEF SendingOK, ReadSummary
  <2> QED
    BY <1>4, <2>1, <2>2 DEF ReadSummary
<1>5. CASE CommitJoin(s)
  <2>1. SendingOK'
    BY <1>5, ReturnType DEF CommitJoin
  <2>2. seen[s].incident_id \in Incidents \cup {None} /\ Claimed(seen[s], seen[s].incident_id) \in Row
    BY DEF SendingOK, Row, Claimed
  <2>3. TableOK'
    BY <1>5, <2>2 DEF CommitJoin, TableOK
  <2> QED
    BY <1>5, <2>1, <2>3 DEF CommitJoin
<1>6. ASSUME NEW i \in Incidents, CommitCreate(s, i) PROVE TypeOK'
  <2>1. SendingOK'
    BY <1>6, ReturnType DEF CommitCreate
  <2>2. Claimed(seen[s], i) \in Row
    BY DEF SendingOK, Row, Claimed
  <2>3. event[s] \in Events
    BY <1>6 DEF CommitCreate, SendingOK
  <2>4. summary' \in [Incidents -> Summary]
    BY <1>6, <2>3 DEF CommitCreate, TableOK, NewSummary, Summary
  <2>5. TableOK'
    BY <1>6, <2>2, <2>4 DEF CommitCreate, TableOK
  <2> QED
    BY <1>6, <2>1, <2>5 DEF CommitCreate
<1>7. CASE Conflict(s)
  <2>1. CASE Return(s) /\ UNCHANGED <<now, table, closer>>
    BY <2>1, QuietReturnType
  <2>2. CASE /\ MayRetry(s)
             /\ attempt' = [attempt EXCEPT ![s] = @ + 1]
             /\ UNCHANGED <<event, seen>>
             /\ Goto(s, "receipt")
    <3>1. attempt' \in [Senders -> 0..Attempts]
      BY <2>2 DEF SendingOK, MayRetry
    <3> QED
      BY <1>7, <2>2, <3>1, GotoType DEF SendingOK, Conflict
  <2> QED
    BY <1>7, <2>1, <2>2 DEF Conflict
<1>8. CASE Crash(s)
  BY <1>8, QuietReturnType DEF Crash
<1> QED
  BY <1>1, <1>2, <1>3, <1>4, <1>5, <1>6, <1>7, <1>8 DEF Reserve

\* Every step of a closer keeps the types.
LEMMA TypeClose ==
  ASSUME TypeOK, NEW c \in Closers, CloseIncident(c)
  PROVE  TypeOK'
<1> USE DEF TypeOK
<1>1. ASSUME UNCHANGED <<now, table, sending>>, closer' \in [Closers -> ClosingCall]
      PROVE  TypeOK'
  BY <1>1 DEF TableOK, SendingOK, table, sending
<1>2. ASSUME NEW i \in Incidents, NEW n \in 0..MaxCount, NEW m \in 0..MaxNotes,
             StartResolve(c, i, n, m)
      PROVE  TypeOK'
  BY <1>1, <1>2 DEF StartResolve, ClosingCall
<1>3. ASSUME NEW i \in Incidents, StartDelete(c, i) PROVE TypeOK'
  BY <1>1, <1>3 DEF StartDelete, ClosingCall
<1>4. CASE CloserReadsRoute(c)
  <2> DEFINE i == closer[c].incident
             h == summary[i].route_key # None /\ route[summary[i].route_key].incident_id = i
             call == [closer[c] EXCEPT !.pc = "commit", !.held = h]
  <2>1. h \in BOOLEAN
    OBVIOUS
  <2> HIDE DEF h
  <2>2. call \in ClosingCall
    BY <2>1, ZenonT(60) DEF ClosingCall
  <2>3. closer' = [closer EXCEPT ![c] = call]
    BY <1>4 DEF CloserReadsRoute, h
  <2> QED
    BY <1>1, <1>4, <2>2, <2>3 DEF CloserReadsRoute
<1>5. Released(c) \in [Routes -> Row]
  <2> DEFINE r == summary[closer[c].incident].route_key
             row == [incident_id |-> None, generation |-> route[r].generation + 1,
                     closed_at |-> closer[c].stamp]
  <2>1. r \in Routes => row \in Row
    BY DEF TableOK, Row, ClosingCall
  <2>2. route \in [Routes -> Row]
    BY DEF TableOK
  <2>3. Released(c) = IF closer[c].held THEN [route EXCEPT ![r] = row] ELSE route
    BY DEF Released
  <2> HIDE DEF r, row
  <2> QED
    BY <2>1, <2>2, <2>3
<1>6. [closer EXCEPT ![c] = Idle] \in [Closers -> ClosingCall]
  BY DEF Idle, ClosingCall
<1>7. ASSUME UNCHANGED <<now, sending>>, closer' = [closer EXCEPT ![c] = Idle], TableOK'
      PROVE  TypeOK'
  BY <1>6, <1>7 DEF SendingOK, sending
<1>8. CASE CommitResolve(c)
  <2>1. TableOK'
    <3> DEFINE i == closer[c].incident
    <3>0. closer[c].stamp \in Nat /\ (i \in Incidents => summary[i] \in Summary)
      BY DEF TableOK, ClosingCall
    <3>1. i \in Incidents => [summary[i] EXCEPT !.resolved_at = closer[c].stamp] \in Summary
      <4> HIDE DEF TypeOK, i
      <4> QED
        BY <3>0 DEF Summary
    <3>2. summary' \in [Incidents -> Summary]
      BY <1>8, <3>1 DEF CommitResolve, TableOK
    <3>3. audit' \in [Incidents -> Nat]
      BY <1>8 DEF CommitResolve, TableOK, ClosingCall
    <3> QED
      BY <1>5, <1>8, <3>2, <3>3 DEF CommitResolve, TableOK
  <2> QED
    BY <1>7, <1>8, <2>1 DEF CommitResolve
<1>9. CASE CommitDelete(c)
  <2>1. TableOK'
    <3> DEFINE i == closer[c].incident
    <3>0. closer[c].stamp \in Nat /\ (i \in Incidents => summary[i] \in Summary)
      BY DEF TableOK, ClosingCall
    <3>1. i \in Incidents => [summary[i] EXCEPT !.deletion_started_at = closer[c].stamp] \in Summary
      <4> HIDE DEF TypeOK, i
      <4> QED
        BY <3>0 DEF Summary
    <3>2. summary' \in [Incidents -> Summary]
      BY <1>9, <3>1 DEF CommitDelete, TableOK
    <3> QED
      BY <1>5, <1>9, <3>2 DEF CommitDelete, TableOK
  <2> QED
    BY <1>7, <1>9, <2>1 DEF CommitDelete
<1>10. CASE Abandon(c)
  BY <1>1, <1>6, <1>10 DEF Abandon
<1> QED
  BY <1>2, <1>3, <1>4, <1>8, <1>9, <1>10 DEF CloseIncident

\* TypeOK is inductive.
LEMMA TypeNext == TypeOK /\ [Next]_vars => TypeOK'
<1> SUFFICES ASSUME TypeOK, [Next]_vars PROVE TypeOK'
  OBVIOUS
<1>1. ASSUME NEW i \in Incidents, RecordEvidence(i) \/ SavesNote(i) PROVE TypeOK'
  <2>1. TableOK'
    <3>1. CASE RecordEvidence(i)
      BY <3>1 DEF RecordEvidence, TypeOK, TableOK, Summary
    <3>2. CASE SavesNote(i)
      BY <3>2 DEF SavesNote, TypeOK, TableOK, Summary
    <3> QED
      BY <1>1, <3>1, <3>2
  <2> QED
    BY <1>1, <2>1 DEF RecordEvidence, SavesNote, TypeOK, SendingOK, sending
<1>2. CASE Tick
  BY <1>2 DEF Tick, TypeOK, TableOK, SendingOK, table, sending
<1>3. CASE UNCHANGED vars
  BY <1>3 DEF vars, TypeOK, TableOK, SendingOK
<1> QED
  BY <1>1, <1>2, <1>3, TypeReserve, TypeClose DEF Next

\* Every reachable state is well typed: counters stay in range and no row or
\* local variable ever holds a value of another kind.
THEOREM TypeCorrect == Spec => []TypeOK
  BY TypeInit, TypeNext, PTL DEF Spec



-----------------------------------------------------------------------------
(* The inductive invariant *)

USE DEF EndOf

\* The initial table is consistent and nothing is under way.
LEMMA InvInit == Init => EngineInv
<1> SUFFICES ASSUME Init PROVE EngineInv
  OBVIOUS
<1>1. TypeOK
  BY TypeInit
<1>2. RowsAgree /\ RouteNamesOpenIncident /\ ClosingTimes
  BY DEF Init, RowsAgree, RouteNamesOpenIncident, ClosingTimes, NoSummary, NoRow, Usable
<1>3. EarlierAreClosed /\ NoStaleAlert /\ ResolvedAsConfirmed /\ NoOrphanIncident
  BY DEF Init, EarlierAreClosed, NoStaleAlert, ResolvedAsConfirmed, NoOrphanIncident,
         NoSummary, Usable
<1>4. \A s \in Senders : SenderInv(s)
  BY DEF Init, SenderInv
<1>5. \A c \in Closers : CloserInv(c)
  BY DEF Init, CloserInv, Idle
<1> QED
  BY <1>1, <1>2, <1>3, <1>4, <1>5 DEF EngineInv, TableInv

\* The table invariant survives while the table does not change.
LEMMA TableFrame ==
  ASSUME TypeOK, TableInv, UNCHANGED table, now' = now \/ now' = now + 1
  PROVE  TableInv'
<1>1. RowsAgree'
  BY DEF TableInv, table, RowsAgree
<1>2. RouteNamesOpenIncident'
  BY DEF TableInv, table, RouteNamesOpenIncident, Usable
<1>3. ClosingTimes'
  BY DEF TableInv, table, ClosingTimes, Usable, TypeOK, TableOK, Row
<1>4. EarlierAreClosed'
  BY DEF TableInv, table, EarlierAreClosed, Usable
<1>5. NoStaleAlert'
  BY DEF TableInv, table, NoStaleAlert
<1>6. ResolvedAsConfirmed' /\ NoOrphanIncident'
  BY DEF TableInv, table, ResolvedAsConfirmed, NoOrphanIncident
<1> QED
  BY <1>1, <1>2, <1>3, <1>4, <1>5, <1>6 DEF TableInv

\* How the table may evolve: what is known of an incident stays true, and a
\* route row never changes under the same generation.
Grows ==
  /\ \A i \in Incidents : summary[i].present =>
       /\ summary'[i].present
       /\ summary'[i].route_key = summary[i].route_key
       /\ ~Usable(i) => ~Usable(i)'
  /\ \A r \in Routes : \/ route'[r] = route[r]
                       \/ route'[r].generation = route[r].generation + 1

\* What a sender knows stays right while others change the table.
LEMMA SenderKeeps ==
  ASSUME TypeOK, Grows, NEW s \in Senders, SenderInv(s),
         pc'[s] = pc[s], event'[s] = event[s], seen'[s] = seen[s]
  PROVE  SenderInv(s)'
<1>1. CASE pc[s] \notin {"summary", "join", "create"}
  BY <1>1 DEF SenderInv
<1>2. CASE pc[s] \in {"summary", "join", "create"}
  <2>1. event[s] \in Events /\ RouteOf[event[s]] \in Routes /\ seen[s] \in Row
    BY <1>2 DEF TypeOK, SendingOK
  <2>2. route[RouteOf[event[s]]] \in Row
    BY <2>1 DEF TypeOK, TableOK
  <2>3. seen[s].incident_id \in Incidents \cup {None} /\ seen[s].generation \in Nat
        /\ route[RouteOf[event[s]]].generation \in Nat
    BY <2>1, <2>2 DEF Row
  <2> QED
    BY <1>2, <2>1, <2>3 DEF SenderInv, Grows
<1> QED
  BY <1>1, <1>2

\* An idle sender knows nothing.
LEMMA SenderIdle ==
  ASSUME NEW s \in Senders, SendingOK, Return(s) PROVE SenderInv(s)'
  BY DEF Return, SenderInv, SendingOK

\* What a closer knows stays right while nobody closes its incident's route.
LEMMA CloserKeeps ==
  ASSUME TypeOK, Grows, NEW c \in Closers, CloserInv(c), closer'[c] = closer[c],
         now' = now \/ now' = now + 1,
         LET i == closer[c].incident IN
           i # None /\ summary[i].present /\ Usable(i)' /\ summary[i].route_key # None =>
              route'[summary[i].route_key].closed_at = route[summary[i].route_key].closed_at
  PROVE  CloserInv(c)'
<1>1. closer[c].incident \in Incidents \cup {None} /\ closer[c].stamp \in Nat /\ now \in Nat
  BY DEF TypeOK, ClosingCall
<1> QED
  BY <1>1 DEF CloserInv, Grows

\* A step that leaves the table alone lets it grow, trivially.
LEMMA QuietGrows == ASSUME UNCHANGED table PROVE Grows
  BY DEF table, Grows, Usable

\* A step of sender s is invisible to every other sender.
Others(s) == \A t \in Senders : t # s => /\ pc'[t] = pc[t]
                                         /\ event'[t] = event[t]
                                         /\ seen'[t] = seen[t]

\* A step that only moves sender s keeps the invariant if s knows what its
\* new place in reserve requires.
LEMMA QuietSender ==
  ASSUME EngineInv, TypeOK', NEW s \in Senders, Others(s),
         UNCHANGED <<now, table, closer>>, SenderInv(s)'
  PROVE  EngineInv'
<1>1. TableInv'
  BY TableFrame DEF EngineInv
<1>2. ASSUME NEW t \in Senders PROVE SenderInv(t)'
  BY SenderKeeps, QuietGrows DEF EngineInv, Others
<1>3. ASSUME NEW c \in Closers PROVE CloserInv(c)'
  BY CloserKeeps, QuietGrows DEF EngineInv, table
<1> QED
  BY <1>1, <1>2, <1>3 DEF EngineInv

\* Leaving reserve without writing keeps the invariant.
LEMMA QuietReturn ==
  ASSUME EngineInv, TypeOK', NEW s \in Senders, Return(s), UNCHANGED <<now, table, closer>>
  PROVE  EngineInv'
<1>1. Others(s)
  BY DEF EngineInv, TypeOK, SendingOK, Others, Return
<1>2. SenderInv(s)'
  BY SenderIdle DEF EngineInv, TypeOK
<1> QED
  BY <1>1, <1>2, QuietSender

\* Reading keeps the invariant: this is where a sender learns what it knows.
LEMMA InvRead ==
  ASSUME EngineInv, TypeOK', NEW s \in Senders,
         \/ \E e \in Events : Call(s, e)
         \/ ReadReceipt(s) \/ ReadRoute(s) \/ ReadSummary(s) \/ Conflict(s) \/ Crash(s)
  PROVE  EngineInv'
<1> USE DEF EngineInv, TypeOK
<1>1. ASSUME NEW label \in {"receipt", "route", "summary", "join", "create"},
             Goto(s, label), SenderInv(s)',
             \A t \in Senders : t # s => event'[t] = event[t] /\ seen'[t] = seen[t]
      PROVE  EngineInv'
  <2>1. Others(s)
    BY <1>1 DEF SendingOK, Others, Goto
  <2> QED
    BY <1>1, <2>1, QuietSender DEF Goto, table
<1>2. ASSUME NEW e \in Events, Call(s, e) PROVE EngineInv'
  <2>1. SenderInv(s)'
    BY <1>2 DEF Call, Goto, SenderInv, SendingOK
  <2> QED
    BY <1>1, <1>2, <2>1 DEF Call, SendingOK
<1>3. CASE ReadReceipt(s)
  <2>1. CASE Return(s) /\ UNCHANGED <<now, table, closer>>
    BY <2>1, QuietReturn
  <2>2. CASE UNCHANGED <<event, attempt, seen>> /\ Goto(s, "route")
    <3>1. SenderInv(s)'
      BY <2>2 DEF Goto, SenderInv, SendingOK
    <3> QED
      BY <1>1, <2>2, <3>1
  <2> QED
    BY <1>3, <2>1, <2>2 DEF ReadReceipt
<1>4. CASE Conflict(s)
  <2>1. CASE Return(s) /\ UNCHANGED <<now, table, closer>>
    BY <2>1, QuietReturn
  <2>2. CASE UNCHANGED <<event, seen>> /\ Goto(s, "receipt")
    <3>1. SenderInv(s)'
      BY <2>2 DEF Goto, SenderInv, SendingOK
    <3> QED
      BY <1>1, <2>2, <3>1
  <2> QED
    BY <1>4, <2>1, <2>2 DEF Conflict
<1>5. CASE Crash(s)
  BY <1>5, QuietReturn DEF Crash
<1>6. CASE ReadRoute(s)
  <2> DEFINE row == route[RouteOf[event[s]]]
  <2>1. event[s] \in Events /\ RouteOf[event[s]] \in Routes /\ row \in Row
        /\ Occurred[event[s]] \in Nat \ {0}
    BY <1>6 DEF SendingOK, TableOK, ReadRoute
  <2>2. CASE Return(s) /\ UNCHANGED <<now, table, closer>>
    BY <2>2, QuietReturn
  <2>3. CASE /\ row.incident_id # None
             /\ seen' = [seen EXCEPT ![s] = row]
             /\ UNCHANGED <<event, attempt>>
             /\ Goto(s, "summary")
    <3>1. Usable(row.incident_id)
      BY <2>1, <2>3 DEF TableInv, RouteNamesOpenIncident
    <3>2. SenderInv(s)'
      BY <2>1, <2>3, <3>1 DEF Goto, SenderInv, SendingOK, Usable, Row
    <3> QED
      BY <1>1, <2>3, <3>2 DEF SendingOK
  <2>4. CASE /\ row.incident_id = None
             /\ Occurred[event[s]] > ClosedAt(row, NoSummary)
             /\ seen' = [seen EXCEPT ![s] = row]
             /\ UNCHANGED <<event, attempt>>
             /\ Goto(s, "create")
    <3>1. Occurred[event[s]] > row.closed_at
      BY <2>1, <2>4 DEF ClosedAt, Row
    <3>2. SenderInv(s)'
      BY <2>1, <2>4, <3>1 DEF Goto, SenderInv, SendingOK, Row
    <3> QED
      BY <1>1, <2>4, <3>2 DEF SendingOK
  <2>5. ClosedAt(row, NoSummary) \in Nat
    BY <2>1 DEF ClosedAt, NoSummary, Row
  <2> QED
    BY <1>6, <2>1, <2>2, <2>3, <2>4, <2>5 DEF ReadRoute
<1>7. CASE ReadSummary(s)
  <2> DEFINE i == seen[s].incident_id
  <2>1. event[s] \in Events /\ Occurred[event[s]] \in Nat \ {0} /\ seen[s] \in Row
    BY <1>7 DEF SendingOK, ReadSummary
  <2>2. i \in Incidents
    BY <1>7, <2>1 DEF SenderInv, ReadSummary, Row
  <2>3. summary[i] \in Summary
    BY <2>2 DEF TableOK
  <2>4. CASE Return(s) /\ UNCHANGED <<now, table, closer>>
    BY <2>4, QuietReturn
  <2>5. CASE /\ Occurred[event[s]] > ClosedAt(seen[s], summary[i])
             /\ UNCHANGED <<event, attempt, seen>>
             /\ Goto(s, IF Usable(i) THEN "join" ELSE "create")
    <3>1. Occurred[event[s]] > seen[s].closed_at
      BY <2>1, <2>3, <2>5 DEF ClosedAt, Row, Summary
    <3>2. UNCHANGED <<summary, route>>
      BY <2>5 DEF Goto
    <3>3. pc'[s] = (IF Usable(i) THEN "join" ELSE "create") /\ pc[s] = "summary"
      BY <1>7, <2>5 DEF Goto, SendingOK, ReadSummary
    <3>4. SenderInv(s)'
      BY <2>2, <2>5, <3>1, <3>2, <3>3 DEF SenderInv, Usable
    <3> QED
      BY <1>1, <2>5, <3>4
  <2>6. ClosedAt(seen[s], summary[i]) \in Nat
    BY <2>1, <2>3 DEF ClosedAt, Row, Summary
  <2> QED
    BY <1>7, <2>1, <2>4, <2>5, <2>6 DEF ReadSummary
<1> QED
  BY <1>2, <1>3, <1>4, <1>5, <1>6, <1>7

\* Joining an open incident keeps the table consistent: the generation test
\* proves that what the sender read is still true.
LEMMA InvJoin ==
  ASSUME EngineInv, TypeOK', NEW s \in Senders, CommitJoin(s) PROVE EngineInv'
<1> USE DEF EngineInv
<1> DEFINE i == seen[s].incident_id
           e == event[s]
           r == RouteOf[e]
<1>1. e \in Events /\ r \in Routes /\ seen[s] \in Row
  BY DEF TypeOK, SendingOK, CommitJoin
<1>2. i \in Incidents /\ Occurred[e] > seen[s].closed_at
  BY <1>1 DEF SenderInv, CommitJoin, Row
<1>3. route[r].incident_id = i /\ route[r].closed_at = seen[s].closed_at
  BY <1>1 DEF SenderInv, CommitJoin, Unraced
<1>4. Usable(i) /\ summary[i].present /\ summary[i].route_key = r
  BY <1>1, <1>2, <1>3 DEF TableInv, RouteNamesOpenIncident, Usable
<1>5. route' = [route EXCEPT ![r] = [incident_id |-> i, generation |-> seen[s].generation + 1,
                                     closed_at |-> seen[s].closed_at]]
  BY DEF CommitJoin, Claimed
<1>6. /\ receipt' = [receipt EXCEPT ![e] = i]
      /\ UNCHANGED <<now, summary, marker, audit, earlier, closer>>
      /\ receipt[e] = None
      /\ seen[s].generation = route[r].generation
      /\ Return(s)
  BY DEF CommitJoin, Unraced
<1>7. \A x \in Incidents : Usable(x)' = Usable(x)
  BY <1>6 DEF Usable
<1>8. route \in [Routes -> Row] /\ receipt \in [Events -> Incidents \cup {None}]
      /\ earlier \in [Incidents -> SUBSET Incidents]
  BY DEF TypeOK, TableOK
<1>9. /\ \A q \in Routes : route'[q].incident_id = route[q].incident_id
      /\ \A q \in Routes : route'[q].closed_at = route[q].closed_at
  BY <1>1, <1>3, <1>5, <1>8
<1> HIDE DEF i, e, r
<1>10. TableInv'
  <2>1. RowsAgree'
    BY <1>1, <1>2, <1>4, <1>6, <1>8 DEF TableInv, RowsAgree, r
  <2>2. RouteNamesOpenIncident'
    BY <1>6, <1>7, <1>9 DEF TableInv, RouteNamesOpenIncident, TypeOK, TableOK, Summary, Row
  <2>3. ClosingTimes'
    BY <1>6, <1>7, <1>9 DEF TableInv, ClosingTimes, TypeOK, TableOK, Summary
  <2>4. EarlierAreClosed'
    BY <1>6, <1>7, <1>8 DEF TableInv, EarlierAreClosed
  <2>5. NoStaleAlert'
    <3> SUFFICES ASSUME NEW a \in Events, NEW x \in Incidents, receipt'[a] = x,
                        NEW j \in earlier[x]
                 PROVE  EndOf(j) # 0 /\ Occurred[a] > EndOf(j)
      BY <1>6 DEF NoStaleAlert
    <3>1. CASE a # e
      BY <1>6, <1>8, <3>1 DEF TableInv, NoStaleAlert
    <3>2. CASE a = e
      <4>1. x = i /\ j \in Incidents
        BY <1>1, <1>6, <1>8, <3>2
      <4>2. summary[j].present /\ ~Usable(j) /\ summary[j].route_key = r
        BY <1>2, <1>4, <4>1 DEF TableInv, EarlierAreClosed
      <4>3. EndOf(j) > 0 /\ EndOf(j) <= route[r].closed_at
        BY <1>1, <4>1, <4>2 DEF TableInv, ClosingTimes
      <4>4. EndOf(j) \in Nat /\ route[r].closed_at \in Nat /\ Occurred[a] \in Nat
        BY <1>1, <1>8, <4>1 DEF TypeOK, TableOK, Summary, Row
      <4> QED
        BY <1>2, <1>3, <3>2, <4>3, <4>4
    <3> QED
      BY <3>1, <3>2
  <2>6. ResolvedAsConfirmed'
    BY <1>6 DEF TableInv, ResolvedAsConfirmed
  <2>7. NoOrphanIncident'
    <3> SUFFICES ASSUME NEW x \in Incidents, summary[x].route_key # None
                 PROVE  \E a \in Events : receipt'[a] = x /\ RouteOf[a] = summary[x].route_key
      BY <1>6 DEF NoOrphanIncident
    <3>1. PICK a \in Events : receipt[a] = x /\ RouteOf[a] = summary[x].route_key
      BY DEF TableInv, NoOrphanIncident
    <3> QED
      BY <1>6, <1>8, <3>1
  <2> QED
    BY <2>1, <2>2, <2>3, <2>4, <2>5, <2>6, <2>7 DEF TableInv
<1>11. Grows
  BY <1>1, <1>5, <1>6, <1>7, <1>8 DEF Grows
<1>12. Others(s)
  BY <1>6 DEF Others, Return, TypeOK, SendingOK
<1>13. ASSUME NEW t \in Senders PROVE SenderInv(t)'
  BY <1>6, <1>11, <1>12, SenderKeeps, SenderIdle DEF Others, TypeOK
<1>14. ASSUME NEW c \in Closers PROVE CloserInv(c)'
  <2>1. closer[c].incident \in Incidents \cup {None}
    BY DEF TypeOK, ClosingCall
  <2>2. \A x \in Incidents : summary[x].route_key \in Routes \cup {None}
    BY DEF TypeOK, TableOK, Summary
  <2> QED
    BY <1>6, <1>9, <1>11, <2>1, <2>2, CloserKeeps
<1> QED
  BY <1>10, <1>13, <1>14

\* Opening a new incident keeps the table consistent: had the route had an
\* open incident, its generation would have moved.
LEMMA InvCreate ==
  ASSUME EngineInv, TypeOK', NEW s \in Senders, NEW i \in Incidents, CommitCreate(s, i)
  PROVE  EngineInv'
<1> USE DEF EngineInv
<1> DEFINE e == event[s]
           r == RouteOf[e]
<1>1. e \in Events /\ r \in Routes /\ seen[s] \in Row
  BY DEF TypeOK, SendingOK, CommitCreate
<1>2. /\ Occurred[e] > seen[s].closed_at
      /\ route[r].closed_at = seen[s].closed_at
      /\ route[r].incident_id = seen[s].incident_id
  BY <1>1 DEF SenderInv, CommitCreate, Unraced
<1>3. route[r].incident_id = None
  BY <1>1, <1>2 DEF SenderInv, CommitCreate, TableInv, RouteNamesOpenIncident
<1>4. /\ route' = [route EXCEPT ![r] = [incident_id |-> i, generation |-> seen[s].generation + 1,
                                        closed_at |-> seen[s].closed_at]]
      /\ receipt' = [receipt EXCEPT ![e] = i]
      /\ summary' = [summary EXCEPT ![i] = [present |-> TRUE, route_key |-> r,
            event_count |-> 0, note_revision |-> 0, resolved_at |-> 0,
            deletion_started_at |-> 0]]
      /\ earlier' = [earlier EXCEPT ![i] = {j \in Incidents : summary[j].present
                                                              /\ summary[j].route_key = r}]
      /\ UNCHANGED <<now, marker, audit, closer>>
      /\ receipt[e] = None
      /\ ~summary[i].present
      /\ seen[s].generation = route[r].generation
      /\ Return(s)
  BY DEF CommitCreate, Unraced, Claimed, NewSummary
<1>5. /\ route \in [Routes -> Row] /\ receipt \in [Events -> Incidents \cup {None}]
      /\ earlier \in [Incidents -> SUBSET Incidents]
      /\ summary \in [Incidents -> Summary]
  BY DEF TypeOK, TableOK
<1>6. /\ \A x \in Incidents : x # i => summary'[x] = summary[x] /\ (Usable(x)' <=> Usable(x))
      /\ summary'[i].present /\ summary'[i].route_key = r /\ Usable(i)'
      /\ summary'[i].resolved_at = 0 /\ summary'[i].deletion_started_at = 0
  BY <1>4, <1>5 DEF Usable
<1>7. /\ route'[r].incident_id = i
      /\ \A q \in Routes : q # r => route'[q] = route[q]
      /\ \A q \in Routes : route'[q].closed_at = route[q].closed_at
  BY <1>1, <1>2, <1>4, <1>5
<1>8. \A j \in Incidents : summary[j].present /\ summary[j].route_key = r => ~Usable(j)
  BY <1>1, <1>3 DEF TableInv, RouteNamesOpenIncident
<1>9. r # None
  BY <1>1
<1>10. \A a \in Events : receipt[a] # i
  BY <1>4 DEF TableInv, RowsAgree
<1>11. \A x \in Incidents : i \notin earlier[x]
  BY <1>4 DEF TableInv, EarlierAreClosed
<1> HIDE DEF e, r
<1>12. TableInv'
  <2>1. RowsAgree'
    <3>1. \A a \in Events : a # e => receipt'[a] = receipt[a] /\ receipt'[a] # i
      BY <1>4, <1>5, <1>10
    <3>2. receipt'[e] = i
      BY <1>1, <1>4, <1>5
    <3>3. ~marker[i]
      BY <1>4 DEF TableInv, RowsAgree
    <3>4. \A a \in Events : \A x \in Incidents :
            receipt'[a] = x => summary'[x].present /\ summary'[x].route_key = RouteOf[a]
      BY <1>6, <3>1, <3>2 DEF TableInv, RowsAgree, r
    <3>5. \A x \in Incidents :
            /\ ~summary'[x].present => /\ summary'[x].route_key = None
                                       /\ summary'[x].resolved_at = 0
                                       /\ summary'[x].deletion_started_at = 0
            /\ marker'[x] <=> summary'[x].deletion_started_at # 0
      BY <1>4, <1>6, <3>3 DEF TableInv, RowsAgree
    <3> QED
      BY <3>4, <3>5 DEF RowsAgree
  <2>2. RouteNamesOpenIncident'
    <3>1. ASSUME NEW q \in Routes, route'[q].incident_id # None
          PROVE  Usable(route[q].incident_id)' /\ summary'[route'[q].incident_id].route_key = q
      <4>1. CASE q = r
        BY <1>6, <1>7, <4>1
      <4>2. CASE q # r
        <5> DEFINE x == route[q].incident_id
        <5>1. x \in Incidents /\ Usable(x) /\ summary[x].route_key = q /\ route'[q] = route[q]
          BY <1>5, <1>7, <3>1, <4>2 DEF TableInv, RouteNamesOpenIncident, Row
        <5>2. x # i
          BY <1>4, <5>1 DEF Usable
        <5>3. Usable(x)' /\ summary'[x].route_key = q
          BY <1>6, <5>1, <5>2
        <5> QED
          BY <5>1, <5>3 DEF Usable
      <4> QED
        BY <4>1, <4>2
    <3>2. ASSUME NEW x \in Incidents, Usable(x)', summary'[x].route_key # None
          PROVE  route'[summary'[x].route_key].incident_id = x
      <4>1. CASE x = i
        BY <1>6, <1>7, <4>1
      <4>2. CASE x # i
        <5>1. summary[x].route_key # r /\ summary[x].route_key \in Routes
          BY <1>5, <1>6, <1>8, <3>2, <4>2 DEF Usable, Summary
        <5> QED
          BY <1>6, <1>7, <3>2, <4>2, <5>1 DEF TableInv, RouteNamesOpenIncident
      <4> QED
        BY <4>1, <4>2
    <3> QED
      BY <3>1, <3>2 DEF RouteNamesOpenIncident
  <2>3. ClosingTimes'
    <3>1. \A q \in Routes : route'[q].closed_at <= now'
      BY <1>4, <1>7 DEF TableInv, ClosingTimes
    <3>2. ASSUME NEW x \in Incidents, summary'[x].present, ~Usable(x)'
          PROVE  /\ EndOf(x)' > 0
                 /\ summary'[x].route_key # None =>
                      EndOf(x)' <= route'[summary'[x].route_key].closed_at
      BY <1>5, <1>6, <1>7, <3>2 DEF TableInv, ClosingTimes, Summary
    <3> QED
      BY <3>1, <3>2 DEF ClosingTimes
  <2>4. EarlierAreClosed'
    <3> SUFFICES ASSUME NEW x \in Incidents, NEW j \in earlier'[x]
                 PROVE  /\ summary'[j].present /\ ~Usable(j)'
                        /\ summary'[j].route_key # None
                        /\ summary'[j].route_key = summary'[x].route_key
      BY DEF EarlierAreClosed
    <3>1. CASE x = i
      BY <1>4, <1>5, <1>6, <1>8, <1>9, <3>1
    <3>2. CASE x # i
      BY <1>4, <1>5, <1>6, <1>11, <3>2 DEF TableInv, EarlierAreClosed
    <3> QED
      BY <3>1, <3>2
  <2>5. NoStaleAlert'
    <3> SUFFICES ASSUME NEW a \in Events, NEW x \in Incidents, receipt'[a] = x,
                        NEW j \in earlier'[x]
                 PROVE  EndOf(j)' # 0 /\ Occurred[a] > EndOf(j)'
      BY DEF NoStaleAlert
    <3>1. CASE x # i
      BY <1>4, <1>5, <1>6, <1>11, <3>1 DEF TableInv, NoStaleAlert
    <3>2. CASE x = i
      <4>1. a = e /\ j \in Incidents /\ summary[j].present /\ summary[j].route_key = r /\ j # i
        BY <1>4, <1>5, <1>10, <3>2
      <4>2. EndOf(j) > 0 /\ EndOf(j) <= route[r].closed_at
        BY <1>8, <1>9, <4>1 DEF TableInv, ClosingTimes
      <4>3. EndOf(j) \in Nat /\ route[r].closed_at \in Nat /\ Occurred[a] \in Nat
        BY <1>1, <1>5, <4>1 DEF Summary, Row
      <4> QED
        BY <1>2, <1>6, <4>1, <4>2, <4>3
    <3> QED
      BY <3>1, <3>2
  <2>6. ResolvedAsConfirmed'
    BY <1>4, <1>6 DEF TableInv, ResolvedAsConfirmed
  <2>7. NoOrphanIncident'
    <3> SUFFICES ASSUME NEW x \in Incidents, summary'[x].route_key # None
                 PROVE  \E a \in Events : receipt'[a] = x /\ RouteOf[a] = summary'[x].route_key
      BY DEF NoOrphanIncident
    <3>1. CASE x = i
      BY <1>1, <1>4, <1>5, <1>6, <3>1 DEF r
    <3>2. CASE x # i
      <4>1. PICK a \in Events : receipt[a] = x /\ RouteOf[a] = summary[x].route_key
        BY <1>6, <3>2 DEF TableInv, NoOrphanIncident
      <4> QED
        BY <1>4, <1>5, <1>6, <3>2, <4>1
    <3> QED
      BY <3>1, <3>2
  <2> QED
    BY <2>1, <2>2, <2>3, <2>4, <2>5, <2>6, <2>7 DEF TableInv
<1>13. Grows
  BY <1>1, <1>4, <1>5, <1>6, <1>7 DEF Grows
<1>14. Others(s)
  BY <1>4 DEF Others, Return, TypeOK, SendingOK
<1>15. ASSUME NEW t \in Senders PROVE SenderInv(t)'
  BY <1>4, <1>13, <1>14, SenderKeeps, SenderIdle DEF Others, TypeOK
<1>16. ASSUME NEW c \in Closers PROVE CloserInv(c)'
  <2>1. closer[c].incident \in Incidents \cup {None}
    BY DEF TypeOK, ClosingCall
  <2>2. \A x \in Incidents : summary[x].route_key \in Routes \cup {None}
    BY <1>5 DEF Summary
  <2> QED
    BY <1>4, <1>7, <1>13, <2>1, <2>2, CloserKeeps
<1> QED
  BY <1>12, <1>15, <1>16

\* What closing incident i with time stamp t does to the table, resolution
\* and deletion alike: i is closed, its end is t unless it had ended before,
\* and if it was open on its route it leaves the route with that stamp.
Closes(i, t) ==
  LET r == summary[i].route_key IN
  /\ UNCHANGED <<now, receipt, earlier>>
  /\ \A x \in Incidents : x # i => summary'[x] = summary[x]
  /\ summary[i].present /\ summary'[i].present
  /\ summary'[i].route_key = summary[i].route_key
  /\ ~Usable(i)'
  /\ EndOf(i)' = IF Usable(i) THEN t ELSE EndOf(i)
  /\ \A q \in Routes : q # r => route'[q] = route[q]
  /\ r \in Routes => \/ /\ ~Usable(i)
                        /\ route'[r] = route[r]
                     \/ /\ route[r].incident_id = i
                        /\ route'[r] = [incident_id |-> None, closed_at |-> t,
                                        generation |-> route[r].generation + 1]

\* Closing keeps the table consistent, given that the two rows it writes
\* agree with the marker and the audit.
LEMMA ClosesTable ==
  ASSUME TypeOK, TypeOK', TableInv, NEW i \in Incidents, NEW t \in 1..now, Closes(i, t),
         Usable(i) /\ summary[i].route_key # None =>
            route[summary[i].route_key].closed_at <= t,
         marker'[i] <=> summary'[i].deletion_started_at # 0,
         \A x \in Incidents : x # i => marker'[x] = marker[x] /\ audit'[x] = audit[x],
         summary'[i].resolved_at # 0 => audit'[i] = summary'[i].event_count
  PROVE  TableInv'
<1> DEFINE r == summary[i].route_key
<1>1. /\ route \in [Routes -> Row]
      /\ earlier \in [Incidents -> SUBSET Incidents]
      /\ summary \in [Incidents -> Summary] /\ summary' \in [Incidents -> Summary]
      /\ r \in Routes \cup {None} /\ now \in Nat
  BY DEF TypeOK, TableOK, Summary
<1>2. /\ UNCHANGED <<now, receipt, earlier>>
      /\ \A x \in Incidents : x # i => summary'[x] = summary[x] /\ (Usable(x)' <=> Usable(x))
      /\ summary[i].present /\ summary'[i].present
      /\ summary'[i].route_key = r
      /\ ~Usable(i)'
  BY DEF Closes, Usable
<1>3. /\ \A q \in Routes : q # r => route'[q] = route[q]
      /\ r \in Routes => \/ /\ ~Usable(i)
                            /\ route'[r] = route[r]
                         \/ /\ route[r].incident_id = i /\ Usable(i)
                            /\ route'[r].incident_id = None
                            /\ route'[r].closed_at = t
  BY <1>1 DEF Closes, TableInv, RouteNamesOpenIncident
<1>4. /\ Usable(i) => EndOf(i)' = t
      /\ ~Usable(i) => EndOf(i)' = EndOf(i)
      /\ \A x \in Incidents : x # i => EndOf(x)' = EndOf(x)
  BY <1>2 DEF Closes
<1>5. ASSUME NEW x \in Incidents, ~Usable(x) PROVE ~Usable(x)' /\ EndOf(x)' = EndOf(x)
  BY <1>2, <1>4, <1>5
<1> HIDE DEF r, EndOf
<1>6. RowsAgree'
  <2>1. ASSUME NEW x \in Incidents
        PROVE  /\ ~summary'[x].present => /\ summary'[x].route_key = None
                                          /\ summary'[x].resolved_at = 0
                                          /\ summary'[x].deletion_started_at = 0
               /\ marker'[x] <=> summary'[x].deletion_started_at # 0
    BY <1>2 DEF TableInv, RowsAgree
  <2>2. ASSUME NEW e \in Events, NEW x \in Incidents, receipt'[e] = x
        PROVE  summary'[x].present /\ summary'[x].route_key = RouteOf[e]
    BY <1>2, <2>2 DEF TableInv, RowsAgree, r
  <2> QED
    BY <2>1, <2>2 DEF RowsAgree
<1>7. RouteNamesOpenIncident'
  <2>1. ASSUME NEW q \in Routes, route'[q].incident_id # None
        PROVE  Usable(route[q].incident_id)' /\ summary'[route'[q].incident_id].route_key = q
    <3>1. route'[q] = route[q]
      BY <1>3, <2>1
    <3>2. PICK x \in Incidents : /\ x = route[q].incident_id
                                 /\ Usable(x) /\ summary[x].route_key = q
      BY <1>1, <2>1, <3>1 DEF TableInv, RouteNamesOpenIncident, Row
    <3>3. x # i
      BY <1>1, <1>3, <2>1, <3>1, <3>2 DEF r
    <3>4. Usable(x)' /\ summary'[x].route_key = q
      BY <1>2, <3>2, <3>3
    <3> QED
      BY <3>1, <3>2, <3>4 DEF Usable
  <2>2. ASSUME NEW x \in Incidents, Usable(x)', summary'[x].route_key # None
        PROVE  route'[summary'[x].route_key].incident_id = x
    <3>1. x # i /\ Usable(x) /\ summary'[x] = summary[x] /\ summary[x].route_key \in Routes
      BY <1>1, <1>2, <2>2 DEF Summary
    <3>2. route[summary[x].route_key].incident_id = x
      BY <2>2, <3>1 DEF TableInv, RouteNamesOpenIncident
    <3> QED
      BY <1>1, <1>3, <3>1, <3>2
  <2> QED
    BY <2>1, <2>2 DEF RouteNamesOpenIncident
<1>8. ClosingTimes'
  <2>0. \A q \in Routes : route[q].closed_at \in Nat
    BY <1>1 DEF Row
  <2>1. \A q \in Routes : route'[q].closed_at <= now'
    BY <1>1, <1>2, <1>3 DEF TableInv, ClosingTimes
  <2>2. \A q \in Routes : route[q].closed_at <= route'[q].closed_at
    BY <1>1, <1>3, <2>0 DEF r
  <2>3. ASSUME NEW x \in Incidents, summary'[x].present, ~Usable(x)'
        PROVE  /\ EndOf(x)' > 0
               /\ summary'[x].route_key # None =>
                    EndOf(x)' <= route'[summary'[x].route_key].closed_at
    <3>1. CASE ~Usable(x)
      <4>1. summary[x].present /\ summary'[x].route_key = summary[x].route_key
            /\ EndOf(x)' = EndOf(x) /\ summary[x].route_key \in Routes \cup {None}
        BY <1>1, <1>2, <1>5, <2>3, <3>1 DEF r, Summary
      <4>2. EndOf(x) \in Nat
        BY <1>1 DEF EndOf, Summary
      <4>3. EndOf(x) > 0 /\ (summary[x].route_key # None =>
                               EndOf(x) <= route[summary[x].route_key].closed_at)
        BY <3>1, <4>1 DEF TableInv, ClosingTimes
      <4>4. \A q \in Routes : route'[q].closed_at \in Nat
        BY DEF TypeOK, TableOK, Row
      <4> QED
        BY <2>0, <2>2, <4>1, <4>2, <4>3, <4>4
    <3>2. CASE Usable(x)
      <4>1. x = i /\ EndOf(x)' = t
        BY <1>2, <1>4, <2>3, <3>2
      <4> QED
        BY <1>1, <1>2, <1>3, <3>2, <4>1 DEF r
    <3> QED
      BY <3>1, <3>2
  <2> QED
    BY <2>1, <2>3 DEF ClosingTimes
<1>9. EarlierAreClosed'
  BY <1>1, <1>2, <1>5 DEF TableInv, EarlierAreClosed, r
<1>10. NoStaleAlert'
  BY <1>1, <1>2, <1>5 DEF TableInv, NoStaleAlert, EarlierAreClosed
<1>11. ResolvedAsConfirmed'
  BY <1>2 DEF TableInv, ResolvedAsConfirmed
<1>12. NoOrphanIncident'
  BY <1>2 DEF TableInv, NoOrphanIncident, r
<1> QED
  BY <1>6, <1>7, <1>8, <1>9, <1>10, <1>11, <1>12 DEF TableInv

\* What resolve and request_deletion write, when they are granted.
LEMMA CommitCloses ==
  ASSUME EngineInv, NEW c \in Closers, CommitResolve(c) \/ CommitDelete(c),
         NEW i \in Incidents, i = closer[c].incident,
         NEW t \in 1..now, t = closer[c].stamp
  PROVE  Closes(i, t)
<1> DEFINE r == summary[i].route_key
<1>1. /\ closer[c].op # "none" /\ closer[c].pc = "commit" /\ Granted(c)
      /\ route' = Released(c)
      /\ UNCHANGED <<now, receipt, earlier>>
  BY DEF CommitResolve, CommitDelete
<1>2. summary[i].present
  BY <1>1 DEF EngineInv, CloserInv
<1>3. /\ route \in [Routes -> Row] /\ summary \in [Incidents -> Summary]
      /\ now \in Nat
  BY DEF EngineInv, TypeOK, TableOK
<1>4. summary[i] \in Summary /\ t \in Nat /\ t # 0
  BY <1>2, <1>3
<1>5. /\ \A x \in Incidents : x # i => summary'[x] = summary[x]
      /\ \/ /\ summary'[i] = [summary[i] EXCEPT !.resolved_at = t]
            /\ Usable(i)
         \/ /\ summary'[i] = [summary[i] EXCEPT !.deletion_started_at = t]
            /\ ~marker[i]
  BY <1>1, <1>2, <1>3 DEF CommitResolve, CommitDelete, Granted
<1>6. ~marker[i] => summary[i].deletion_started_at = 0
  BY <1>2 DEF EngineInv, TableInv, RowsAgree
<1>7. /\ summary'[i].present /\ summary'[i].route_key = r
      /\ ~Usable(i)'
      /\ EndOf(i)' = IF Usable(i) THEN t ELSE EndOf(i)
  <2>1. summary[i].resolved_at \in Nat /\ summary[i].deletion_started_at \in Nat
    BY <1>4 DEF Summary
  <2>2. CASE /\ summary'[i] = [summary[i] EXCEPT !.resolved_at = t]
             /\ Usable(i)
    <3>1. /\ summary'[i].present = summary[i].present
          /\ summary'[i].route_key = r
          /\ summary'[i].resolved_at = t
      BY <1>4, <2>2 DEF Summary
    <3> QED
      BY <1>2, <1>4, <2>2, <3>1 DEF Usable
  <2>3. CASE /\ summary'[i] = [summary[i] EXCEPT !.deletion_started_at = t]
             /\ ~marker[i]
    <3>1. /\ summary'[i].present = summary[i].present
          /\ summary'[i].route_key = r
          /\ summary'[i].resolved_at = summary[i].resolved_at
          /\ summary'[i].deletion_started_at = t
      BY <1>4, <2>3 DEF Summary
    <3> QED
      BY <1>2, <1>4, <1>6, <2>1, <2>3, <3>1 DEF Usable
  <2> QED
    BY <1>5, <2>2, <2>3
<1>8. /\ \A q \in Routes : q # r => route'[q] = route[q]
      /\ r \in Routes => \/ /\ ~Usable(i)
                            /\ route'[r] = route[r]
                         \/ /\ route[r].incident_id = i
                            /\ route'[r] = [incident_id |-> None, closed_at |-> t,
                                            generation |-> route[r].generation + 1]
  <2>1. Usable(i) /\ r # None => closer[c].held
    BY <1>1 DEF EngineInv, CloserInv
  <2>2. closer[c].held => route[r].incident_id = i
    BY <1>1 DEF Granted
  <2>3. CASE closer[c].held
    BY <1>1, <1>3, <2>2, <2>3 DEF Released
  <2>4. CASE ~closer[c].held
    BY <1>1, <2>1, <2>4 DEF Released
  <2> QED
    BY <2>3, <2>4
<1> QED
  BY <1>1, <1>2, <1>5, <1>7, <1>8 DEF Closes

\* Closing an incident keeps the invariant.
LEMMA InvClose ==
  ASSUME EngineInv, TypeOK', NEW c \in Closers, CommitResolve(c) \/ CommitDelete(c)
  PROVE  EngineInv'
<1> USE DEF EngineInv
<1>0. closer[c].incident \in Incidents /\ closer[c].stamp \in 1..now
  BY DEF CommitResolve, CommitDelete, CloserInv, TypeOK, ClosingCall
<1> SUFFICES ASSUME NEW i \in Incidents, i = closer[c].incident,
                    NEW t \in 1..now, t = closer[c].stamp
             PROVE  EngineInv'
  BY <1>0
<1> DEFINE r == summary[i].route_key
<1>1. Closes(i, t)
  BY CommitCloses
<1>2. /\ closer[c].op # "none" /\ closer[c].pc = "commit" /\ Granted(c)
      /\ closer' = [closer EXCEPT ![c] = Idle]
      /\ UNCHANGED <<now, sending>>
  BY DEF CommitResolve, CommitDelete
<1>3. /\ summary \in [Incidents -> Summary] /\ marker \in [Incidents -> BOOLEAN]
      /\ audit \in [Incidents -> Nat] /\ t \in Nat /\ t # 0
      /\ closer \in [Closers -> ClosingCall]
  BY <1>1 DEF TypeOK, TableOK
<1>4. summary[i] \in Summary
  BY <1>1, <1>3
<1>5. Usable(i) /\ r # None => route[r].closed_at <= t
  BY <1>2 DEF CloserInv
<1>6. /\ marker'[i] <=> summary'[i].deletion_started_at # 0
      /\ \A x \in Incidents : x # i => marker'[x] = marker[x] /\ audit'[x] = audit[x]
      /\ summary'[i].resolved_at # 0 => audit'[i] = summary'[i].event_count
  <2>1. CASE CommitResolve(c)
    <3>1. /\ summary'[i].resolved_at = t
          /\ summary'[i].event_count = summary[i].event_count
          /\ summary'[i].deletion_started_at = summary[i].deletion_started_at
      BY <1>1, <1>3, <1>4, <2>1 DEF CommitResolve, Summary
    <3>2. marker' = marker /\ audit' = [audit EXCEPT ![i] = closer[c].revision]
          /\ summary[i].event_count = closer[c].revision
      BY <2>1 DEF CommitResolve, Granted
    <3> QED
      BY <1>1, <1>3, <3>1, <3>2 DEF TableInv, RowsAgree
  <2>2. CASE CommitDelete(c)
    <3>1. /\ summary'[i].resolved_at = summary[i].resolved_at
          /\ summary'[i].event_count = summary[i].event_count
          /\ summary'[i].deletion_started_at = t
      BY <1>1, <1>3, <1>4, <2>2 DEF CommitDelete, Summary
    <3>2. marker' = [marker EXCEPT ![i] = TRUE] /\ audit' = audit
      BY <2>2 DEF CommitDelete
    <3> QED
      BY <1>1, <1>3, <3>1, <3>2 DEF TableInv, ResolvedAsConfirmed
  <2> QED
    BY <2>1, <2>2
<1> HIDE DEF r
<1>7. TableInv'
  BY <1>1, <1>5, <1>6, ClosesTable, EngineAssumption DEF r
<1>8. Grows
  <2>1. \A x \in Incidents : summary[x].present =>
          /\ summary'[x].present
          /\ summary'[x].route_key = summary[x].route_key
          /\ ~Usable(x) => ~Usable(x)'
    BY <1>1 DEF Closes, Usable
  <2>2. \A q \in Routes : \/ route'[q] = route[q]
                          \/ route'[q].generation = route[q].generation + 1
    BY <1>1 DEF Closes
  <2> QED
    BY <2>1, <2>2 DEF Grows
<1>9. ASSUME NEW s \in Senders PROVE SenderInv(s)'
  BY <1>2, <1>8, SenderKeeps DEF sending
<1>10. ASSUME NEW d \in Closers PROVE CloserInv(d)'
  <2>1. CASE d = c
    BY <1>2, <1>3, <2>1 DEF CloserInv, Idle
  <2>2. CASE d # c
    <3>1. closer'[d] = closer[d]
      BY <1>2, <1>3, <2>2
    <3>2. PICK x \in Incidents \cup {None} : x = closer[d].incident
      BY <1>3 DEF ClosingCall
    <3>3. \A y \in Incidents : summary[y].route_key \in Routes \cup {None}
      BY <1>3 DEF Summary
    <3>4. ASSUME x # None, summary[x].present, Usable(x)', summary[x].route_key # None
          PROVE  route'[summary[x].route_key].closed_at = route[summary[x].route_key].closed_at
      <4>1. x \in Incidents /\ summary[x].route_key \in Routes
        BY <3>2, <3>3, <3>4
      <4>2. x # i /\ Usable(x)
        BY <1>1, <3>1, <3>4, <4>1, <1>8 DEF Closes, Grows
      <4>3. route[summary[x].route_key].incident_id = x
        BY <3>4, <4>1, <4>2 DEF TableInv, RouteNamesOpenIncident
      <4>4. route'[summary[x].route_key] = route[summary[x].route_key]
        BY <1>1, <4>1, <4>2, <4>3 DEF Closes
      <4> QED
        BY <4>4
    <3> QED
      BY <1>2, <1>8, <3>1, <3>2, <3>4, CloserKeeps
  <2> QED
    BY <2>1, <2>2
<1> QED
  BY <1>7, <1>9, <1>10

\* What a closer learns when it starts and when it reads the route is right.
LEMMA InvCloserReads ==
  ASSUME EngineInv, TypeOK', NEW c \in Closers,
         \/ \E i \in Incidents : \/ \E n \in 0..MaxCount, m \in 0..MaxNotes :
                                      StartResolve(c, i, n, m)
                                 \/ StartDelete(c, i)
         \/ CloserReadsRoute(c) \/ Abandon(c)
  PROVE  EngineInv'
<1> USE DEF EngineInv
<1>1. UNCHANGED <<now, table, sending>>
  BY DEF StartResolve, StartDelete, CloserReadsRoute, Abandon
<1>2. TableInv'
  BY <1>1, TableFrame
<1>3. ASSUME NEW s \in Senders PROVE SenderInv(s)'
  BY <1>1, QuietGrows, SenderKeeps DEF sending
<1>4. /\ closer \in [Closers -> ClosingCall] /\ now \in Nat /\ now # 0
      /\ summary \in [Incidents -> Summary] /\ route \in [Routes -> Row]
      /\ UNCHANGED <<summary, route, now>>
  BY <1>1 DEF TypeOK, TableOK, table
<1>5. ASSUME NEW call, closer' = [closer EXCEPT ![c] = call],
             NEW i \in Incidents, call.incident = i,
             call.op # "none", summary[i].present, call.stamp \in 1..now,
             call.held => summary[i].route_key # None,
             Usable(i) /\ summary[i].route_key # None =>
               /\ route[summary[i].route_key].closed_at <= call.stamp
               /\ call.pc = "commit" => call.held
      PROVE  CloserInv(c)'
  <2>1. closer'[c] = call
    BY <1>4, <1>5
  <2> QED
    BY <1>4, <1>5, <2>1 DEF CloserInv, Usable
<1>6. CloserInv(c)'
  <2>1. ASSUME NEW i \in Incidents, NEW n \in 0..MaxCount, NEW m \in 0..MaxNotes,
             StartResolve(c, i, n, m)
        PROVE  CloserInv(c)'
    <3>1. Usable(i) /\ summary[i].route_key # None =>
            route[summary[i].route_key].closed_at <= now
      BY <1>4 DEF TableInv, ClosingTimes, Summary
    <3> QED
      <4> DEFINE call == [op |-> "resolve", pc |-> "route", incident |-> i, stamp |-> now,
                         revision |-> n, notes |-> m, held |-> FALSE]
      <4>1. closer' = [closer EXCEPT ![c] = call] /\ summary[i].present
        BY <2>1 DEF StartResolve
      <4>2. /\ call.incident = i /\ call.op # "none" /\ call.stamp = now
            /\ ~call.held /\ call.pc # "commit" /\ now \in 1..now
        BY <1>4
      <4> HIDE DEF call
      <4> QED
        BY <1>5, <3>1, <4>1, <4>2
  <2>2. ASSUME NEW i \in Incidents, StartDelete(c, i) PROVE CloserInv(c)'
    <3>1. Usable(i) /\ summary[i].route_key # None =>
            route[summary[i].route_key].closed_at <= now
      BY <1>4 DEF TableInv, ClosingTimes, Summary
    <3> QED
      <4> DEFINE call == [op |-> "delete", pc |-> "route", incident |-> i, stamp |-> now,
                         revision |-> 0, notes |-> 0, held |-> FALSE]
      <4>1. closer' = [closer EXCEPT ![c] = call] /\ summary[i].present
        BY <2>2 DEF StartDelete
      <4>2. /\ call.incident = i /\ call.op # "none" /\ call.stamp = now
            /\ ~call.held /\ call.pc # "commit" /\ now \in 1..now
        BY <1>4
      <4> HIDE DEF call
      <4> QED
        BY <1>5, <3>1, <4>1, <4>2
  <2>3. CASE CloserReadsRoute(c)
    <3>1. closer[c].op # "none"
      BY <2>3 DEF CloserReadsRoute, CloserInv
    <3>2. PICK i \in Incidents : i = closer[c].incident
      BY <1>4, <3>1 DEF CloserInv, ClosingCall
    <3> DEFINE h == summary[i].route_key # None /\ route[summary[i].route_key].incident_id = i
               call == [closer[c] EXCEPT !.pc = "commit", !.held = h]
    <3>3. /\ call.incident = i /\ call.op = closer[c].op /\ call.stamp = closer[c].stamp
          /\ call.held <=> h
      BY <1>4, <3>2, ZenonT(60) DEF ClosingCall
    <3>4. closer' = [closer EXCEPT ![c] = call]
      BY <2>3, <3>2 DEF CloserReadsRoute
    <3>5. Usable(i) /\ summary[i].route_key # None =>
            h /\ route[summary[i].route_key].closed_at <= closer[c].stamp
      BY <3>1, <3>2 DEF CloserInv, TableInv, RouteNamesOpenIncident
    <3>6. summary[i].present /\ closer[c].stamp \in 1..now
      BY <3>1, <3>2 DEF CloserInv
    <3>7. h => summary[i].route_key # None
      OBVIOUS
    <3> HIDE DEF call, h
    <3> QED
      BY <1>5, <3>1, <3>3, <3>4, <3>5, <3>6, <3>7
  <2>4. CASE Abandon(c)
    BY <1>4, <2>4 DEF Abandon, CloserInv, Idle
  <2> QED
    BY <2>1, <2>2, <2>3, <2>4
<1>7. ASSUME NEW d \in Closers, d # c PROVE CloserInv(d)'
  <2>1. closer'[d] = closer[d]
    BY <1>4, <1>7 DEF StartResolve, StartDelete, CloserReadsRoute, Abandon
  <2> QED
    BY <1>1, <1>4, <2>1, QuietGrows, CloserKeeps
<1> QED
  BY <1>2, <1>3, <1>6, <1>7

\* Counting evidence or a note keeps the invariant: nothing is counted after the close.
LEMMA InvRecord ==
  ASSUME EngineInv, TypeOK', NEW i \in Incidents, RecordEvidence(i) \/ SavesNote(i)
  PROVE  EngineInv'
<1> USE DEF EngineInv
<1>1. /\ summary \in [Incidents -> Summary] /\ route \in [Routes -> Row]
      /\ earlier \in [Incidents -> SUBSET Incidents]
  BY DEF TypeOK, TableOK
<1>2. /\ UNCHANGED <<now, receipt, route, marker, audit, earlier, sending, closer>>
      /\ \A x \in Incidents : x # i => summary'[x] = summary[x]
      /\ summary'[i].present
      /\ summary'[i].route_key = summary[i].route_key
      /\ summary'[i].resolved_at = summary[i].resolved_at
      /\ summary'[i].deletion_started_at = summary[i].deletion_started_at
      /\ summary[i].resolved_at = 0 /\ summary[i].deletion_started_at = 0
  <2>1. summary[i] \in Summary
    BY <1>1
  <2> QED
    BY <1>1, <2>1 DEF RecordEvidence, SavesNote, Usable, Summary
<1>3. /\ \A x \in Incidents : x # i => (Usable(x)' <=> Usable(x))
      /\ Usable(i)' /\ (summary[i].present => Usable(i))
      /\ \A x \in Incidents : summary'[x].route_key = summary[x].route_key
      /\ \A x \in Incidents : EndOf(x)' = EndOf(x)
  BY <1>2 DEF Usable
<1>4. ~summary[i].present => summary[i].route_key = None
  BY DEF TableInv, RowsAgree
<1>5. \A x \in Incidents : Usable(x)' /\ summary[x].route_key # None => Usable(x)
  BY <1>3, <1>4
<1>6. RouteNamesOpenIncident'
  <2>1. ASSUME NEW q \in Routes, route[q].incident_id # None
        PROVE  Usable(route[q].incident_id)' /\ summary'[route[q].incident_id].route_key = q
    <3>1. PICK x \in Incidents : x = route[q].incident_id
      BY <1>1, <2>1 DEF Row
    <3>2. Usable(x) /\ summary[x].route_key = q
      BY <2>1, <3>1 DEF TableInv, RouteNamesOpenIncident
    <3>3. Usable(x)' /\ summary'[x].route_key = q
      BY <1>3, <3>2
    <3> QED
      BY <1>2, <3>1, <3>3 DEF Usable
  <2> QED
    BY <1>2, <1>3, <1>5, <2>1 DEF TableInv, RouteNamesOpenIncident
<1>7. RowsAgree'
  <2>1. ASSUME NEW x \in Incidents
        PROVE  /\ ~summary'[x].present => /\ summary'[x].route_key = None
                                          /\ summary'[x].resolved_at = 0
                                          /\ summary'[x].deletion_started_at = 0
               /\ marker'[x] <=> summary'[x].deletion_started_at # 0
    BY <1>2 DEF TableInv, RowsAgree
  <2>2. ASSUME NEW e \in Events, NEW x \in Incidents, receipt'[e] = x
        PROVE  summary'[x].present /\ summary'[x].route_key = RouteOf[e]
    BY <1>2, <2>2 DEF TableInv, RowsAgree
  <2> QED
    BY <2>1, <2>2 DEF RowsAgree
<1>8. ClosingTimes'
  BY <1>2, <1>3 DEF TableInv, ClosingTimes
<1>9. EarlierAreClosed'
  BY <1>1, <1>2, <1>3 DEF TableInv, EarlierAreClosed
<1>10. NoStaleAlert'
  BY <1>1, <1>2, <1>3 DEF TableInv, NoStaleAlert
<1>11. ResolvedAsConfirmed'
  BY <1>2 DEF TableInv, ResolvedAsConfirmed
<1>12. NoOrphanIncident'
  BY <1>2, <1>3 DEF TableInv, NoOrphanIncident
<1>13. Grows
  BY <1>2, <1>3 DEF Grows
<1>14. ASSUME NEW s \in Senders PROVE SenderInv(s)'
  BY <1>2, <1>13, SenderKeeps DEF sending
<1>15. ASSUME NEW c \in Closers PROVE CloserInv(c)'
  BY <1>2, <1>13, CloserKeeps
<1> QED
  BY <1>6, <1>7, <1>8, <1>9, <1>10, <1>11, <1>12, <1>14, <1>15 DEF TableInv

\* Time passing, or nothing happening, keeps the invariant.
LEMMA InvTick ==
  ASSUME EngineInv, TypeOK', Tick \/ UNCHANGED vars PROVE EngineInv'
<1> USE DEF EngineInv
<1>1. UNCHANGED <<table, sending, closer>> /\ (now' = now \/ now' = now + 1)
  BY DEF Tick, vars, table, sending
<1>2. TableInv'
  BY <1>1, TableFrame
<1>3. ASSUME NEW s \in Senders PROVE SenderInv(s)'
  BY <1>1, QuietGrows, SenderKeeps DEF sending
<1>4. ASSUME NEW c \in Closers PROVE CloserInv(c)'
  BY <1>1, QuietGrows, CloserKeeps DEF table
<1> QED
  BY <1>2, <1>3, <1>4

\* EngineInv is inductive.
LEMMA InvNext == EngineInv /\ [Next]_vars => EngineInv'
<1> SUFFICES ASSUME EngineInv, [Next]_vars PROVE EngineInv'
  OBVIOUS
<1>1. TypeOK'
  BY TypeNext DEF EngineInv
<1>2. ASSUME NEW s \in Senders, Reserve(s) PROVE EngineInv'
  BY <1>1, <1>2, InvRead, InvJoin, InvCreate DEF Reserve
<1>3. ASSUME NEW c \in Closers, CloseIncident(c) PROVE EngineInv'
  BY <1>1, <1>3, InvCloserReads, InvClose DEF CloseIncident
<1>4. ASSUME NEW i \in Incidents, RecordEvidence(i) \/ SavesNote(i) PROVE EngineInv'
  BY <1>1, <1>4, InvRecord
<1>5. CASE Tick \/ UNCHANGED vars
  BY <1>1, <1>5, InvTick
<1> QED
  BY <1>2, <1>3, <1>4, <1>5 DEF Next

\* The invariant holds in every reachable state.
THEOREM EngineCorrect == Spec => []EngineInv
  BY InvInit, InvNext, PTL DEF Spec

\* A route's row names exactly its open incident, at every instant.
THEOREM RouteExact == Spec => []RouteNamesOpenIncident
<1>1. EngineInv => RouteNamesOpenIncident
  BY DEF EngineInv, TableInv
<1> QED
  BY <1>1, EngineCorrect, PTL

\* No interleaving of any number of senders, operators and deletions leaves
\* two open incidents for one location and hazard family.
THEOREM SingleOpenIncident == Spec => []OneOpenPerRoute
<1>1. EngineInv => OneOpenPerRoute
  BY DEF EngineInv, TableInv, RouteNamesOpenIncident, OneOpenPerRoute
<1> QED
  BY <1>1, EngineCorrect, PTL

\* An alert from before a close is never part of what was opened after it.
THEOREM DelayedAlertsStayOut == Spec => []NoStaleAlert
<1>1. EngineInv => NoStaleAlert
  BY DEF EngineInv, TableInv
<1> QED
  BY <1>1, EngineCorrect, PTL

\* A resolution confirms exactly the evidence the incident keeps, and no
\* incident exists without the alert that opened it.
THEOREM ResolvedAndRooted == Spec => [](ResolvedAsConfirmed /\ NoOrphanIncident)
<1>1. EngineInv => ResolvedAsConfirmed /\ NoOrphanIncident
  BY DEF EngineInv, TableInv
<1> QED
  BY <1>1, EngineCorrect, PTL

-----------------------------------------------------------------------------
(* The engine implements atomic assignment *)

\* The refinement mapping, by name.
Home == [i \in Incidents |-> summary[i].route_key]
OpenOnes == {i \in Incidents : Usable(i) /\ summary[i].route_key # None}
LastClose == [r \in Routes |-> route[r].closed_at]

USE DEF Home, OpenOnes, LastClose

\* The initial tables stand for the initial abstract state.
LEMMA RefinesInit == Init => Abstract!AInit
  BY DEF Init, Abstract!AInit, NoSummary, NoRow, Usable

\* A step that moves no receipt, no route's closing time and no incident's
\* state is invisible.
LEMMA RefinesQuiet ==
  ASSUME UNCHANGED receipt,
         \A i \in Incidents : /\ summary'[i].route_key = summary[i].route_key
                              /\ summary[i].route_key # None => (Usable(i)' <=> Usable(i)),
         \A r \in Routes : route'[r].closed_at = route[r].closed_at
  PROVE  UNCHANGED Abstract!avars
<1>1. Home' = Home
  OBVIOUS
<1>2. OpenOnes' = OpenOnes
  OBVIOUS
<1>3. LastClose' = LastClose
  OBVIOUS
<1> QED
  BY <1>1, <1>2, <1>3 DEF Abstract!avars

\* A committed join is an abstract join.
LEMMA RefinesJoin ==
  ASSUME EngineInv, NEW s \in Senders, CommitJoin(s)
  PROVE  \E e \in Events, i \in Incidents : Abstract!Join(e, i)
<1> USE DEF EngineInv
<1>1. PICK e \in Events : e = event[s]
  BY DEF TypeOK, SendingOK, CommitJoin
<1>2. PICK i \in Incidents : i = seen[s].incident_id
  BY DEF TypeOK, SendingOK, SenderInv, CommitJoin, Row
<1> DEFINE r == RouteOf[e]
<1>3. r \in Routes /\ Occurred[e] > seen[s].closed_at
  BY <1>1 DEF SenderInv, CommitJoin
<1>4. route[r].incident_id = i /\ route[r].closed_at = seen[s].closed_at
  BY <1>1, <1>2 DEF SenderInv, CommitJoin, Unraced
<1>5. Usable(i) /\ summary[i].route_key = r
  BY <1>2, <1>3, <1>4 DEF TableInv, RouteNamesOpenIncident
<1>6. /\ receipt' = [receipt EXCEPT ![e] = i] /\ receipt[e] = None
      /\ summary' = summary
      /\ route' = [route EXCEPT ![r] = Claimed(seen[s], i)]
  BY <1>1, <1>2 DEF CommitJoin, Unraced
<1>7. \A q \in Routes : route'[q].closed_at = route[q].closed_at
  BY <1>3, <1>4, <1>6 DEF Claimed, TypeOK, TableOK
<1>8. Home' = Home /\ LastClose' = LastClose
  BY <1>6, <1>7
<1>9. OpenOnes' = OpenOnes
  BY <1>6 DEF Usable
<1>10. i \in OpenOnes /\ Home[i] = r /\ LastClose[r] = seen[s].closed_at
  BY <1>3, <1>4, <1>5
<1> HIDE DEF Home, OpenOnes, LastClose
<1>11. Abstract!Join(e, i)
  BY <1>3, <1>6, <1>8, <1>9, <1>10
     DEF Abstract!Join, Abstract!Current, Home, OpenOnes, LastClose
<1> QED
  BY <1>11

\* A committed creation is an abstract opening.
LEMMA RefinesCreate ==
  ASSUME EngineInv, NEW s \in Senders, NEW i \in Incidents, CommitCreate(s, i)
  PROVE  \E e \in Events : Abstract!Open(e, i)
<1> USE DEF EngineInv
<1>1. PICK e \in Events : e = event[s]
  BY DEF TypeOK, SendingOK, CommitCreate
<1> DEFINE r == RouteOf[e]
<1>2. r \in Routes /\ r # None /\ Occurred[e] > seen[s].closed_at
  BY <1>1 DEF SenderInv, CommitCreate
<1>3. route[r].incident_id = seen[s].incident_id /\ route[r].closed_at = seen[s].closed_at
  BY <1>1 DEF SenderInv, CommitCreate, Unraced
<1>4. route[r].incident_id = None
  BY <1>2, <1>3 DEF SenderInv, CommitCreate, TableInv, RouteNamesOpenIncident
<1>5. /\ receipt' = [receipt EXCEPT ![e] = i] /\ receipt[e] = None
      /\ summary' = [summary EXCEPT ![i] = NewSummary(r)] /\ ~summary[i].present
      /\ route' = [route EXCEPT ![r] = Claimed(seen[s], i)]
  BY <1>1 DEF CommitCreate, Unraced
<1>6. \A q \in Routes : route'[q].closed_at = route[q].closed_at
  BY <1>2, <1>3, <1>5 DEF Claimed, TypeOK, TableOK
<1>7. /\ \A x \in Incidents : x # i => summary'[x] = summary[x] /\ (Usable(x)' <=> Usable(x))
      /\ Usable(i)' /\ summary'[i].route_key = r
      /\ summary[i].route_key = None
  BY <1>5 DEF Usable, NewSummary, TypeOK, TableOK, TableInv, RowsAgree
<1>8. \A x \in Incidents : ~(Usable(x) /\ summary[x].route_key = r)
  BY <1>2, <1>4 DEF TableInv, RouteNamesOpenIncident
<1>9. LastClose' = LastClose
  BY <1>6
<1>10. Home' = [Home EXCEPT ![i] = r]
  BY <1>7
<1>11. OpenOnes' = OpenOnes \cup {i}
  BY <1>2, <1>7
<1>12. Home[i] = None /\ {x \in OpenOnes : Home[x] = r} = {}
  BY <1>7, <1>8
<1>13. LastClose[r] = seen[s].closed_at
  BY <1>2, <1>3
<1> HIDE DEF Home, OpenOnes, LastClose
<1>14. Abstract!Open(e, i)
  BY <1>2, <1>5, <1>9, <1>10, <1>11, <1>12, <1>13
     DEF Abstract!Open, Abstract!Current, Home, OpenOnes, LastClose
<1> QED
  BY <1>14

\* A committed close is an abstract close of an open incident on its route,
\* and invisible otherwise (a resolved incident deleted, or one off the routes).
LEMMA RefinesClose ==
  ASSUME EngineInv, TypeOK', NEW c \in Closers, CommitResolve(c) \/ CommitDelete(c)
  PROVE  \/ \E i \in Incidents, t \in 1..MaxTime : Abstract!Close(i, t)
         \/ UNCHANGED Abstract!avars
<1> USE DEF EngineInv
<1>0. closer[c].incident \in Incidents /\ closer[c].stamp \in 1..now
  BY DEF CommitResolve, CommitDelete, CloserInv, TypeOK, ClosingCall
<1>1. PICK i \in Incidents : i = closer[c].incident
  BY <1>0
<1>2. PICK t \in 1..now : t = closer[c].stamp
  BY <1>0
<1>3. Closes(i, t)
  BY <1>1, <1>2, CommitCloses
<1>4. t \in 1..MaxTime
  BY DEF TypeOK
<1> DEFINE r == summary[i].route_key
<1>5. r \in Routes \cup {None} /\ route \in [Routes -> Row]
  BY DEF TypeOK, TableOK, Summary
<1>6. \A x \in Incidents : x # i => summary'[x] = summary[x] /\ (Usable(x)' <=> Usable(x))
  BY <1>3 DEF Closes, Usable
<1>7. summary'[i].route_key = r /\ ~Usable(i)' /\ receipt' = receipt
  BY <1>3 DEF Closes
<1>8. CASE Usable(i) /\ r # None
  <2>1. route[r].closed_at <= t
    BY <1>1, <1>2, <1>8 DEF CloserInv, CommitResolve, CommitDelete
  <2>2. /\ route'[r].closed_at = t
        /\ \A q \in Routes : q # r => route'[q].closed_at = route[q].closed_at
    BY <1>3, <1>5, <1>8 DEF Closes
  <2>3. Home' = Home
    BY <1>6, <1>7
  <2>4. OpenOnes' = OpenOnes \ {i}
    BY <1>6, <1>7
  <2>5. LastClose' = [LastClose EXCEPT ![r] = t]
    BY <1>5, <1>8, <2>2
  <2>6. i \in OpenOnes /\ Home[i] = r /\ LastClose[r] = route[r].closed_at
    BY <1>5, <1>8
  <2> HIDE DEF Home, OpenOnes, LastClose
  <2>7. Abstract!Close(i, t)
    BY <1>7, <2>1, <2>3, <2>4, <2>5, <2>6 DEF Abstract!Close, Home, OpenOnes, LastClose
  <2> QED
    BY <1>4, <2>7
<1>9. CASE ~(Usable(i) /\ r # None)
  <2>1. \A x \in Incidents : /\ summary'[x].route_key = summary[x].route_key
                             /\ summary[x].route_key # None => (Usable(x)' <=> Usable(x))
    BY <1>6, <1>7, <1>9
  <2>2. \A q \in Routes : route'[q].closed_at = route[q].closed_at
    BY <1>3, <1>5, <1>9 DEF Closes, TableInv, RouteNamesOpenIncident
  <2> QED
    BY <1>7, <2>1, <2>2, RefinesQuiet
<1> QED
  BY <1>8, <1>9

\* Every step of the engine is an abstract step or none.
LEMMA RefinesNext == EngineInv /\ EngineInv' /\ [Next]_vars => [Abstract!ANext]_Abstract!avars
<1> SUFFICES ASSUME EngineInv, EngineInv', [Next]_vars
             PROVE  [Abstract!ANext]_Abstract!avars
  OBVIOUS
<1>0. UNCHANGED <<receipt, summary, route>> => UNCHANGED Abstract!avars
  BY RefinesQuiet DEF Usable
<1>1. ASSUME NEW s \in Senders, Reserve(s) PROVE [Abstract!ANext]_Abstract!avars
  <2>1. CASE \/ \E e \in Events : Call(s, e)
             \/ ReadReceipt(s) \/ ReadRoute(s) \/ ReadSummary(s) \/ Conflict(s) \/ Crash(s)
    BY <1>0, <2>1 DEF Call, ReadReceipt, ReadRoute, ReadSummary, Conflict, Crash, Goto, table
  <2>2. CASE CommitJoin(s)
    BY <2>2, RefinesJoin DEF Abstract!ANext
  <2>3. ASSUME NEW i \in Incidents, CommitCreate(s, i) PROVE Abstract!ANext
    BY <2>3, RefinesCreate DEF Abstract!ANext
  <2> QED
    BY <1>1, <2>1, <2>2, <2>3 DEF Reserve
<1>2. ASSUME NEW c \in Closers, CloseIncident(c) PROVE [Abstract!ANext]_Abstract!avars
  <2>1. CASE CommitResolve(c) \/ CommitDelete(c)
    BY <2>1, RefinesClose DEF Abstract!ANext, EngineInv
  <2>2. CASE UNCHANGED table
    BY <1>0, <2>2 DEF table
  <2> QED
    BY <1>2, <2>1, <2>2 DEF CloseIncident, StartResolve, StartDelete, CloserReadsRoute, Abandon
<1>3. ASSUME NEW i \in Incidents, RecordEvidence(i) \/ SavesNote(i)
      PROVE  UNCHANGED Abstract!avars
  <2>1. /\ summary \in [Incidents -> Summary]
        /\ ~summary[i].present => summary[i].route_key = None
    BY DEF EngineInv, TypeOK, TableOK, TableInv, RowsAgree
  <2>2. /\ UNCHANGED <<receipt, route>>
        /\ \A x \in Incidents : x # i => summary'[x] = summary[x]
        /\ \/ summary'[i] = [summary[i] EXCEPT !.present = TRUE,
                                               !.event_count = summary[i].event_count + 1]
           \/ /\ summary[i].present
              /\ summary'[i] = [summary[i] EXCEPT !.note_revision =
                                                    summary[i].note_revision + 1]
        /\ summary[i].resolved_at = 0 /\ summary[i].deletion_started_at = 0
    BY <1>3, <2>1 DEF RecordEvidence, SavesNote, Usable
  <2>3. /\ summary'[i].route_key = summary[i].route_key
        /\ summary'[i].resolved_at = summary[i].resolved_at
        /\ summary'[i].deletion_started_at = summary[i].deletion_started_at
        /\ summary'[i].present
    <3>1. PICK s : s = summary[i]
      OBVIOUS
    <3>2. s \in Summary
      BY <2>1, <3>1
    <3>3. CASE summary'[i] = [s EXCEPT !.present = TRUE, !.event_count = s.event_count + 1]
      BY <3>1, <3>2, <3>3 DEF Summary
    <3>4. CASE s.present /\ summary'[i] = [s EXCEPT !.note_revision = s.note_revision + 1]
      BY <3>1, <3>2, <3>4 DEF Summary
    <3> QED
      BY <2>2, <3>1, <3>3, <3>4
  <2> QED
    BY <2>1, <2>2, <2>3, RefinesQuiet DEF Usable
<1>4. CASE Tick \/ UNCHANGED vars
  BY <1>0, <1>4 DEF Tick, vars, table
<1> QED
  BY <1>1, <1>2, <1>3, <1>4 DEF Next

\* Optimistic assignment with stale reads, retries, crashes, resolution and
\* deletion is indistinguishable from atomic assignment.
THEOREM EngineImplementsAssignment == Spec => ImplementsAssignment
<1>1. Init => Abstract!AInit
  BY RefinesInit
<1>2. EngineInv /\ EngineInv' /\ [Next]_vars => [Abstract!ANext]_Abstract!avars
  BY RefinesNext
<1> QED
  BY <1>1, <1>2, EngineCorrect, PTL DEF Spec, ImplementsAssignment, Abstract!ASpec

\* A receipt is bound once and to an open incident; a closed incident stays
\* closed.
THEOREM BoundOnce == Spec => BoundOnceToOpen
<1> DEFINE Bound ==
      /\ \A e \in Events : receipt[e] # None => receipt'[e] = receipt[e]
      /\ \A e \in Events, i \in Incidents : receipt[e] # i /\ receipt'[e] = i => Usable(i)'
      /\ \A i \in Incidents : summary[i].present /\ ~Usable(i) => ~Usable(i)'
<1>1. ASSUME EngineInv, EngineInv', [Next]_vars PROVE [Bound]_vars
  <2>1. ASSUME NEW s \in Senders, CommitJoin(s) PROVE Bound
    <3>1. /\ receipt' = [receipt EXCEPT ![event[s]] = seen[s].incident_id]
          /\ receipt[event[s]] = None /\ Usable(seen[s].incident_id)
          /\ UNCHANGED summary
      BY <2>1 DEF CommitJoin, Unraced
    <3> QED
      BY <3>1 DEF Usable, EngineInv, TypeOK, TableOK
  <2>2. ASSUME NEW s \in Senders, NEW i \in Incidents, CommitCreate(s, i) PROVE Bound
    <3>1. /\ receipt' = [receipt EXCEPT ![event[s]] = i]
          /\ receipt[event[s]] = None /\ ~summary[i].present
          /\ summary' = [summary EXCEPT ![i] = NewSummary(RouteOf[event[s]])]
      BY <2>2 DEF CommitCreate, Unraced
    <3>2. Usable(i)' /\ \A x \in Incidents : x # i => (Usable(x)' <=> Usable(x))
      BY <1>1, <3>1 DEF Usable, NewSummary, EngineInv, TypeOK, TableOK
    <3> QED
      BY <1>1, <3>1, <3>2 DEF EngineInv, TypeOK, TableOK
  <2>3. ASSUME UNCHANGED receipt, Grows PROVE Bound
    BY <2>3 DEF Grows
  <2>4. ASSUME NEW c \in Closers, CommitResolve(c) \/ CommitDelete(c) PROVE Bound
    <3>0. closer[c].incident \in Incidents /\ closer[c].stamp \in 1..now
      BY <1>1, <2>4 DEF CommitResolve, CommitDelete, CloserInv, EngineInv, TypeOK, ClosingCall
    <3>1. PICK i \in Incidents : i = closer[c].incident
      BY <3>0
    <3>2. PICK t \in 1..now : t = closer[c].stamp
      BY <3>0
    <3>3. Closes(i, t)
      BY <1>1, <2>4, <3>1, <3>2, CommitCloses
    <3>4. Grows
      BY <3>3 DEF Closes, Grows, Usable
    <3> QED
      BY <2>3, <3>3, <3>4 DEF Closes
  <2>5. ASSUME UNCHANGED table PROVE Bound
    BY <2>5, <2>3, QuietGrows DEF table
  <2>6. ASSUME NEW i \in Incidents, RecordEvidence(i) \/ SavesNote(i) PROVE Bound
    <3>1. /\ UNCHANGED receipt
          /\ summary[i].resolved_at = 0 /\ summary[i].deletion_started_at = 0
          /\ \A x \in Incidents : x # i => summary'[x] = summary[x]
      BY <1>1, <2>6 DEF RecordEvidence, SavesNote, Usable, EngineInv, TypeOK, TableOK
    <3> QED
      BY <3>1 DEF Usable
  <2>7. CASE UNCHANGED vars
    BY <2>7
  <2> HIDE DEF Bound
  <2> QED
    BY <1>1, <2>1, <2>2, <2>4, <2>5, <2>6, <2>7
       DEF Next, Reserve, CloseIncident, Call, ReadReceipt, ReadRoute, ReadSummary, Conflict,
           Crash, Goto, StartResolve, StartDelete, CloserReadsRoute, Abandon, Tick, table
<1> QED
  BY <1>1, EngineCorrect, PTL DEF Spec, BoundOnceToOpen
=============================================================================
