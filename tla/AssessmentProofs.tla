-------------------------- MODULE AssessmentProofs --------------------------
(***************************************************************************)
(* Proofs about Assessment, for any number of executions, signals, notes,  *)
(* requests and reviews.                                                   *)
(***************************************************************************)
EXTENDS Assessment, FiniteSetTheorems, TLAPS

-----------------------------------------------------------------------------
(* The inductive invariant *)

Rereading == {"snapshot", "notes", "reread"}
Reasoning == Rereading \cup {"put", "publish", "confirm"}
Drafting == {"briefSnapshot", "briefPrevious", "briefPut"}
Briefs == {"brief"} \cup Drafting

\* The latest assessment is stored, as one of the evidence it had.
SummaryOK ==
  /\ IsFiniteSet(notes) /\ summary.note_revision = Cardinality(notes)
  /\ summary.latest_assessment \in DOMAIN assessments \cup {None}
  /\ summary.latest_assessment # None =>
       summary.assessed_revision = assessments[summary.latest_assessment].evidence_revision

\* An assessment is of the revisions its identifier names, and what it concludes
\* is about what the ledger held then.
RowOK(row, id) ==
  /\ row.evidence_revision = id[2] /\ row.note_revision = id[3]
  /\ id[2] <= summary.event_count /\ id[3] <= summary.note_revision
  /\ row.status = "assessed" =>
       /\ row.about \in Fingerprints /\ row.state_fingerprint = row.about
       /\ row.about[2] = id[3]
       /\ id[2] = summary.event_count => row.about[1] = ledger

RowsOK == \A id \in DOMAIN assessments : RowOK(assessments[id], id)

\* A summary that was read earlier.
Seen(s) ==
  /\ s \in Summary
  /\ s.event_count <= summary.event_count /\ s.note_revision <= summary.note_revision
  /\ s.latest_assessment \in DOMAIN assessments \cup {None}
  /\ s.latest_assessment # None => s.latest_assessment[2] <= s.event_count

\* What made the execution go on to reason: there was no assessment to keep.
Wanting(s) ==
  /\ ~s.resolved /\ ~s.deleting
  /\ Actionable(s, s.latest_assessment) => s.latest_assessment \in expired
  /\ s.decision_review = "rejected" => Verdict(s.latest_assessment, "rejected")

IdentifierOf(e) == <<e.message, e.read.event_count, e.read.note_revision, e.attempt>>

ExecutionOK(e) ==
  /\ e.attempt <= Attempts
  /\ e.pc = "record" => e.message \in Signals
  /\ e.pc \in {"assess"} \cup Reasoning => e.message \in Messages
  /\ e.pc \in {"record", "assess"} => e.attempt < Attempts
  /\ e.pc \notin Briefs => e.next = "end"
  /\ e.next = "retry" => e.message \in Messages /\ e.attempt < Attempts
  /\ e.pc # "reread" => e.heard = 0
  /\ e.pc \in Reasoning \cup Drafting => Seen(e.read)
  /\ e.pc \in Reasoning => Wanting(e.read)
  /\ e.pc \in Drafting => ~e.read.deleting
  /\ e.pc \in {"notes", "reread", "briefPrevious", "briefPut"}
       /\ e.read.event_count = summary.event_count => e.snapshot = ledger
  /\ e.pc = "reread" /\ e.read.note_revision = summary.note_revision =>
       e.heard = summary.note_revision
  /\ e.pc = "put" => e.item \in Row /\ RowOK(e.item, IdentifierOf(e))
  /\ e.pc \in {"publish", "confirm"} => IdentifierOf(e) \in DOMAIN assessments

AuditOK == \A entry \in audit : entry.assessment_id \in DOMAIN assessments

AssessInv ==
  /\ VerdictIsOnRecord /\ SummaryOK /\ RowsOK /\ AuditOK
  /\ \A w \in Workers : ExecutionOK(worker[w])

\* When a message is delivered once, nobody is given an identifier that was used.
Clean(x) == Verdict(x, "rejected") => Verdict(x, "accepted")
Reviewed(x) == \E entry \in audit : entry.assessment_id = x

\* The origin of an assessment is itself, or one of older evidence.
Sound(origin, id) == origin \in {id, None} \/ (origin[2] < id[2] /\ Clean(origin))

OnceOK(e) ==
  /\ e.message # None => delivered[e.message] \notin {0, None}
  /\ e.pc \in Rereading \cup {"put"} =>
       \A id \in DOMAIN assessments : id[1] = e.message => id[4] < e.attempt
  /\ e.message # None =>
       \A id \in DOMAIN assessments : id[1] = e.message => id[4] <= e.attempt
  /\ e.pc \in Rereading /\ e.read.latest_assessment # None =>
       LET p == e.read.latest_assessment IN
       assessments[p].status = "assessed" /\ e.read.decision_review # "rejected"
         /\ p[2] < e.read.event_count => Clean(p)
  /\ e.pc = "put" => Sound(e.item.origin, IdentifierOf(e))
  /\ e.pc = "publish" => /\ ~Reviewed(IdentifierOf(e))
                         /\ summary.latest_assessment # IdentifierOf(e)

\* Two executions are never for one message.
OneEach ==
  \A w, v \in Workers :
    w # v /\ worker[w].message # None => worker[w].message # worker[v].message

Filed ==
  \A id \in DOMAIN assessments : /\ delivered[id[1]] \notin {0, None}
                                /\ Sound(assessments[id].origin, id)

StandingIsClean ==
  summary.latest_assessment # None /\ summary.decision_review # "rejected" =>
    Clean(summary.latest_assessment)

Once ==
  /\ OneEach /\ Filed /\ StandingIsClean
  /\ \A w \in Workers : OnceOK(worker[w])

OnceInv == AssessInv /\ Once

-----------------------------------------------------------------------------
(* What the steps of others leave true *)

\* The types of everything but the executions.
WorldOK ==
  /\ recorded \subseteq Signals /\ ledger \in Reports \cup {None} /\ notes \subseteq Notes
  /\ summary \in Summary
  /\ DOMAIN assessments \subseteq Identifiers
  /\ \A id \in DOMAIN assessments : assessments[id] \in Row
  /\ expired \subseteq DOMAIN assessments /\ audit \subseteq Entry
  /\ briefing \in Briefing \cup {None}
  /\ delivered \in [Messages -> (0 .. MaxDeliveries) \cup {None}]

LEMMA Types ==
  TypeOK <=> /\ WorldOK /\ worker \in [Workers -> Execution]
             /\ \A w \in Workers : worker[w].attempt <= Attempts
BY DEF TypeOK, WorldOK

\* Evidence and notes are only added, assessments and verdicts only recorded.
Advances ==
  /\ summary.event_count <= summary'.event_count
  /\ summary.note_revision <= summary'.note_revision
  /\ summary'.event_count = summary.event_count => ledger' = ledger
  /\ DOMAIN assessments \subseteq DOMAIN assessments'
  /\ \A id \in DOMAIN assessments : assessments'[id] = assessments[id]
  /\ expired \subseteq expired' /\ audit \subseteq audit'

LEMMA WorldFacts ==
  ASSUME WorldOK
  PROVE  /\ summary.event_count \in Nat /\ summary.note_revision \in Nat
         /\ summary.latest_assessment \in Identifiers \cup {None}
         /\ summary.assessed_revision \in Nat
         /\ summary.decision_review \in {"none", "unreviewed", "accepted", "rejected"}
         /\ summary.resolved \in BOOLEAN /\ summary.deleting \in BOOLEAN
BY DEF WorldOK, Summary

LEMMA SummaryFields ==
  ASSUME NEW s \in Summary
  PROVE  /\ s.event_count \in Nat /\ s.note_revision \in Nat /\ s.assessed_revision \in Nat
         /\ s.latest_assessment \in Identifiers \cup {None}
BY DEF Summary

LEMMA RowStays ==
  ASSUME WorldOK, WorldOK', Advances, NEW row, NEW id \in Identifiers, RowOK(row, id)
  PROVE  RowOK(row, id)'
<1>1. id[2] \in Nat /\ id[3] \in Nat  BY DEF Identifiers
<1>2. /\ summary.event_count \in Nat /\ summary.note_revision \in Nat
      /\ summary'.event_count \in Nat /\ summary'.note_revision \in Nat
  <2>1. (summary.event_count \in Nat /\ summary.note_revision \in Nat)'  BY WorldFacts, PTL
  <2> QED  BY <2>1, WorldFacts
<1>3. id[2] <= summary'.event_count /\ id[3] <= summary'.note_revision
  BY <1>1, <1>2 DEF RowOK, Advances
<1>4. id[2] = summary'.event_count => id[2] = summary.event_count /\ ledger' = ledger
  BY <1>1, <1>2 DEF RowOK, Advances
<1> QED  BY <1>3, <1>4 DEF RowOK

LEMMA SeenStays ==
  ASSUME WorldOK, WorldOK', Advances, NEW s, Seen(s)
  PROVE  Seen(s)'
<1>1. /\ summary.event_count \in Nat /\ summary.note_revision \in Nat
      /\ summary'.event_count \in Nat /\ summary'.note_revision \in Nat
  <2>1. (summary.event_count \in Nat /\ summary.note_revision \in Nat)'  BY WorldFacts, PTL
  <2> QED  BY <2>1, WorldFacts
<1>2. s.event_count \in Nat /\ s.note_revision \in Nat  BY SummaryFields DEF Seen
<1>3. s.event_count <= summary'.event_count /\ s.note_revision <= summary'.note_revision
  BY <1>1, <1>2 DEF Seen, Advances
<1> QED  BY <1>3 DEF Seen, Advances

LEMMA WantingStays ==
  ASSUME Advances, NEW s, Seen(s), Wanting(s)
  PROVE  Wanting(s)'
<1>1. Actionable(s, s.latest_assessment)' => Actionable(s, s.latest_assessment)
  BY DEF Actionable, CurrentAssessment, Seen, Advances
<1>2. Verdict(s.latest_assessment, "rejected") => Verdict(s.latest_assessment, "rejected")'
  BY DEF Verdict, Advances
<1> QED  BY <1>1, <1>2 DEF Wanting, Advances

LEMMA IdentifierTyped ==
  ASSUME NEW e \in Execution, e.message \in Messages, e.read \in Summary
  PROVE  /\ IdentifierOf(e) \in Identifiers
         /\ IdentifierOf(e)[1] = e.message /\ IdentifierOf(e)[2] = e.read.event_count
         /\ IdentifierOf(e)[3] = e.read.note_revision /\ IdentifierOf(e)[4] = e.attempt
<1>1. e.attempt \in Nat  BY DEF Execution
<1>2. e.read.event_count \in Nat /\ e.read.note_revision \in Nat  BY SummaryFields
<1> QED  BY <1>1, <1>2 DEF IdentifierOf, Identifiers

LEMMA ExecutionStays ==
  ASSUME WorldOK, WorldOK', Advances, NEW e \in Execution, ExecutionOK(e)
  PROVE  ExecutionOK(e)'
<1>1. e.pc \in Reasoning \cup Drafting => Seen(e.read)'
  BY SeenStays DEF ExecutionOK
<1>2. e.pc \in Reasoning => Wanting(e.read)'
  BY WantingStays DEF ExecutionOK
<1>3. ASSUME e.pc \in Reasoning \cup Drafting
      PROVE  /\ e.read \in Summary /\ e.read.event_count \in Nat /\ e.read.note_revision \in Nat
             /\ e.read.event_count <= summary.event_count
             /\ e.read.note_revision <= summary.note_revision
  BY <1>3, SummaryFields DEF ExecutionOK, Seen
<1>4. /\ summary.event_count \in Nat /\ summary.note_revision \in Nat
      /\ summary'.event_count \in Nat /\ summary'.note_revision \in Nat
  <2>1. (summary.event_count \in Nat /\ summary.note_revision \in Nat)'  BY WorldFacts, PTL
  <2> QED  BY <2>1, WorldFacts
<1>5. ASSUME e.pc \in {"notes", "reread", "briefPrevious", "briefPut"},
             e.read.event_count = summary'.event_count
      PROVE  e.snapshot = ledger'
  <2>1. e.pc \in Reasoning \cup Drafting  BY <1>5 DEF Reasoning, Rereading, Drafting
  <2>2. summary'.event_count = summary.event_count  BY <1>3, <1>4, <1>5, <2>1 DEF Advances
  <2> QED  BY <1>5, <2>2 DEF ExecutionOK, Advances
<1>6. ASSUME e.pc = "reread", e.read.note_revision = summary'.note_revision
      PROVE  e.heard = summary'.note_revision
  <2>1. e.pc \in Reasoning \cup Drafting  BY <1>6 DEF Reasoning, Rereading
  <2>2. summary'.note_revision = summary.note_revision  BY <1>3, <1>4, <1>6, <2>1 DEF Advances
  <2> QED  BY <1>6, <2>2 DEF ExecutionOK
<1>7. e.pc = "put" => RowOK(e.item, IdentifierOf(e))'
  <2> SUFFICES ASSUME e.pc = "put" PROVE RowOK(e.item, IdentifierOf(e))'  OBVIOUS
  <2>1. e.pc \in Reasoning \cup Drafting /\ e.pc \in {"assess"} \cup Reasoning
    BY DEF Reasoning
  <2>2. e.message \in Messages /\ RowOK(e.item, IdentifierOf(e))  BY <2>1 DEF ExecutionOK
  <2>3. IdentifierOf(e) \in Identifiers  BY <1>3, <2>1, <2>2, IdentifierTyped
  <2> QED  BY <2>2, <2>3, RowStays
<1>8. e.pc \in {"publish", "confirm"} => IdentifierOf(e) \in DOMAIN assessments'
  BY DEF ExecutionOK, Advances
<1> QED  BY <1>1, <1>2, <1>5, <1>6, <1>7, <1>8 DEF ExecutionOK

-----------------------------------------------------------------------------
(* A step of one execution, and of none *)

Recorded ==
  /\ summary.decision_review \in {"accepted", "rejected"} =>
       \E entry \in audit : /\ entry.assessment_id = summary.latest_assessment
                            /\ entry.verdict = summary.decision_review
  /\ \A x, y \in audit : x.request = y.request => x = y

WorldInv == WorldOK /\ Recorded /\ SummaryOK /\ RowsOK /\ AuditOK

WorkersOK ==
  worker \in [Workers -> Execution] /\ \A w \in Workers : ExecutionOK(worker[w])

LEMMA Parts == AssessInv <=> WorldInv /\ WorkersOK
BY Types DEF AssessInv, VerdictIsOnRecord, Recorded, WorldInv, WorkersOK, ExecutionOK

LEMMA StillOK ==
  ASSUME NEW v, NEW o, o = worker'[v], ExecutionOK(o)'
  PROVE  ExecutionOK(worker[v])'
BY DEF ExecutionOK, Seen, Wanting, RowOK, Actionable, CurrentAssessment, Verdict, IdentifierOf

LEMMA InvMoves ==
  ASSUME AssessInv, Advances, WorldInv', NEW w \in Workers, NEW e \in Execution,
         ExecutionOK(e)', worker' = [worker EXCEPT ![w] = e]
  PROVE  AssessInv'
<1>1. worker \in [Workers -> Execution]  BY Parts DEF WorkersOK
<1>2. /\ worker' \in [Workers -> Execution] /\ worker'[w] = e
      /\ \A v \in Workers \ {w} : worker'[v] = worker[v]
  BY <1>1
<1>3. ASSUME NEW v \in Workers PROVE ExecutionOK(worker[v])'
  <2>1. PICK o : o = worker'[v]  OBVIOUS
  <2>2. CASE v = w
    <3>1. o = e  BY <1>2, <2>1, <2>2
    <3> QED  BY <2>1, <3>1, StillOK
  <2>3. CASE v # w
    <3>1. o = worker[v]  BY <1>2, <2>1, <2>3
    <3>2. o \in Execution /\ ExecutionOK(o)  BY <1>1, <3>1, Parts DEF WorkersOK
    <3>3. WorldOK /\ WorldOK'  BY Parts DEF WorldInv
    <3>4. ExecutionOK(o)'  BY <3>2, <3>3, ExecutionStays
    <3> QED  BY <2>1, <3>4, StillOK
  <2> QED  BY <2>2, <2>3
<1>4. WorkersOK'  BY <1>2, <1>3 DEF WorkersOK
<1> QED  BY <1>4, Parts, PTL

LEMMA InvMove ==
  ASSUME AssessInv, NEW w \in Workers, NEW e \in Execution, ExecutionOK(e),
         worker' = [worker EXCEPT ![w] = e], UNCHANGED <<incident, opinions>>,
         delivered' \in [Messages -> (0 .. MaxDeliveries) \cup {None}]
  PROVE  AssessInv'
<1>1. WorldInv /\ WorldInv'
  BY Parts DEF WorldInv, WorldOK, Recorded, SummaryOK, RowsOK, RowOK, AuditOK, incident, opinions
<1>2. Advances
  BY <1>1, WorldFacts DEF Advances, WorldInv, incident, opinions
<1>3. ExecutionOK(e)'  BY <1>1, <1>2, ExecutionStays DEF WorldInv
<1> QED  BY <1>1, <1>2, <1>3, InvMoves

LEMMA InvStands ==
  ASSUME AssessInv, Advances, WorldInv', UNCHANGED worker
  PROVE  AssessInv'
<1>1. worker' \in [Workers -> Execution]  BY Parts DEF WorkersOK
<1>2. ASSUME NEW v \in Workers PROVE ExecutionOK(worker[v])'
  <2>1. PICK o : o = worker'[v]  OBVIOUS
  <2>2. o \in Execution /\ ExecutionOK(o)  BY <2>1, Parts DEF WorkersOK
  <2>3. WorldOK /\ WorldOK'  BY Parts DEF WorldInv
  <2>4. ExecutionOK(o)'  BY <2>2, <2>3, ExecutionStays
  <2> QED  BY <2>1, <2>4, StillOK
<1>3. WorkersOK'  BY <1>1, <1>2 DEF WorkersOK
<1> QED  BY <1>3, Parts, PTL

LEMMA WorkerFacts ==
  ASSUME AssessInv, NEW w \in Workers
  PROVE  /\ worker[w] \in Execution /\ ExecutionOK(worker[w]) /\ WorldInv /\ WorldOK
         /\ delivered \in [Messages -> (0 .. MaxDeliveries) \cup {None}]
BY Parts DEF WorldInv, WorldOK, WorkersOK

Fields(e) == [pc |-> e.pc, message |-> e.message, attempt |-> e.attempt, read |-> e.read,
              snapshot |-> e.snapshot, heard |-> e.heard, item |-> e.item,
              next |-> e.next, previous |-> e.previous]

LEMMA ExecutionFields ==
  ASSUME NEW e \in Execution
  PROVE  /\ e = Fields(e)
         /\ e.message \in Messages \cup {None} /\ e.attempt \in Nat
         /\ e.read \in Summary \cup {None} /\ e.snapshot \in Reports \cup {None}
         /\ e.heard \in Nat /\ e.item \in Row \cup {None}
         /\ e.next \in {"end", "retry", "publishBriefing", "done"}
         /\ e.previous \in Material \cup {None}
         /\ e.pc \in {"idle", "record", "assess"} \cup Reasoning \cup Briefs
BY DEF Execution, Fields, Reasoning, Rereading, Briefs, Drafting

\* An execution that has nothing to do, or only a briefing to publish.
LEMMA IdleOK ==
  /\ Idle \in Execution /\ ExecutionOK(Idle) /\ Idle.message = None /\ Idle.pc = "idle"
  /\ PublishBriefing \in Execution /\ ExecutionOK(PublishBriefing)
  /\ PublishBriefing.message = None /\ PublishBriefing.pc = "brief"
<1>1. Idle \in Execution  BY DEF Idle, Execution
<1>2. PublishBriefing = [pc |-> "brief", message |-> None, attempt |-> 0, read |-> None,
                         snapshot |-> None, heard |-> 0, item |-> None, next |-> "done",
                         previous |-> None]
  <2>1. Idle = [pc |-> "idle", message |-> None, attempt |-> 0, read |-> None,
                snapshot |-> None, heard |-> 0, item |-> None, next |-> "end",
                previous |-> None]
    BY DEF Idle
  <2>2. PublishBriefing = [Idle EXCEPT !.pc = "brief", !.next = "done"]
    BY DEF PublishBriefing
  <2> QED  BY ONLY <2>1, <2>2
<1>3. PublishBriefing \in Execution  BY <1>2 DEF Execution
<1>4. ExecutionOK(Idle) /\ Idle.message = None /\ Idle.pc = "idle"
  BY AssessmentAssumption
     DEF Idle, ExecutionOK, Reasoning, Rereading, Drafting, Briefs
<1>5. ExecutionOK(PublishBriefing) /\ PublishBriefing.message = None /\ PublishBriefing.pc = "brief"
  BY <1>2, AssessmentAssumption
     DEF ExecutionOK, Reasoning, Rereading, Drafting, Briefs
<1> QED  BY <1>1, <1>3, <1>4, <1>5

LEMMA InvFinish ==
  ASSUME AssessInv, NEW w \in Workers, Finish(w), UNCHANGED <<incident, opinions, delivered>>
  PROVE  AssessInv'
BY IdleOK, InvMove, WorkerFacts DEF Finish

LEMMA InvPublishBriefing ==
  ASSUME AssessInv, NEW w \in Workers, worker' = [worker EXCEPT ![w] = PublishBriefing],
         UNCHANGED <<incident, opinions, delivered>>
  PROVE  AssessInv'
BY IdleOK, InvMove, WorkerFacts

-----------------------------------------------------------------------------
(* Delivery, and an attempt up to its conclusion *)

\* The next label of an execution that keeps what it has.
Onward(label, pc) ==
  <<label, pc>> \in {<<"assess", "record">>, <<"confirm", "publish">>, <<"brief", "idle">>}

LEMMA Gone ==
  ASSUME AssessInv, NEW w \in Workers, NEW label, Goto(w, label), Onward(label, worker[w].pc)
  PROVE  \E e \in Execution : ExecutionOK(e) /\ worker' = [worker EXCEPT ![w] = e]
<1>1. PICK o : o = worker[w]  OBVIOUS
<1>2. o \in Execution /\ ExecutionOK(o) /\ WorldInv  BY <1>1, WorkerFacts
<1>3. PICK e : e = [pc |-> label, message |-> o.message, attempt |-> o.attempt,
                    read |-> o.read, snapshot |-> o.snapshot, heard |-> o.heard,
                    item |-> o.item, next |-> o.next, previous |-> o.previous]
  OBVIOUS
<1>4. e = [o EXCEPT !.pc = label]
  <2>1. o = Fields(o)  BY <1>2, ExecutionFields
  <2> QED  BY ONLY <1>3, <2>1 DEF Fields
<1>5. worker' = [worker EXCEPT ![w] = e]  BY <1>1, <1>4 DEF Goto
<1>6. label \in {"assess", "confirm", "brief"} /\ Onward(label, o.pc)  BY <1>1 DEF Onward
<1>7. e \in Execution  BY ONLY <1>2, <1>3, <1>6 DEF Execution
<1>8. ExecutionOK(e)
  <2>1. IdentifierOf(e) = IdentifierOf(o)  BY <1>3 DEF IdentifierOf
  <2>2. CASE label = "assess" /\ o.pc = "record"
    BY <1>2, <1>3, <2>2 DEF ExecutionOK, Reasoning, Rereading, Briefs, Drafting, Messages
  <2>3. CASE label = "confirm" /\ o.pc = "publish"
    BY <1>2, <1>3, <2>1, <2>3 DEF ExecutionOK, Reasoning, Rereading, Briefs, Drafting
  <2>4. CASE label = "brief" /\ o.pc = "idle"
    BY <1>2, <1>3, <2>4 DEF ExecutionOK, Reasoning, Rereading, Briefs, Drafting
  <2> QED  BY <1>6, <2>2, <2>3, <2>4 DEF Onward
<1> QED  BY <1>5, <1>7, <1>8

LEMMA InvGoes ==
  ASSUME AssessInv, NEW w \in Workers, NEW label, Goto(w, label), Onward(label, worker[w].pc),
         Advances, WorldInv'
  PROVE  AssessInv'
<1>1. PICK e \in Execution : ExecutionOK(e) /\ worker' = [worker EXCEPT ![w] = e]
  BY Gone
<1>2. ExecutionOK(e)'  BY <1>1, ExecutionStays, WorkerFacts DEF WorldInv
<1> QED  BY <1>1, <1>2, InvMoves

LEMMA InvGoto ==
  ASSUME AssessInv, NEW w \in Workers, NEW label, Goto(w, label), Onward(label, worker[w].pc),
         UNCHANGED <<incident, opinions, delivered>>
  PROVE  AssessInv'
BY Gone, InvMove, WorkerFacts

LEMMA InvDeliver ==
  ASSUME AssessInv, NEW w \in Workers, NEW m \in Messages, Deliver(w, m)
  PROVE  AssessInv'
<1>1. PICK e : e = [pc |-> IF m \in Signals THEN "record" ELSE "assess", message |-> m,
                    attempt |-> 0, read |-> None, snapshot |-> None, heard |-> 0,
                    item |-> None, next |-> "end", previous |-> None]
  OBVIOUS
<1>2. e = [Idle EXCEPT !.message = m, !.pc = IF m \in Signals THEN "record" ELSE "assess"]
  <2>1. Idle = [pc |-> "idle", message |-> None, attempt |-> 0, read |-> None,
                snapshot |-> None, heard |-> 0, item |-> None, next |-> "end",
                previous |-> None]
    BY DEF Idle
  <2>2. PICK f : f = [Idle EXCEPT !.message = m]  OBVIOUS
  <2>3. f = [pc |-> "idle", message |-> m, attempt |-> 0, read |-> None,
             snapshot |-> None, heard |-> 0, item |-> None, next |-> "end",
             previous |-> None]
    BY ONLY <2>1, <2>2
  <2>4. e = [f EXCEPT !.pc = IF m \in Signals THEN "record" ELSE "assess"]
    BY ONLY <1>1, <2>3
  <2> QED  BY ONLY <2>2, <2>4
<1>3. worker' = [worker EXCEPT ![w] = e]  BY <1>2 DEF Deliver
<1>4. e \in Execution  BY <1>1 DEF Execution
<1>5. ExecutionOK(e)
  BY <1>1, AssessmentAssumption DEF ExecutionOK, Reasoning, Rereading, Briefs, Drafting
<1>6. delivered \in [Messages -> (0 .. MaxDeliveries) \cup {None}]  BY WorkerFacts
<1>7. delivered' \in [Messages -> (0 .. MaxDeliveries) \cup {None}]
  BY <1>6, AssessmentAssumption DEF Deliver
<1> QED  BY <1>3, <1>4, <1>5, <1>7, InvMove DEF Deliver

LEMMA InvAlreadyRecorded ==
  ASSUME AssessInv, NEW w \in Workers, AlreadyRecorded(w)
  PROVE  AssessInv'
BY InvGoto, InvFinish DEF AlreadyRecorded, Onward

LEMMA InvDie ==
  ASSUME AssessInv, NEW w \in Workers, Die(w)
  PROVE  AssessInv'
BY InvPublishBriefing, InvFinish DEF Die

LEMMA SeenNow ==
  ASSUME AssessInv
  PROVE  Seen(summary)
<1>1. WorldInv /\ summary \in Summary  BY Parts DEF WorldInv, WorldOK
<1>2. summary.latest_assessment # None =>
        summary.latest_assessment[2] <= summary.event_count
  BY <1>1 DEF WorldInv, SummaryOK, RowsOK, RowOK
<1>3. /\ summary.event_count <= summary.event_count
      /\ summary.note_revision <= summary.note_revision
  BY <1>1, SummaryFields
<1> QED  BY <1>1, <1>2, <1>3 DEF Seen, WorldInv, SummaryOK

LEMMA InvStartAssessment ==
  ASSUME AssessInv, NEW w \in Workers, StartAssessment(w)
  PROVE  AssessInv'
<1>1. PICK o : o = worker[w]  OBVIOUS
<1>2. o \in Execution /\ ExecutionOK(o) /\ WorldInv  BY <1>1, WorkerFacts
<1>3. PICK s : s = summary  OBVIOUS
<1>4. CASE ~Open  BY <1>4, InvFinish DEF StartAssessment
<1>5. CASE Open /\ Actionable(s, s.latest_assessment) /\ s.latest_assessment \notin expired
  BY <1>3, <1>5, InvPublishBriefing DEF StartAssessment
<1>6. CASE Open /\ ~(Actionable(s, s.latest_assessment) /\ s.latest_assessment \notin expired)
  <2>1. PICK e : e = [pc |-> "snapshot", message |-> o.message, attempt |-> o.attempt + 1,
                      read |-> s, snapshot |-> o.snapshot, heard |-> o.heard,
                      item |-> o.item, next |-> o.next, previous |-> o.previous]
    OBVIOUS
  <2>2. e = [o EXCEPT !.pc = "snapshot", !.attempt = @ + 1, !.read = s]
    <3>1. o = Fields(o)  BY <1>2, ExecutionFields
    <3>2. PICK f : f = [o EXCEPT !.pc = "snapshot"]  OBVIOUS
    <3>3. f = [pc |-> "snapshot", message |-> o.message, attempt |-> o.attempt,
               read |-> o.read, snapshot |-> o.snapshot, heard |-> o.heard,
               item |-> o.item, next |-> o.next, previous |-> o.previous]
      BY ONLY <3>1, <3>2 DEF Fields
    <3>4. PICK g : g = [f EXCEPT !.attempt = o.attempt + 1]  OBVIOUS
    <3>5. g = [pc |-> "snapshot", message |-> o.message, attempt |-> o.attempt + 1,
               read |-> o.read, snapshot |-> o.snapshot, heard |-> o.heard,
               item |-> o.item, next |-> o.next, previous |-> o.previous]
      BY ONLY <3>3, <3>4
    <3>6. e = [g EXCEPT !.read = s]  BY ONLY <2>1, <3>5
    <3> QED  BY ONLY <3>2, <3>4, <3>6
  <2>3. o.pc = "assess" /\ worker' = [worker EXCEPT ![w] = e]
    <3>1. /\ worker[w].pc = "assess"
          /\ worker' = [worker EXCEPT ![w].pc = "snapshot", ![w].attempt = @ + 1,
                                      ![w].read = s]
      BY <1>3, <1>6 DEF StartAssessment
    <3>2. worker[w].attempt = o.attempt  BY <1>1
    <3> QED  BY <1>1, <2>2, <3>1
  <2>4. s \in Summary  BY <1>2, <1>3 DEF WorldInv, WorldOK
  <2>5. e \in Execution  BY ONLY <1>2, <2>1, <2>4 DEF Execution
  <2>6. Seen(s)  BY <1>3, SeenNow
  <2>7. Wanting(s)
    BY <1>2, <1>3, <1>6 DEF Wanting, Open, Verdict, WorldInv, Recorded
  <2>8. o.attempt < Attempts => o.attempt + 1 <= Attempts
    BY <1>2, AssessmentAssumption, ExecutionFields
  <2>9. ExecutionOK(e)
    BY <1>2, <2>1, <2>3, <2>6, <2>7, <2>8
       DEF ExecutionOK, Reasoning, Rereading, Briefs, Drafting
  <2> QED  BY <2>3, <2>5, <2>9, InvMove, WorkerFacts DEF StartAssessment
<1> QED  BY <1>4, <1>5, <1>6

LEMMA InvReadSnapshot ==
  ASSUME AssessInv, NEW w \in Workers, ReadSnapshot(w)
  PROVE  AssessInv'
<1>1. PICK o : o = worker[w]  OBVIOUS
<1>2. o \in Execution /\ ExecutionOK(o) /\ WorldInv  BY <1>1, WorkerFacts
<1>3. PICK e : e = [pc |-> IF o.read.note_revision > 0 THEN "notes" ELSE "reread",
                    message |-> o.message, attempt |-> o.attempt,
                    read |-> o.read, snapshot |-> ledger, heard |-> o.heard,
                    item |-> o.item, next |-> o.next, previous |-> o.previous]
  OBVIOUS
<1>4. e = [o EXCEPT !.snapshot = ledger,
                    !.pc = IF o.read.note_revision > 0 THEN "notes" ELSE "reread"]
  <2>1. o = Fields(o)  BY <1>2, ExecutionFields
  <2>2. PICK f : f = [o EXCEPT !.snapshot = ledger]  OBVIOUS
  <2>3. f = [pc |-> o.pc, message |-> o.message, attempt |-> o.attempt, read |-> o.read,
             snapshot |-> ledger, heard |-> o.heard, item |-> o.item,
             next |-> o.next, previous |-> o.previous]
    BY ONLY <2>1, <2>2 DEF Fields
  <2>4. e = [f EXCEPT !.pc = IF o.read.note_revision > 0 THEN "notes" ELSE "reread"]
    BY ONLY <1>3, <2>3
  <2> QED  BY ONLY <2>2, <2>4
<1>5. o.pc = "snapshot" /\ worker' = [worker EXCEPT ![w] = e]
  BY <1>1, <1>4 DEF ReadSnapshot
<1>6. e \in Execution
  <2>1. ledger \in Reports \cup {None}  BY <1>2 DEF WorldInv, WorldOK
  <2> QED  BY ONLY <1>2, <1>3, <2>1 DEF Execution
<1>7. ExecutionOK(e)
  <2>1. Seen(o.read) /\ Wanting(o.read)
    BY <1>2, <1>5 DEF ExecutionOK, Reasoning, Rereading
  <2>2. o.read.note_revision \in Nat  BY <2>1, SummaryFields DEF Seen
  <2>3. summary.note_revision \in Nat  BY <1>2, WorldFacts DEF WorldInv
  <2>4. e.pc = "reread" => o.read.note_revision = 0  BY <1>3, <2>2
  <2> QED  BY <1>2, <1>3, <1>5, <2>1, <2>4
           DEF ExecutionOK, Reasoning, Rereading, Briefs, Drafting
<1> QED  BY <1>5, <1>6, <1>7, InvMove, WorkerFacts DEF ReadSnapshot

LEMMA InvReadNotes ==
  ASSUME AssessInv, NEW w \in Workers, ReadNotes(w)
  PROVE  AssessInv'
<1>1. PICK o : o = worker[w]  OBVIOUS
<1>2. o \in Execution /\ ExecutionOK(o) /\ WorldInv  BY <1>1, WorkerFacts
<1>3. PICK e : e = [pc |-> "reread", message |-> o.message, attempt |-> o.attempt,
                    read |-> o.read, snapshot |-> o.snapshot, heard |-> Cardinality(notes),
                    item |-> o.item, next |-> o.next, previous |-> o.previous]
  OBVIOUS
<1>4. e = [o EXCEPT !.heard = Cardinality(notes), !.pc = "reread"]
  <2>1. o = Fields(o)  BY <1>2, ExecutionFields
  <2>2. PICK f : f = [o EXCEPT !.heard = Cardinality(notes)]  OBVIOUS
  <2>3. f = [pc |-> o.pc, message |-> o.message, attempt |-> o.attempt, read |-> o.read,
             snapshot |-> o.snapshot, heard |-> Cardinality(notes), item |-> o.item,
             next |-> o.next, previous |-> o.previous]
    BY ONLY <2>1, <2>2 DEF Fields
  <2>4. e = [f EXCEPT !.pc = "reread"]  BY ONLY <1>3, <2>3
  <2> QED  BY ONLY <2>2, <2>4
<1>5. o.pc = "notes" /\ worker' = [worker EXCEPT ![w] = e]
  BY <1>1, <1>4 DEF ReadNotes
<1>6. Cardinality(notes) = summary.note_revision  BY <1>2 DEF WorldInv, SummaryOK
<1>7. e \in Execution
  <2>1. Cardinality(notes) \in Nat  BY <1>2, <1>6, WorldFacts DEF WorldInv
  <2> QED  BY ONLY <1>2, <1>3, <2>1 DEF Execution
<1>8. ExecutionOK(e)
  BY <1>2, <1>3, <1>5, <1>6 DEF ExecutionOK, Reasoning, Rereading, Briefs, Drafting
<1> QED  BY <1>5, <1>7, <1>8, InvMove, WorkerFacts DEF ReadNotes

LEMMA InvConclude ==
  ASSUME AssessInv, NEW w \in Workers, NEW row \in Row, Conclude(w, row),
         worker[w].pc \in Rereading, RowOK(row, IdentifierOf(worker[w])),
         UNCHANGED <<incident, opinions, delivered>>
  PROVE  AssessInv'
<1>1. PICK o : o = worker[w]  OBVIOUS
<1>2. o \in Execution /\ ExecutionOK(o) /\ WorldInv  BY <1>1, WorkerFacts
<1>3. PICK e : e = [pc |-> "put", message |-> o.message, attempt |-> o.attempt,
                    read |-> o.read, snapshot |-> None, heard |-> 0,
                    item |-> row, next |-> o.next, previous |-> o.previous]
  OBVIOUS
<1>4. e = [o EXCEPT !.pc = "put", !.snapshot = None, !.heard = 0, !.item = row]
  <2>1. o = Fields(o)  BY <1>2, ExecutionFields
  <2>2. PICK f : f = [o EXCEPT !.pc = "put"]  OBVIOUS
  <2>3. f = [pc |-> "put", message |-> o.message, attempt |-> o.attempt,
             read |-> o.read, snapshot |-> o.snapshot, heard |-> o.heard,
             item |-> o.item, next |-> o.next, previous |-> o.previous]
    BY ONLY <2>1, <2>2 DEF Fields
  <2>4. PICK g : g = [f EXCEPT !.snapshot = None]  OBVIOUS
  <2>5. g = [pc |-> "put", message |-> o.message, attempt |-> o.attempt,
             read |-> o.read, snapshot |-> None, heard |-> o.heard,
             item |-> o.item, next |-> o.next, previous |-> o.previous]
    BY ONLY <2>3, <2>4
  <2>6. PICK h : h = [g EXCEPT !.heard = 0]  OBVIOUS
  <2>7. h = [pc |-> "put", message |-> o.message, attempt |-> o.attempt,
             read |-> o.read, snapshot |-> None, heard |-> 0,
             item |-> o.item, next |-> o.next, previous |-> o.previous]
    BY ONLY <2>5, <2>6
  <2>8. e = [h EXCEPT !.item = row]  BY ONLY <1>3, <2>7
  <2> QED  BY ONLY <2>2, <2>4, <2>6, <2>8
<1>5. worker' = [worker EXCEPT ![w] = e]  BY <1>1, <1>4 DEF Conclude
<1>6. e \in Execution  BY ONLY <1>2, <1>3, row \in Row DEF Execution
<1>7. ExecutionOK(e)
  <2>1. IdentifierOf(e) = IdentifierOf(o)  BY <1>3 DEF IdentifierOf
  <2>2. e.item = row /\ RowOK(row, IdentifierOf(e))  BY <1>1, <1>3, <2>1
  <2>3. Seen(o.read) /\ Wanting(o.read) /\ o.message \in Messages /\ o.next = "end"
    BY <1>1, <1>2 DEF ExecutionOK, Reasoning, Rereading, Briefs, Drafting
  <2> QED  BY <1>2, <1>3, <2>2, <2>3
           DEF ExecutionOK, Reasoning, Rereading, Briefs, Drafting
<1> QED  BY <1>5, <1>6, <1>7, InvMove, WorkerFacts

\* What an execution knows while it reasons.
LEMMA ReasoningFacts ==
  ASSUME AssessInv, NEW w \in Workers, worker[w].pc \in Reasoning
  PROVE  /\ worker[w].message \in Messages /\ Seen(worker[w].read) /\ Wanting(worker[w].read)
         /\ worker[w].read \in Summary
         /\ worker[w].read.event_count \in Nat /\ worker[w].read.note_revision \in Nat
         /\ worker[w].read.event_count <= summary.event_count
         /\ worker[w].read.note_revision <= summary.note_revision
         /\ Identifier(w) = IdentifierOf(worker[w]) /\ Identifier(w) \in Identifiers
         /\ Identifier(w)[1] = worker[w].message
         /\ Identifier(w)[2] = worker[w].read.event_count
         /\ Identifier(w)[3] = worker[w].read.note_revision
         /\ Identifier(w)[4] = worker[w].attempt
<1>1. /\ worker[w].message \in Messages /\ Seen(worker[w].read) /\ Wanting(worker[w].read)
      /\ worker[w].read \in Summary
  BY WorkerFacts DEF ExecutionOK, Seen
<1>2. Identifier(w) = IdentifierOf(worker[w])  BY DEF Identifier, IdentifierOf
<1>3. worker[w] \in Execution  BY WorkerFacts
<1> QED  BY <1>1, <1>2, <1>3, IdentifierTyped, SummaryFields DEF Seen

LEMMA InvFailed ==
  ASSUME AssessInv, NEW w \in Workers, Conclude(w, Failed(w)), worker[w].pc \in Rereading,
         UNCHANGED <<incident, opinions, delivered>>
  PROVE  AssessInv'
<1>1. worker[w].pc \in Reasoning  BY DEF Reasoning
<1>2. Failed(w) \in Row
  BY <1>1, ReasoningFacts DEF Failed, Row
<1>3. RowOK(Failed(w), IdentifierOf(worker[w]))
  BY <1>1, ReasoningFacts DEF Failed, RowOK
<1> QED  BY <1>2, <1>3, InvConclude

LEMMA InvSnapshotChanged ==
  ASSUME AssessInv, NEW w \in Workers, SnapshotChanged(w)
  PROVE  AssessInv'
BY InvFailed DEF SnapshotChanged, Rereading

LEMMA InvReasonerFails ==
  ASSUME AssessInv, NEW w \in Workers, ReasonerFails(w)
  PROVE  AssessInv'
BY InvFailed DEF ReasonerFails, Rereading

LEMMA Concluded ==
  ASSUME AssessInv, NEW w \in Workers, worker[w].pc = "reread", Unchanged(w),
         NEW about, about = StateFingerprint(w), NEW origin \in Identifiers \cup {None}
  PROVE  Assessed(w, about, origin) \in Row
         /\ RowOK(Assessed(w, about, origin), IdentifierOf(worker[w]))
<1>1. worker[w].pc \in Reasoning  BY DEF Reasoning, Rereading
<1>2. worker[w].snapshot \in Reports \cup {None} /\ ExecutionOK(worker[w])
  BY WorkerFacts, ExecutionFields
<1>3. /\ about = <<worker[w].snapshot, worker[w].read.note_revision>>
      /\ about \in Fingerprints /\ about[1] = worker[w].snapshot
      /\ about[2] = worker[w].read.note_revision
  BY <1>1, <1>2, ReasoningFacts DEF StateFingerprint, Fingerprints
<1>4. PICK row : row = Assessed(w, about, origin)  OBVIOUS
<1>5. row = [status |-> "assessed", evidence_revision |-> worker[w].read.event_count,
             note_revision |-> worker[w].read.note_revision,
             state_fingerprint |-> about, about |-> about, origin |-> origin]
  BY <1>4 DEF Assessed
<1>6. row \in Row
  BY <1>1, <1>3, <1>5, ReasoningFacts DEF Row
<1>7. worker[w].read.event_count = summary.event_count => worker[w].snapshot = ledger
  BY <1>2 DEF ExecutionOK
<1>8. RowOK(row, IdentifierOf(worker[w]))
  BY <1>1, <1>3, <1>5, <1>7, ReasoningFacts DEF RowOK
<1> QED  BY <1>4, <1>6, <1>8

LEMMA InvReuse ==
  ASSUME AssessInv, NEW w \in Workers, Reuse(w)
  PROVE  AssessInv'
<1>1. worker[w].pc = "reread" /\ worker[w].pc \in Reasoning /\ worker[w].pc \in Rereading
  BY DEF Reuse, Reasoning, Rereading
<1>2. PICK id : id = worker[w].read.latest_assessment  OBVIOUS
<1>3. id # None /\ id \in DOMAIN assessments
  BY <1>1, <1>2, ReasoningFacts DEF Reuse, Reusable, Seen
<1>4. Previous(w) = assessments[id] /\ assessments[id] \in Row /\ RowOK(assessments[id], id)
  BY <1>1, <1>2, <1>3, WorkerFacts DEF Previous, WorldOK, WorldInv, RowsOK
<1>5. assessments[id].status = "assessed"
      /\ assessments[id].state_fingerprint = StateFingerprint(w)
  BY <1>2 DEF Reuse, Reusable
<1>6. Previous(w).about = StateFingerprint(w)  BY <1>4, <1>5 DEF RowOK
<1>7. Previous(w).origin \in Identifiers \cup {None}  BY <1>4 DEF Row
<1>8. PICK row : row = Assessed(w, Previous(w).about, Previous(w).origin)  OBVIOUS
<1>9. row \in Row /\ RowOK(row, IdentifierOf(worker[w]))
  BY <1>1, <1>6, <1>7, <1>8, Concluded DEF Reuse
<1> QED  BY <1>1, <1>8, <1>9, InvConclude DEF Reuse

LEMMA InvReason ==
  ASSUME AssessInv, NEW w \in Workers, Reason(w)
  PROVE  AssessInv'
<1>1. worker[w].pc = "reread" /\ worker[w].pc \in Reasoning /\ worker[w].pc \in Rereading
  BY DEF Reason, Reasoning, Rereading
<1>2. worker[w].heard = worker[w].read.note_revision
  BY <1>1, WorkerFacts DEF Reason, Unchanged, ExecutionOK
<1>3. PICK about : about = <<worker[w].snapshot, worker[w].heard>>  OBVIOUS
<1>4. about = StateFingerprint(w)  BY <1>2, <1>3 DEF StateFingerprint
<1>5. Identifier(w) \in Identifiers \cup {None}  BY <1>1, ReasoningFacts
<1>6. PICK row : row = Assessed(w, about, Identifier(w))  OBVIOUS
<1>7. row \in Row /\ RowOK(row, IdentifierOf(worker[w]))
  BY <1>1, <1>4, <1>5, <1>6, Concluded DEF Reason
<1> QED  BY <1>1, <1>3, <1>6, <1>7, InvConclude DEF Reason

-----------------------------------------------------------------------------
(* Storing, publishing, confirming *)

LEMMA RowsStay ==
  ASSUME WorldInv, WorldOK', Advances, UNCHANGED assessments
  PROVE  RowsOK'
<1>1. ASSUME NEW id \in DOMAIN assessments PROVE RowOK(assessments[id], id)'
  <2>1. PICK row : row = assessments[id]  OBVIOUS
  <2>2. id \in Identifiers /\ WorldOK /\ RowOK(row, id)
    BY <2>1 DEF WorldInv, WorldOK, RowsOK
  <2>3. RowOK(row, id)'  BY <2>2, RowStays
  <2> QED  BY <2>1, <2>3 DEF RowOK
<1> QED  BY <1>1 DEF RowsOK

\* What is stored once it was put: old rows as they were, the new one if it is.
LEMMA Stored ==
  ASSUME NEW w, StoreAssessment(w)
  PROVE  /\ DOMAIN assessments' = DOMAIN assessments \cup {Identifier(w)}
         /\ \A id \in DOMAIN assessments : assessments'[id] = assessments[id]
         /\ Identifier(w) \notin DOMAIN assessments =>
              assessments'[Identifier(w)] = worker[w].item
BY DEF StoreAssessment

LEMMA InvStoreAssessment ==
  ASSUME AssessInv, NEW w \in Workers, StoreAssessment(w)
  PROVE  AssessInv'
<1>1. PICK o : o = worker[w]  OBVIOUS
<1>2. o \in Execution /\ ExecutionOK(o) /\ WorldInv /\ WorldOK  BY <1>1, WorkerFacts
<1>3. PICK new : new = Identifier(w)  OBVIOUS
<1>4. /\ o.pc = "put" /\ new = IdentifierOf(o) /\ new \in Identifiers
      /\ Seen(o.read) /\ Wanting(o.read) /\ o.message \in Messages
  <2>1. o.pc = "put" /\ worker[w].pc \in Reasoning
    BY <1>1 DEF StoreAssessment, Reasoning, Rereading
  <2> QED  BY <1>1, <1>3, <2>1, ReasoningFacts
<1>5. o.item \in Row /\ RowOK(o.item, new)  BY <1>2, <1>4 DEF ExecutionOK
<1>6. UNCHANGED <<recorded, ledger, notes, summary, expired, audit, briefing, delivered>>
  BY DEF StoreAssessment, incident
<1>7. /\ DOMAIN assessments' = DOMAIN assessments \cup {new}
      /\ \A id \in DOMAIN assessments : assessments'[id] = assessments[id]
      /\ new \notin DOMAIN assessments => assessments'[new] = o.item
  BY <1>1, <1>3, Stored
<1>8. WorldOK'  BY <1>2, <1>4, <1>5, <1>6, <1>7 DEF WorldOK
<1>9. Advances  BY <1>2, <1>6, <1>7, WorldFacts DEF Advances
<1>10. RowsOK'
  <2>1. ASSUME NEW id \in DOMAIN assessments' PROVE RowOK(assessments'[id], id)
    BY <1>2, <1>5, <1>7 DEF WorldInv, RowsOK
  <2> QED  BY <1>6, <2>1 DEF RowsOK, RowOK
<1>11. SummaryOK'
  <2>1. SummaryOK  BY <1>2 DEF WorldInv
  <2> QED  BY <1>6, <1>7, <2>1, AssessmentAssumption DEF SummaryOK
<1>12. AuditOK' /\ Recorded'  BY <1>2, <1>6, <1>7 DEF WorldInv, AuditOK, Recorded
<1>13. WorldInv'  BY <1>8, <1>10, <1>11, <1>12 DEF WorldInv
<1>14. PICK e : e = [pc |-> "publish", message |-> o.message, attempt |-> o.attempt,
                     read |-> o.read, snapshot |-> o.snapshot, heard |-> o.heard,
                     item |-> None, next |-> o.next, previous |-> o.previous]
  OBVIOUS
<1>15. e = [o EXCEPT !.pc = "publish", !.item = None]
  <2>1. o = Fields(o)  BY <1>2, ExecutionFields
  <2>2. PICK f : f = [o EXCEPT !.pc = "publish"]  OBVIOUS
  <2>3. f = [pc |-> "publish", message |-> o.message, attempt |-> o.attempt,
             read |-> o.read, snapshot |-> o.snapshot, heard |-> o.heard,
             item |-> o.item, next |-> o.next, previous |-> o.previous]
    BY ONLY <2>1, <2>2 DEF Fields
  <2>4. e = [f EXCEPT !.item = None]  BY ONLY <1>14, <2>3
  <2> QED  BY ONLY <2>2, <2>4
<1>16. worker' = [worker EXCEPT ![w] = e]  BY <1>1, <1>15 DEF StoreAssessment
<1>17. e \in Execution  BY ONLY <1>2, <1>14 DEF Execution
<1>18. ExecutionOK(e)'
  <2>1. Seen(o.read)'  BY <1>2, <1>4, <1>8, <1>9, SeenStays
  <2>2. Wanting(o.read)'  BY <1>4, <1>9, WantingStays
  <2>3. IdentifierOf(e) = new  BY <1>4, <1>14 DEF IdentifierOf
  <2>4. e.read = o.read  BY <1>14
  <2>5. Seen(e.read)' /\ Wanting(e.read)'
    BY <2>1, <2>2, <2>4 DEF Seen, Wanting, Actionable, CurrentAssessment, Verdict
  <2>6. IdentifierOf(e) \in DOMAIN assessments'  BY <1>7, <2>3
  <2> QED  BY <1>2, <1>4, <1>14, <2>5, <2>6
           DEF ExecutionOK, Reasoning, Rereading, Briefs, Drafting
<1> QED  BY <1>9, <1>13, <1>16, <1>17, <1>18, InvMoves

LEMMA InvRecordEvidence ==
  ASSUME AssessInv, NEW w \in Workers, RecordEvidence(w)
  PROVE  AssessInv'
<1>1. worker[w].pc = "record" /\ ExecutionOK(worker[w]) /\ WorldInv /\ WorldOK
  BY WorkerFacts DEF RecordEvidence
<1>2. worker[w].message \in Signals  BY <1>1 DEF ExecutionOK
<1>3. UNCHANGED <<notes, assessments, expired, audit, briefing, delivered>>
  BY DEF RecordEvidence, opinions
<1>4. /\ summary' = [summary EXCEPT !.event_count = @ + 1]
      /\ recorded' = recorded \cup {worker[w].message}
      /\ ledger' = ReportOf[worker[w].message] /\ Goto(w, "assess")
  BY DEF RecordEvidence
<1>5. summary \in Summary  BY <1>1 DEF WorldOK
<1>6. /\ summary'.event_count = summary.event_count + 1
      /\ summary'.note_revision = summary.note_revision
      /\ summary'.latest_assessment = summary.latest_assessment
      /\ summary'.assessed_revision = summary.assessed_revision
      /\ summary'.decision_review = summary.decision_review
      /\ summary' \in Summary
  BY ONLY <1>4, <1>5 DEF Summary
<1>7. WorldOK'
  <2>1. ledger' \in Reports  BY <1>2, <1>4, AssessmentAssumption
  <2> QED  BY <1>1, <1>2, <1>3, <1>4, <1>6, <2>1 DEF WorldOK
<1>8. Advances
  <2>1. summary.event_count \in Nat /\ summary.note_revision \in Nat  BY <1>1, WorldFacts
  <2> QED  BY <1>3, <1>6, <2>1 DEF Advances
<1>9. RowsOK'  BY <1>1, <1>3, <1>7, <1>8, RowsStay
<1>10. SummaryOK' /\ Recorded' /\ AuditOK'
  BY <1>1, <1>3, <1>6 DEF WorldInv, SummaryOK, Recorded, AuditOK
<1>11. WorldInv'  BY <1>7, <1>9, <1>10 DEF WorldInv
<1> QED  BY <1>1, <1>4, <1>8, <1>11, InvGoes DEF Onward

LEMMA InvPublish ==
  ASSUME AssessInv, NEW w \in Workers, Publish(w)
  PROVE  AssessInv'
<1>1. worker[w].pc = "publish" /\ ExecutionOK(worker[w]) /\ WorldInv /\ WorldOK
  BY WorkerFacts DEF Publish
<1>2. PICK id : id = Identifier(w)  OBVIOUS
<1>3. id \in DOMAIN assessments /\ id \in Identifiers
  <2>1. worker[w].pc \in Reasoning  BY <1>1 DEF Reasoning
  <2> QED  BY <1>1, <1>2, <2>1, ReasoningFacts DEF ExecutionOK
<1>4. UNCHANGED <<recorded, ledger, notes, assessments, expired, audit, briefing, delivered>>
  BY DEF Publish, opinions
<1>5. summary \in Summary /\ Goto(w, "confirm")  BY <1>1 DEF WorldOK, Publish
<1>6. CASE ~Publishable(w)
  <2>1. UNCHANGED <<incident, opinions, delivered>>
    BY <1>4, <1>6 DEF Publish, incident, opinions
  <2> QED  BY <1>1, <1>5, <2>1, InvGoto DEF Onward
<1>7. CASE Publishable(w)
  <2>1. PICK revision : revision = assessments[id].evidence_revision  OBVIOUS
  <2>2. revision \in Nat  BY <1>1, <1>3, <2>1 DEF WorldOK, Row
  <2>3. summary' = [summary EXCEPT !.latest_assessment = id, !.assessed_revision = revision,
                                   !.decision_review = "unreviewed"]
    BY <1>2, <1>7, <2>1 DEF Publish, Published
  <2>4. /\ summary'.event_count = summary.event_count
        /\ summary'.note_revision = summary.note_revision
        /\ summary'.latest_assessment = id /\ summary'.assessed_revision = revision
        /\ summary'.decision_review = "unreviewed" /\ summary' \in Summary
    BY ONLY <1>3, <1>5, <2>2, <2>3 DEF Summary
  <2>5. WorldOK'  BY <1>1, <1>4, <2>4 DEF WorldOK
  <2>6. Advances
    <3>1. summary.event_count \in Nat /\ summary.note_revision \in Nat  BY <1>1, WorldFacts
    <3> QED  BY <1>4, <2>4, <3>1 DEF Advances
  <2>7. RowsOK'  BY <1>1, <1>4, <2>5, <2>6, RowsStay
  <2>8. SummaryOK' /\ Recorded' /\ AuditOK'
    BY <1>1, <1>3, <1>4, <2>1, <2>4 DEF WorldInv, SummaryOK, Recorded, AuditOK
  <2>9. WorldInv'  BY <2>5, <2>7, <2>8 DEF WorldInv
  <2> QED  BY <1>1, <1>5, <2>6, <2>9, InvGoes DEF Onward
<1> QED  BY <1>6, <1>7

LEMMA InvConfirm ==
  ASSUME AssessInv, NEW w \in Workers, Confirm(w)
  PROVE  AssessInv'
<1>1. PICK o : o = worker[w]  OBVIOUS
<1>2. o \in Execution /\ ExecutionOK(o) /\ WorldInv /\ o.pc = "confirm"
  BY <1>1, WorkerFacts DEF Confirm
<1>3. o.message \in Messages /\ o.next = "end" /\ o.heard = 0
  BY <1>2 DEF ExecutionOK, Reasoning, Briefs, Drafting
<1>4. o = Fields(o)  BY <1>2, ExecutionFields
<1>5. UNCHANGED <<incident, opinions, delivered>>  BY DEF Confirm
<1>6. PICK next : next = IF Actionable(summary, Identifier(w)) THEN "publishBriefing"
                         ELSE IF Open /\ MayTryAgain(w) THEN "retry" ELSE "end"
  OBVIOUS
<1>7. next \in {"publishBriefing", "retry", "end"} /\ (next = "retry" => o.attempt < Attempts)
  BY <1>1, <1>6 DEF MayTryAgain
<1>8. CASE summary.latest_assessment = Identifier(w)
  <2>1. PICK e : e = [pc |-> "brief", message |-> o.message, attempt |-> o.attempt,
                      read |-> None, snapshot |-> o.snapshot, heard |-> o.heard,
                      item |-> o.item, next |-> next, previous |-> o.previous]
    OBVIOUS
  <2>2. e = [o EXCEPT !.pc = "brief", !.next = next, !.read = None]
    <3>1. PICK f : f = [o EXCEPT !.pc = "brief"]  OBVIOUS
    <3>2. f = [pc |-> "brief", message |-> o.message, attempt |-> o.attempt,
               read |-> o.read, snapshot |-> o.snapshot, heard |-> o.heard,
               item |-> o.item, next |-> o.next, previous |-> o.previous]
      BY ONLY <1>4, <3>1 DEF Fields
    <3>3. PICK g : g = [f EXCEPT !.next = next]  OBVIOUS
    <3>4. g = [pc |-> "brief", message |-> o.message, attempt |-> o.attempt,
               read |-> o.read, snapshot |-> o.snapshot, heard |-> o.heard,
               item |-> o.item, next |-> next, previous |-> o.previous]
      BY ONLY <3>2, <3>3
    <3>5. e = [g EXCEPT !.read = None]  BY ONLY <2>1, <3>4
    <3> QED  BY ONLY <3>1, <3>3, <3>5
  <2>3. worker' = [worker EXCEPT ![w] = e]
    <3>1. worker' = [worker EXCEPT ![w].pc = "brief", ![w].next = next, ![w].read = None]
      BY <1>6, <1>8 DEF Confirm
    <3> QED  BY <1>1, <2>2, <3>1
  <2>4. e \in Execution  BY ONLY <1>2, <1>7, <2>1 DEF Execution
  <2>5. ExecutionOK(e)
    BY <1>2, <1>3, <1>7, <2>1 DEF ExecutionOK, Reasoning, Rereading, Briefs, Drafting
  <2> QED  BY <1>5, <2>3, <2>4, <2>5, InvMove, WorkerFacts
<1>9. CASE summary.latest_assessment # Identifier(w) /\ next = "retry"
  <2>1. PICK e : e = [pc |-> "assess", message |-> o.message, attempt |-> o.attempt,
                      read |-> None, snapshot |-> o.snapshot, heard |-> o.heard,
                      item |-> o.item, next |-> o.next, previous |-> o.previous]
    OBVIOUS
  <2>2. e = [o EXCEPT !.pc = "assess", !.read = None]
    <3>1. PICK f : f = [o EXCEPT !.pc = "assess"]  OBVIOUS
    <3>2. f = [pc |-> "assess", message |-> o.message, attempt |-> o.attempt,
               read |-> o.read, snapshot |-> o.snapshot, heard |-> o.heard,
               item |-> o.item, next |-> o.next, previous |-> o.previous]
      BY ONLY <1>4, <3>1 DEF Fields
    <3>3. e = [f EXCEPT !.read = None]  BY ONLY <2>1, <3>2
    <3> QED  BY ONLY <3>1, <3>3
  <2>3. worker' = [worker EXCEPT ![w] = e]
    <3>1. worker' = [worker EXCEPT ![w].pc = "assess", ![w].read = None]
      BY <1>6, <1>9 DEF Confirm
    <3> QED  BY <1>1, <2>2, <3>1
  <2>4. e \in Execution  BY ONLY <1>2, <2>1 DEF Execution
  <2>5. ExecutionOK(e)
    BY <1>2, <1>3, <1>7, <1>9, <2>1 DEF ExecutionOK, Reasoning, Rereading, Briefs, Drafting
  <2> QED  BY <1>5, <2>3, <2>4, <2>5, InvMove, WorkerFacts
<1>10. CASE summary.latest_assessment # Identifier(w) /\ next # "retry"
  <2>1. Finish(w)  BY <1>6, <1>10 DEF Confirm
  <2> QED  BY <1>5, <2>1, InvFinish
<1> QED  BY <1>8, <1>9, <1>10

-----------------------------------------------------------------------------
(* Briefings *)

LEMMA Returned ==
  ASSUME AssessInv, NEW w \in Workers, worker[w].pc \in Briefs, Return(w)
  PROVE  \E e \in Execution : ExecutionOK(e) /\ worker' = [worker EXCEPT ![w] = e]
<1>1. PICK o : o = worker[w]  OBVIOUS
<1>2. o \in Execution /\ ExecutionOK(o)  BY <1>1, WorkerFacts
<1>3. CASE o.next \in {"end", "done"}
  <2>1. worker' = [worker EXCEPT ![w] = Idle]  BY <1>1, <1>3 DEF Return, Finish
  <2> QED  BY <2>1, IdleOK
<1>4. CASE o.next = "publishBriefing"
  <2>1. worker' = [worker EXCEPT ![w] = PublishBriefing]  BY <1>1, <1>4 DEF Return
  <2> QED  BY <2>1, IdleOK
<1>5. CASE o.next = "retry"
  <2>1. PICK e : e = [pc |-> "assess", message |-> o.message, attempt |-> o.attempt,
                      read |-> None, snapshot |-> None, heard |-> 0,
                      item |-> None, next |-> "end", previous |-> None]
    OBVIOUS
  <2>2. e = [Idle EXCEPT !.pc = "assess", !.message = o.message, !.attempt = o.attempt]
    <3>1. Idle = [pc |-> "idle", message |-> None, attempt |-> 0, read |-> None,
                  snapshot |-> None, heard |-> 0, item |-> None, next |-> "end",
                  previous |-> None]
      BY DEF Idle
    <3>2. PICK f : f = [Idle EXCEPT !.pc = "assess"]  OBVIOUS
    <3>3. f = [pc |-> "assess", message |-> None, attempt |-> 0, read |-> None,
               snapshot |-> None, heard |-> 0, item |-> None, next |-> "end",
               previous |-> None]
      BY ONLY <3>1, <3>2
    <3>4. PICK g : g = [f EXCEPT !.message = o.message]  OBVIOUS
    <3>5. g = [pc |-> "assess", message |-> o.message, attempt |-> 0, read |-> None,
               snapshot |-> None, heard |-> 0, item |-> None, next |-> "end",
               previous |-> None]
      BY ONLY <3>3, <3>4
    <3>6. e = [g EXCEPT !.attempt = o.attempt]  BY ONLY <2>1, <3>5
    <3> QED  BY ONLY <3>2, <3>4, <3>6
  <2>3. worker' = [worker EXCEPT ![w] = e]
    <3>1. worker' = [worker EXCEPT ![w] = [Idle EXCEPT !.pc = "assess",
                       !.message = o.message, !.attempt = o.attempt]]
      BY <1>1, <1>5 DEF Return
    <3> QED  BY <2>2, <3>1
  <2>4. e \in Execution  BY ONLY <1>2, <2>1 DEF Execution
  <2>5. ExecutionOK(e)
    BY <1>2, <1>5, <2>1 DEF ExecutionOK, Reasoning, Rereading, Briefs, Drafting
  <2> QED  BY <2>3, <2>4, <2>5
<1> QED  BY <1>2, <1>3, <1>4, <1>5, ExecutionFields

LEMMA InvBriefingReadsSummary ==
  ASSUME AssessInv, NEW w \in Workers, BriefingReadsSummary(w)
  PROVE  AssessInv'
<1>1. PICK o : o = worker[w]  OBVIOUS
<1>2. o \in Execution /\ ExecutionOK(o) /\ WorldInv /\ o.pc = "brief"
  BY <1>1, WorkerFacts DEF BriefingReadsSummary
<1>3. CASE summary.deleting
  <2>1. PICK e \in Execution : ExecutionOK(e) /\ worker' = [worker EXCEPT ![w] = e]
    BY <1>1, <1>2, <1>3, Returned DEF BriefingReadsSummary, Briefs
  <2> QED  BY <2>1, InvMove, WorkerFacts DEF BriefingReadsSummary
<1>4. CASE ~summary.deleting
  <2>1. PICK s : s = summary  OBVIOUS
  <2>2. s \in Summary /\ Seen(s) /\ ~s.deleting  BY <1>4, <2>1, SeenNow DEF Seen
  <2>3. PICK e : e = [pc |-> "briefSnapshot", message |-> o.message, attempt |-> o.attempt,
                      read |-> s, snapshot |-> o.snapshot, heard |-> o.heard,
                      item |-> o.item, next |-> o.next, previous |-> o.previous]
    OBVIOUS
  <2>4. e = [o EXCEPT !.pc = "briefSnapshot", !.read = s]
    <3>1. o = Fields(o)  BY <1>2, ExecutionFields
    <3>2. PICK f : f = [o EXCEPT !.pc = "briefSnapshot"]  OBVIOUS
    <3>3. f = [pc |-> "briefSnapshot", message |-> o.message, attempt |-> o.attempt,
               read |-> o.read, snapshot |-> o.snapshot, heard |-> o.heard,
               item |-> o.item, next |-> o.next, previous |-> o.previous]
      BY ONLY <3>1, <3>2 DEF Fields
    <3>4. e = [f EXCEPT !.read = s]  BY ONLY <2>3, <3>3
    <3> QED  BY ONLY <3>2, <3>4
  <2>5. worker' = [worker EXCEPT ![w] = e]
    <3>1. worker' = [worker EXCEPT ![w].pc = "briefSnapshot", ![w].read = s]
      BY <1>4, <2>1 DEF BriefingReadsSummary
    <3> QED  BY <1>1, <2>4, <3>1
  <2>6. e \in Execution  BY ONLY <1>2, <2>2, <2>3 DEF Execution
  <2>7. ExecutionOK(e)
    BY <1>2, <2>2, <2>3 DEF ExecutionOK, Reasoning, Rereading, Briefs, Drafting
  <2> QED  BY <2>5, <2>6, <2>7, InvMove, WorkerFacts DEF BriefingReadsSummary
<1> QED  BY <1>3, <1>4

LEMMA InvBriefingReadsSnapshot ==
  ASSUME AssessInv, NEW w \in Workers, BriefingReadsSnapshot(w)
  PROVE  AssessInv'
<1>1. PICK o : o = worker[w]  OBVIOUS
<1>2. o \in Execution /\ ExecutionOK(o) /\ WorldOK /\ o.pc = "briefSnapshot"
  BY <1>1, WorkerFacts DEF BriefingReadsSnapshot
<1>3. PICK e : e = [pc |-> "briefPrevious", message |-> o.message, attempt |-> o.attempt,
                    read |-> o.read, snapshot |-> ledger, heard |-> o.heard,
                    item |-> o.item, next |-> o.next, previous |-> o.previous]
  OBVIOUS
<1>4. e = [o EXCEPT !.pc = "briefPrevious", !.snapshot = ledger]
  <2>1. o = Fields(o)  BY <1>2, ExecutionFields
  <2>2. PICK f : f = [o EXCEPT !.pc = "briefPrevious"]  OBVIOUS
  <2>3. f = [pc |-> "briefPrevious", message |-> o.message, attempt |-> o.attempt,
             read |-> o.read, snapshot |-> o.snapshot, heard |-> o.heard,
             item |-> o.item, next |-> o.next, previous |-> o.previous]
    BY ONLY <2>1, <2>2 DEF Fields
  <2>4. e = [f EXCEPT !.snapshot = ledger]  BY ONLY <1>3, <2>3
  <2> QED  BY ONLY <2>2, <2>4
<1>5. worker' = [worker EXCEPT ![w] = e]  BY <1>1, <1>4 DEF BriefingReadsSnapshot
<1>6. e \in Execution
  <2>1. ledger \in Reports \cup {None}  BY <1>2 DEF WorldOK
  <2> QED  BY ONLY <1>2, <1>3, <2>1 DEF Execution
<1>7. ExecutionOK(e)
  BY <1>2, <1>3 DEF ExecutionOK, Reasoning, Rereading, Briefs, Drafting
<1> QED  BY <1>5, <1>6, <1>7, InvMove, WorkerFacts DEF BriefingReadsSnapshot

LEMMA InvBriefingReadsPrevious ==
  ASSUME AssessInv, NEW w \in Workers, BriefingReadsPrevious(w)
  PROVE  AssessInv'
<1>1. PICK o : o = worker[w]  OBVIOUS
<1>2. o \in Execution /\ ExecutionOK(o) /\ WorldOK /\ o.pc = "briefPrevious"
  BY <1>1, WorkerFacts DEF BriefingReadsPrevious
<1>3. PICK p : p = IF briefing = None THEN None ELSE briefing.fingerprint  OBVIOUS
<1>4. p \in Material \cup {None}  BY <1>2, <1>3 DEF WorldOK, Briefing
<1>5. PICK e : e = [pc |-> "briefPut", message |-> o.message, attempt |-> o.attempt,
                    read |-> o.read, snapshot |-> o.snapshot, heard |-> o.heard,
                    item |-> o.item, next |-> o.next, previous |-> p]
  OBVIOUS
<1>6. e = [o EXCEPT !.pc = "briefPut", !.previous = p]
  <2>1. o = Fields(o)  BY <1>2, ExecutionFields
  <2>2. PICK f : f = [o EXCEPT !.pc = "briefPut"]  OBVIOUS
  <2>3. f = [pc |-> "briefPut", message |-> o.message, attempt |-> o.attempt,
             read |-> o.read, snapshot |-> o.snapshot, heard |-> o.heard,
             item |-> o.item, next |-> o.next, previous |-> o.previous]
    BY ONLY <2>1, <2>2 DEF Fields
  <2>4. e = [f EXCEPT !.previous = p]  BY ONLY <1>5, <2>3
  <2> QED  BY ONLY <2>2, <2>4
<1>7. worker' = [worker EXCEPT ![w] = e]
  <2>1. worker' = [worker EXCEPT ![w].pc = "briefPut", ![w].previous = p]
    BY <1>3 DEF BriefingReadsPrevious
  <2> QED  BY <1>1, <1>6, <2>1
<1>8. e \in Execution  BY ONLY <1>2, <1>4, <1>5 DEF Execution
<1>9. ExecutionOK(e)
  BY <1>2, <1>5 DEF ExecutionOK, Reasoning, Rereading, Briefs, Drafting
<1> QED  BY <1>7, <1>8, <1>9, InvMove, WorkerFacts DEF BriefingReadsPrevious

LEMMA DraftedIsABriefing ==
  ASSUME AssessInv, NEW w \in Workers, worker[w].pc = "briefPut"
  PROVE  Drafted(w) \in Briefing /\ Seen(worker[w].read)
<1>1. PICK o : o = worker[w]  OBVIOUS
<1>2. o \in Execution /\ ExecutionOK(o) /\ WorldOK /\ o.pc = "briefPut"
  BY <1>1, WorkerFacts
<1>3. PICK s : s = o.read  OBVIOUS
<1>4. s \in Summary /\ Seen(s)  BY <1>2, <1>3 DEF ExecutionOK, Drafting, Seen
<1>5. s.resolved \in BOOLEAN /\ s.event_count \in Nat /\ s.note_revision \in Nat
      /\ s.latest_assessment \in Identifiers \cup {None}
  BY <1>4 DEF Summary
<1>6. PICK c : c = IF Actionable(s, s.latest_assessment)
                   THEN assessments[s.latest_assessment].origin ELSE None
  OBVIOUS
<1>7. c \in Identifiers \cup {None}
  <2>1. CASE ~Actionable(s, s.latest_assessment)  BY <1>6, <2>1
  <2>2. CASE Actionable(s, s.latest_assessment)
    <3>1. s.latest_assessment \in DOMAIN assessments
      BY <1>4, <2>2 DEF Seen, Actionable, CurrentAssessment
    <3>2. assessments[s.latest_assessment] \in Row  BY <1>2, <3>1 DEF WorldOK
    <3> QED  BY <1>6, <2>2, <3>2 DEF Row
  <2> QED  BY <2>1, <2>2
<1>8. o.snapshot \in Reports \cup {None}  BY <1>2, ExecutionFields
<1>9. PICK m : m = Materials(w)  OBVIOUS
<1>10. m = [resolved |-> s.resolved, conclusion |-> c,
            devices |-> IF s.resolved THEN None ELSE o.snapshot]
  BY <1>1, <1>3, <1>6, <1>9 DEF Materials
<1>11. m \in Material  BY ONLY <1>5, <1>7, <1>8, <1>10 DEF Material
<1>12. Drafted(w) = [fingerprint |-> m, device_state |-> o.snapshot,
                     evidence_revision |-> s.event_count, note_revision |-> s.note_revision,
                     assessment_id |-> s.latest_assessment]
  BY <1>1, <1>3, <1>9 DEF Drafted
<1>13. Drafted(w) \in Briefing  BY ONLY <1>5, <1>8, <1>11, <1>12 DEF Briefing
<1> QED  BY <1>1, <1>3, <1>4, <1>13

LEMMA InvRecordBriefing ==
  ASSUME AssessInv, NEW w \in Workers, RecordBriefing(w)
  PROVE  AssessInv'
<1>1. worker[w].pc = "briefPut" /\ WorldInv /\ WorldOK  BY WorkerFacts DEF RecordBriefing
<1>2. Return(w) /\ UNCHANGED <<incident, assessments, expired, audit, delivered>>
  BY DEF RecordBriefing
<1>3. briefing' \in Briefing \cup {None}
  BY <1>1, DraftedIsABriefing DEF RecordBriefing, WorldOK
<1>4. WorldInv'
  BY <1>1, <1>2, <1>3
     DEF WorldInv, WorldOK, Recorded, SummaryOK, RowsOK, RowOK, AuditOK, incident
<1>5. Advances  BY <1>1, <1>2, WorldFacts DEF Advances, incident
<1>6. PICK e \in Execution : ExecutionOK(e) /\ worker' = [worker EXCEPT ![w] = e]
  BY <1>1, <1>2, Returned DEF Briefs, Drafting
<1>7. ExecutionOK(e)'  BY <1>1, <1>4, <1>5, <1>6, ExecutionStays DEF WorldInv
<1> QED  BY <1>4, <1>5, <1>6, <1>7, InvMoves

-----------------------------------------------------------------------------
(* What people do *)

LEMMA WorldNow ==
  ASSUME AssessInv
  PROVE  /\ WorldInv /\ WorldOK /\ summary \in Summary
         /\ delivered \in [Messages -> (0 .. MaxDeliveries) \cup {None}]
         /\ summary.event_count \in Nat /\ summary.note_revision \in Nat
BY Parts, WorldFacts DEF WorldInv, WorldOK

LEMMA InvSaveNote ==
  ASSUME AssessInv, NEW n \in Notes, SaveNote(n)
  PROVE  AssessInv'
<1>1. UNCHANGED <<recorded, ledger, assessments, expired, audit, briefing, delivered, worker>>
  BY DEF SaveNote, opinions
<1>2. /\ summary' = [summary EXCEPT !.note_revision = @ + 1]
      /\ notes' = notes \cup {n} /\ n \notin notes
  BY DEF SaveNote
<1>3. summary \in Summary  BY WorldNow
<1>4. /\ summary'.note_revision = summary.note_revision + 1
      /\ summary'.event_count = summary.event_count
      /\ summary'.latest_assessment = summary.latest_assessment
      /\ summary'.assessed_revision = summary.assessed_revision
      /\ summary'.decision_review = summary.decision_review
      /\ summary' \in Summary
  BY ONLY <1>2, <1>3 DEF Summary
<1>5. WorldOK'  BY <1>1, <1>2, <1>4, WorldNow DEF WorldOK
<1>6. Advances  BY <1>1, <1>4, WorldNow DEF Advances
<1>7. RowsOK'  BY <1>1, <1>5, <1>6, WorldNow, RowsStay
<1>8. IsFiniteSet(notes') /\ summary'.note_revision = Cardinality(notes')
  BY <1>2, <1>4, WorldNow, FS_AddElement DEF WorldInv, SummaryOK
<1>9. SummaryOK' /\ Recorded' /\ AuditOK'
  BY <1>1, <1>4, <1>8, WorldNow DEF WorldInv, SummaryOK, Recorded, AuditOK
<1>10. WorldInv'  BY <1>5, <1>7, <1>9 DEF WorldInv
<1> QED  BY <1>1, <1>6, <1>10, InvStands

LEMMA InvAnnounce ==
  ASSUME AssessInv, NEW m \in Messages, delivered' = [delivered EXCEPT ![m] = 0],
         UNCHANGED <<incident, opinions, worker>>
  PROVE  AssessInv'
<1>1. delivered' \in [Messages -> (0 .. MaxDeliveries) \cup {None}]
  BY WorldNow, AssessmentAssumption
<1>2. WorldInv'
  BY <1>1, WorldNow
     DEF WorldInv, WorldOK, Recorded, SummaryOK, RowsOK, RowOK, AuditOK, incident, opinions
<1>3. Advances  BY WorldNow DEF Advances, incident, opinions
<1> QED  BY <1>2, <1>3, InvStands

LEMMA InvReview ==
  ASSUME AssessInv, NEW r \in Reviews, NEW id \in DOMAIN assessments,
         NEW verdict \in {"accepted", "rejected"}, Review(r, id, verdict)
  PROVE  AssessInv'
<1>1. UNCHANGED <<recorded, ledger, notes, assessments, expired, briefing, delivered, worker>>
  BY DEF Review
<1>2. PICK entry : entry = [request |-> r, assessment_id |-> id, verdict |-> verdict]
  OBVIOUS
<1>3. /\ summary' = [summary EXCEPT !.decision_review = verdict]
      /\ audit' = audit \cup {entry} /\ Reviewable(r, id)
  BY <1>2 DEF Review
<1>4. summary \in Summary  BY WorldNow
<1>5. /\ summary'.note_revision = summary.note_revision
      /\ summary'.event_count = summary.event_count
      /\ summary'.latest_assessment = summary.latest_assessment
      /\ summary'.assessed_revision = summary.assessed_revision
      /\ summary'.decision_review = verdict
      /\ summary' \in Summary
  BY ONLY <1>3, <1>4, verdict \in {"accepted", "rejected"} DEF Summary
<1>6. id \in Identifiers  BY WorldNow DEF WorldOK
<1>7. /\ entry.request = r /\ entry.assessment_id = id /\ entry.verdict = verdict
      /\ entry \in Entry
  BY ONLY <1>2, <1>6, r \in Reviews, verdict \in {"accepted", "rejected"} DEF Entry
<1>8. WorldOK'  BY <1>1, <1>3, <1>5, <1>7, WorldNow DEF WorldOK
<1>9. Advances  BY <1>1, <1>3, <1>5, WorldNow DEF Advances
<1>10. RowsOK'  BY <1>1, <1>8, <1>9, WorldNow, RowsStay
<1>11. Recorded'
  <2>1. summary'.latest_assessment = id  BY <1>3, <1>5 DEF Reviewable
  <2>2. \E x \in audit' : /\ x.assessment_id = summary'.latest_assessment
                          /\ x.verdict = summary'.decision_review
    BY <1>3, <1>5, <1>7, <2>1
  <2>3. \A x \in audit : x.request # r  BY <1>3 DEF Reviewable
  <2>4. \A x, y \in audit' : x.request = y.request => x = y
    BY <1>3, <1>7, <2>3, WorldNow DEF WorldInv, Recorded
  <2> QED  BY <2>2, <2>4 DEF Recorded
<1>12. SummaryOK' /\ AuditOK'
  BY <1>1, <1>3, <1>5, <1>7, WorldNow DEF WorldInv, SummaryOK, AuditOK
<1>13. WorldInv'  BY <1>8, <1>10, <1>11, <1>12 DEF WorldInv
<1> QED  BY <1>1, <1>9, <1>13, InvStands

\* Closing and deleting change one flag of the summary.
LEMMA Flagged ==
  ASSUME AssessInv, UNCHANGED <<recorded, ledger, notes, opinions, delivered>>,
         \/ summary' = [summary EXCEPT !.resolved = TRUE]
         \/ summary' = [summary EXCEPT !.deleting = TRUE]
  PROVE  Advances /\ WorldInv'
<1>1. UNCHANGED <<recorded, ledger, notes, assessments, expired, audit, briefing, delivered>>
  BY DEF opinions
<1>2. summary \in Summary  BY WorldNow
<1>3. /\ summary'.note_revision = summary.note_revision
      /\ summary'.event_count = summary.event_count
      /\ summary'.latest_assessment = summary.latest_assessment
      /\ summary'.assessed_revision = summary.assessed_revision
      /\ summary'.decision_review = summary.decision_review
      /\ summary' \in Summary
  BY <1>2 DEF Summary
<1>4. WorldOK'  BY <1>1, <1>3, WorldNow DEF WorldOK
<1>5. Advances  BY <1>1, <1>3, WorldNow DEF Advances
<1>6. RowsOK'  BY <1>1, <1>4, <1>5, WorldNow, RowsStay
<1>7. SummaryOK' /\ Recorded' /\ AuditOK'
  BY <1>1, <1>3, WorldNow DEF WorldInv, SummaryOK, Recorded, AuditOK
<1> QED  BY <1>4, <1>5, <1>6, <1>7 DEF WorldInv

LEMMA InvResolve ==
  ASSUME AssessInv, NEW w \in Workers, Resolve(w)
  PROVE  AssessInv'
<1>1. Advances /\ WorldInv'  BY Flagged DEF Resolve
<1> QED  BY <1>1, InvGoes DEF Resolve, Onward

LEMMA InvRequestDeletion ==
  ASSUME AssessInv, RequestDeletion
  PROVE  AssessInv'
BY Flagged, InvStands DEF RequestDeletion

LEMMA InvExpire ==
  ASSUME AssessInv, NEW id \in DOMAIN assessments, Expire(id)
  PROVE  AssessInv'
<1>1. /\ UNCHANGED <<recorded, ledger, notes, summary, assessments, audit, briefing,
                     delivered, worker>>
      /\ expired' = expired \cup {id}
  BY DEF Expire, incident
<1>2. Advances  BY <1>1, WorldNow DEF Advances
<1>3. WorldInv'
  BY <1>1, WorldNow DEF WorldInv, WorldOK, Recorded, SummaryOK, RowsOK, RowOK, AuditOK
<1> QED  BY <1>1, <1>2, <1>3, InvStands

-----------------------------------------------------------------------------
(* The invariant holds *)

LEMMA InvInit ==
  ASSUME Init
  PROVE  AssessInv
<1>1. summary = [event_count |-> 0, note_revision |-> 0, latest_assessment |-> None,
                 assessed_revision |-> 0, decision_review |-> "none",
                 resolved |-> FALSE, deleting |-> FALSE]
  BY DEF Init
<1>2. summary \in Summary  BY ONLY <1>1 DEF Summary
<1>3. DOMAIN assessments = {}  BY DEF Init
<1>4. delivered \in [Messages -> (0 .. MaxDeliveries) \cup {None}]
  BY AssessmentAssumption DEF Init
<1>5. WorldOK  BY <1>2, <1>3, <1>4 DEF WorldOK, Init
<1>6. SummaryOK  BY <1>1, <1>3, FS_EmptySet DEF SummaryOK, Init
<1>7. Recorded /\ RowsOK /\ AuditOK  BY <1>1, <1>3 DEF Recorded, RowsOK, AuditOK, Init
<1>8. WorkersOK  BY IdleOK DEF WorkersOK, Init
<1> QED  BY <1>5, <1>6, <1>7, <1>8, Parts DEF WorldInv

LEMMA InvStep ==
  ASSUME AssessInv, NEW w \in Workers, Step(w)
  PROVE  AssessInv'
BY InvRecordEvidence, InvAlreadyRecorded, InvStartAssessment, InvReadSnapshot, InvReadNotes,
   InvSnapshotChanged, InvReuse, InvReason, InvStoreAssessment, InvPublish, InvConfirm,
   InvBriefingReadsSummary, InvBriefingReadsSnapshot, InvBriefingReadsPrevious,
   InvRecordBriefing
   DEF Step

LEMMA InvNext ==
  ASSUME AssessInv, [Next]_vars
  PROVE  AssessInv'
<1>1. CASE \E w \in Workers : Step(w) \/ Resolve(w) \/ \E m \in Messages : Deliver(w, m)
  BY <1>1, InvStep, InvResolve, InvDeliver
<1>2. CASE \E n \in Notes : SaveNote(n) \/ PublishNote(n)
  BY <1>2, InvSaveNote, InvAnnounce DEF PublishNote, Messages
<1>3. CASE \E q \in Requests : RequestReassessment(q)
  BY <1>3, InvAnnounce DEF RequestReassessment, Messages
<1>4. CASE \E id \in DOMAIN assessments :
             \/ Expire(id)
             \/ \E r \in Reviews, v \in {"accepted", "rejected"} : Review(r, id, v)
  BY <1>4, InvExpire, InvReview
<1>5. CASE RequestDeletion  BY <1>5, InvRequestDeletion
<1>6. CASE Failure  BY <1>6, InvReasonerFails, InvDie DEF Failure
<1>7. CASE UNCHANGED vars
  BY <1>7
     DEF vars, AssessInv, VerdictIsOnRecord, TypeOK, SummaryOK, RowsOK, RowOK, AuditOK,
         ExecutionOK, Seen, Wanting, Actionable, CurrentAssessment, Verdict, IdentifierOf
<1> QED  BY <1>1, <1>2, <1>3, <1>4, <1>5, <1>6, <1>7 DEF Next, Progress

\* Every assessment stored is of the revisions it is filed under and concluded from
\* what the incident held then; every execution knows only what was once so
\* (functions/invoke_reasoner, functions/briefings.py).
THEOREM AssessmentCorrect == Spec => []AssessInv
<1>1. Init => AssessInv  BY InvInit
<1>2. AssessInv /\ [Next]_vars => AssessInv'  BY InvNext
<1> QED  BY <1>1, <1>2, PTL DEF Spec

\* A verdict on the summary is one a person gave on the assessment published now, and
\* a review request gave one at most (functions/decision_review.py review).
THEOREM VerdictsAreOnRecord == Spec => []VerdictIsOnRecord
<1>1. AssessInv => VerdictIsOnRecord  BY DEF AssessInv
<1> QED  BY <1>1, AssessmentCorrect, PTL

\* An assessment in force was concluded from the device states and the notes that the
\* incident holds now (functions/invoke_reasoner: the rereads, publish's condition).
THEOREM ConclusionsFitEvidence == Spec => []ConclusionFitsEvidence
<1>1. ASSUME AssessInv PROVE ConclusionFitsEvidence
  <2>1. SUFFICES ASSUME Actionable(summary, summary.latest_assessment)
                 PROVE  assessments[summary.latest_assessment].about
                          = <<ledger, summary.note_revision>>
    BY DEF ConclusionFitsEvidence
  <2>2. PICK id : id = summary.latest_assessment  OBVIOUS
  <2>3. WorldInv /\ WorldOK  BY <1>1, WorldNow
  <2>4. id \in DOMAIN assessments /\ RowOK(assessments[id], id)
    BY <2>1, <2>2, <2>3
       DEF WorldInv, SummaryOK, RowsOK, Actionable, CurrentAssessment
  <2>5. PICK about : about = assessments[id].about  OBVIOUS
  <2>6. about \in Fingerprints /\ about[1] = ledger /\ about[2] = summary.note_revision
    BY <2>1, <2>2, <2>4, <2>5 DEF RowOK, Actionable, CurrentAssessment
  <2>7. about = <<ledger, summary.note_revision>>  BY ONLY <2>6 DEF Fingerprints
  <2> QED  BY <2>2, <2>5, <2>7
<1> QED  BY <1>1, AssessmentCorrect, PTL

-----------------------------------------------------------------------------
(* What a step may never do *)

\* The steps by what they change.
LEMMA NextCases ==
  ASSUME [Next]_vars
  PROVE  \/ UNCHANGED <<briefing, summary>>
         \/ \E w \in Workers : RecordBriefing(w) \/ Publish(w)
         \/ briefing' = briefing /\ summary' = [summary EXCEPT !.event_count = @ + 1]
         \/ briefing' = briefing /\ summary' = [summary EXCEPT !.note_revision = @ + 1]
         \/ briefing' = briefing /\ \E v : summary' = [summary EXCEPT !.decision_review = v]
         \/ briefing' = briefing /\ summary' = [summary EXCEPT !.resolved = TRUE]
         \/ briefing' = briefing /\ summary' = [summary EXCEPT !.deleting = TRUE]
<1>1. ASSUME NEW w \in Workers, Step(w), ~RecordBriefing(w), ~Publish(w)
      PROVE  \/ UNCHANGED <<briefing, summary>>
             \/ briefing' = briefing /\ summary' = [summary EXCEPT !.event_count = @ + 1]
  BY <1>1
     DEF Step, RecordEvidence, AlreadyRecorded, StartAssessment, ReadSnapshot, ReadNotes,
         SnapshotChanged, Reuse, Reason, StoreAssessment, Confirm, BriefingReadsSummary,
         BriefingReadsSnapshot, BriefingReadsPrevious, incident, opinions
<1>2. ASSUME NEW w \in Workers, Resolve(w) \/ \E m \in Messages : Deliver(w, m)
      PROVE  \/ UNCHANGED <<briefing, summary>>
             \/ briefing' = briefing /\ summary' = [summary EXCEPT !.resolved = TRUE]
  BY <1>2 DEF Resolve, Deliver, incident, opinions
<1>3. ASSUME NEW n \in Notes, SaveNote(n) \/ PublishNote(n)
      PROVE  \/ UNCHANGED <<briefing, summary>>
             \/ briefing' = briefing /\ summary' = [summary EXCEPT !.note_revision = @ + 1]
  BY <1>3 DEF SaveNote, PublishNote, incident, opinions
<1>4. ASSUME NEW q \in Requests, RequestReassessment(q)
      PROVE  UNCHANGED <<briefing, summary>>
  BY <1>4 DEF RequestReassessment, incident, opinions
<1>5. ASSUME NEW id, Expire(id)
      PROVE  UNCHANGED <<briefing, summary>>
  BY <1>5 DEF Expire, incident
<1>6. ASSUME NEW id, NEW r, NEW v, Review(r, id, v)
      PROVE  briefing' = briefing /\ summary' = [summary EXCEPT !.decision_review = v]
  BY <1>6 DEF Review
<1>7. ASSUME RequestDeletion
      PROVE  briefing' = briefing /\ summary' = [summary EXCEPT !.deleting = TRUE]
  BY <1>7 DEF RequestDeletion, opinions
<1>8. ASSUME Failure
      PROVE  UNCHANGED <<briefing, summary>>
  BY <1>8 DEF Failure, ReasonerFails, Die, incident, opinions
<1>9. ASSUME UNCHANGED vars
      PROVE  UNCHANGED <<briefing, summary>>
  BY <1>9 DEF vars
<1> QED  BY <1>1, <1>2, <1>3, <1>4, <1>5, <1>6, <1>7, <1>8, <1>9 DEF Next, Progress

\* When the conditions of the briefing's transaction hold, what was drafted is so.
LEMMA DraftIsTrue ==
  ASSUME AssessInv, NEW w \in Workers, worker[w].pc = "briefPut", StillTrue(w)
  PROVE  /\ Drafted(w).device_state = ledger
         /\ Drafted(w).evidence_revision = summary.event_count
         /\ Drafted(w).fingerprint.resolved = summary.resolved
         /\ Drafted(w).fingerprint.conclusion =
              IF Actionable(summary, summary.latest_assessment)
              THEN assessments[summary.latest_assessment].origin ELSE None
<1>1. PICK s : s = worker[w].read  OBVIOUS
<1>2. ExecutionOK(worker[w])  BY WorkerFacts
<1>3. ~s.deleting  BY <1>1, <1>2 DEF ExecutionOK, Drafting
<1>4. /\ ~summary.deleting
      /\ summary.event_count = s.event_count /\ summary.note_revision = s.note_revision
      /\ summary.decision_review = s.decision_review
      /\ summary.latest_assessment = s.latest_assessment /\ summary.resolved = s.resolved
  BY <1>1 DEF StillTrue
<1>5. worker[w].snapshot = ledger  BY <1>1, <1>2, <1>4 DEF ExecutionOK
<1>6. Actionable(s, s.latest_assessment) <=> Actionable(summary, summary.latest_assessment)
  BY <1>3, <1>4 DEF Actionable, CurrentAssessment
<1>7. /\ Drafted(w).device_state = worker[w].snapshot
      /\ Drafted(w).evidence_revision = s.event_count
      /\ Drafted(w).fingerprint.resolved = s.resolved
      /\ Drafted(w).fingerprint.conclusion =
           IF Actionable(s, s.latest_assessment)
           THEN assessments[s.latest_assessment].origin ELSE None
  BY <1>1 DEF Drafted, Materials
<1> QED  BY <1>4, <1>5, <1>6, <1>7

\* A briefing is only written while it is true: of the device states of the revision
\* it names, and with the conclusion in force (functions/briefings.py: the condition
\* checks of record's transaction).
THEOREM BriefingsAreTrue == Spec => BriefingIsTrue
<1>1. ASSUME AssessInv, [Next]_vars
      PROVE  [briefing' # briefing =>
                /\ briefing'.device_state = ledger
                /\ briefing'.evidence_revision = summary.event_count
                /\ briefing'.fingerprint.resolved = summary.resolved
                /\ briefing'.fingerprint.conclusion =
                     IF Actionable(summary, summary.latest_assessment)
                     THEN assessments[summary.latest_assessment].origin ELSE None]_vars
  <2>1. SUFFICES ASSUME briefing' # briefing
                 PROVE  /\ briefing'.device_state = ledger
                        /\ briefing'.evidence_revision = summary.event_count
                        /\ briefing'.fingerprint.resolved = summary.resolved
                        /\ briefing'.fingerprint.conclusion =
                             IF Actionable(summary, summary.latest_assessment)
                             THEN assessments[summary.latest_assessment].origin ELSE None
    OBVIOUS
  <2>2. PICK w \in Workers : RecordBriefing(w)
    BY <1>1, <2>1, NextCases DEF Publish, opinions
  <2>3. worker[w].pc = "briefPut" /\ StillTrue(w) /\ briefing' = Drafted(w)
    BY <2>1, <2>2 DEF RecordBriefing
  <2> QED  BY <1>1, <2>3, DraftIsTrue
<1>2. []AssessInv /\ [][Next]_vars => BriefingIsTrue  BY <1>1, PTL DEF BriefingIsTrue
<1> QED  BY <1>2, AssessmentCorrect, PTL DEF Spec

\* The condition of publish rules a good assessment out, whoever it was read by.
LEMMA PublishSpares ==
  ASSUME AssessInv, NEW w \in Workers, Publish(w), Publishable(w),
         Actionable(summary, summary.latest_assessment),
         summary.latest_assessment \notin expired,
         ~Verdict(summary.latest_assessment, "rejected")
  PROVE  FALSE
<1>1. PICK id : id = summary.latest_assessment  OBVIOUS
<1>2. PICK new : new = Identifier(w)  OBVIOUS
<1>3. PICK s : s = worker[w].read  OBVIOUS
<1>4. worker[w].pc = "publish" /\ ExecutionOK(worker[w]) /\ WorldInv /\ WorldOK
  BY WorkerFacts DEF Publish
<1>5. /\ new \in DOMAIN assessments /\ new[2] = s.event_count /\ new[3] = s.note_revision
      /\ Wanting(s)
  <2>1. worker[w].pc \in Reasoning  BY <1>4 DEF Reasoning
  <2> QED  BY <1>2, <1>3, <1>4, <2>1, ReasoningFacts DEF ExecutionOK
<1>6. /\ assessments[new].evidence_revision = s.event_count
      /\ assessments[new].note_revision = s.note_revision
  BY <1>4, <1>5 DEF WorldInv, RowsOK, RowOK
<1>7. summary.event_count = s.event_count /\ summary.note_revision = s.note_revision
  BY <1>2, <1>6 DEF Publishable
<1>8. /\ id # None /\ assessments[id].evidence_revision = s.event_count
      /\ assessments[id].note_revision = s.note_revision
      /\ assessments[id].status = "assessed"
  BY <1>1, <1>7 DEF Actionable, CurrentAssessment
<1>9. summary.assessed_revision = s.event_count
  BY <1>1, <1>4, <1>8 DEF WorldInv, SummaryOK
<1>10. s.event_count \in Nat  BY <1>4, <1>7, WorldFacts
<1>11. s.latest_assessment = id
  BY <1>1, <1>2, <1>3, <1>6, <1>8, <1>9, <1>10 DEF Publishable
<1>12. s.decision_review # "rejected" /\ ~s.resolved /\ ~s.deleting
  BY <1>1, <1>5, <1>11 DEF Wanting
<1>13. Actionable(s, s.latest_assessment)
  BY <1>8, <1>11, <1>12 DEF Actionable, CurrentAssessment
<1> QED  BY <1>1, <1>5, <1>11, <1>13 DEF Wanting

\* While evidence and notes stand, no slower or stale execution displaces an unexpired
\* assessment that nobody rejected; a closed incident keeps its assessment, a deleted
\* one its briefing (functions/invoke_reasoner publish, functions/briefings.py record).
THEOREM GoodAssessmentsStand == Spec => GoodAssessmentStands
<1>1. ASSUME AssessInv, [Next]_vars
      PROVE  [LET id == summary.latest_assessment
                  good == /\ Actionable(summary, id) /\ id \notin expired
                          /\ ~Verdict(id, "rejected") IN
              /\ good \/ ~Open => summary'.latest_assessment = id
              /\ summary.deleting => briefing' = briefing]_vars
  <2>1. summary \in Summary  BY <1>1, WorldNow
  <2>2. CASE UNCHANGED <<briefing, summary>>  BY <2>2
  <2>3. ASSUME NEW w \in Workers, RecordBriefing(w)
        PROVE  /\ summary'.latest_assessment = summary.latest_assessment
               /\ summary.deleting => briefing' = briefing
    BY <2>3 DEF RecordBriefing, StillTrue, incident
  <2>4. ASSUME NEW w \in Workers, Publish(w)
        PROVE  /\ ~Publishable(w) => summary'.latest_assessment = summary.latest_assessment
               /\ Publishable(w) => Open
               /\ briefing' = briefing
    BY <2>4 DEF Publish, Publishable, opinions
  <2>5. ASSUME \/ summary' = [summary EXCEPT !.event_count = @ + 1]
               \/ summary' = [summary EXCEPT !.note_revision = @ + 1]
               \/ \E v : summary' = [summary EXCEPT !.decision_review = v]
               \/ summary' = [summary EXCEPT !.resolved = TRUE]
               \/ summary' = [summary EXCEPT !.deleting = TRUE]
        PROVE  summary'.latest_assessment = summary.latest_assessment
    BY <2>1, <2>5 DEF Summary
  <2>6. CASE \E w \in Workers : Publish(w)
    BY <1>1, <2>4, <2>6, PublishSpares
  <2>7. CASE \E w \in Workers : RecordBriefing(w)  BY <2>3, <2>7
  <2> QED  BY <1>1, <2>2, <2>5, <2>6, <2>7, NextCases
<1>2. []AssessInv /\ [][Next]_vars => GoodAssessmentStands
  BY <1>1, PTL DEF GoodAssessmentStands
<1> QED  BY <1>2, AssessmentCorrect, PTL DEF Spec

-----------------------------------------------------------------------------
(* When each message is delivered once *)

\* A step of execution w that leaves assessments, verdicts and deliveries alone.
Quiet ==
  /\ UNCHANGED <<assessments, audit, delivered>>
  /\ summary'.latest_assessment = summary.latest_assessment
  /\ summary'.decision_review = summary.decision_review

Others(w) == \A v \in Workers \ {w} : worker'[v] = worker[v]

LEMMA OnceStillOK ==
  ASSUME NEW v, NEW o, o = worker'[v], OnceOK(o)'
  PROVE  OnceOK(worker[v])'
BY DEF OnceOK, Clean, Verdict, Sound, Reviewed, IdentifierOf

LEMMA QuietStays ==
  ASSUME Quiet, NEW o, OnceOK(o)
  PROVE  OnceOK(o)'
BY DEF Quiet, OnceOK, Clean, Verdict, Sound, Reviewed, IdentifierOf

LEMMA OneEachStays ==
  ASSUME OneEach, NEW w \in Workers, NEW e, e = worker'[w], Others(w),
         e.message \in {None, worker[w].message}
  PROVE  OneEach'
<1>1. ASSUME NEW a \in Workers, NEW b \in Workers, a # b, worker'[a].message # None
      PROVE  worker'[a].message # worker'[b].message
  BY <1>1 DEF OneEach, Others
<1> QED  BY <1>1 DEF OneEach

LEMMA OnceQuiet ==
  ASSUME Once, Quiet, NEW w \in Workers, NEW e, e = worker'[w], Others(w), OnceOK(e),
         e.message \in {None, worker[w].message}
  PROVE  Once'
<1>1. OneEach'  BY OneEachStays DEF Once
<1>2. Filed' /\ StandingIsClean'
  BY DEF Once, Quiet, Filed, StandingIsClean, Sound, Clean, Verdict
<1>3. ASSUME NEW v \in Workers PROVE OnceOK(worker[v])'
  <2>1. PICK o : o = worker'[v]  OBVIOUS
  <2>2. OnceOK(o)
    <3>1. CASE v = w
      <4>1. o = e  BY <2>1, <3>1
      <4> QED  BY <4>1
    <3>2. CASE v # w
      <4>1. o = worker[v]  BY <2>1, <3>2 DEF Others
      <4> QED  BY <4>1 DEF Once
    <3> QED  BY <3>1, <3>2
  <2>3. OnceOK(o)'  BY <2>2, QuietStays
  <2> QED  BY <2>1, <2>3, OnceStillOK
<1> QED  BY <1>1, <1>2, <1>3 DEF Once

LEMMA OnceStands ==
  ASSUME Once, Quiet, UNCHANGED worker
  PROVE  Once'
<1>1. OneEach' /\ Filed' /\ StandingIsClean'
  BY DEF Once, OneEach, Quiet, Filed, StandingIsClean, Sound, Clean, Verdict
<1>2. ASSUME NEW v \in Workers PROVE OnceOK(worker[v])'
  <2>1. PICK o : o = worker'[v]  OBVIOUS
  <2>2. OnceOK(o)  BY <2>1 DEF Once
  <2>3. OnceOK(o)'  BY <2>2, QuietStays
  <2> QED  BY <2>1, <2>3, OnceStillOK
<1> QED  BY <1>1, <1>2 DEF Once

\* An execution that goes on with its message, or drops it, between assessments.
Apart(e, o) ==
  /\ e.pc \notin Rereading \cup {"put", "publish"}
  /\ e.message = None \/ (e.message = o.message /\ e.attempt = o.attempt)

LEMMA OncePasses ==
  ASSUME Once, Quiet, NEW w \in Workers, NEW e, e = worker'[w], Others(w),
         Apart(e, worker[w])
  PROVE  Once'
<1>1. PICK o : o = worker[w]  OBVIOUS
<1>2. OnceOK(o)  BY <1>1 DEF Once
<1>3. e.message = None \/ (e.message = o.message /\ e.attempt = o.attempt)
  BY <1>1 DEF Apart
<1>4. OnceOK(e)  BY <1>2, <1>3 DEF OnceOK, Apart
<1> QED  BY <1>1, <1>3, <1>4, OnceQuiet

LEMMA OnceFinish ==
  ASSUME OnceInv, Quiet, NEW w \in Workers,
         Finish(w) \/ worker' = [worker EXCEPT ![w] = PublishBriefing]
  PROVE  Once'
<1>1. worker \in [Workers -> Execution]  BY Parts DEF OnceInv, WorkersOK
<1>2. PICK e : e = worker'[w]  OBVIOUS
<1>3. e \in {Idle, PublishBriefing} /\ Others(w)  BY <1>1, <1>2 DEF Finish, Others
<1>4. Apart(e, worker[w])  BY <1>3, IdleOK DEF Apart, Rereading
<1> QED  BY <1>2, <1>3, <1>4, OncePasses DEF OnceInv

LEMMA OnceGoto ==
  ASSUME OnceInv, Quiet, NEW w \in Workers, NEW label \in {"assess", "brief", "confirm"},
         Goto(w, label)
  PROVE  Once'
<1>1. worker \in [Workers -> Execution] /\ worker[w] \in Execution
  BY Parts DEF OnceInv, WorkersOK
<1>2. PICK o : o = worker[w]  OBVIOUS
<1>3. PICK e : e = worker'[w]  OBVIOUS
<1>4. e = [o EXCEPT !.pc = label] /\ Others(w)  BY <1>1, <1>2, <1>3 DEF Goto, Others
<1>5. e.pc = label /\ e.message = o.message /\ e.attempt = o.attempt
  BY ONLY <1>1, <1>2, <1>4 DEF Execution
<1>6. Apart(e, worker[w])  BY <1>2, <1>5 DEF Apart, Rereading
<1> QED  BY <1>3, <1>4, <1>6, OncePasses DEF OnceInv

LEMMA OnceReturn ==
  ASSUME OnceInv, Quiet, NEW w \in Workers, Return(w)
  PROVE  Once'
<1>1. worker \in [Workers -> Execution] /\ worker[w] \in Execution
  BY Parts DEF OnceInv, WorkersOK
<1>2. CASE worker[w].next \in {"end", "done", "publishBriefing"}
  BY <1>2, OnceFinish DEF Return
<1>3. CASE worker[w].next = "retry"
  <2>1. PICK o : o = worker[w]  OBVIOUS
  <2>2. PICK e : e = worker'[w]  OBVIOUS
  <2>3. /\ e = [Idle EXCEPT !.pc = "assess", !.message = o.message, !.attempt = o.attempt]
        /\ Others(w)
    BY <1>1, <1>3, <2>1, <2>2 DEF Return, Others
  <2>4. e.pc = "assess" /\ e.message = o.message /\ e.attempt = o.attempt
    BY ONLY <2>3, IdleOK DEF Execution
  <2>5. Apart(e, worker[w])  BY <2>1, <2>4 DEF Apart, Rereading
  <2> QED  BY <2>2, <2>3, <2>5, OncePasses DEF OnceInv
<1> QED  BY <1>1, <1>2, <1>3, ExecutionFields

LEMMA OnceFacts ==
  ASSUME OnceInv, NEW w \in Workers
  PROVE  /\ AssessInv /\ Once /\ worker \in [Workers -> Execution] /\ worker[w] \in Execution
         /\ ExecutionOK(worker[w]) /\ OnceOK(worker[w]) /\ WorldInv /\ WorldOK
BY Parts, WorldNow DEF OnceInv, Once, WorkersOK

LEMMA OnceStartAssessment ==
  ASSUME OnceInv, NEW w \in Workers, StartAssessment(w)
  PROVE  Once'
<1>1. PICK o : o = worker[w]  OBVIOUS
<1>2. /\ o \in Execution /\ worker \in [Workers -> Execution] /\ OnceOK(o) /\ Once
      /\ WorldOK /\ o.pc = "assess" /\ o.message \in Messages
  BY <1>1, OnceFacts DEF StartAssessment, ExecutionOK
<1>3. Quiet  BY DEF StartAssessment, Quiet, incident, opinions
<1>4. CASE Finish(w) \/ worker' = [worker EXCEPT ![w] = PublishBriefing]
  BY <1>3, <1>4, OnceFinish
<1>5. CASE worker' = [worker EXCEPT ![w].pc = "snapshot", ![w].attempt = @ + 1,
                                    ![w].read = summary]
  <2>1. PICK e : e = worker'[w]  OBVIOUS
  <2>2. PICK s : s = summary  OBVIOUS
  <2>3. /\ e = [o EXCEPT !.pc = "snapshot", !.attempt = @ + 1, !.read = s]
        /\ Others(w)
    BY <1>1, <1>2, <1>5, <2>1, <2>2 DEF Others
  <2>4. /\ e.pc = "snapshot" /\ e.message = o.message /\ e.attempt = o.attempt + 1
        /\ e.read = s
    BY ONLY <1>2, <2>3 DEF Execution
  <2>5. ASSUME NEW id \in DOMAIN assessments, id[1] = e.message
        PROVE  id[4] < e.attempt /\ id[4] <= e.attempt
    <3>1. id[4] \in Nat  BY <1>2 DEF WorldOK, Identifiers
    <3>2. o.attempt \in Nat  BY <1>2, ExecutionFields
    <3>3. o.message # None  BY <1>2, AssessmentAssumption
    <3>4. id[4] <= o.attempt  BY <1>2, <2>4, <2>5, <3>3 DEF OnceOK
    <3> QED  BY <2>4, <3>1, <3>2, <3>4
  <2>6. s.latest_assessment # None /\ s.decision_review # "rejected" =>
          Clean(s.latest_assessment)
    BY <1>2, <2>2 DEF Once, StandingIsClean
  <2>7. e.message # None => delivered[e.message] \notin {0, None}
    BY <1>2, <2>4 DEF OnceOK
  <2>8. OnceOK(e)  BY <2>4, <2>5, <2>6, <2>7 DEF OnceOK, Rereading
  <2> QED  BY <1>1, <1>2, <1>3, <2>1, <2>3, <2>4, <2>8, OnceQuiet
<1> QED  BY <1>4, <1>5 DEF StartAssessment

\* An execution that goes on rereading, with what it read first.
LEMMA OnceRereads ==
  ASSUME OnceInv, Quiet, NEW w \in Workers, NEW e, e = worker'[w], Others(w),
         worker[w].pc \in Rereading, e.pc \in Rereading, e.message = worker[w].message,
         e.attempt = worker[w].attempt, e.read = worker[w].read
  PROVE  Once'
<1>1. PICK o : o = worker[w]  OBVIOUS
<1>2. OnceOK(o) /\ Once  BY <1>1, OnceFacts
<1>3. OnceOK(e)  BY <1>1, <1>2 DEF OnceOK, Rereading
<1> QED  BY <1>2, <1>3, OnceQuiet

LEMMA OnceReads ==
  ASSUME OnceInv, NEW w \in Workers, ReadSnapshot(w) \/ ReadNotes(w)
  PROVE  Once'
<1>1. PICK o : o = worker[w]  OBVIOUS
<1>2. o \in Execution /\ worker \in [Workers -> Execution]  BY <1>1, OnceFacts
<1>3. PICK e : e = worker'[w]  OBVIOUS
<1>4. Quiet /\ o.pc \in Rereading
  BY <1>1 DEF ReadSnapshot, ReadNotes, Quiet, Rereading, incident, opinions
<1>5. CASE ReadSnapshot(w)
  <2>1. PICK label \in {"notes", "reread"} :
          worker' = [worker EXCEPT ![w].snapshot = ledger, ![w].pc = label]
    BY <1>5 DEF ReadSnapshot
  <2>2. e = [o EXCEPT !.snapshot = ledger, !.pc = label] /\ Others(w)
    BY <1>1, <1>2, <1>3, <2>1 DEF Others
  <2>3. /\ e.pc = label /\ e.message = o.message /\ e.attempt = o.attempt
        /\ e.read = o.read
    BY ONLY <1>2, <2>2 DEF Execution
  <2> QED  BY <1>1, <1>3, <1>4, <2>2, <2>3, OnceRereads DEF Rereading
<1>6. CASE ReadNotes(w)
  <2>1. e = [o EXCEPT !.heard = Cardinality(notes), !.pc = "reread"] /\ Others(w)
    BY <1>1, <1>2, <1>3, <1>6 DEF Others, ReadNotes
  <2>2. /\ e.pc = "reread" /\ e.message = o.message /\ e.attempt = o.attempt
        /\ e.read = o.read
    BY ONLY <1>2, <2>1 DEF Execution
  <2> QED  BY <1>1, <1>3, <1>4, <2>1, <2>2, OnceRereads DEF Rereading
<1> QED  BY <1>5, <1>6

LEMMA OnceConclude ==
  ASSUME OnceInv, Quiet, NEW w \in Workers, NEW row, Conclude(w, row),
         worker[w].pc \in Rereading, Sound(row.origin, Identifier(w))
  PROVE  Once'
<1>1. PICK o : o = worker[w]  OBVIOUS
<1>2. o \in Execution /\ worker \in [Workers -> Execution] /\ OnceOK(o) /\ Once
  BY <1>1, OnceFacts
<1>3. PICK e : e = worker'[w]  OBVIOUS
<1>4. e = [o EXCEPT !.pc = "put", !.snapshot = None, !.heard = 0, !.item = row] /\ Others(w)
  BY <1>1, <1>2, <1>3 DEF Others, Conclude
<1>5. /\ e.pc = "put" /\ e.message = o.message /\ e.attempt = o.attempt
      /\ e.read = o.read /\ e.item = row
  BY ONLY <1>2, <1>4 DEF Execution
<1>6. IdentifierOf(e) = Identifier(w)  BY <1>1, <1>5 DEF IdentifierOf, Identifier
<1>7. OnceOK(e)  BY <1>1, <1>2, <1>5, <1>6 DEF OnceOK, Rereading
<1> QED  BY <1>1, <1>2, <1>3, <1>4, <1>5, <1>7, OnceQuiet

LEMMA OnceFailed ==
  ASSUME OnceInv, NEW w \in Workers, SnapshotChanged(w) \/ ReasonerFails(w)
  PROVE  Once'
<1>1. Quiet /\ worker[w].pc \in Rereading /\ Conclude(w, Failed(w))
  BY DEF SnapshotChanged, ReasonerFails, Quiet, Rereading, incident, opinions
<1>2. Sound(Failed(w).origin, Identifier(w))  BY DEF Failed, Sound
<1> QED  BY <1>1, <1>2, OnceConclude

LEMMA OnceReason ==
  ASSUME OnceInv, NEW w \in Workers, Reason(w)
  PROVE  Once'
<1>1. PICK row : row = Assessed(w, <<worker[w].snapshot, worker[w].heard>>, Identifier(w))
  OBVIOUS
<1>2. Quiet /\ worker[w].pc \in Rereading /\ Conclude(w, row)
  BY <1>1 DEF Reason, Quiet, Rereading, incident, opinions
<1>3. row.origin = Identifier(w)  BY <1>1 DEF Assessed
<1>4. Sound(row.origin, Identifier(w))  BY <1>3 DEF Sound
<1> QED  BY <1>2, <1>4, OnceConclude

\* What is reused is older than the evidence at hand: of the same evidence and notes
\* it would have been in force, and there had been nothing to assess.
LEMMA ReusedIsOlder ==
  ASSUME AssessInv, NEW w \in Workers, Reuse(w), NEW p, p = worker[w].read.latest_assessment
  PROVE  /\ p \in DOMAIN assessments /\ p \in Identifiers
         /\ worker[w].read.decision_review # "rejected"
         /\ p # None /\ assessments[p].status = "assessed"
         /\ p[2] < worker[w].read.event_count
<1>1. PICK s : s = worker[w].read  OBVIOUS
<1>2. worker[w].pc \in Reasoning /\ WorldInv /\ WorldOK
  BY WorldNow DEF Reuse, Reasoning, Rereading
<1>3. Seen(s) /\ Wanting(s) /\ s.event_count \in Nat  BY <1>1, <1>2, ReasoningFacts
<1>4. /\ p # None /\ p \notin expired /\ s.decision_review # "rejected"
      /\ assessments[p].status = "assessed"
      /\ assessments[p].state_fingerprint = <<worker[w].snapshot, s.note_revision>>
  BY <1>1 DEF Reuse, Reusable, StateFingerprint
<1>5. p \in DOMAIN assessments /\ p \in Identifiers /\ RowOK(assessments[p], p)
  BY <1>1, <1>2, <1>3, <1>4 DEF Seen, WorldInv, WorldOK, RowsOK
<1>6. p[2] \in Nat /\ p[2] <= s.event_count  BY <1>1, <1>3, <1>4, <1>5 DEF Seen, Identifiers
<1>7. assessments[p].note_revision = s.note_revision
  BY <1>4, <1>5 DEF RowOK
<1>8. ~Actionable(s, p)  BY <1>1, <1>3, <1>4 DEF Wanting
<1>9. p[2] # s.event_count
  BY <1>1, <1>3, <1>4, <1>5, <1>7, <1>8
     DEF Wanting, Actionable, CurrentAssessment, RowOK
<1> QED  BY <1>1, <1>3, <1>4, <1>5, <1>6, <1>9

LEMMA OnceReuse ==
  ASSUME OnceInv, NEW w \in Workers, Reuse(w)
  PROVE  Once'
<1>1. PICK p : p = worker[w].read.latest_assessment  OBVIOUS
<1>2. PICK new : new = Identifier(w)  OBVIOUS
<1>3. /\ p \in DOMAIN assessments /\ p \in Identifiers /\ p # None
      /\ worker[w].read.decision_review # "rejected"
      /\ assessments[p].status = "assessed" /\ p[2] < worker[w].read.event_count
  BY <1>1, ReusedIsOlder DEF OnceInv
<1>4. worker[w].pc \in Rereading /\ worker[w].pc \in Reasoning
  BY DEF Reuse, Rereading, Reasoning
<1>5. /\ new[2] = worker[w].read.event_count /\ new[2] \in Nat
      /\ WorldOK /\ OnceOK(worker[w]) /\ Once
  BY <1>2, <1>4, ReasoningFacts, OnceFacts DEF OnceInv
<1>6. Clean(p)  BY <1>1, <1>3, <1>4, <1>5 DEF OnceOK
<1>7. PICK origin : origin = assessments[p].origin  OBVIOUS
<1>8. Sound(origin, p)  BY <1>3, <1>5, <1>7 DEF Once, Filed
<1>9. Sound(origin, new)
  <2>1. CASE origin = None  BY <2>1 DEF Sound
  <2>2. CASE origin = p  BY <1>3, <1>5, <1>6, <2>2 DEF Sound
  <2>3. CASE origin \notin {p, None}
    <3>1. origin[2] < p[2] /\ Clean(origin)  BY <1>8, <2>3 DEF Sound
    <3>2. origin \in Identifiers  BY <1>3, <1>5, <1>7, <2>3 DEF WorldOK, Row
    <3>3. origin[2] \in Nat /\ p[2] \in Nat  BY <1>3, <3>2 DEF Identifiers
    <3>4. origin[2] < new[2]  BY <1>3, <1>5, <3>1, <3>3
    <3> QED  BY <3>1, <3>4 DEF Sound
  <2> QED  BY <2>1, <2>2, <2>3
<1>10. PICK row : row = Assessed(w, Previous(w).about, Previous(w).origin)  OBVIOUS
<1>11. row.origin = origin  BY <1>1, <1>7, <1>10 DEF Assessed, Previous
<1>12. Quiet /\ Conclude(w, row)  BY <1>10 DEF Reuse, Quiet, incident, opinions
<1>13. Sound(row.origin, Identifier(w))  BY <1>2, <1>9, <1>11
<1> QED  BY <1>4, <1>12, <1>13, OnceConclude

LEMMA OnceStoreAssessment ==
  ASSUME OnceInv, NEW w \in Workers, StoreAssessment(w)
  PROVE  Once'
<1>1. PICK o : o = worker[w]  OBVIOUS
<1>2. PICK new : new = Identifier(w)  OBVIOUS
<1>3. /\ o \in Execution /\ worker \in [Workers -> Execution] /\ Once
      /\ OnceOK(o) /\ WorldInv /\ WorldOK /\ o.pc = "put"
  BY <1>1, OnceFacts DEF StoreAssessment
<1>4. /\ new = IdentifierOf(o) /\ new \in Identifiers /\ o.message \in Messages
      /\ new[1] = o.message /\ new[4] = o.attempt /\ o.message # None
  <2>1. worker[w].pc \in Reasoning  BY <1>1, <1>3 DEF Reasoning
  <2> QED  BY <1>1, <1>2, <2>1, ReasoningFacts, AssessmentAssumption DEF OnceInv
<1>5. UNCHANGED <<summary, audit, delivered>>  BY DEF StoreAssessment, incident
<1>6. new \notin DOMAIN assessments
  <2>1. \A id \in DOMAIN assessments : id[1] = o.message => id[4] < o.attempt
    BY <1>3 DEF OnceOK
  <2>2. o.attempt \in Nat  BY <1>3, ExecutionFields
  <2> QED  BY <1>4, <2>1, <2>2
<1>7. /\ DOMAIN assessments' = DOMAIN assessments \cup {new}
      /\ \A id \in DOMAIN assessments : assessments'[id] = assessments[id]
      /\ assessments'[new] = o.item
  BY <1>1, <1>2, <1>6, Stored
<1>8. ~Reviewed(new) /\ summary.latest_assessment # new
  BY <1>3, <1>4, <1>6, AssessmentAssumption
     DEF Reviewed, WorldInv, AuditOK, SummaryOK, Identifiers
<1>9. PICK e : e = worker'[w]  OBVIOUS
<1>10. e = [o EXCEPT !.pc = "publish", !.item = None] /\ Others(w)
  BY <1>1, <1>3, <1>9 DEF Others, StoreAssessment
<1>11. e.pc = "publish" /\ e.message = o.message /\ e.attempt = o.attempt /\ e.read = o.read
  BY ONLY <1>3, <1>10 DEF Execution
<1>12. OneEach'  BY <1>1, <1>3, <1>9, <1>10, <1>11, OneEachStays DEF Once
<1>13. Filed'
  <2>1. ASSUME NEW id \in DOMAIN assessments'
        PROVE  delivered[id[1]] \notin {0, None} /\ Sound(assessments'[id].origin, id)
    <3>1. CASE id = new
      BY <1>3, <1>4, <1>7, <3>1 DEF OnceOK
    <3>2. CASE id \in DOMAIN assessments
      BY <1>3, <1>7, <3>2 DEF Once, Filed
    <3> QED  BY <1>7, <3>1, <3>2
  <2>2. ASSUME NEW x, NEW id, Sound(x, id) PROVE Sound(x, id)'
    BY <1>5, <2>2 DEF Sound, Clean, Verdict
  <2> QED  BY <1>5, <2>1, <2>2 DEF Filed, Sound, Clean, Verdict
<1>14. StandingIsClean'
  BY <1>3, <1>5 DEF Once, StandingIsClean, Clean, Verdict
<1>15. ASSUME NEW v \in Workers PROVE OnceOK(worker[v])'
  <2>1. PICK x : x = worker'[v]  OBVIOUS
  <2>2. CASE v = w
    <3>1. x = e  BY <1>9, <2>1, <2>2
    <3>2. delivered'[e.message] \notin {0, None}
      BY <1>3, <1>4, <1>5, <1>11 DEF OnceOK
    <3>3. ASSUME NEW id \in DOMAIN assessments', id[1] = e.message PROVE id[4] <= e.attempt
      <4>1. CASE id = new  BY <1>3, <1>4, <1>11, <4>1, ExecutionFields
      <4>2. CASE id \in DOMAIN assessments
        BY <1>3, <1>4, <1>11, <3>3, <4>2 DEF OnceOK
      <4> QED  BY <1>7, <4>1, <4>2
    <3>4. IdentifierOf(e) = new  BY <1>4, <1>11 DEF IdentifierOf
    <3>5. (~Reviewed(new))' /\ summary'.latest_assessment # new
      BY <1>5, <1>8 DEF Reviewed
    <3>6. OnceOK(e)'
      BY <1>11, <3>2, <3>3, <3>4, <3>5 DEF OnceOK, Rereading, Reviewed
    <3> QED  BY <2>1, <3>1, <3>6, OnceStillOK
  <2>3. CASE v # w
    <3>1. x = worker[v]  BY <1>10, <2>1, <2>3 DEF Others
    <3>2. OnceOK(x) /\ ExecutionOK(x)  BY <3>1, OnceFacts
    <3>3. x.message # o.message  BY <1>1, <1>3, <1>4, <2>3, <3>1 DEF Once, OneEach
    <3>4. \A id \in DOMAIN assessments' :
            id[1] = x.message => id \in DOMAIN assessments
      BY <1>4, <1>7, <3>3
    <3>5. x.pc \in Rereading /\ x.read.latest_assessment # None =>
            assessments'[x.read.latest_assessment] = assessments[x.read.latest_assessment]
      BY <1>7, <3>2 DEF ExecutionOK, Seen, Reasoning
    <3>6. OnceOK(x)'
      BY <1>5, <3>2, <3>4, <3>5 DEF OnceOK, Sound, Clean, Verdict, Reviewed, IdentifierOf
    <3> QED  BY <2>1, <3>6, OnceStillOK
  <2> QED  BY <2>2, <2>3
<1> QED  BY <1>12, <1>13, <1>14, <1>15 DEF Once

LEMMA OncePublish ==
  ASSUME OnceInv, NEW w \in Workers, Publish(w)
  PROVE  Once'
<1>1. UNCHANGED <<assessments, audit, delivered>> /\ Goto(w, "confirm")
  BY DEF Publish, opinions
<1>2. CASE ~Publishable(w)
  <2>1. Quiet  BY <1>1, <1>2 DEF Publish, Quiet
  <2> QED  BY <1>1, <2>1, OnceGoto
<1>3. CASE Publishable(w)
  <2>1. PICK o : o = worker[w]  OBVIOUS
  <2>2. PICK new : new = Identifier(w)  OBVIOUS
  <2>3. /\ o \in Execution /\ worker \in [Workers -> Execution] /\ Once
        /\ OnceOK(o) /\ WorldInv /\ WorldOK /\ o.pc = "publish"
    BY <2>1, OnceFacts DEF Publish
  <2>4. new = IdentifierOf(o) /\ o.message # None /\ new[1] = o.message
    <3>1. worker[w].pc \in Reasoning  BY <2>1, <2>3 DEF Reasoning
    <3> QED  BY <2>1, <2>2, <3>1, ReasoningFacts, AssessmentAssumption DEF OnceInv
  <2>5. summary'.latest_assessment = new
    BY <1>3, <2>2, <2>3 DEF Publish, Published, WorldOK, Summary
  <2>6. ~Reviewed(new)  BY <2>3, <2>4 DEF OnceOK
  <2>7. PICK e : e = worker'[w]  OBVIOUS
  <2>8. e = [o EXCEPT !.pc = "confirm"] /\ Others(w)
    BY <1>1, <2>1, <2>3, <2>7 DEF Others, Goto
  <2>9. e.pc = "confirm" /\ e.message = o.message /\ e.attempt = o.attempt
    BY ONLY <2>3, <2>8 DEF Execution
  <2>10. OneEach'  BY <2>1, <2>3, <2>7, <2>8, <2>9, OneEachStays DEF Once
  <2>11. Filed'
    BY <1>1, <2>3 DEF Once, Filed, Sound, Clean, Verdict
  <2>12. StandingIsClean'
    <3>1. ~Verdict(new, "rejected")'  BY <1>1, <2>6 DEF Reviewed, Verdict
    <3> QED  BY <2>5, <3>1 DEF StandingIsClean, Clean, Verdict
  <2>13. ASSUME NEW v \in Workers PROVE OnceOK(worker[v])'
    <3>1. PICK x : x = worker'[v]  OBVIOUS
    <3>2. CASE v = w
      <4>1. x = e  BY <2>7, <3>1, <3>2
      <4>2. OnceOK(e)'  BY <1>1, <2>3, <2>9 DEF OnceOK, Rereading
      <4> QED  BY <3>1, <4>1, <4>2, OnceStillOK
    <3>3. CASE v # w
      <4>1. x = worker[v]  BY <2>8, <3>1, <3>3 DEF Others
      <4>2. OnceOK(x) /\ ExecutionOK(x)  BY <4>1, OnceFacts
      <4>3. x.message # o.message  BY <2>1, <2>3, <2>4, <3>3, <4>1 DEF Once, OneEach
      <4>4. IdentifierOf(x) # new  BY <2>4, <4>3 DEF IdentifierOf
      <4>5. OnceOK(x)'
        BY <1>1, <2>5, <4>2, <4>4
           DEF OnceOK, Sound, Clean, Verdict, Reviewed, IdentifierOf
      <4> QED  BY <3>1, <4>5, OnceStillOK
    <3> QED  BY <3>2, <3>3
  <2> QED  BY <2>10, <2>11, <2>12, <2>13 DEF Once
<1> QED  BY <1>2, <1>3

LEMMA OnceConfirm ==
  ASSUME OnceInv, NEW w \in Workers, Confirm(w)
  PROVE  Once'
<1>1. PICK o : o = worker[w]  OBVIOUS
<1>2. o \in Execution /\ worker \in [Workers -> Execution] /\ Once  BY <1>1, OnceFacts
<1>3. PICK e : e = worker'[w]  OBVIOUS
<1>4. Quiet  BY DEF Confirm, Quiet, incident, opinions
<1>5. CASE Finish(w)  BY <1>4, <1>5, OnceFinish
<1>6. CASE \E next : worker' = [worker EXCEPT ![w].pc = "brief", ![w].next = next,
                                              ![w].read = None]
  <2>1. PICK next : worker' = [worker EXCEPT ![w].pc = "brief", ![w].next = next,
                                             ![w].read = None]
    BY <1>6
  <2>2. e = [o EXCEPT !.pc = "brief", !.next = next, !.read = None] /\ Others(w)
    BY <1>1, <1>2, <1>3, <2>1 DEF Others
  <2>3. e.pc = "brief" /\ e.message = o.message /\ e.attempt = o.attempt
    BY ONLY <1>2, <2>2 DEF Execution
  <2>4. Apart(e, worker[w])  BY <1>1, <2>3 DEF Apart, Rereading
  <2> QED  BY <1>2, <1>3, <1>4, <2>2, <2>4, OncePasses
<1>7. CASE worker' = [worker EXCEPT ![w].pc = "assess", ![w].read = None]
  <2>1. e = [o EXCEPT !.pc = "assess", !.read = None] /\ Others(w)
    BY <1>1, <1>2, <1>3, <1>7 DEF Others
  <2>2. e.pc = "assess" /\ e.message = o.message /\ e.attempt = o.attempt
    BY ONLY <1>2, <2>1 DEF Execution
  <2>3. Apart(e, worker[w])  BY <1>1, <2>2 DEF Apart, Rereading
  <2> QED  BY <1>2, <1>3, <1>4, <2>1, <2>3, OncePasses
<1> QED  BY <1>5, <1>6, <1>7 DEF Confirm

\* The reads of a briefing change no more than label and what was read.
LEMMA OnceBriefingReads ==
  ASSUME OnceInv, NEW w \in Workers, BriefingReadsSnapshot(w) \/ BriefingReadsPrevious(w)
  PROVE  Once'
<1>1. PICK o : o = worker[w]  OBVIOUS
<1>2. o \in Execution /\ worker \in [Workers -> Execution] /\ Once  BY <1>1, OnceFacts
<1>3. PICK e : e = worker'[w]  OBVIOUS
<1>4. Quiet  BY DEF BriefingReadsSnapshot, BriefingReadsPrevious, Quiet, incident, opinions
<1>5. /\ Others(w)
      /\ \/ e = [o EXCEPT !.pc = "briefPrevious", !.snapshot = ledger]
         \/ \E p : e = [o EXCEPT !.pc = "briefPut", !.previous = p]
  BY <1>1, <1>2, <1>3 DEF Others, BriefingReadsSnapshot, BriefingReadsPrevious
<1>6. /\ e.pc \in {"briefPrevious", "briefPut"}
      /\ e.message = o.message /\ e.attempt = o.attempt
  BY ONLY <1>2, <1>5 DEF Execution
<1>7. Apart(e, worker[w])  BY <1>1, <1>6 DEF Apart, Rereading
<1> QED  BY <1>2, <1>3, <1>4, <1>5, <1>7, OncePasses

LEMMA OnceBriefingReadsSummary ==
  ASSUME OnceInv, NEW w \in Workers, BriefingReadsSummary(w)
  PROVE  Once'
<1>1. PICK o : o = worker[w]  OBVIOUS
<1>2. o \in Execution /\ worker \in [Workers -> Execution] /\ Once  BY <1>1, OnceFacts
<1>3. PICK e : e = worker'[w]  OBVIOUS
<1>4. Quiet  BY DEF BriefingReadsSummary, Quiet, incident, opinions
<1>5. CASE summary.deleting  BY <1>4, <1>5, OnceReturn DEF BriefingReadsSummary
<1>6. CASE ~summary.deleting
  <2>1. e = [o EXCEPT !.pc = "briefSnapshot", !.read = summary] /\ Others(w)
    BY <1>1, <1>2, <1>3, <1>6 DEF Others, BriefingReadsSummary
  <2>2. e.pc = "briefSnapshot" /\ e.message = o.message /\ e.attempt = o.attempt
    BY ONLY <1>2, <2>1 DEF Execution
  <2>3. Apart(e, worker[w])  BY <1>1, <2>2 DEF Apart, Rereading
  <2> QED  BY <1>2, <1>3, <1>4, <2>1, <2>3, OncePasses
<1> QED  BY <1>5, <1>6

LEMMA OnceRecordEvidence ==
  ASSUME OnceInv, NEW w \in Workers, RecordEvidence(w) \/ AlreadyRecorded(w)
  PROVE  Once'
<1>1. WorldOK  BY OnceFacts
<1>2. Quiet
  BY <1>1 DEF RecordEvidence, AlreadyRecorded, Quiet, incident, opinions, WorldOK, Summary
<1>3. Goto(w, "assess") \/ Finish(w)  BY DEF RecordEvidence, AlreadyRecorded
<1> QED  BY <1>2, <1>3, OnceGoto, OnceFinish

LEMMA OnceResolve ==
  ASSUME OnceInv, NEW w \in Workers, Resolve(w)
  PROVE  Once'
<1>1. WorldOK  BY OnceFacts
<1>2. Quiet  BY <1>1 DEF Resolve, Quiet, opinions, WorldOK, Summary
<1> QED  BY <1>2, OnceGoto DEF Resolve

LEMMA OnceDie ==
  ASSUME OnceInv, NEW w \in Workers, Die(w)
  PROVE  Once'
<1>1. Quiet  BY DEF Die, Quiet, incident, opinions
<1> QED  BY <1>1, OnceFinish DEF Die

LEMMA OnceRecordBriefing ==
  ASSUME OnceInv, NEW w \in Workers, RecordBriefing(w)
  PROVE  Once'
<1>1. Quiet  BY DEF RecordBriefing, Quiet, incident
<1> QED  BY <1>1, OnceReturn DEF RecordBriefing

\* Deliveries are only counted up; a message that was published stays so.
LEMMA OnceDelivered ==
  ASSUME UNCHANGED <<assessments, audit>>,
         summary'.latest_assessment = summary.latest_assessment,
         \A m : delivered[m] \notin {0, None} => delivered'[m] \notin {0, None},
         NEW o, OnceOK(o)
  PROVE  OnceOK(o)'
BY DEF OnceOK, Sound, Clean, Verdict, Reviewed, IdentifierOf

LEMMA OnceDeliver ==
  ASSUME OnceInv, MaxDeliveries <= 1, NEW w \in Workers, NEW m \in Messages, Deliver(w, m)
  PROVE  Once'
<1>1. PICK o : o = worker[w]  OBVIOUS
<1>2. worker \in [Workers -> Execution] /\ Once /\ WorldOK  BY OnceFacts
<1>3. PICK e : e = worker'[w]  OBVIOUS
<1>4. UNCHANGED <<summary, assessments, audit>>  BY DEF Deliver, incident, opinions
<1>5. /\ delivered \in [Messages -> (0 .. MaxDeliveries) \cup {None}]
      /\ delivered[m] # None /\ delivered[m] < MaxDeliveries
      /\ delivered' = [delivered EXCEPT ![m] = delivered[m] + 1]
  BY <1>2 DEF Deliver, WorldOK
<1>6. delivered[m] = 0 /\ delivered'[m] = 1  BY <1>5, AssessmentAssumption
<1>7. \A x : delivered[x] \notin {0, None} => delivered'[x] \notin {0, None}
  <2>1. ASSUME NEW x, delivered[x] \notin {0, None} PROVE delivered'[x] \notin {0, None}
    <3>1. CASE x = m  BY <1>6, <2>1, <3>1
    <3>2. CASE x # m  BY <1>5, <2>1, <3>2
    <3> QED  BY <3>1, <3>2
  <2> QED  BY <2>1
<1>8. delivered'[m] \notin {0, None}  BY <1>6, AssessmentAssumption
<1>9. e = [Idle EXCEPT !.message = m, !.pc = IF m \in Signals THEN "record" ELSE "assess"]
      /\ Others(w)
  BY <1>2, <1>3 DEF Deliver, Others
<1>10. e.message = m /\ e.pc \in {"record", "assess"} /\ e.attempt = 0
  BY ONLY <1>9, IdleOK DEF Execution, Idle
<1>11. OneEach'
  <2>1. \A v \in Workers : worker[v].message # m
    BY <1>2, <1>6, AssessmentAssumption DEF Once, OnceOK
  <2>2. m # None  BY AssessmentAssumption
  <2>3. ASSUME NEW a \in Workers, NEW b \in Workers, a # b, worker'[a].message # None
        PROVE  worker'[a].message # worker'[b].message
    <3>1. CASE a = w
      <4>1. worker'[b] = worker[b]  BY <1>9, <2>3, <3>1 DEF Others
      <4>2. worker'[a] = e  BY <1>3, <3>1
      <4> QED  BY <1>10, <2>1, <4>1, <4>2
    <3>2. CASE b = w
      <4>1. worker'[a] = worker[a]  BY <1>9, <2>3, <3>2 DEF Others
      <4>2. worker'[b] = e  BY <1>3, <3>2
      <4> QED  BY <1>10, <2>1, <4>1, <4>2
    <3>3. CASE a # w /\ b # w
      <4>1. worker'[a] = worker[a] /\ worker'[b] = worker[b]  BY <1>9, <3>3 DEF Others
      <4> QED  BY <1>2, <2>3, <4>1 DEF Once, OneEach
    <3> QED  BY <3>1, <3>2, <3>3
  <2> QED  BY <2>3 DEF OneEach
<1>12. Filed' /\ StandingIsClean'
  BY <1>2, <1>4, <1>7 DEF Once, Filed, StandingIsClean, Sound, Clean, Verdict
<1>13. ASSUME NEW v \in Workers PROVE OnceOK(worker[v])'
  <2>1. PICK x : x = worker'[v]  OBVIOUS
  <2>2. CASE v = w
    <3>1. x = e  BY <1>3, <2>1, <2>2
    <3>2. \A id \in DOMAIN assessments : id[1] # m
      BY <1>2, <1>6, AssessmentAssumption DEF Once, Filed
    <3>3. OnceOK(e)'
      BY <1>4, <1>8, <1>10, <3>2 DEF OnceOK, Rereading
    <3> QED  BY <2>1, <3>1, <3>3, OnceStillOK
  <2>3. CASE v # w
    <3>1. x = worker[v]  BY <1>9, <2>1, <2>3 DEF Others
    <3>2. OnceOK(x)  BY <1>2, <3>1 DEF Once
    <3>3. OnceOK(x)'  BY <1>4, <1>7, <3>2, OnceDelivered
    <3> QED  BY <2>1, <3>3, OnceStillOK
  <2> QED  BY <2>2, <2>3
<1> QED  BY <1>11, <1>12, <1>13 DEF Once

LEMMA OnceAnnounce ==
  ASSUME OnceInv, NEW m \in Messages, delivered[m] = None,
         delivered' = [delivered EXCEPT ![m] = 0], UNCHANGED <<incident, opinions, worker>>
  PROVE  Once'
<1>1. Once  BY DEF OnceInv
<1>2. UNCHANGED <<summary, assessments, audit, worker>>  BY DEF incident, opinions
<1>3. ASSUME NEW x, delivered[x] \notin {0, None} PROVE delivered'[x] \notin {0, None}
  <2>1. x # m  BY <1>3
  <2>2. delivered'[x] = delivered[x]  BY <2>1
  <2> QED  BY <1>3, <2>2
<1>4. OneEach' /\ Filed' /\ StandingIsClean'
  BY <1>1, <1>2, <1>3
     DEF Once, OneEach, Filed, StandingIsClean, Sound, Clean, Verdict
<1>5. ASSUME NEW v \in Workers PROVE OnceOK(worker[v])'
  <2>1. PICK x : x = worker'[v]  OBVIOUS
  <2>2. OnceOK(x)  BY <1>1, <1>2, <2>1 DEF Once
  <2>3. OnceOK(x)'  BY <1>2, <1>3, <2>2, OnceDelivered
  <2> QED  BY <2>1, <2>3, OnceStillOK
<1> QED  BY <1>4, <1>5 DEF Once

\* A verdict is on the latest evidence: what is of older evidence stays clean.
LEMMA OnceReview ==
  ASSUME OnceInv, NEW r \in Reviews, NEW id \in DOMAIN assessments,
         NEW verdict \in {"accepted", "rejected"}, Review(r, id, verdict)
  PROVE  Once'
<1>1. Once /\ AssessInv /\ WorldInv /\ WorldOK  BY WorldNow DEF OnceInv
<1>2. UNCHANGED <<assessments, delivered, worker>>  BY DEF Review
<1>3. PICK entry : entry = [request |-> r, assessment_id |-> id, verdict |-> verdict]
  OBVIOUS
<1>4. entry.assessment_id = id /\ entry.verdict = verdict /\ audit' = audit \cup {entry}
  BY <1>3 DEF Review
<1>5. /\ summary'.latest_assessment = id /\ summary'.decision_review = verdict
      /\ summary.latest_assessment = id
  BY <1>1 DEF Review, Reviewable, WorldOK, Summary
<1>6. id \in Identifiers /\ id[2] = summary.event_count /\ summary.event_count \in Nat
  BY <1>1, WorldFacts DEF Review, Reviewable, WorldInv, WorldOK, RowsOK, RowOK
<1>7. ASSUME NEW x, x # id, Clean(x) PROVE Clean(x)'
  BY <1>4, <1>7 DEF Clean, Verdict
<1>8. ASSUME NEW x, x # id, ~Reviewed(x) PROVE ~Reviewed(x)'
  BY <1>4, <1>8 DEF Reviewed
<1>9. ASSUME NEW origin, NEW x \in Identifiers, x[2] <= summary.event_count,
             Sound(origin, x), origin \in Identifiers \cup {None}
      PROVE  Sound(origin, x)'
  <2>1. CASE origin \in {x, None}  BY <2>1 DEF Sound
  <2>2. CASE origin \notin {x, None}
    <3>1. origin[2] < x[2] /\ Clean(origin)  BY <1>9, <2>2 DEF Sound
    <3>2. origin[2] \in Nat /\ x[2] \in Nat  BY <1>9, <2>2 DEF Identifiers
    <3>3. origin # id  BY <1>6, <1>9, <3>1, <3>2
    <3> QED  BY <1>7, <3>1, <3>3 DEF Sound
  <2> QED  BY <2>1, <2>2
<1>10. OneEach'  BY <1>1, <1>2 DEF Once, OneEach
<1>11. Filed'
  <2>1. ASSUME NEW x \in DOMAIN assessments
        PROVE  delivered[x[1]] \notin {0, None} /\ Sound(assessments[x].origin, x)'
    <3>1. PICK origin : origin = assessments[x].origin  OBVIOUS
    <3>2. /\ delivered[x[1]] \notin {0, None} /\ Sound(origin, x) /\ x \in Identifiers
          /\ origin \in Identifiers \cup {None} /\ x[2] <= summary.event_count
      BY <1>1, <3>1 DEF Once, Filed, WorldInv, WorldOK, Row, RowsOK, RowOK
    <3>3. Sound(origin, x)'  BY <1>9, <3>2
    <3> QED  BY <1>2, <3>1, <3>2, <3>3 DEF Sound, Clean, Verdict
  <2> QED  BY <1>2, <2>1 DEF Filed
<1>12. StandingIsClean'
  <2>1. verdict = "accepted" => Verdict(id, "accepted")'  BY <1>4 DEF Verdict
  <2>2. verdict # "rejected" => Clean(id)'  BY <2>1 DEF Clean, Verdict
  <2> QED  BY <1>5, <2>2 DEF StandingIsClean, Clean, Verdict
<1>13. ASSUME NEW v \in Workers PROVE OnceOK(worker[v])'
  <2>1. PICK x : x = worker'[v]  OBVIOUS
  <2>2. OnceOK(x) /\ ExecutionOK(x) /\ x \in Execution  BY <1>2, <2>1, OnceFacts
  <2>3. ASSUME x.pc \in Rereading, x.read.latest_assessment # None,
               assessments[x.read.latest_assessment].status = "assessed",
               x.read.decision_review # "rejected",
               x.read.latest_assessment[2] < x.read.event_count
        PROVE  Clean(x.read.latest_assessment)'
    <3>1. PICK p : p = x.read.latest_assessment  OBVIOUS
    <3>2. Seen(x.read)  BY <2>2, <2>3 DEF ExecutionOK, Reasoning
    <3>3. /\ p \in Identifiers /\ x.read.event_count \in Nat
          /\ x.read.event_count <= summary.event_count
      BY <1>1, <2>3, <3>1, <3>2, SummaryFields DEF Seen, WorldOK
    <3>4. p[2] \in Nat  BY <3>3 DEF Identifiers
    <3>5. p # id  BY <1>6, <2>3, <3>1, <3>3, <3>4
    <3>6. Clean(p)  BY <2>2, <2>3, <3>1 DEF OnceOK
    <3>7. Clean(p)'  BY <1>7, <3>5, <3>6
    <3> QED  BY <3>1, <3>7 DEF Clean, Verdict
  <2>4. x.pc = "put" => Sound(x.item.origin, IdentifierOf(x))'
    <3> SUFFICES ASSUME x.pc = "put" PROVE Sound(x.item.origin, IdentifierOf(x))'
      OBVIOUS
    <3>1. Seen(x.read) /\ x.message \in Messages /\ x.read \in Summary
      BY <2>2 DEF ExecutionOK, Reasoning, Seen
    <3>2. /\ IdentifierOf(x) \in Identifiers /\ IdentifierOf(x)[2] <= summary.event_count
          /\ x.item.origin \in Identifiers \cup {None} /\ Sound(x.item.origin, IdentifierOf(x))
      BY <2>2, <3>1, IdentifierTyped DEF Seen, ExecutionOK, OnceOK, Row
    <3> QED  BY <1>9, <3>2
  <2>5. x.pc = "publish" => /\ ~Reviewed(IdentifierOf(x))'
                            /\ summary'.latest_assessment # IdentifierOf(x)
    BY <1>5, <1>8, <2>2 DEF OnceOK
  <2>6. OnceOK(x)'  BY <1>2, <2>2, <2>3, <2>4, <2>5 DEF OnceOK
  <2> QED  BY <2>1, <2>6, OnceStillOK
<1> QED  BY <1>10, <1>11, <1>12, <1>13 DEF Once

LEMMA OnceOutside ==
  ASSUME OnceInv, (\E n \in Notes : SaveNote(n)) \/ RequestDeletion
                  \/ (\E id \in DOMAIN assessments : Expire(id))
  PROVE  Once'
<1>1. WorldOK /\ Once  BY WorldNow DEF OnceInv
<1>2. Quiet /\ UNCHANGED worker
  BY <1>1 DEF SaveNote, RequestDeletion, Expire, Quiet, incident, opinions, WorldOK, Summary
<1> QED  BY <1>1, <1>2, OnceStands

LEMMA OnceInit ==
  ASSUME Init
  PROVE  OnceInv
<1>1. AssessInv  BY InvInit
<1>2. \A w \in Workers : worker[w] = Idle  BY DEF Init
<1>3. OneEach /\ Filed /\ StandingIsClean
  BY <1>2, IdleOK DEF Init, OneEach, Filed, StandingIsClean
<1>4. OnceOK(Idle)  BY IdleOK DEF OnceOK, Rereading
<1> QED  BY <1>1, <1>2, <1>3, <1>4 DEF OnceInv, Once

LEMMA OnceNext ==
  ASSUME OnceInv, MaxDeliveries <= 1, [Next]_vars
  PROVE  OnceInv'
<1>1. AssessInv'  BY InvNext DEF OnceInv
<1>2. Once'
  <2>1. CASE \E w \in Workers : Step(w)
    BY <2>1, OnceRecordEvidence, OnceStartAssessment, OnceReads, OnceFailed, OnceReuse,
       OnceReason, OnceStoreAssessment, OncePublish, OnceConfirm, OnceBriefingReads,
       OnceBriefingReadsSummary, OnceRecordBriefing
       DEF Step
  <2>2. CASE \E w \in Workers : Resolve(w) \/ \E m \in Messages : Deliver(w, m)
    BY <2>2, OnceResolve, OnceDeliver
  <2>3. CASE \E n \in Notes : SaveNote(n) \/ PublishNote(n)
    BY <2>3, OnceOutside, OnceAnnounce DEF PublishNote, Messages
  <2>4. CASE \E q \in Requests : RequestReassessment(q)
    BY <2>4, OnceAnnounce DEF RequestReassessment, Messages
  <2>5. CASE \E id \in DOMAIN assessments :
               \/ Expire(id)
               \/ \E r \in Reviews, v \in {"accepted", "rejected"} : Review(r, id, v)
    BY <2>5, OnceOutside, OnceReview
  <2>6. CASE RequestDeletion  BY <2>6, OnceOutside
  <2>7. CASE Failure  BY <2>7, OnceFailed, OnceDie DEF Failure
  <2>8. CASE UNCHANGED vars
    <3>1. Quiet /\ UNCHANGED worker  BY <2>8 DEF vars, Quiet
    <3> QED  BY <3>1, OnceStands DEF OnceInv
  <2> QED
    BY <2>1, <2>2, <2>3, <2>4, <2>5, <2>6, <2>7, <2>8 DEF Next, Progress
<1> QED  BY <1>1, <1>2 DEF OnceInv

\* When no message is delivered twice, what a person rejected and nobody accepted is not
\* in force again, neither itself nor copied for new evidence: no race, retry, expiry or
\* coalescing brings it back (functions/invoke_reasoner).  A second delivery does.
THEOREM RejectionsStand ==
  ASSUME MaxDeliveries <= 1
  PROVE  Spec => []RejectedStaysRejected
<1>1. Init => OnceInv  BY OnceInit
<1>2. OnceInv /\ [Next]_vars => OnceInv'  BY OnceNext
<1>3. ASSUME OnceInv PROVE RejectedStaysRejected
  <2>1. PICK id : id = summary.latest_assessment  OBVIOUS
  <2>2. SUFFICES ASSUME Actionable(summary, id),
                        NEW x \in {id, assessments[id].origin}, Verdict(x, "rejected")
                 PROVE  Verdict(x, "accepted")
    BY <2>1 DEF RejectedStaysRejected
  <2>3. Once /\ WorldInv /\ WorldOK  BY <1>3, WorldNow DEF OnceInv
  <2>4. id # None /\ id \in DOMAIN assessments /\ summary.decision_review # "rejected"
    BY <2>1, <2>2, <2>3 DEF Actionable, CurrentAssessment, WorldInv, SummaryOK
  <2>5. Clean(id)  BY <2>1, <2>3, <2>4 DEF Once, StandingIsClean
  <2>6. x # None
    BY <2>2, <2>3, AssessmentAssumption
       DEF Verdict, WorldInv, AuditOK, WorldOK, Identifiers
  <2>7. x = id \/ Clean(x)  BY <2>2, <2>3, <2>4, <2>6 DEF Once, Filed, Sound
  <2> QED  BY <2>2, <2>5, <2>7 DEF Clean
<1> QED  BY <1>1, <1>2, <1>3, PTL DEF Spec

=============================================================================
