----------------------------- MODULE Assessment -----------------------------
(***************************************************************************)
(* How the evidence of one incident is assessed: the workflow (correlate,  *)
(* assess with bounded retries, publish the briefing), the reasoner        *)
(* handler with its publication conditions, human review, notes,           *)
(* reassessment requests and the briefing row, with new evidence,          *)
(* resolution and deletion at any time.                                    *)
(*                                                                         *)
(* A worker is one execution of the state machine, or one API call that    *)
(* records a briefing.  Each label is one read or one conditional write.   *)
(***************************************************************************)
EXTENDS Naturals, FiniteSets

CONSTANTS Workers,       \* concurrent executions
          Signals,       \* signals assigned to the incident
          Reports,       \* what a device can report
          ReportOf,      \* the device state a signal reports
          Notes,         \* notes, by request_id
          Requests,      \* reassessment requests, by their fresh event_id
          Reviews,       \* review requests, by request_id
          None,
          Attempts,      \* assessments an execution may try (3)
          MaxDeliveries  \* bound: executions started for one message

Messages == Signals \cup Notes \cup Requests

ASSUME AssessmentAssumption ==
  /\ ReportOf \in [Signals -> Reports]
  /\ None \notin Nat \cup Messages \cup Reports \cup (Messages \X Nat \X Nat \X Nat)
  /\ Signals \cap (Notes \cup Requests) = {} /\ Notes \cap Requests = {}
  /\ Attempts \in Nat \ {0} /\ MaxDeliveries \in Nat

VARIABLES
  recorded,    \* signals counted into the incident (EVENT# rows)
  ledger,      \* the device state those rows amount to
  notes,       \* NOTE# rows
  summary,     \* the INCIDENT# row
  assessments, \* ASSESSMENT# rows, by identifier
  expired,     \* identifiers whose expires_at has passed
  audit,       \* AUDIT#decision_review rows
  briefing,    \* the BRIEFING row
  delivered,   \* per message: not published, or how often delivered
  worker       \* the execution each worker is running

incident == <<recorded, ledger, notes, summary>>
opinions == <<assessments, expired, audit, briefing>>
vars == <<recorded, ledger, notes, summary, assessments, expired, audit, briefing,
          delivered, worker>>

-----------------------------------------------------------------------------
Identifiers == Messages \X Nat \X Nat \X Nat
Fingerprints == (Reports \cup {None}) \X Nat

Summary == [event_count : Nat, note_revision : Nat,
            latest_assessment : Identifiers \cup {None}, assessed_revision : Nat,
            decision_review : {"none", "unreviewed", "accepted", "rejected"},
            resolved : BOOLEAN, deleting : BOOLEAN]

\* state_fingerprint is what the code compares; about is what the model that
\* drew the conclusion was really shown, and origin the assessment it drew.
Row == [status : {"assessed", "assessment_failed"}, evidence_revision : Nat,
        note_revision : Nat, state_fingerprint : Fingerprints \cup {None},
        about : Fingerprints \cup {None}, origin : Identifiers \cup {None}]

Material == [resolved : BOOLEAN, conclusion : Identifiers \cup {None},
             devices : Reports \cup {None}]
Briefing == [fingerprint : Material, device_state : Reports \cup {None},
             evidence_revision : Nat, note_revision : Nat,
             assessment_id : Identifiers \cup {None}]

Entry == [request : Reviews, assessment_id : Identifiers,
          verdict : {"accepted", "rejected"}]

\* An execution: the summary it read, what the snapshot and the notes query
\* returned, the assessment it has drawn up, what follows the briefing.
Execution == [pc : {"idle", "record", "assess", "snapshot", "notes", "reread",
                    "put", "publish", "confirm",
                    "brief", "briefSnapshot", "briefPrevious", "briefPut"},
              message : Messages \cup {None}, attempt : Nat,
              read : Summary \cup {None}, snapshot : Reports \cup {None},
              heard : Nat, item : Row \cup {None},
              next : {"end", "retry", "publishBriefing", "done"},
              previous : Material \cup {None}]

Idle == [pc |-> "idle", message |-> None, attempt |-> 0, read |-> None,
         snapshot |-> None, heard |-> 0, item |-> None, next |-> "end",
         previous |-> None]

\* The state PublishBriefing of the workflow.
PublishBriefing == [Idle EXCEPT !.pc = "brief", !.next = "done"]

Init ==
  /\ recorded = {} /\ ledger = None /\ notes = {}
  /\ summary = [event_count |-> 0, note_revision |-> 0, latest_assessment |-> None,
                assessed_revision |-> 0, decision_review |-> "none",
                resolved |-> FALSE, deleting |-> FALSE]
  /\ assessments = [id \in {} |-> None] /\ expired = {} /\ audit = {}
  /\ briefing = None
  /\ delivered = [m \in Messages |-> IF m \in Signals THEN 0 ELSE None]
  /\ worker = [w \in Workers |-> Idle]

-----------------------------------------------------------------------------
(* Freshness, as policy, publication and reading share it *)

CurrentAssessment(s, id) ==
  /\ ~s.resolved /\ ~s.deleting
  /\ id # None /\ s.latest_assessment = id
  /\ assessments[id].evidence_revision = s.event_count
  /\ assessments[id].note_revision = s.note_revision

Actionable(s, id) ==
  /\ CurrentAssessment(s, id)
  /\ assessments[id].status = "assessed"
  /\ s.decision_review # "rejected"

Open == ~summary.resolved /\ ~summary.deleting

-----------------------------------------------------------------------------
(* The workflow: one execution per delivery of a message *)

Finish(w) == worker' = [worker EXCEPT ![w] = Idle]
Goto(w, label) == worker' = [worker EXCEPT ![w].pc = label]

\* EventBridge starts an execution; a note or request is assessment_only.
Deliver(w, m) ==
  /\ worker[w].pc = "idle"
  /\ delivered[m] # None /\ delivered[m] < MaxDeliveries
  /\ delivered' = [delivered EXCEPT ![m] = @ + 1]
  /\ worker' = [worker EXCEPT ![w] = [Idle EXCEPT !.message = m,
                  !.pc = IF m \in Signals THEN "record" ELSE "assess"]]
  /\ UNCHANGED <<incident, opinions>>

RecordEvidence(w) ==
  LET m == worker[w].message IN
  /\ worker[w].pc = "record"
  /\ Open /\ m \notin recorded
  /\ recorded' = recorded \cup {m}
  /\ ledger' = ReportOf[m]
  /\ summary' = [summary EXCEPT !.event_count = @ + 1]
  /\ Goto(w, "assess")
  /\ UNCHANGED <<notes, opinions, delivered>>

\* The transaction was cancelled: deleted; recorded before; or resolved, and
\* then the signal is archived (Ingress) and nothing is assessed.
AlreadyRecorded(w) ==
  LET m == worker[w].message IN
  /\ worker[w].pc = "record"
  /\ ~(Open /\ m \notin recorded)
  /\ IF ~summary.deleting /\ m \in recorded THEN Goto(w, "assess") ELSE Finish(w)
  /\ UNCHANGED <<incident, opinions, delivered>>

\* An execution fails or an API call dies.  PublishBriefing alone is retried.
Die(w) ==
  /\ worker[w].pc # "idle"
  /\ \/ Finish(w)
     \/ /\ worker[w].pc \in {"briefSnapshot", "briefPrevious", "briefPut"}
        /\ worker[w].next = "done"
        /\ worker' = [worker EXCEPT ![w] = PublishBriefing]
  /\ UNCHANGED <<incident, opinions, delivered>>

-----------------------------------------------------------------------------
(* functions/invoke_reasoner: one attempt to assess *)

Identifier(w) == <<worker[w].message, worker[w].read.event_count,
                   worker[w].read.note_revision, worker[w].attempt>>

\* Reads the summary; the assessment it names never changes once stored.
StartAssessment(w) ==
  LET id == summary.latest_assessment IN
  /\ worker[w].pc = "assess"
  /\ IF ~Open THEN Finish(w)
     ELSE IF Actionable(summary, id) /\ id \notin expired
     THEN worker' = [worker EXCEPT ![w] = PublishBriefing]
     ELSE worker' = [worker EXCEPT ![w].pc = "snapshot", ![w].attempt = @ + 1,
                                   ![w].read = summary]
  /\ UNCHANGED <<incident, opinions, delivered>>

ReadSnapshot(w) ==
  /\ worker[w].pc = "snapshot"
  /\ worker' = [worker EXCEPT ![w].snapshot = ledger,
       ![w].pc = IF worker[w].read.note_revision > 0 THEN "notes" ELSE "reread"]
  /\ UNCHANGED <<incident, opinions, delivered>>

ReadNotes(w) ==
  /\ worker[w].pc = "notes"
  /\ worker' = [worker EXCEPT ![w].heard = Cardinality(notes), ![w].pc = "reread"]
  /\ UNCHANGED <<incident, opinions, delivered>>

\* The summary read after the snapshot still is the one read before it.
Unchanged(w) ==
  /\ worker[w].read.event_count = summary.event_count
  /\ worker[w].read.note_revision = summary.note_revision
  /\ ~summary.resolved

\* (defect) The note revision left out of the fingerprint.
StateFingerprint_NoNotes(w) == <<worker[w].snapshot, 0>>

\* The fingerprint of the device states, and of the note revision if any.
StateFingerprint(w) == <<worker[w].snapshot, worker[w].read.note_revision>>

\* (defect) A rejected assessment is reused like any other.
Reusable_Rejected(w) ==
  LET id == worker[w].read.latest_assessment IN
  /\ id # None /\ id \notin expired
  /\ assessments[id].status = "assessed"
  /\ assessments[id].state_fingerprint = StateFingerprint(w)

\* An unexpired assessment of a state with this fingerprint may be reused for
\* new evidence, if it had not been rejected.
Reusable(w) ==
  LET id == worker[w].read.latest_assessment IN
  /\ id # None /\ id \notin expired
  /\ worker[w].read.decision_review # "rejected"
  /\ assessments[id].status = "assessed"
  /\ assessments[id].state_fingerprint = StateFingerprint(w)

Conclude(w, row) ==
  worker' = [worker EXCEPT ![w].pc = "put", ![w].snapshot = None, ![w].heard = 0,
                           ![w].item = row]

Failed(w) == [status |-> "assessment_failed", evidence_revision |-> worker[w].read.event_count,
              note_revision |-> worker[w].read.note_revision, state_fingerprint |-> None,
              about |-> None, origin |-> None]

Assessed(w, about, origin) ==
  [status |-> "assessed", evidence_revision |-> worker[w].read.event_count,
   note_revision |-> worker[w].read.note_revision,
   state_fingerprint |-> StateFingerprint(w), about |-> about, origin |-> origin]

\* The snapshot is unusable: it may mix revisions, or there is no evidence.
SnapshotChanged(w) ==
  /\ worker[w].pc = "reread"
  /\ ~Unchanged(w) \/ worker[w].snapshot = None
  /\ Conclude(w, Failed(w))
  /\ UNCHANGED <<incident, opinions, delivered>>

Previous(w) == assessments[worker[w].read.latest_assessment]

\* Coalesced: the previous conclusion, with its citations moved over.
Reuse(w) ==
  /\ worker[w].pc = "reread"
  /\ Unchanged(w) /\ worker[w].snapshot # None /\ Reusable(w)
  /\ Conclude(w, Assessed(w, Previous(w).about, Previous(w).origin))
  /\ UNCHANGED <<incident, opinions, delivered>>

\* The model answers; also when reuse fails on a citation or is about to expire.
Reason(w) ==
  /\ worker[w].pc = "reread"
  /\ Unchanged(w) /\ worker[w].snapshot # None
  /\ Conclude(w, Assessed(w, <<worker[w].snapshot, worker[w].heard>>, Identifier(w)))
  /\ UNCHANGED <<incident, opinions, delivered>>

\* The model is unavailable, its answer invalid, or a read failed.
ReasonerFails(w) ==
  /\ worker[w].pc \in {"snapshot", "notes", "reread"}
  /\ Conclude(w, Failed(w))
  /\ UNCHANGED <<incident, opinions, delivered>>

\* put_item if the identifier is new; otherwise what is stored is published.
StoreAssessment(w) ==
  LET id == Identifier(w) IN
  /\ worker[w].pc = "put"
  /\ assessments' = IF id \in DOMAIN assessments THEN assessments
                    ELSE [x \in DOMAIN assessments \cup {id} |->
                            IF x = id THEN worker[w].item ELSE assessments[x]]
  /\ worker' = [worker EXCEPT ![w].pc = "publish", ![w].item = None]
  /\ UNCHANGED <<incident, expired, audit, briefing, delivered>>

\* (defect) Any assessment of the present evidence is published.
Publishable_Blind(w) ==
  LET row == assessments[Identifier(w)] IN
  /\ Open
  /\ summary.event_count = row.evidence_revision
  /\ summary.note_revision = row.note_revision

\* (defect) Only newer evidence is: not newer notes.
Publishable_NewEvidence(w) ==
  LET row == assessments[Identifier(w)] IN
  /\ Open
  /\ summary.event_count = row.evidence_revision
  /\ summary.note_revision = row.note_revision
  /\ summary.latest_assessment = None \/ summary.assessed_revision < row.evidence_revision

\* The condition of the update in publish.
Publishable(w) ==
  LET row == assessments[Identifier(w)] IN
  /\ Open
  /\ summary.event_count = row.evidence_revision
  /\ summary.note_revision = row.note_revision
  /\ \/ summary.latest_assessment = None
     \/ summary.assessed_revision < row.evidence_revision
     \/ summary.latest_assessment = worker[w].read.latest_assessment

\* (defect) The verdict on the previous assessment is kept.
Published_VerdictKept(w) ==
  [summary EXCEPT !.latest_assessment = Identifier(w),
                  !.assessed_revision = assessments[Identifier(w)].evidence_revision]

Published(w) ==
  [summary EXCEPT !.latest_assessment = Identifier(w),
                  !.assessed_revision = assessments[Identifier(w)].evidence_revision,
                  !.decision_review = "unreviewed"]

Publish(w) ==
  /\ worker[w].pc = "publish"
  /\ summary' = IF Publishable(w) THEN Published(w) ELSE summary
  /\ Goto(w, "confirm")
  /\ UNCHANGED <<recorded, ledger, notes, opinions, delivered>>

MayTryAgain(w) == worker[w].attempt < Attempts

\* Rereads the summary: a briefing if it names this assessment, and then the
\* briefing state of the workflow, another attempt, or the end.
Confirm(w) ==
  LET id == Identifier(w)
      next == IF Actionable(summary, id) THEN "publishBriefing"
              ELSE IF Open /\ MayTryAgain(w) THEN "retry" ELSE "end" IN
  /\ worker[w].pc = "confirm"
  /\ IF summary.latest_assessment = id
     THEN worker' = [worker EXCEPT ![w].pc = "brief", ![w].next = next, ![w].read = None]
     ELSE IF next = "retry"
     THEN worker' = [worker EXCEPT ![w].pc = "assess", ![w].read = None]
     ELSE Finish(w)
  /\ UNCHANGED <<incident, opinions, delivered>>

-----------------------------------------------------------------------------
(* functions/briefings.py: record, called by publish, by the workflow's last *)
(* state and after a resolution                                              *)

\* record returns, having written or not, to whoever called it.
Return(w) ==
  CASE worker[w].next \in {"end", "done"} -> Finish(w)
    [] worker[w].next = "retry" ->
         worker' = [worker EXCEPT ![w] = [Idle EXCEPT !.pc = "assess",
                      !.message = worker[w].message, !.attempt = worker[w].attempt]]
    [] worker[w].next = "publishBriefing" ->
         worker' = [worker EXCEPT ![w] = PublishBriefing]

BriefingReadsSummary(w) ==
  /\ worker[w].pc = "brief"
  /\ IF summary.deleting THEN Return(w)
     ELSE worker' = [worker EXCEPT ![w].pc = "briefSnapshot", ![w].read = summary]
  /\ UNCHANGED <<incident, opinions, delivered>>

BriefingReadsSnapshot(w) ==
  /\ worker[w].pc = "briefSnapshot"
  /\ worker' = [worker EXCEPT ![w].pc = "briefPrevious", ![w].snapshot = ledger]
  /\ UNCHANGED <<incident, opinions, delivered>>

BriefingReadsPrevious(w) ==
  /\ worker[w].pc = "briefPrevious"
  /\ worker' = [worker EXCEPT ![w].pc = "briefPut",
       ![w].previous = IF briefing = None THEN None ELSE briefing.fingerprint]
  /\ UNCHANGED <<incident, opinions, delivered>>

\* What the briefing says: the conclusion in force, if there is one, and the
\* devices reporting.
Materials(w) ==
  LET s == worker[w].read IN
  [resolved |-> s.resolved,
   conclusion |-> IF Actionable(s, s.latest_assessment)
                  THEN assessments[s.latest_assessment].origin ELSE None,
   devices |-> IF s.resolved THEN None ELSE worker[w].snapshot]

Drafted(w) == [fingerprint |-> Materials(w), device_state |-> worker[w].snapshot,
               evidence_revision |-> worker[w].read.event_count,
               note_revision |-> worker[w].read.note_revision,
               assessment_id |-> worker[w].read.latest_assessment]

\* (defect) The evidence is checked, not what is published about it.
StillTrue_EvidenceOnly(w) ==
  LET s == worker[w].read IN
  /\ ~summary.deleting
  /\ summary.event_count = s.event_count
  /\ summary.note_revision = s.note_revision
  /\ summary.resolved = s.resolved
  /\ worker[w].previous = IF briefing = None THEN None ELSE briefing.fingerprint

\* The ConditionCheck on the summary, and the condition of the put.
StillTrue(w) ==
  LET s == worker[w].read IN
  /\ ~summary.deleting
  /\ summary.event_count = s.event_count
  /\ summary.note_revision = s.note_revision
  /\ summary.decision_review = s.decision_review
  /\ summary.latest_assessment = s.latest_assessment
  /\ summary.resolved = s.resolved
  /\ worker[w].previous = IF briefing = None THEN None ELSE briefing.fingerprint

RecordBriefing(w) ==
  /\ worker[w].pc = "briefPut"
  /\ briefing' = IF StillTrue(w) THEN Drafted(w) ELSE briefing
  /\ Return(w)
  /\ UNCHANGED <<incident, assessments, expired, audit, delivered>>

-----------------------------------------------------------------------------
(* What people do: notes, reassessment, review, resolution, deletion *)

\* save_note: the note and the revision in one transaction, then the message;
\* a retry of a saved note publishes it again.
SaveNote(n) ==
  /\ Open /\ n \notin notes
  /\ notes' = notes \cup {n}
  /\ summary' = [summary EXCEPT !.note_revision = @ + 1]
  /\ UNCHANGED <<recorded, ledger, opinions, delivered, worker>>

PublishNote(n) ==
  /\ n \in notes /\ delivered[n] = None
  /\ delivered' = [delivered EXCEPT ![n] = 0]
  /\ UNCHANGED <<incident, opinions, worker>>

RequestReassessment(q) ==
  /\ Open /\ delivered[q] = None
  /\ delivered' = [delivered EXCEPT ![q] = 0]
  /\ UNCHANGED <<incident, opinions, worker>>

\* The verdict and its audit entry in one transaction.
Reviewable(r, id) ==
  /\ ~summary.deleting
  /\ assessments[id].status = "assessed"
  /\ summary.latest_assessment = id
  /\ summary.event_count = assessments[id].evidence_revision
  /\ \A entry \in audit : entry.request # r

Review(r, id, verdict) ==
  /\ Reviewable(r, id)
  /\ summary' = [summary EXCEPT !.decision_review = verdict]
  /\ audit' = audit \cup {[request |-> r, assessment_id |-> id, verdict |-> verdict]}
  /\ UNCHANGED <<recorded, ledger, notes, assessments, expired, briefing, delivered, worker>>

\* resolve, then the handler records the briefing.
Resolve(w) ==
  /\ worker[w].pc = "idle" /\ Open
  /\ summary' = [summary EXCEPT !.resolved = TRUE]
  /\ Goto(w, "brief")
  /\ UNCHANGED <<recorded, ledger, notes, opinions, delivered>>

RequestDeletion ==
  /\ ~summary.deleting
  /\ summary' = [summary EXCEPT !.deleting = TRUE]
  /\ UNCHANGED <<recorded, ledger, notes, opinions, delivered, worker>>

\* Five minutes after an assessment was made; nothing asks of others than
\* the published one.
Expire(id) ==
  /\ id \notin expired /\ id = summary.latest_assessment
  /\ expired' = expired \cup {id}
  /\ UNCHANGED <<incident, assessments, audit, briefing, delivered, worker>>

Step(w) ==
  \/ RecordEvidence(w) \/ AlreadyRecorded(w)
  \/ StartAssessment(w) \/ ReadSnapshot(w) \/ ReadNotes(w)
  \/ SnapshotChanged(w) \/ Reuse(w) \/ Reason(w)
  \/ StoreAssessment(w) \/ Publish(w) \/ Confirm(w)
  \/ BriefingReadsSummary(w) \/ BriefingReadsSnapshot(w) \/ BriefingReadsPrevious(w)
  \/ RecordBriefing(w)

Failure == \E w \in Workers : ReasonerFails(w) \/ Die(w)

Progress ==
  \/ \E w \in Workers : \/ Step(w) \/ Resolve(w)
                        \/ \E m \in Messages : Deliver(w, m)
  \/ \E n \in Notes : SaveNote(n) \/ PublishNote(n)
  \/ \E q \in Requests : RequestReassessment(q)
  \/ \E id \in DOMAIN assessments :
       \/ Expire(id)
       \/ \E r \in Reviews, v \in {"accepted", "rejected"} : Review(r, id, v)
  \/ RequestDeletion

Next == Progress \/ Failure

Spec == Init /\ [][Next]_vars

-----------------------------------------------------------------------------
(* Properties *)

TypeOK ==
  /\ recorded \subseteq Signals /\ ledger \in Reports \cup {None} /\ notes \subseteq Notes
  /\ summary \in Summary
  /\ DOMAIN assessments \subseteq Identifiers
  /\ \A id \in DOMAIN assessments : assessments[id] \in Row
  /\ expired \subseteq DOMAIN assessments /\ audit \subseteq Entry
  /\ briefing \in Briefing \cup {None}
  /\ delivered \in [Messages -> (0 .. MaxDeliveries) \cup {None}]
  /\ worker \in [Workers -> Execution]
  /\ \A w \in Workers : worker[w].attempt <= Attempts

\* An assessment in force was concluded from exactly the device states and
\* the notes the incident holds now, however it was raced, retried, stored
\* before or coalesced (the rereads and conditions of invoke_reasoner).
ConclusionFitsEvidence ==
  Actionable(summary, summary.latest_assessment) =>
    assessments[summary.latest_assessment].about = <<ledger, summary.note_revision>>

\* A verdict on the summary is one a person gave, about the assessment that
\* is published now, and each review request gave one at most.
VerdictIsOnRecord ==
  /\ TypeOK
  /\ summary.decision_review \in {"accepted", "rejected"} =>
       \E entry \in audit : /\ entry.assessment_id = summary.latest_assessment
                            /\ entry.verdict = summary.decision_review
  /\ \A x, y \in audit : x.request = y.request => x = y

Verdict(id, verdict) ==
  \E entry \in audit : entry.assessment_id = id /\ entry.verdict = verdict

\* What a person rejected, and nobody accepted, is not in force again: neither
\* the assessment itself nor a copy of its conclusion made for new evidence.
RejectedStaysRejected ==
  LET id == summary.latest_assessment IN
  Actionable(summary, id) =>
    \A x \in {id, assessments[id].origin} : Verdict(x, "rejected") => Verdict(x, "accepted")

\* While evidence and notes stand, an unexpired assessment that nobody has
\* rejected is not displaced by whoever started assessing before it.  However long a
\* model takes, an incident closed meanwhile keeps the assessment it was closed with,
\* and one being deleted gets no briefing.
GoodAssessmentStands ==
  [][LET id == summary.latest_assessment
         good == Actionable(summary, id) /\ id \notin expired /\ ~Verdict(id, "rejected") IN
     /\ good \/ ~Open => summary'.latest_assessment = id
     /\ summary.deleting => briefing' = briefing]_vars

\* A briefing is only written while it is true: it holds the device states
\* of exactly the evidence revision it names (readers rely on that, see
\* incident_api) and states the conclusion in force at that moment, or none.
BriefingIsTrue ==
  [][briefing' # briefing =>
       /\ briefing'.device_state = ledger
       /\ briefing'.evidence_revision = summary.event_count
       /\ briefing'.fingerprint.resolved = summary.resolved
       /\ briefing'.fingerprint.conclusion =
            IF Actionable(summary, summary.latest_assessment)
            THEN assessments[summary.latest_assessment].origin ELSE None]_vars

(* Fairness: nothing fails, Step Functions runs an execution it started,   *)
(* EventBridge delivers what it accepted, save_note goes on to publish.    *)
Begun ==
  /\ \A w \in Workers : WF_vars(Step(w))
  /\ \A n \in Notes : WF_vars(PublishNote(n))

FairSpec ==
  /\ Init /\ [][Progress]_vars /\ Begun
  /\ \A m \in Messages : WF_vars(\E w \in Workers : Deliver(w, m))

\* When nothing fails and nothing is rejected, whatever evidence and notes an
\* open incident ends up with have been assessed, although executions race
\* and each tries only so often; and the briefing says so.
EvidenceIsAssessed ==
  [](summary.event_count > 0 =>
       <>(~Open \/ /\ Actionable(summary, summary.latest_assessment)
                   /\ briefing # None
                   /\ briefing.evidence_revision = summary.event_count
                   /\ briefing.note_revision = summary.note_revision
                   /\ briefing.assessment_id = summary.latest_assessment
                   /\ briefing.fingerprint.conclusion # None))

=============================================================================
