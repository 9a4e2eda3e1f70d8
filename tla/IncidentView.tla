---------------------------- MODULE IncidentView ----------------------------
(***************************************************************************)
(* How an incident is shown: the API's view puts together a dozen reads    *)
(* while signals, notes, assessments, reviews, resolution and deletion are *)
(* written, and rereads the incident before it calls the result current    *)
(* (incident_api/handler.py); the current device state comes from the      *)
(* BRIEFING projection, from the instance's evidence cache or from every   *)
(* row of the timeline, page by page (incident_state.py).                  *)
(*                                                                         *)
(* A reader is one warm instance of the API, which serves one request at a *)
(* time; a briefer one call of briefings.record.  The steps of the writers *)
(* are whole transactions: Ingress and Assessment have their details.      *)
(***************************************************************************)
EXTENDS DeviceLedger, Functions

CONSTANTS Readers, Briefers,
          Histories,    \* the sets of signals that may be meant for the incident
          Assessments,  \* bound: conclusions published
          Severities,   \* what a conclusion may propose
          MaxNotes,     \* bound: notes saved
          PageSize,     \* rows of one page of the timeline (100)
          Capacity      \* entries of an instance's cache (16)

ASSUME ViewAssumption ==
  /\ Readers \cap Briefers = {}
  /\ Assessments \in Nat /\ MaxNotes \in Nat /\ PageSize \in Nat \ {0} /\ Capacity \in Nat \ {0}
  /\ Severities \subseteq ToSet(Levels)
  /\ \A set \in Histories : set \subseteq SignalRows
  /\ \A set \in Histories : \A r, q \in set :
       r # q => r.pos # q.pos /\ (SameKey(r, q) => r.id # q.id)

VARIABLES
  signals,     \* what is sent to this incident
  recorded,    \* the counted rows, in the order of their transactions
  archived,    \* rows stored after the resolution
  summary,     \* the INCIDENT# row, None when purged
  assessments, \* the published ASSESSMENT# rows, by number
  briefing,    \* the BRIEFING row
  cache,       \* per reader: evidence by revision
  process      \* the request a reader, the call a briefer is working on

rows == <<signals, recorded, archived>>
database == <<signals, recorded, archived, summary, assessments, briefing>>
vars == <<database, cache, process>>

Idle == [pc |-> "idle", summary |-> None, latest |-> None, notes |-> 0, state |-> None,
         cursor |-> 0, ledger |-> <<>>, briefing |-> None, missed |-> FALSE]

Init ==
  /\ signals \in Histories
  /\ recorded = <<>> /\ archived = {}
  /\ summary = [note_revision |-> 0, latest_assessment |-> 0, decision_review |-> "none",
                resolved |-> FALSE, deleting |-> FALSE]
  /\ assessments = <<>>
  /\ briefing = None
  /\ cache = [r \in Readers |-> <<>>]
  /\ process = [p \in Readers \cup Briefers |-> Idle]

-----------------------------------------------------------------------------
(* The writers. *)

Open == summary # None /\ ~summary.resolved /\ ~summary.deleting

\* event_count is the number of recorded rows: one transaction writes both.
EventCount == Len(recorded)

Records(e) ==
  /\ Open /\ e \notin ToSet(recorded)
  /\ recorded' = Append(recorded, e)
  /\ UNCHANGED <<signals, archived, summary, assessments, briefing, cache, process>>

\* Delivered after the resolution: kept, never counted.
Archives(e) ==
  /\ summary # None /\ summary.resolved /\ ~summary.deleting
  /\ e \notin ToSet(recorded)
  /\ archived' = archived \cup {[e EXCEPT !.late = TRUE]}
  /\ UNCHANGED <<signals, recorded, summary, assessments, briefing, cache, process>>

SavesNote ==
  /\ Open /\ summary.note_revision < MaxNotes
  /\ summary' = [summary EXCEPT !.note_revision = @ + 1]
  /\ UNCHANGED <<rows, assessments, briefing, cache, process>>

\* A conclusion about the present evidence and notes, or a failure (None),
\* is stored and published.
Publishes(severity) ==
  /\ Open /\ Len(assessments) < Assessments
  /\ assessments' = Append(assessments,
       [assessment_id |-> Len(assessments) + 1, evidence_revision |-> EventCount,
        note_revision |-> summary.note_revision, severity |-> severity])
  /\ summary' = [summary EXCEPT !.latest_assessment = Len(assessments) + 1,
                                !.decision_review = "unreviewed"]
  /\ UNCHANGED <<rows, briefing, cache, process>>

Reviews(verdict) ==
  /\ summary # None /\ ~summary.deleting /\ summary.latest_assessment # 0
  /\ assessments[summary.latest_assessment].severity # None
  /\ assessments[summary.latest_assessment].evidence_revision = EventCount
  /\ summary' = [summary EXCEPT !.decision_review = verdict]
  /\ UNCHANGED <<rows, assessments, briefing, cache, process>>

Resolves ==
  /\ Open
  /\ summary' = [summary EXCEPT !.resolved = TRUE]
  /\ UNCHANGED <<rows, assessments, briefing, cache, process>>

RequestsDeletion ==
  /\ summary # None /\ ~summary.deleting
  /\ summary' = [summary EXCEPT !.deleting = TRUE]
  /\ UNCHANGED <<rows, assessments, briefing, cache, process>>

\* All rows at once: whoever reads during the purge is turned away anyhow.
Purges ==
  /\ summary # None /\ summary.deleting
  /\ summary' = None /\ assessments' = <<>> /\ briefing' = None
  /\ UNCHANGED <<rows, cache, process>>

Timeline == IF summary = None THEN {} ELSE ToSet(recorded) \cup archived

-----------------------------------------------------------------------------
(* What readers and briefers share: the summary and the pages of the       *)
(* timeline.                                                               *)

Looked == [note_revision |-> summary.note_revision,
           latest_assessment |-> summary.latest_assessment,
           decision_review |-> summary.decision_review,
           resolved |-> summary.resolved, deleting |-> summary.deleting,
           event_count |-> EventCount]

BeginsWith(p, label) ==
  /\ process[p].pc = "idle" /\ summary # None /\ ~summary.deleting
  /\ process' = [process EXCEPT ![p] = [Idle EXCEPT !.pc = label, !.summary = Looked]]
  /\ UNCHANGED <<database, cache>>

\* A page that is not full is the last.
ReadsPage(p, label) ==
  LET rest == InOrder({r \in Timeline : r.pos > process[p].cursor})
      page == SubSeq(rest, 1, IF Len(rest) < PageSize THEN Len(rest) ELSE PageSize)
      read == AbsorbAll(process[p].ledger, page) IN
  /\ process[p].pc = "pages"
  /\ process' = [process EXCEPT ![p] =
       IF Len(page) = PageSize
       THEN [@ EXCEPT !.ledger = read, !.cursor = Last(page).pos]
       ELSE [@ EXCEPT !.ledger = <<>>, !.cursor = 0, !.pc = label, !.state = State(read)]]
  /\ UNCHANGED <<database, cache>>

CurrentAssessment(s, a) ==
  /\ ~s.resolved /\ ~s.deleting /\ a # None
  /\ s.event_count = a.evidence_revision
  /\ s.note_revision = a.note_revision
  /\ s.latest_assessment = a.assessment_id

\* The severity a current, unrejected conclusion proposes.
Proposed(s, a) ==
  IF CurrentAssessment(s, a) /\ s.decision_review # "rejected" THEN a.severity ELSE None

-----------------------------------------------------------------------------
(* A request for the status of the incident. *)

Begins(r) == r \in Readers /\ BeginsWith(r, "assessment")

ReadsLatest(r) ==
  LET id == process[r].summary.latest_assessment IN
  /\ r \in Readers /\ process[r].pc = "assessment"
  /\ process' = [process EXCEPT ![r].pc = "briefing",
       ![r].latest = IF id \in DOMAIN assessments THEN assessments[id] ELSE None]
  /\ UNCHANGED <<database, cache>>

ReadsBriefing(r) ==
  /\ r \in Readers /\ process[r].pc = "briefing"
  /\ process' = [process EXCEPT ![r].pc = "notes", ![r].briefing = briefing]
  /\ UNCHANGED <<database, cache>>

\* The notes are counted; then the device state is taken from the projection
\* of the briefing, else from the cache, else it has to be read.
ReadsNotes(r) ==
  LET revision == process[r].summary.event_count
      shown == process[r].briefing
      counted == [process[r] EXCEPT
        !.notes = IF process[r].summary.note_revision = 0 \/ summary = None
                  THEN 0 ELSE summary.note_revision] IN
  /\ r \in Readers /\ process[r].pc = "notes"
  /\ process' = [process EXCEPT ![r] =
       IF shown # None /\ shown.evidence_revision = revision
       THEN [counted EXCEPT !.pc = "reread", !.state = shown.device_state]
       ELSE IF revision \in DOMAIN cache[r]
       THEN [counted EXCEPT !.pc = "reread", !.state = cache[r][revision]]
       ELSE [counted EXCEPT !.pc = "pages", !.missed = TRUE]]
  /\ UNCHANGED <<database, cache>>

ReadsTimeline(r) == r \in Readers /\ ReadsPage(r, "reread")

\* (defect) nobody looks whether the conclusion is still the latest
Unchanged_Evidence(r) ==
  LET s == process[r].summary IN
  /\ s.event_count = EventCount
  /\ s.resolved = summary.resolved
  /\ s.note_revision = summary.note_revision

\* What the reread compares.
Unchanged(r) ==
  LET s == process[r].summary IN
  /\ s.event_count = EventCount
  /\ s.resolved = summary.resolved
  /\ s.note_revision = summary.note_revision
  /\ s.latest_assessment = summary.latest_assessment
  /\ s.decision_review = summary.decision_review

\* (defect) the evidence is kept before the reread is looked at
Keeps_Anyway(r) == process[r].missed

Keeps(r) == process[r].missed /\ Unchanged(r)

\* Which entry a full cache gives up is left open.
Put(entries, revision, state) ==
  {more \in {[v \in kept |-> IF v = revision THEN state ELSE entries[v]] :
               kept \in SUBSET (DOMAIN entries \cup {revision})} :
     /\ revision \in DOMAIN more
     /\ Cardinality(DOMAIN more) = Min({Capacity, Cardinality(DOMAIN entries \cup {revision})})}

\* The reread: a result that may have been overtaken is not called current,
\* and its evidence is not kept.
Rereads(r) ==
  /\ r \in Readers /\ process[r].pc = "reread"
  /\ process' = [process EXCEPT ![r] = Idle]
  /\ IF summary # None /\ ~summary.deleting /\ Keeps(r)
     THEN \E entries \in Put(cache[r], process[r].summary.event_count, process[r].state) :
            cache' = [cache EXCEPT ![r] = entries]
     ELSE UNCHANGED cache
  /\ UNCHANGED database

\* An entry reaches its age, or the cache its capacity.
Evicts(r, revision) ==
  /\ revision \in DOMAIN cache[r]
  /\ cache' = [cache EXCEPT ![r] = Restrict(@, DOMAIN @ \ {revision})]
  /\ UNCHANGED <<database, process>>

\* What the result says when it is not "refreshing".
Answer(r) ==
  LET s == process[r].summary
      state == process[r].state IN
  [incident |-> s, latest_assessment |-> process[r].latest, notes |-> process[r].notes,
   assessment_current |-> CurrentAssessment(s, process[r].latest),
   active_devices |-> IF s.resolved THEN {} ELSE state.active_devices,
   canonical_severity |-> IF s.resolved THEN "informational"
                          ELSE AssessedSeverity(state, Proposed(s, process[r].latest)),
   last_reported_at |-> state.last_reported_at]

-----------------------------------------------------------------------------
(* A briefing is recorded, as far as its projection goes: the wording and  *)
(* the condition on its fingerprint, which only makes fewer records, are   *)
(* in Assessment.                                                          *)

StartsBriefing(b) == b \in Briefers /\ BeginsWith(b, "pages")

BriefingReadsTimeline(b) == b \in Briefers /\ ReadsPage(b, "record")

\* One transaction checks the revisions that were read and puts the row.
RecordsBriefing(b) ==
  /\ b \in Briefers /\ process[b].pc = "record"
  /\ briefing' = IF summary # None /\ ~summary.deleting /\ Unchanged(b)
                 THEN [device_state |-> process[b].state,
                       evidence_revision |-> process[b].summary.event_count]
                 ELSE briefing
  /\ process' = [process EXCEPT ![b] = Idle]
  /\ UNCHANGED <<rows, summary, assessments, cache>>

-----------------------------------------------------------------------------
Writes ==
  \/ \E e \in signals : Records(e) \/ Archives(e)
  \/ SavesNote
  \/ \E severity \in Severities \cup {None} : Publishes(severity)
  \/ \E verdict \in {"accepted", "rejected"} : Reviews(verdict)
  \/ Resolves
  \/ RequestsDeletion
  \/ Purges

Requests ==
  \E r \in Readers :
    \/ Begins(r)
    \/ ReadsLatest(r)
    \/ ReadsBriefing(r)
    \/ ReadsNotes(r)
    \/ ReadsTimeline(r)
    \/ Rereads(r)
    \/ \E revision \in DOMAIN cache[r] : Evicts(r, revision)

Briefs ==
  \E b \in Briefers :
    \/ StartsBriefing(b)
    \/ BriefingReadsTimeline(b)
    \/ RecordsBriefing(b)

Next == Writes \/ Requests \/ Briefs

Spec == Init /\ [][Next]_vars

-----------------------------------------------------------------------------
(* What a single look at the database gives, said without the order in     *)
(* which the code gets there.                                              *)

Latest(set) == {r \in set : \A q \in set : SameKey(r, q) => ~Later(q, r)}
Live(set) == {r \in Latest(set) : r.alarm # "clear"}
FirstMet(set, r) == Min({q.pos : q \in {p \in set : SameKey(p, r)}})

StateOf(set) ==
  LET live == Live(set) IN
  [severity |-> SeverityOf(live),
   active_devices |->
     {Summarized(r, RedDevices(live)) :
        r \in {q \in live : \A p \in live : p.device = q.device =>
                                FirstMet(set, q) <= FirstMet(set, p)}},
   last_reported_at |-> IF set = {} THEN 0 ELSE Max({r.time : r \in set})]

EvidenceOf(revision) == ToSet(SubSeq(recorded, 1, revision))

\* The incident as it is now.
View ==
  LET s == Looked
      a == IF s.latest_assessment = 0 THEN None ELSE assessments[s.latest_assessment]
      state == StateOf(ToSet(recorded))
      raised == IF CurrentAssessment(s, a) /\ s.decision_review # "rejected"
                   /\ state.active_devices # {} /\ a.severity # None
                THEN Higher(state.severity, a.severity) ELSE state.severity IN
  [incident |-> s, latest_assessment |-> a, notes |-> s.note_revision,
   assessment_current |-> CurrentAssessment(s, a),
   active_devices |-> IF s.resolved THEN {} ELSE state.active_devices,
   canonical_severity |-> IF s.resolved THEN "informational" ELSE raised,
   last_reported_at |-> state.last_reported_at]

\* A result that is not marked as refreshing is the incident as one atomic
\* look would show it at the time of the reread, although it was put together
\* from many reads, pages, the projection and the cache
\* (incident_api/handler.py:124-156).
AnswersAreAtomic ==
  \A r \in Readers :
    process[r].pc = "reread" /\ summary # None /\ ~summary.deleting /\ Unchanged(r)
      => Answer(r) = View

\* The evidence kept for a revision, in an instance's cache or in the briefing,
\* is what the first so many signals amount to: the latest report of every
\* device by its claimed time, whatever the order of arrival, of pages and of
\* writers (evidence_cache.py, briefings.py:92-120, incident_state.py:30-51).
KeptStateIsItsRevision ==
  /\ \A r \in Readers : \A revision \in DOMAIN cache[r] :
       cache[r][revision] = StateOf(EvidenceOf(revision))
  /\ briefing # None =>
       briefing.device_state = StateOf(EvidenceOf(briefing.evidence_revision))

\* The incident's severity is that of its worst device row: urgent exactly when
\* a marker is red, warning exactly when one is amber and none red, although
\* severity() and red_device_ids() are computed apart (hazard_priority.py:60-99).
SeverityIsItsWorstRow ==
  LET live == Live(ToSet(recorded))
      shown == {Level(r, RedDevices(live)) : r \in live} IN
  SeverityOf(live) = IF "red" \in shown THEN "urgent"
                     ELSE IF "amber" \in shown THEN "warning" ELSE "informational"
=============================================================================
