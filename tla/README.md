# Aenea: specifications and proofs

Aenea takes simulated home-safety signals, assigns them to incidents, keeps a
timeline of evidence per incident, has a model assess it and people review the
assessment, and lets an operator resolve or delete an incident. It runs as
stateless Lambda functions over one DynamoDB table, an evidence bucket, an
event bus and a Step Functions workflow, with a browser and an MCP client in
front. Nothing is locked: every handler reads some rows, works (often calling a
language model for seconds), and writes what it decided in one conditional
transaction. Its correctness therefore rests on conditions in transactions,
and that is what these modules are about.

Paths below are relative to the repository (`functions/...`) or to this
directory (`*.tla`).

## The system

| Part | Code | State it keeps | Operations |
|---|---|---|---|
| Incident engine | `functions/incident_engine.py`, `lifecycle.py` | `INCIDENT#` summaries, `ROUTE#` rows, `DELETED#` markers | `reserve`, `resolve`, `request_deletion` |
| Ingestion | `functions/ingest/handler.py`, `simulation_budget.py` | `INGEST#` receipts, `SIMBUDGET#` meters, evidence objects, bus messages | the handler, `charge`, `extend` |
| Correlation | `functions/correlate/handler.py` | `EVENT#` timeline rows, `event_count`, `SITE#` revisions | record, archive late, ignore |
| Assessment | `functions/invoke_reasoner/handler.py`, `revisions.py`, `workflows/.../definition.asl.json` | `ASSESSMENT#` rows, `latest_assessment`, `assessed_revision`, `decision_review` | assess, publish, retry |
| Review, notes, briefing | `decision_review.py`, `incident_notes.py`, `briefings.py`, `action_executor/handler.py` | `AUDIT#`, `NOTE#`, `BRIEFING` rows | review, save note, reassess, record briefing |
| Reading | `incident_api/handler.py`, `evidence_cache.py`, `incident_state.py`, `hazard_priority.py` | a per-process cache of projections | consistent view, device ledger, severity |
| Simulation | `simulation_runs.py`, `simulation_worker/handler.py`, `simulation_profiles.py` | `RUN#` rows, `SIMRUNS` jobs and lease, `SIMLOCKS` | start, stop, resume, scheduled work |
| Cleanup | `cleanup/handler.py` | `CLEANUP` jobs and lease, marker status | purge, sweep |
| Library and catalogue | `simulation_library.py`, `catalog.py` | `SIMLIB#` generations, pointer, `LIBGC` jobs, `CATALOG` | read, save, collect |
| Household tools, names | `household_tools.py`, `incident_names.py`, `conversation.py` | acknowledgements, names | tool dispatch, rename |
| Browser | `apps/web/src/auth.js`, `api.js`, `mcp.js` | session in local storage, read cache | login, refresh, logout, deduplicated reads |
| Everything else | `agent/`, `services/`, `shared/`, `infra/`, `scripts/`, UI | | prompts, transport, deployment, rendering |

How they interact. A client (browser, simulation worker, MCP tool) calls the
ingest handler. It binds the signal to an incident by writing a *receipt*
(through `reserve`, or for an explicit target with a conditional put), charges
the incident's simulation allowance once per receipt, stores the evidence
object, publishes to the bus and finally marks the receipt published; after a
failure anywhere the client sends the same event again. The bus starts a
workflow, at least once: correlation counts the signal into its incident (or
archives it when the incident has been resolved meanwhile), then the reasoner
assesses the incident's evidence revision and publishes the assessment, and a
briefing is recorded. Operators resolve, delete, review, annotate and raise
limits at any time. The cleanup Lambda purges a deleted incident once the
longest invocation that could still write to it is over.

What is hard: stale reads between the steps of one handler and the transaction
that uses them; the same event sent, published and delivered more than once;
invocations that die between two writes; resolution and deletion racing
everything else; assessments that finish out of order; leases that expire
under a worker; and a purge that must not be undone by whoever was in flight.
`PROJECT.json` lists these hazards line by line.

### What makes each part correct

* Engine: at most one open incident per route; the route names it exactly; a
  receipt is bound once; an alert older than the last close opens nothing.
* Ingestion: charged once per receipt, never above the ceiling; published only
  what is paid; an accepted signal is never lost.
* Correlation: `event_count` counts distinct signals; a closed incident is
  frozen.
* Assessment: what is shown as current was made from the current evidence and
  notes; a later assessment never loses to an earlier one; a human verdict
  applies to the assessment it was given for.
* Simulation: one active run per device; every planned report delivered at
  most once as a distinct signal; a stopped run stays stopped.
* Cleanup: nothing of a purged incident remains or returns.
* Library: the pointer always names a complete generation.
* Reading: a result that is called current is the incident as one atomic look
  would show it; the severity and the markers agree.
* Browser: signing out cannot be undone by a renewal; what is shown is the
  selected incident, no older than the writes the page was told of.

## Plan

1. `Assignment`, `IncidentEngine` and its proofs. **done**
2. `Ingress`: ingestion, allowance, correlation, deletion, and its proofs.
   **done**
3. `Assessment`: workflow, reasoner, publication, review, notes, briefing, and
   its proofs. **done**
4. `SimulationRuns`: runs, device locks, the worker's tick, and `Lease` for the
   exclusion it relies on, and the proofs of its own properties. **done**
5. `SimulationLibrary`: generations, pointer and collection, and its proofs.
   **done**
6. `Cleanup`: the sweep step by step (statuses, pages, cursor) under its lease,
   against writers that drain. It extends `Lease`, and is proved to implement
   it; the exclusion and that sweeps get on are proved with it. **done**
7. `DeviceLedger` and `IncidentView`: ledger, severity and markers as functions;
   the view that is put together from many reads and rereads the revision, the
   evidence cache, the projection of the briefing, and its proofs. **done**
8. `BrowserSession`: tokens across tabs, shared and fresh reads, what is shown,
   and its proofs. **done**

## Modules

### Assignment and IncidentEngine

`Assignment.tla` is the promise: `Join`, `Open` and `Close` are atomic.
`IncidentEngine.tla` is the code. A *sender* is one call of `reserve`; its
program counter walks `receipt -> route -> summary -> join | create` and each
label is one read of the table or the final transaction. A *closer* is one call
of `resolve` or `request_deletion`: it reads the incident and the clock, then
the route, then commits. `Conflict` is a cancelled transaction (retry up to
`Attempts`), `Crash` and `Abandon` the end of an invocation anywhere.
`RecordEvidence` and `SavesNote` are the transactions of correlation and of
`incident_notes.py`, which change the two revisions that a resolution confirms.

Correspondence: `receipt` is the `INGEST#` row's `incident_id`, `summary` the
`INCIDENT#` row, `route` the `ROUTE#` row, `marker` the `DELETED#` row, `audit`
the `AUDIT#resolved` row. A route's `generation` is a random UUID in the code
and a counter here: all that is used of it is that a write changes it to a
value it never had. The name and routing proposal, the `sources` cache (which
only decides whether the naming model is asked again) and texts are left out.
`earlier` is a history variable. `occurred_at` comes from the signal's source
and bears no relation to the closers' clock, so `Occurred` is any function.

### Ingress

`Ingress.tla` has every read and write of the ingest handler, `charge` and
`extend`, and both transactions of correlation, with assignment as one step
(justified by the refinement above, which is proved). A message on the bus
stays there: it can be delivered late, out of order and any number of times. A
delayed alert or assignment contention, a failed publication, a timeout and a
crash are all the action `Stop`. `Purge` is one step here, guarded by the drain
(`eligible_at`, 900 s, against 25 s invocations): every invocation still
running was started after the deletion was requested. Payload digests, the
catalogue lookup of the event's context and response bodies are left out; a
receipt that was given for another target stands for every reuse of an
identity with different content.

### Assessment

`Assessment.tla` follows one incident. A *worker* is one execution of the
workflow (`workflows/incident_state_machine/definition.asl.json`) for a
delivered message, or an API call that records a briefing; each label is one
read or one conditional write of `correlate`, `invoke_reasoner`, `briefings`,
`incident_notes` and `decision_review`. It starts when correlation has recorded
the signal (`RecordEvidence`, or `AlreadyRecorded` for a redelivery), reads the
summary, the evidence and the notes (`StartAssessment`, `ReadSnapshot`,
`ReadNotes`, any of which may lead to `SnapshotChanged`), reuses an assessment
of the same state or asks the model (`Reuse`, `Reason`, `ReasonerFails`), stores
the row, publishes it under the condition on the revisions (`Publish`), reads
the summary again and possibly starts over (`Confirm`), and records a briefing.
`Progress` is everything but the failures, `Failure` the failing model and
`Die`. A note whose message is never published is `SaveNote` without
`PublishNote`: nothing makes the second follow, except in `FairSpec`.

An assessment row keeps which evidence and notes it was concluded `about`; its
identity, a hash in the code, is the worker's message and the revision it
started from, which is what the code hashes. A fingerprint of the evidence is
the set of last reports and notes. Left out: `summary.status`, which nothing
but display reads, and `reviewed_at`. The confidence margin, citation failures
and other reasons for an unusable answer are one choice in `Reason`. The clock
enters only through `Expire`, which the owner of a published assessment may
meet at any time. The late archive of a closed incident is in `Ingress`.

### Lease and SimulationRuns

`Lease.tla` is the `LOCK` row that serialises the invocations of the simulation
worker, and separately those of cleanup: an invocation reads the clock, claims
the row when it is free or expired, works, and releases it under its token. It
may die anywhere, and the platform ends it after `Timeout` (170 s, against a
lease of 240 s).

`SimulationRuns.tla` takes what `Lease` shows for granted: one worker and one
sweep at a time. An *owner's request* starts, stops or resumes a run; the
*worker* is woken with the `SIMRUNS` rows, takes one run after the other, looks
at its incidents, saves the identity of the next report that is due, delivers
it through ingestion, saves the answer, and completes or pauses the run; the
*cleaner* redacts a deleted incident's receipts, finishes and deletes the runs
that have to do with it. `finish`, which all three call, is split at its read of
the lock row: it writes the whole row back as read, under its revision.
`Progress` is what happens while no call fails. `WorkerFails` is a read or write
of `work` that fails without effect, at each place where `work` does one;
`SaveUnanswered` is the save of an answer that is applied and its own answer
lost, `Delivers(TRUE)` the same of the call of ingestion.
Revisions are UUIDs; a fresh one is a value that nobody holds, so that the state
space is finite without bounding how often a row changes.

Ingestion is one step here, with the outcomes that `Ingress` allows: refused,
bound, charged, published, and in each case an answer that is lost. Left out:
`accepted` and `expected`, which are sums of what is modelled, messages,
payloads, the manual one-off send. A start request is repeated only while its
run exists, and the reads at the beginning of `start` are one step.

### SimulationLibrary

`SimulationLibrary.tla` has every write of `save_library` (collection jobs for
the new and the old generation, one row per definition, the conditional move of
the pointer, the rows of the loser discarded), the page-by-page read with its
second look at the pointer, and the collection that the cleanup sweep does.
Savers, readers and the collector die anywhere. A job falls due only when the
saves using it are over (900 s against 25 s). A sweep looks at the jobs that are
due when it starts. Validation and libraries saved before generations existed
are left out.

Two limits of the code were seen while modelling and are kept out of the
properties. The table's client, unlike others in the repository, has the SDK's
default retries: when the answer to the put of the pointer is lost and the put
is repeated, it fails on the condition that its first delivery has changed, and
`save_library` (172-176) discards the generation it has just published. The
module takes each write for answered once, so `PointerIsComplete` speaks about
that case only. And the collector removes a job on the strength of a pointer
read before (`cleanup/handler.py` 206-224): when a save notes the same
generation in between and is interrupted after moving the pointer, the old rows
stay. `UnpublishedIsCollectable` therefore speaks of generations that were never
published.

### Cleanup

`Cleanup.tla` extends `Lease`: the invocation that holds the lease is the
*sweep*. It takes the page of jobs in their order and purges each that is due,
one page per step: evidence versions and rows from the front until a page is
empty, receipts along the cursor that is kept in the job (written after each
page, in a step of its own), outputs, the summary, the runs; then it marks the
marker completed and drops the job, in two steps. Any step may fail, which the
handler answers with an unconditional `retrying` (`Fails`, `OutOfTime`,
`DropUnanswered`, and `FailsToTake` before the first page); that update may fail
too and end the sweep (`ReportFails`), and the invocation may die. `Others` are the deletion
request and the writers that had looked for the marker before it was there:
they write until 900 s have passed (`FallsDue`). What the writers are is in
`Ingress`; here a receipt may appear at any place of the query's order, also
behind the cursor. `batch_writer`s and single deletions of one page are one
step: they are idempotent and an interrupted page is taken again.

### DeviceLedger and IncidentView

`DeviceLedger.tla` has no state: `Absorb` is one turn of `device_ledger`'s loop,
`AbsorbAll` the loop, `Show` one turn of the loop that picks a row per device,
`SeverityOf`, `RedDevices` and `Level` are the three separate computations of
`hazard_priority.py` and `incident_state.py`, `State` is what `snapshot` returns
of what a view uses. `SignalRows` are the rows a signal can be recorded as;
`LedgerAssumption` says that the absent level is none of the three. The order in which keys are first met is kept, since it
decides which row stands for a device with two kinds. Left out: the choice of
events for the model, `reporting_devices`, the fingerprint.

`IncidentView.tla` is the API's status view: a *reader*, one warm instance with
its cache, reads the summary, the assessment, the briefing and the notes, takes
the device state from the briefing's projection, from the cache, or page by page
from the timeline, and reads the summary again; `Answer` is what it then says.
A *briefer* is a call of `briefings.record`, which writes the projection. The
writers (correlation, late archive, note, publication, review, resolution,
deletion, purge) are whole transactions here; their own steps are in the other
modules. The answer is compared with `View`, which is said without ledger,
pages, cache or projection. The cache's age is any moment (`Evicts`), and which
entry a full cache drops is any. The allowance meter, the `ACTION#` rows of
earlier versions and the briefing's text, which the view shows as read, are not
part of `Answer`.

### BrowserSession

`BrowserSession.tla` has one action for what a page runs between two awaits.
The session in local storage is a sign-in and its current token; a *page* has
whether it takes itself for signed in, the refresh under way, the calls of
`requestJson` (waiting for a token, for a request of their own or for one they
share), and the status it shows. `Refreshes` joins or starts a refresh, or, when no session is saved, ends the
page's session and fails only what asked for a token: a refresh under way goes
on, and fails those who wait for it when it is answered;
`Renews` is its response, `Stores` the rest of `refresh` after the body is read,
`SessionEnds` and `RefreshFails` its failures; `Reauthorizes` the one repetition
after a 401. `Polls` and `Writes` are the application's: a write is followed by
a fresh read of the incident it was for (`Answers`), whatever is selected by
then. Cognito and the API answer, refuse, fail or are slow; an API write may be
served and its answer lost. Left out: the checks of resource and state that a
page's own sign-in passes, conversations in storage, the list of incidents, the
evidence pages (the same gate), the MCP client.

### Limits of the code seen while modelling

No property forbids these; the models that reach them take the step as the code
does.

* A refresh that Cognito refuses removes the session in storage, also when
  another tab has stored a newer one meanwhile (`auth.js` 83, 44): the session
  ends in both.
* `household_tools.py` 96-136 reads the summary, then the assessment and the
  timeline, and does not look again: its answer may join a newer device state
  to an older summary.
* `by_device` (`incident_state.py` 122-126) prefers a red row, but a device's
  rows are red together, so the kind that was met first stands for it: a device
  whose first active kind is ordinary and whose second is a warning is listed
  as `normal` while the incident is a warning.
* When the deletion of a cleanup job is applied and its answer lost
  (`cleanup/handler.py` 169, 190-194), the marker stays `retrying` without a job,
  although everything is gone, which is what `CompletedIsGone` says of it.

## Runs

Some modules are checked on several small instances in one run: the MC module
adds a variable `scenario`, chosen in the initial state and never changed, that
says how many callers act, which inputs exist and whether anything fails
(`Called`, `Contributed`). One large instance with all of them at once would be
out of reach; each scenario has the races its comment names, and every action
is taken in one of them.

| Run | Bounds | What it shows |
|---|---|---|
| `assignment` | 2 incidents, 1 route, 2 rounds, clock 1..2; 2 senders, 1 closer and 3 alerts at 1, 2, 3; or 1 sender, 2 closers, 2 alerts and `event_count` up to 1; or 1 sender, 1 closer, 1 alert, `event_count` and `note_revision` up to 1 | the engine implements `Assignment`; no split route, no stale alert, no orphan; resolve against delete against correlation; the inductive invariant |
| `ingress` | 2 workers, 2 signals, 2 incidents, limits 1..2 | once-only charging and counting, accepted signals are kept, nothing returns after a purge |
| `assessing` | 2 workers, 2 attempts, each message once; two alike signals and a review; two signals with different states and a review; a signal, a note and a review; or a signal, a request, closing and failures | what is in force fits the evidence, verdicts stay, failures displace nothing good |
| `settles` | 2 workers, 2 attempts; two alike signals, or a signal, a note and closing | the evidence gets assessed, the briefing catches up (liveness) |
| `redelivery` | 1 worker, 1 signal delivered twice, 1 review | violation: see Findings |
| `simulating` | `PerTick` 2; one run of two devices and three reports, with a command and any failure, or with 2 requests; the same run with two reports, 2 commands, any failure; one run and two incidents, any failure; two disjoint runs and 2 requests; two runs of one device and 2 requests | reports in order and once, exact locks, ends that last, purges that find everything |
| `ticking` | 1 run, 2 devices with 3 and 1 reports, `PerTick` 1, 2 commands | every row gets its turn, closing ends the run (liveness) |
| `unfinished` | 2 runs of one device each, no commands, nothing fails (`UnfailingSpec`) | violation: see Findings |
| `sweeping` | 2 invocations, lease 1, timeout 1, clock to 3; 2 incidents, 2 receipts, 1 page of evidence and of rows each, sweeps of 5 pages; requests and writers act during the first sweep | at most one sweep; what is reported complete is gone; no other incident is touched; every sweep without an error gets on |
| `library` | 2 savers, 1 reader, 3 generations of 2 definitions | the pointer's generation is complete, reads are whole, interrupted saves are cleaned up after |
| `viewing` | 1 reader, 1 briefer, pages of 2 rows, a cache of 1; three histories of up to 3 signals: two detectors of a room of which one clears at the same second, a device of two kinds, an exercise beside a real alarm; 1 conclusion, 1 note | a current answer is atomic; what is cached or projected is its revision's; severity and markers agree |
| `browsing` | 2 tabs, one of which looks at 2 incidents, 2 sign-ins, 3 tokens, 2 calls at a time, 1 write | renewals keep the session they were for; what is shown is selected and not behind |

Two senders and two closers are enough for each race the engine can have: a
transaction conflicts with at most one earlier one on each row, and the proofs
cover any number. Two incidents let a route close and reopen; three alerts let
two race and a third arrive too late. Alerts at times 1, 2 and 3 lie before, at
and after the closing times. The bounds on `event_count` and
`note_revision` in the engine only let one look at the incident go stale, in
either respect, which is all `resolve` can notice.

`sweeping` has a household of two incidents and two receipts, so that a receipt
can be behind or ahead of the saved cursor and be anybody's; a sweep has time
for just the five pages of its assumption, so that every page of evidence costs
another sweep. In `viewing` a history of three signals spans two pages of two
rows, and a cache of one entry has to give it up for the next revision.
`MCIncidentView` names what it leaves out: a briefing is not recorded while a
request is past the point where it reads it, entries go between requests, and
notes, deletion and late signals come early (`Apart`, `Between`, `Early`). The
first two separate only steps that do not see each other; the last cuts off
histories in which a long timeline is followed by more of the same writes. In `browsing` one tab reads
while both hold the session, which is all that one tab sees of another; three
tokens are a sign-in, its renewal, and a second of either; two calls are a poll
and a write, or the fresh read after it, that overlap (`MCBrowserSession!Bound`).

Two executions are enough to finish assessments out of order, and two attempts
to give up after one conflict. In `simulating` a device with two reports has a
first, a later and a last one; `PerTick` 2 lets a tick deliver to two rows, or
twice to one; with two commands a run is paused, resumed and stopped, or the
second meets the effect of the first. `ticking` has `PerTick` 1 with an uneven
number of reports, so that without rotation a row would starve. In `sweeping`
the timeout equals the lease, the tightest case that the proof admits. Three generations are one being read, one superseded and
one being written.

Symmetry is used over identities that the configuration treats alike, or of
which in each scenario all or one are used, and only in runs without liveness
properties. `CHECK_DEADLOCK FALSE` is in the configurations whose inputs are
used up at the end.

## Fairness

`settles` checks `Assessment!FairSpec`, for the messages its scenarios have:
nothing fails, and weak fairness of each
worker's steps (Step Functions goes on with an execution), of delivering a
message that is on the bus (EventBridge retries a target for a day), and of the
steps of `save_note` once it has stored the note. The last assumption leaves
out that the note's message may never be put (`incident_notes.py` 80): then it is
for the person to send the note again, and all that is checked of it is the
safety side, that the conclusion drawn without the note is no longer in force
(`ConclusionFitsEvidence`). Nothing is assumed of reviewers, or of when notes are
written. `ticking` checks `SimulationRuns!FairSpec`: nothing fails, the schedule
wakes the worker every minute, Lambda runs it and the owner's requests once
they have begun, and reports fall due as time passes. Nothing is assumed of
owners, incidents or cleanup.

No other run assumes fairness. The sweep's progress is stated without it:
`SweepsGetOn` says that a sweep that meets no error leaves less to do than it
found, which, with a schedule that goes on, empties every job. It needs sweeps
that have time for at least the five pages of which none leaves a trace to
resume from (`CleanupAssumption`; the code has 150 s for them). The outputs and
the runs of a household are one page each there: a household with so many that
one sweep cannot scan them starts the scan again in the next. That an accepted signal is not lost is stated
in `Ingress` without it (`AcceptedIsKept`): whenever it has not been counted,
delivering its message would count or archive it. A message that the bus and
the state machine give up on is in the dead-letter queue, outside the model.

## Findings

* `redelivery`: a message of the bus delivered again makes the second execution
  derive the identity of the first one's assessment, publish the stored row
  once more, and with it set `decision_review` to `unreviewed`: a rejection that
  a person had recorded is gone and the assessment counts as actionable.
* `unfinished`: a run that has published everything completes under a condition
  on the lock row, which every start or stop of another run changes. When one
  falls in between, the worker pauses the finished run with a message about
  pending events, and its devices stay locked until someone resumes it. The run
  checks `UnfailingSpec`, where no call fails, so that the contention alone is
  what refutes the property.

## Proofs

`IncidentEngineProofs.tla` proves, for every number of senders, closers,
alerts, routes, incidents, rounds and any claimed times, all the safety
properties the engine's run checks (and `OneOpenPerRoute`, which follows from
`RouteNamesOpenIncident`) and that `IncidentEngine` implements
`Assignment`, from the named assumption `EngineAssumption` alone (constants
are of their kinds; `None` is no identity).

The argument is `EngineInv`. `OneOpenPerRoute` is not inductive: a sender about
to create an incident must be known to be either right or doomed. `SenderInv`
says so: if the generation a sender read is still the route's, then the route
still says what the sender read, and the incident it saw closed is closed for
good; otherwise the transaction's generation test fails. `CloserInv` is the
same for closers: a closer that did not see its incident on the route is
closing what has left it. `ClosingTimes` bounds the end of every incident by
its route's `closed_at`, which makes the comparison in `reserve` reject every
alert older than any earlier close, not only the last; it needs that a closer's
clock reading is later than the last close its incident followed, since the
incident did not exist before. Each action then has one lemma
(`InvRead`, `InvJoin`, `InvCreate`, `InvCloserReads`, `InvClose`, `InvRecord`,
`InvTick`), and the refinement follows step by step with the mapping in
`IncidentEngine!Abstract`.

`IngressProofs.tla` proves the properties of the `ingress` run, for any
workers, signals, incidents and limits. `IngressInv` says of every *call*
(`CallOK`) that what it holds of a receipt is still so: it is past the look at
the marker only for an incident that was not marked when it started, which is
therefore not purged while it runs. *Receipts* that say so are published
(`ReceiptsOK`), and the rows of an incident agree with its marker
(`IncidentsOK`). Meters and counts are cardinalities, and each step
adds one signal that was not in the set (this is where idempotence is used).
`AcceptedIsKept` speaks of `ENABLED`, which the provers do not reason about:
`AcceptedIsDeliverable` proves it with the guards of the two transactions in its
place.

`AssessmentProofs.tla` does it for the `assessing` run. `AssessInv` ties each
execution to what it has read (`ExecutionOK`): a snapshot whose revision still
is the summary's is the ledger, the summary it started from is an earlier one
that wanted an assessment, and the row it puts is of the revisions its
identifier names. An assessment of the present revision was made from the
present ledger (`RowsOK`), which together with the condition of the publication
is what `ConclusionFitsEvidence` and `GoodAssessmentStands` need. It is
inductive for any number of deliveries. That a rejection stays is not so for
any number: the `redelivery` run refutes it when a message is delivered twice.
Hence `RejectionsStand` assumes `MaxDeliveries <= 1`, and `OnceInv` adds what
that gives: an execution is the only one for its message, nobody is given an
identifier that was used, and so what is about to be published has not been
reviewed.

`SimulationLibraryProofs.tla` proves the three properties of `library`. A save
owns its new generation: until it is published nobody else knows it, its job is
not due, and its rows are what has been written so far (`SaveOK`). What is
discarded or collected is published and superseded, or never was and never will
be published. A reader has every page it has passed as long as the pointer
stands (`ReadOK`), because only what the pointer does not name loses rows, and a
generation the pointer has left it never names again.

`CleanupProofs.tla` begins with the lease: at most one invocation works at a
time, for any number of invocations and any timeout not longer than the lease
(`LeaseAssumption`). The invariant `LeaseInv` says that whoever works holds a
lease that ends `LeaseTime` after a reading of the clock made since the
invocation started; as nobody outlives its timeout, a second one that finds the
lease expired read the clock after the first was over. The hosts' clocks are
taken to agree; the code has 70 s to spare.

Then it proves that a purge leaves nothing behind. A job's cursor
is never past a receipt that is not redacted (`JobsOK`), and each
label of the sweep says what the earlier ones have emptied for good
(`StagesOK`), since the writers have drained when a job is due. `CleanupImplementsLease`
maps every step to a step of `Lease` or a stutter, so that `MutualExclusion` gives
`SweepsExclude`; `SweepIsItsWorkers` says that the sweep whose steps the module
describes is the work of the invocation that holds the lease.

`SweepsAlwaysGetOn` is about work done, and its invariant `ProgressInv` is an
account of pages. A sweep pays with one of its pages for every step; most pages
take something off `Remaining`, the rest only show that a kind of row is gone,
and `Spent` counts those up to each stage: at most five. `GettingOn` balances
what the first incident still has, what the sweep found when it took it up, and
the pages it has left. When it leaves the incident, the account shows progress
just when a sweep has five pages or more, which is why `CleanupAssumption` asks
for them. `CursorOK` is needed besides: a page of receipts counts
as progress only once the cursor is in the job, and is lost otherwise. The sum
over receipts is a cardinality, for which the keys must be finitely many.

`IncidentViewProofs.tla` proves the view's three properties for any number of
readers, briefers, signals and notes, any page size and capacity, and with them
the algorithm of `incident_state.py`. `SnapshotState` says that what the loops of
`device_ledger` and `snapshot` compute from a timeline is `StateOf` its counted
rows, a definition without loop or order. A ledger of a set of rows (`LedgerOf`) has one
row of every key, the latest, in the order in which keys were first met; a turn
of the loop keeps this for one more row that lies behind all others in the sort
order (`AbsorbKeepsLedger`), hence a page does. What a loop computes would be an
induction over data, which the provers cannot take from the library. Here the
fold is unfolded into its turns (`AbsorbTurns`, `ShowTurns`), and the induction
over their number is the least counterexample (`CountUp`).

`ViewInv` has four parts. Recorded rows are the history's, and late ones come
only after the resolution (`RowsOK`). A state that is cached or projected
is that of the first so many recorded rows (`KeptOK`), which later signals do not
change. What a request looked at first is an earlier state of
the incident, with conclusions and notes that only grew (`LookOK`, `ReaderOK`).
And its ledger is that of the rows up to its cursor, *provided that*
nothing was recorded since the first look (`InstanceOK`): a row that is recorded
behind the cursor is missed, but then the reread sees another `event_count`, and
the answer is not called current, nor kept. The resolution changes no device
state, since the late rows it makes possible are skipped by the ledger.
`AnswersAreAtomic` follows from comparing the five fields that the reread
compares. The assumptions are `ViewAssumption` (histories are sets of
`SignalRows` of which no two share a place, and no two of one device and kind an
identity: the sort key is `EVENT#<occurred_at>#<idempotency key>`, and that key
is what `incidentbridge` makes of the source and its `event_id`) and `LedgerAssumption`.

`BrowserSessionProofs.tla` proves, for any number of tabs, what is shown and
what renewals do. The call whose answer will be shown waits for a request that
is unsettled or has seen every write its page knows of (`Current`), and so does
whatever it might find to share under the tokens in use (`Shareable`); a refresh
is for a session that was stored and brings a newer token (`Renewing`). `Wiring`
is the invariant between noting a write and leaving the stale reads behind,
within one step.

`SimulationRunsProofs.tla` proves all the safety properties of the simulation
runs that hold, for any runs, devices, reports, incidents, batch and requests in
flight, by three invariants, each of which assumes the one before:

* `CopiesInv` is about writing a whole row back as it was read. Each of the
  worker, the requests and cleanup holds copies of runs and of the lock row. A
  copy whose revision is still the row's *is* the row (`TrueCopy`,
  `TrueLocks`); with any other its write fails. This needs that a new revision
  is none that anybody still holds: `FreshIsFresh` finds one because what is
  held is finite. From it follow `LocksAreExact` and `EndedStaysEnded`: each
  writer has one lemma, and a write that succeeds was computed from the row that
  it replaces. While the worker holds an answer it has not saved, its copy is
  ahead of the row, which is then still running or no longer has that revision.
* `ReportsInv` says that a row *fits* the receipts (`Fits`): what it counts is
  out, nothing beyond it is, and what is out but not counted is marked pending.
  This holds of the stored row and of the worker's copy, which differ in status
  and revision only until an answer is to be saved (`Keeping`). `LateInv` adds
  that a run that got a late report is one the worker is leaving for good.
* `PurgeInv` is about cleanup. Nobody whom it does not wait for can still make a
  run belong to the incident: the worker and the requests know it was deleted,
  or cleanup has waited for them (`Drained`). And whatever belongs to it is in the
  sweep's page or in hand (`ForgetsOK`). The page is a copy too, so this rests on
  `CopiesInv`; and a pending report that was bound before the redaction shows in
  the receipts, so it rests on `ReportsInv`.

The proofs assume `SimulationAssumption` (the constants are of their kinds,
and no more than finitely many requests are in flight) and
`NoneAssumption` (the absent row is no row); they hold for any `MaxCommands`, the
bound that keeps TLC's instances finite.

Each proof assumes the named assumption of its module and no more, except where
said. The invariants were checked with TLC, on the instances of the runs, before
they were proved.

Model-checked only, with the reason:

* liveness (`EvidenceIsAssessed`, `ClosingEndsRun`, `RunsSettle`; so what the
  worker does in the end for a run that is under way is only checked, on
  `ticking`) and `ENABLED`
  (`AcceptedIsKept`; its guard form is proved): out of the provers' reach.

The properties of `redelivery` and `unfinished` are refuted, see Findings.

## Not modelled

The incident's name and routing explanation; wording, logging and response
bodies; the answers of the naming and reasoning models beyond their being usable
or not; lists and pages of records, and their cursors; the choice of evidence
put before the model and its site context; the manual one-off send; the profiles
of simulated devices beyond the order of their reports. The catalogue is a
single row put under its revision; the household tools, conversation and MCP
transport dispatch to what is modelled and keep no state of their own but
acknowledgements; of the browser, drafts, previews, speech and rendering. IAM,
infrastructure, deployment and the operator's scripts run once, by hand, and
have no concurrent actors in this repository. `incidentbridge` (event
normalisation and identity keys) is a dependency outside the repository and
enters only through the identity of a signal. `PROJECT.json` lists every part
with its reason.
