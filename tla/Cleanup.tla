------------------------------ MODULE Cleanup ------------------------------
(***************************************************************************)
(* The scheduled sweep that removes what deleted incidents have left: the  *)
(* evidence, the incident's own rows, its receipts among those of the      *)
(* household, outputs, summary and runs.  A sweep works under the lease    *)
(* and for as many pages as its time allows; errors, the end of its time   *)
(* and death leave a job to the next one, which resumes the scan of the    *)
(* receipts at the cursor kept in the job.  (SimulationRuns has the steps  *)
(* for the runs, SimulationLibrary the collection of generations.)         *)
(***************************************************************************)
EXTENDS Lease, FiniteSets

CONSTANTS Incidents,  \* numbers, in the order the jobs are queried
          Keys,       \* numbers of the household's receipts, one per page, in query order
          MaxPages,   \* bound: pages of evidence, and of rows, of an incident
          Patience    \* pages one sweep has time for

\* The two empty pages that show evidence and rows gone, the last page of receipts,
\* outputs and runs have to fit into one sweep: none of them leaves a trace to resume from.
ASSUME CleanupAssumption ==
  /\ Incidents \subseteq Nat /\ Keys \subseteq Nat \ {0} /\ None \notin Nat
  /\ IsFiniteSet(Keys)
  /\ MaxPages \in Nat /\ Patience \in Nat /\ Patience >= 5

VARIABLES
  marker,   \* cleanup_status of the DELETED# row
  job,      \* the JOB# row: None or its ingest_cursor, 0 at first
  eligible, \* eligible_at has passed
  stored,   \* pages of each kind of data an incident has
  receipt,  \* INGEST# rows: None, or whose, and whether it is redacted
  sweep     \* what the sweep that holds the lease is at

cleanupVars == <<marker, job, eligible, stored, receipt, sweep>>

Kinds == {"objects", "records", "outputs", "summary", "runs"}
Paged == {"objects", "records"}
Scanned == {"outputs", "runs"}
Purging == Kinds \cup {"receipts", "cursor", "complete", "drop"}

Receipt == [incident : Incidents, redacted : BOOLEAN]
Sweep == [pc : Purging \cup {"idle", "next", "over"}, page : SUBSET Incidents,
          at : Incidents \cup {None}, cursor : Nat, left : Nat,
          first : Incidents \cup {None}, found : Nat, failed : BOOLEAN]
IdleSweep == [pc |-> "idle", page |-> {}, at |-> None, cursor |-> 0, left |-> 0,
              first |-> None, found |-> 0, failed |-> FALSE]

CleanupInit ==
  /\ Init
  /\ marker = [i \in Incidents |-> "none"] /\ job = [i \in Incidents |-> None]
  /\ eligible = [i \in Incidents |-> FALSE]
  /\ stored = [i \in Incidents |-> [k \in Kinds |-> IF k \in Paged THEN 0 ELSE 1]]
  /\ receipt = [k \in Keys |-> None]
  /\ sweep = IdleSweep

-----------------------------------------------------------------------------
(* Everyone else *)

RequestsDeletion(i) ==
  /\ marker[i] = "none"
  /\ marker' = [marker EXCEPT ![i] = "pending"] /\ job' = [job EXCEPT ![i] = 0]
  /\ UNCHANGED <<vars, eligible, stored, receipt, sweep>>

\* Nobody who looked for the marker before it was there runs for 900 s.
FallsDue(i) ==
  /\ marker[i] # "none" /\ ~eligible[i]
  /\ eligible' = [eligible EXCEPT ![i] = TRUE]
  /\ UNCHANGED <<vars, marker, job, stored, receipt, sweep>>

\* Until then, writers that found no marker write.
Binds(k, i) ==
  /\ receipt[k] = None /\ ~eligible[i]
  /\ receipt' = [receipt EXCEPT ![k] = [incident |-> i, redacted |-> FALSE]]
  /\ UNCHANGED <<vars, marker, job, eligible, stored, sweep>>

Stores(i, kind) ==
  /\ stored[i][kind] < MaxPages /\ ~eligible[i]
  /\ stored' = [stored EXCEPT ![i][kind] = @ + 1]
  /\ UNCHANGED <<vars, marker, job, eligible, receipt, sweep>>

-----------------------------------------------------------------------------
(* The sweep *)

Begins(p) ==
  /\ Claim(p)
  /\ sweep' = IF Available(p)
              THEN [IdleSweep EXCEPT !.pc = "next", !.left = Patience,
                                     !.page = {i \in Incidents : job[i] # None}]
              ELSE sweep
  /\ UNCHANGED <<marker, job, eligible, stored, receipt>>

\* What is left to do for an incident: the receipts a resumed scan has still to pass count,
\* whether they are there yet or not.
Pages(i) == stored[i].objects + stored[i].records + stored[i].outputs + stored[i].summary
              + stored[i].runs
Ahead(i) == {k \in Keys : k > job[i]}
Remaining(i) == IF job[i] = None THEN 0 ELSE 1 + Pages(i) + Cardinality(Ahead(i))

Working == sweep.pc \in Purging
Continue(update) == sweep' = update /\ UNCHANGED vars
GoOn(stage) == [sweep EXCEPT !.pc = stage]
EndsJob == [sweep EXCEPT !.pc = IF sweep.left = 0 THEN "over" ELSE "next", !.at = None]

\* (defect) The job is taken as soon as it is there.
MayPurge_Early(i) == marker[i] # "none"

MayPurge(i) == marker[i] # "none" /\ eligible[i]

\* The next job of the page: not due, done already, or purged from the start.
TakesJob(i) ==
  LET rest == [sweep EXCEPT !.page = @ \ {i}] IN
  /\ sweep.pc = "next" /\ i \in sweep.page /\ \A j \in sweep.page : i <= j
  /\ \/ ~MayPurge(i) /\ Continue(rest) /\ UNCHANGED <<marker, job>>
     \/ /\ MayPurge(i) /\ marker[i] = "completed"
        /\ job' = [job EXCEPT ![i] = None]
        /\ Continue([rest EXCEPT !.pc = IF sweep.left = 0 THEN "over" ELSE "next"])
        /\ UNCHANGED marker
     \/ /\ MayPurge(i) /\ marker[i] # "completed"
        /\ marker' = [marker EXCEPT ![i] = "purging"]
        /\ Continue([rest EXCEPT !.pc = "objects", !.at = i, !.cursor = job[i],
                                 !.first = IF @ = None THEN i ELSE @,
                                 !.found = IF sweep.first = None THEN Remaining(i) ELSE @])
        /\ UNCHANGED job
  /\ UNCHANGED <<eligible, stored, receipt>>

After == [objects |-> "records", records |-> "receipts", outputs |-> "summary",
          summary |-> "runs", runs |-> "complete"]

\* The first page of evidence versions or of rows, until it is empty.
DeletesPage ==
  /\ sweep.pc \in Paged /\ sweep.left > 0 /\ stored[sweep.at][sweep.pc] > 0
  /\ stored' = [stored EXCEPT ![sweep.at][sweep.pc] = @ - 1]
  /\ Continue([sweep EXCEPT !.left = @ - 1])
  /\ UNCHANGED <<marker, job, eligible, receipt>>

FindsNone ==
  /\ sweep.pc \in Paged /\ sweep.left > 0 /\ stored[sweep.at][sweep.pc] = 0
  /\ Continue([sweep EXCEPT !.left = @ - 1, !.pc = After[@]])
  /\ UNCHANGED <<marker, job, eligible, stored, receipt>>

\* (defect) Every receipt of the page is redacted.
Redacted_All(k) == [receipt[k] EXCEPT !.redacted = TRUE]

Redacted(k) == IF receipt[k].incident = sweep.at
               THEN [receipt[k] EXCEPT !.redacted = TRUE] ELSE receipt[k]

NextPage == {k \in Keys : k > sweep.cursor /\ receipt[k] # None}

RedactsPage(k) ==
  /\ sweep.pc = "receipts" /\ sweep.left > 0
  /\ k \in NextPage /\ \A other \in NextPage : k <= other
  /\ receipt' = [receipt EXCEPT ![k] = Redacted(k)]
  /\ Continue([sweep EXCEPT !.left = @ - 1, !.pc = "cursor", !.cursor = k])
  /\ UNCHANGED <<marker, job, eligible, stored>>

\* (defect) The cursor is kept by the sweep only.
Kept_Locally == job[sweep.at]

Kept == sweep.cursor

SavesCursor ==
  /\ sweep.pc = "cursor"
  /\ job' = [job EXCEPT ![sweep.at] = Kept]
  /\ Continue(GoOn("receipts"))
  /\ UNCHANGED <<marker, eligible, stored, receipt>>

LastPage ==
  /\ sweep.pc = "receipts" /\ sweep.left > 0 /\ NextPage = {}
  /\ Continue([sweep EXCEPT !.left = @ - 1, !.pc = "outputs"])
  /\ UNCHANGED <<marker, job, eligible, stored, receipt>>

\* The rows that name the incident, among the household's.
Scans ==
  /\ sweep.pc \in Scanned /\ sweep.left > 0
  /\ stored' = [stored EXCEPT ![sweep.at][sweep.pc] = 0]
  /\ Continue([sweep EXCEPT !.left = @ - 1, !.pc = After[@]])
  /\ UNCHANGED <<marker, job, eligible, receipt>>

DeletesSummary ==
  /\ sweep.pc = "summary"
  /\ stored' = [stored EXCEPT ![sweep.at].summary = 0]
  /\ Continue(GoOn("runs"))
  /\ UNCHANGED <<marker, job, eligible, receipt>>

Completes ==
  /\ sweep.pc = "complete"
  /\ marker' = [marker EXCEPT ![sweep.at] = "completed"]
  /\ Continue(GoOn("drop"))
  /\ UNCHANGED <<job, eligible, stored, receipt>>

DropsJob ==
  /\ sweep.pc = "drop"
  /\ job' = [job EXCEPT ![sweep.at] = None]
  /\ Continue(EndsJob)
  /\ UNCHANGED <<marker, eligible, stored, receipt>>

\* No time is left for another page, or a call fails: the status says so, whatever it was.
OutOfTime == sweep.pc \in Paged \cup Scanned \cup {"receipts"} /\ sweep.left = 0

Fails ==
  /\ Working
  /\ marker' = [marker EXCEPT ![sweep.at] = "retrying"]
  /\ Continue([EndsJob EXCEPT !.failed = @ \/ ~OutOfTime])
  /\ UNCHANGED <<job, eligible, stored, receipt>>

\* The job is deleted, but the answer that says so is lost.
DropUnanswered ==
  /\ sweep.pc = "drop"
  /\ job' = [job EXCEPT ![sweep.at] = None]
  /\ marker' = [marker EXCEPT ![sweep.at] = "retrying"]
  /\ Continue([EndsJob EXCEPT !.failed = TRUE])
  /\ UNCHANGED <<eligible, stored, receipt>>

\* A call fails and so does the update that should report it, applied or not: the whole
\* sweep ends.
ReportFails ==
  /\ Working
  /\ job' = job \/ (sweep.pc = "drop" /\ job' = [job EXCEPT ![sweep.at] = None])
  /\ marker' \in {marker, [marker EXCEPT ![sweep.at] = "retrying"]}
  /\ Continue([sweep EXCEPT !.pc = "over", !.at = None, !.failed = TRUE])
  /\ UNCHANGED <<eligible, stored, receipt>>

\* A call fails before the purge begins: the look at the marker, its update, or the deletion
\* of a job that is done, which may have been applied.  Reporting it may fail as well.
FailsToTake(i) ==
  /\ sweep.pc = "next" /\ i \in sweep.page /\ \A j \in sweep.page : i <= j
  /\ MayPurge(i)
  /\ job' = job \/ (marker[i] = "completed" /\ job' = [job EXCEPT ![i] = None])
  /\ marker' \in {marker, [marker EXCEPT ![i] = "retrying"]}
  /\ \E stage \in {"next", "over"} :
       /\ stage = "next" => sweep.left > 0 /\ marker'[i] = "retrying"
       /\ Continue([sweep EXCEPT !.page = @ \ {i}, !.pc = stage, !.failed = TRUE])
  /\ UNCHANGED <<eligible, stored, receipt>>

FinishesPage ==
  /\ sweep.pc = "next" /\ sweep.page = {}
  /\ Continue(GoOn("over"))
  /\ UNCHANGED <<marker, job, eligible, stored, receipt>>

Ends(p) ==
  /\ sweep.pc = "over" /\ Release(p)
  /\ sweep' = IdleSweep
  /\ UNCHANGED <<marker, job, eligible, stored, receipt>>

Dies(p) ==
  /\ Die(p)
  /\ sweep' = IF run[p].pc = "work" THEN IdleSweep ELSE sweep
  /\ UNCHANGED <<marker, job, eligible, stored, receipt>>

Purge ==
  \/ DeletesPage \/ FindsNone \/ SavesCursor \/ LastPage \/ Scans \/ DeletesSummary
  \/ Completes \/ DropsJob \/ DropUnanswered \/ Fails \/ ReportFails \/ FinishesPage
  \/ \E i \in Incidents : TakesJob(i) \/ FailsToTake(i)
  \/ \E k \in Keys : RedactsPage(k)

Leases ==
  \/ \E p \in Invocations : Begins(p) \/ Ends(p) \/ Dies(p)
  \/ /\ Tick \/ \E p \in Invocations : Invoke(p) \/ ReadNow(p)
     /\ UNCHANGED cleanupVars

Others ==
  \E i \in Incidents :
    \/ RequestsDeletion(i) \/ FallsDue(i)
    \/ \E k \in Keys : Binds(k, i)
    \/ \E kind \in Paged : Stores(i, kind)

CleanupNext == Purge \/ Leases \/ Others

CleanupSpec == CleanupInit /\ [][CleanupNext]_<<vars, cleanupVars>>

-----------------------------------------------------------------------------
(* Properties *)

Gone(i) ==
  /\ \A kind \in Kinds : stored[i][kind] = 0
  /\ \A k \in Keys : receipt[k] # None /\ receipt[k].incident = i => receipt[k].redacted

\* However often a purge was cut short and resumed, and whoever was still writing when it
\* was asked for: an incident whose cleanup is reported complete, or that has no job any
\* more, has left nothing but redacted receipts.
CompletedIsGone ==
  \A i \in Incidents :
    marker[i] = "completed" \/ (marker[i] # "none" /\ job[i] = None) => Gone(i)

\* "Cleanup of explicitly requested incident data only": no sweep takes anything from
\* an incident whose deletion nobody asked for, though their receipts share a partition.
OthersUntouched ==
  [][\A i \in Incidents : marker[i] = "none" =>
       /\ \A kind \in Kinds : stored'[i][kind] >= stored[i][kind]
       /\ \A k \in Keys : receipt[k] # None /\ receipt[k].incident = i =>
            receipt'[k] = receipt[k]]_<<stored, receipt>>

\* A sweep that meets no error leaves less to do for the first incident it worked on than
\* it found, or is done with it: a household too large for one sweep is purged by several.
SweepsGetOn ==
  sweep.pc = "over" /\ sweep.first # None /\ ~sweep.failed =>
    Remaining(sweep.first) < sweep.found

=============================================================================
