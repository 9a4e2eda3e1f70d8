--------------------------- MODULE SimulationRuns ---------------------------
(***************************************************************************)
(* Simulation runs: the owner starts, stops and resumes them; a worker,    *)
(* woken every minute, delivers the reports that are due through ingestion *)
(* and keeps its progress in the RUN# row; cleanup removes the runs of a   *)
(* deleted incident.  The SIMLOCKS row gives each device to one run, the   *)
(* SIMRUNS rows tell the worker which runs to look at.                     *)
(*                                                                         *)
(* There is one worker and one cleanup sweep at a time (Lease).  Ingestion *)
(* is one step here: what it may answer and leave behind is in Ingress.    *)
(***************************************************************************)
EXTENDS Naturals, Sequences, FiniteSets

CONSTANTS Runs,        \* runs, by request_id
          Rows,        \* the devices of each run, in the order of its rows
          Devices,
          Reports,     \* expected_count of a device's profile
          Target,      \* the incident a run is for, or None: automatic
          Incidents,
          Clients,     \* requests of the owner in flight
          None,
          PerTick,     \* deliveries one call of work makes at most (20)
          MaxCommands  \* bound: stop and resume requests

ASSUME SimulationAssumption ==
  /\ Rows \in [Runs -> Seq(Devices)]
  /\ \A r \in Runs : Len(Rows[r]) > 0
  /\ \A r \in Runs : \A j, k \in 1 .. Len(Rows[r]) : Rows[r][j] = Rows[r][k] => j = k
  /\ Reports \in [Devices -> Nat \ {0}]
  /\ Target \in [Runs -> Incidents \cup {None}] /\ None \notin Incidents \cup Runs
  /\ IsFiniteSet(Clients)
  /\ PerTick \in Nat \ {0} /\ MaxCommands \in Nat

VARIABLES
  run,       \* RUN# rows
  locks,     \* the SIMLOCKS row
  jobs,      \* SIMRUNS rows
  receipts,  \* INGEST# rows of scheduled reports
  published, \* the reports put on the bus
  late,      \* history: reports published for a run after it ended
  incident,  \* open, resolved or deleted
  purged,    \* incidents whose cleanup has completed
  due,       \* how many reports of each row are due
  started,   \* runs ever started
  commands,  \* stop and resume requests so far
  worker, client, cleaner

rows == <<run, locks, jobs>>
ingress == <<receipts, published, late>>
world == <<incident, purged, due, started, commands>>
vars == <<rows, ingress, world, worker, client, cleaner>>

-----------------------------------------------------------------------------
Ids == UNION {{r} \X {d} \X (0 .. Reports[d] - 1) : r \in Runs, d \in Devices}

\* accepted and expected are the sums of index and of Reports; left out.
Run == [status : {"running", "paused", "completed", "stopped"}, revision : Nat,
        index : [Devices -> Nat], pending : SUBSET Devices, cursor : Nat,
        incidents : SUBSET Incidents, follows : [Devices -> Incidents \cup {None}]]

Locks == [revision : Nat, devices : [Devices -> Runs \cup {None}]]

ASSUME NoneAssumption == None \notin Run \cup Locks

Receipt == [stage : {"none", "bound", "charged", "published", "deleted"},
            incident : Incidents \cup {None}]

\* What a process is doing with which run: the copy of the row it read and
\* goes on to change, and the locks it read.
Worker == [pc : {"idle", "next", "incidents", "scan", "deliver", "save", "exhausted",
                 "finish", "commit", "recover", "pause"},
           page : SUBSET Runs, id : Runs \cup {None}, held : Run \cup {None},
           base : Nat, visited : Nat, done : Nat,
           verdict : {"stopped", "completed"}, locks : Locks \cup {None},
           knew : SUBSET Incidents]

Client == [pc : {"idle", "start", "resume", "stop", "commit"}, id : Runs \cup {None},
           held : Run \cup {None}, locks : Locks \cup {None}, knew : SUBSET Incidents]

Cleaner == [pc : {"idle", "query", "scan", "finish", "commit", "delete"},
            incident : Incidents \cup {None}, page : SUBSET (Runs \X Run),
            id : Runs \cup {None}, held : Run \cup {None}, locks : Locks \cup {None}]

IdleWorker == [pc |-> "idle", page |-> {}, id |-> None, held |-> None, base |-> 0,
               visited |-> 0, done |-> 0, verdict |-> "stopped", locks |-> None,
               knew |-> {}]
IdleClient == [pc |-> "idle", id |-> None, held |-> None, locks |-> None, knew |-> {}]
IdleCleaner == [pc |-> "idle", incident |-> None, page |-> {}, id |-> None,
                held |-> None, locks |-> None]

Init ==
  /\ run = [r \in Runs |-> None] /\ jobs = {}
  /\ locks = [revision |-> 0, devices |-> [d \in Devices |-> None]]
  /\ receipts = [x \in Ids |-> [stage |-> "none", incident |-> None]]
  /\ published = {} /\ late = [r \in Runs |-> 0]
  /\ incident = [i \in Incidents |-> "open"] /\ purged = {}
  /\ due = [r \in Runs |-> [d \in Devices |-> 1]] /\ started = {} /\ commands = 0
  /\ worker = IdleWorker /\ client = [c \in Clients |-> IdleClient]
  /\ cleaner = IdleCleaner

-----------------------------------------------------------------------------
Active(row) == row # None /\ row.status \in {"running", "paused"}
DevicesOf(r) == {Rows[r][k] : k \in 1 .. Len(Rows[r])}
Deleted(i) == incident[i] = "deleted"

\* A revision is a fresh UUID: here, one that nobody holds.
Fresh(used) == CHOOSE n \in 0 .. Cardinality(used) : n \notin used
RunRevision(r) ==
  Fresh({x.revision : x \in ({run[r]}
           \cup {p.held : p \in {q \in {worker, cleaner} \cup {client[c] : c \in Clients} : q.id = r}}
           \cup {y[2] : y \in {z \in cleaner.page : z[1] = r}}) \ {None}})
LocksRevision ==
  Fresh({x.revision : x \in ({locks, worker.locks, cleaner.locks}
                             \cup {client[c].locks : c \in Clients}) \ {None}})

\* (defect) The row is put whatever is there.
MaySave_Blind(r, held) == run[r] # None

\* The condition of save and finish: the row still is the one read.
MaySave(r, held) == run[r] # None /\ run[r].revision = held.revision

Saved(r, held) == [held EXCEPT !.revision = RunRevision(r)]

\* (defect) The locks are put whatever is there.
MayFinish_LocksBlind(r, held, seen) == MaySave(r, held)

\* The conditions of the transaction of finish.
MayFinish(r, held, seen) == MaySave(r, held) /\ locks.revision = seen.revision

\* The locks as read, without the devices of the run.
Unlocked(r, seen) ==
  [revision |-> LocksRevision,
   devices |-> [d \in Devices |-> IF seen.devices[d] = r THEN None ELSE seen.devices[d]]]

\* What finish writes.
Finished(r, held, seen, status) ==
  /\ run' = [run EXCEPT ![r] = [Saved(r, held) EXCEPT !.status = status]]
  /\ locks' = Unlocked(r, seen)
  /\ jobs' = jobs \ {r}

-----------------------------------------------------------------------------
(* The owner's requests: start, stop, resume *)

IdleNow(c) == client' = [client EXCEPT ![c] = IdleClient]
Known == {i \in Incidents : Deleted(i)}

\* start: not known yet, its target open, no device locked.  A request is
\* only repeated while its run exists (bound: started).
StartRun(c, r) ==
  /\ client[c].pc = "idle" /\ r \notin started /\ run[r] = None
  /\ Target[r] # None => incident[Target[r]] = "open"
  /\ \A d \in DevicesOf(r) : locks.devices[d] = None
  /\ client' = [client EXCEPT ![c] = [IdleClient EXCEPT !.pc = "start", !.id = r,
                                        !.locks = locks, !.knew = Known]]
  /\ UNCHANGED <<rows, ingress, world, worker, cleaner>>

NewRun(r) ==
  [status |-> "running", revision |-> RunRevision(r),
   index |-> [d \in Devices |-> 0], pending |-> {}, cursor |-> 0,
   incidents |-> {Target[r]} \ {None}, follows |-> [d \in Devices |-> None]]

MayStart(c) == run[client[c].id] = None /\ locks.revision = client[c].locks.revision

CommitStart(c) ==
  LET r == client[c].id IN
  /\ client[c].pc = "start"
  /\ IF MayStart(c)
     THEN /\ run' = [run EXCEPT ![r] = NewRun(r)]
          /\ locks' = [revision |-> LocksRevision,
                       devices |-> [d \in Devices |-> IF d \in DevicesOf(r) THEN r
                                                      ELSE client[c].locks.devices[d]]]
          /\ jobs' = jobs \cup {r} /\ started' = started \cup {r}
     ELSE UNCHANGED <<rows, started>>
  /\ IdleNow(c)
  /\ UNCHANGED <<ingress, incident, purged, due, commands, worker, cleaner>>

\* command: a run that has ended is only shown.
Command(c, r, action) ==
  /\ client[c].pc = "idle" /\ Active(run[r]) /\ commands < MaxCommands
  /\ commands' = commands + 1
  /\ client' = [client EXCEPT ![c] = [IdleClient EXCEPT !.pc = action, !.id = r,
                                        !.held = run[r], !.knew = Known]]
  /\ UNCHANGED <<rows, ingress, incident, purged, due, started, worker, cleaner>>

SaveResume(c) ==
  LET r == client[c].id IN
  /\ client[c].pc = "resume"
  /\ run' = IF MaySave(r, client[c].held)
            THEN [run EXCEPT ![r] = [Saved(r, client[c].held) EXCEPT !.status = "running"]]
            ELSE run
  /\ IdleNow(c)
  /\ UNCHANGED <<locks, jobs, ingress, world, worker, cleaner>>

StopReadsLocks(c) ==
  /\ client[c].pc = "stop"
  /\ client' = [client EXCEPT ![c].pc = "commit", ![c].locks = locks]
  /\ UNCHANGED <<rows, ingress, world, worker, cleaner>>

CommitStop(c) ==
  LET r == client[c].id IN
  /\ client[c].pc = "commit"
  /\ IF MayFinish(r, client[c].held, client[c].locks)
     THEN Finished(r, client[c].held, client[c].locks, "stopped")
     ELSE UNCHANGED rows
  /\ IdleNow(c)
  /\ UNCHANGED <<ingress, world, worker, cleaner>>

\* A request ends anywhere.
Abandon(c) ==
  /\ client[c].pc # "idle"
  /\ IdleNow(c)
  /\ UNCHANGED <<rows, ingress, world, worker, cleaner>>

-----------------------------------------------------------------------------
(* The worker *)

Wakes ==
  /\ worker.pc = "idle"
  /\ worker' = [IdleWorker EXCEPT !.pc = "next", !.page = jobs, !.knew = Known]
  /\ UNCHANGED <<rows, ingress, world, client, cleaner>>

\* All jobs have been looked at.
EndsTick ==
  /\ worker.pc = "next" /\ worker.page = {}
  /\ worker' = IdleWorker
  /\ UNCHANGED <<rows, ingress, world, client, cleaner>>

TakesJob(r) ==
  /\ worker.pc = "next" /\ r \in worker.page
  /\ worker' = IF run[r] = None THEN [worker EXCEPT !.page = @ \ {r}]
               ELSE [worker EXCEPT !.page = @ \ {r}, !.pc = "incidents", !.id = r,
                                   !.held = run[r], !.done = 0]
  /\ UNCHANGED <<rows, ingress, world, client, cleaner>>

\* The copies of a run are dropped when the worker goes on to the next.
NextJob(w) == [w EXCEPT !.pc = "next", !.id = None, !.held = None, !.locks = None,
                        !.base = 0, !.visited = 0, !.done = 0, !.verdict = "stopped"]

\* (defect) Only a run that is running follows its incidents.
ChecksIncidents_Running ==
  /\ worker.pc = "incidents"
  /\ worker' = IF worker.held.status # "running" THEN NextJob(worker)
               ELSE IF \E i \in worker.held.incidents : incident[i] # "open"
               THEN [worker EXCEPT !.pc = "finish", !.verdict = "stopped"]
               ELSE [worker EXCEPT !.pc = "scan", !.base = worker.held.cursor]
  /\ UNCHANGED <<rows, ingress, world, client, cleaner>>

\* work: a run ends with any of its incidents, even a paused one.
ChecksIncidents ==
  /\ worker.pc = "incidents"
  /\ worker' = IF \E i \in worker.held.incidents : incident[i] # "open"
               THEN [worker EXCEPT !.pc = "finish", !.verdict = "stopped"]
               ELSE IF worker.held.status # "running" THEN NextJob(worker)
               ELSE [worker EXCEPT !.pc = "scan", !.base = worker.held.cursor]
  /\ UNCHANGED <<rows, ingress, world, client, cleaner>>

Position(k) == (worker.base + k) % Len(Rows[worker.id])
DeviceAt(k) == Rows[worker.id][Position(k) + 1]
Ready(k) ==
  LET d == DeviceAt(k) IN
  worker.held.index[d] < Reports[d] /\ worker.held.index[d] < due[worker.id][d]

\* (defect) The rotation stops at the last row.
Reachable_NoWrap(k) ==
  /\ k \in worker.visited .. Len(Rows[worker.id]) - 1 - worker.base
  /\ Ready(k) /\ \A j \in worker.visited .. k - 1 : ~Ready(j)

Reachable(k) ==
  /\ k \in worker.visited .. Len(Rows[worker.id]) - 1
  /\ Ready(k) /\ \A j \in worker.visited .. k - 1 : ~Ready(j)

MayDeliver == worker.done < PerTick

\* The next row, in rotation, with a report due: its identity is saved before
\* it is ever sent, and sent again as it is when there is one already.
Scans(k) ==
  LET r == worker.id
      d == DeviceAt(k)
      marked == [Saved(r, worker.held) EXCEPT !.pending = @ \cup {d}] IN
  /\ worker.pc = "scan" /\ MayDeliver /\ Reachable(k)
  /\ IF d \in worker.held.pending
     THEN /\ worker' = [worker EXCEPT !.pc = "deliver", !.visited = k]
          /\ UNCHANGED run
     ELSE IF MaySave(r, worker.held)
     THEN /\ run' = [run EXCEPT ![r] = marked]
          /\ worker' = [worker EXCEPT !.pc = "deliver", !.visited = k, !.held = marked]
     ELSE /\ worker' = [worker EXCEPT !.pc = "recover"]
          /\ UNCHANGED run
  /\ UNCHANGED <<locks, jobs, ingress, world, client, cleaner>>

\* No row is left or 20 have been delivered.
EndsScan ==
  /\ worker.pc = "scan"
  /\ \/ ~MayDeliver
     \/ \A k \in 0 .. Len(Rows[worker.id]) - 1 : ~Reachable(k)
  /\ worker' = [worker EXCEPT !.pc = "exhausted"]
  /\ UNCHANGED <<rows, ingress, world, client, cleaner>>

\* The time of the invocation is nearly up.
StopsScanning ==
  /\ worker.pc = "scan"
  /\ worker' = [worker EXCEPT !.pc = "exhausted"]
  /\ UNCHANGED <<rows, ingress, world, client, cleaner>>

\* What ingestion may have made of report x, sent for incident t or None, and
\* what it tells the worker (Ingress); troubled when calls of it fail.
Ingestion(x, t, troubled) ==
  LET now == receipts[x]
      open == {i \in Incidents : incident[i] = "open"}
      home == IF now.stage # "none" THEN {now.incident} \ Known
              ELSE IF t = None THEN open ELSE open \cap {t}
      paid == now.stage \in {"charged", "published"}
      Outcome(stage, i) == [receipt |-> [stage |-> stage, incident |-> i],
                            ok |-> stage = "published", told |-> i] IN
  {Outcome("published", i) : i \in {j \in home : paid \/ j \in open}}
  \cup {Outcome("charged", i) :
          i \in {j \in home : troubled /\ now.stage # "published" /\ (paid \/ j \in open)}}
  \cup {Outcome("bound", i) : i \in {j \in home : ~paid /\ (troubled \/ j \notin open)}}
  \cup IF home = {} \/ (troubled /\ now.stage = "none")
       THEN {[receipt |-> now, ok |-> FALSE, told |-> None]} ELSE {}

\* (defect) The pending identity is dropped although the answer was a refusal.
Answered_Dropped(d, o) ==
  [worker.held EXCEPT
     !.cursor = (Position(worker.visited) + 1) % Len(Rows[worker.id]),
     !.incidents = @ \cup ({o.told} \ {None}),
     !.status = IF o.ok THEN @ ELSE "paused",
     !.follows[d] = IF o.ok THEN o.told ELSE @,
     !.index[d] = @ + 1,
     !.pending = @ \ {d}]

\* (defect) The row does not remember its incident.
Answered_Forgets(d, o) ==
  [worker.held EXCEPT
     !.cursor = (Position(worker.visited) + 1) % Len(Rows[worker.id]),
     !.incidents = @ \cup ({o.told} \ {None}),
     !.status = IF o.ok THEN @ ELSE "paused",
     !.index[d] = IF o.ok THEN @ + 1 ELSE @,
     !.pending = IF o.ok THEN @ \ {d} ELSE @]

\* The run after an answer.
Answered(d, o) ==
  [worker.held EXCEPT
     !.cursor = (Position(worker.visited) + 1) % Len(Rows[worker.id]),
     !.incidents = @ \cup ({o.told} \ {None}),
     !.status = IF o.ok THEN @ ELSE "paused",
     !.follows[d] = IF o.ok THEN o.told ELSE @,
     !.index[d] = IF o.ok THEN @ + 1 ELSE @,
     !.pending = IF o.ok THEN @ \ {d} ELSE @]

\* The same identity is delivered until it is answered; a lost answer (an
\* error or a timeout of the call) says nothing of what was done.
Delivers(troubled) ==
  LET r == worker.id
      d == DeviceAt(worker.visited)
      x == <<r, d, worker.held.index[d]>>
      t == IF worker.held.follows[d] # None THEN worker.held.follows[d] ELSE Target[r] IN
  /\ worker.pc = "deliver"
  /\ \E o \in Ingestion(x, t, troubled), lost \in {FALSE, troubled} :
       /\ receipts' = [receipts EXCEPT ![x] = o.receipt]
       /\ published' \in IF o.ok THEN {published \cup {x}}
                         ELSE IF lost /\ o.receipt.stage = "charged"
                         THEN {published, published \cup {x}} ELSE {published}
       /\ late' = IF published' # published /\ ~Active(run[r])
                  THEN [late EXCEPT ![r] = @ + 1] ELSE late
       /\ worker' = IF lost THEN [worker EXCEPT !.pc = "recover"]
                    ELSE [worker EXCEPT !.pc = "save", !.done = @ + 1,
                                        !.held = Answered(d, o)]
  /\ UNCHANGED <<rows, world, client, cleaner>>

\* (defect) That the answer could not be saved goes unnoticed.
SavesAnswer_Unnoticed ==
  LET r == worker.id
      answered == Saved(r, worker.held) IN
  /\ worker.pc = "save"
  /\ run' = IF MaySave(r, worker.held) THEN [run EXCEPT ![r] = answered] ELSE run
  /\ worker' = [worker EXCEPT !.held = answered, !.visited = @ + 1,
                   !.pc = IF answered.status = "running" THEN "scan" ELSE "exhausted"]
  /\ UNCHANGED <<locks, jobs, ingress, world, client, cleaner>>

SavesAnswer ==
  LET r == worker.id
      answered == Saved(r, worker.held) IN
  /\ worker.pc = "save"
  /\ IF MaySave(r, worker.held)
     THEN /\ run' = [run EXCEPT ![r] = answered]
          /\ worker' = [worker EXCEPT !.held = answered, !.visited = @ + 1,
               !.pc = IF answered.status = "running" THEN "scan" ELSE "exhausted"]
     ELSE /\ worker' = [worker EXCEPT !.pc = "recover"]
          /\ UNCHANGED run
  /\ UNCHANGED <<locks, jobs, ingress, world, client, cleaner>>

Exhausted == \A d \in DevicesOf(worker.id) : worker.held.index[d] >= Reports[d]

EndsWork ==
  /\ worker.pc = "exhausted"
  /\ worker' = IF Exhausted THEN [worker EXCEPT !.pc = "finish", !.verdict = "completed"]
               ELSE NextJob(worker)
  /\ UNCHANGED <<rows, ingress, world, client, cleaner>>

WorkerReadsLocks ==
  /\ worker.pc = "finish"
  /\ worker' = [worker EXCEPT !.pc = "commit", !.locks = locks]
  /\ UNCHANGED <<rows, ingress, world, client, cleaner>>

WorkerFinishes ==
  /\ worker.pc = "commit"
  /\ IF MayFinish(worker.id, worker.held, worker.locks)
     THEN /\ Finished(worker.id, worker.held, worker.locks, worker.verdict)
          /\ worker' = NextJob(worker)
     ELSE /\ worker' = [worker EXCEPT !.pc = "recover"]
          /\ UNCHANGED rows
  /\ UNCHANGED <<ingress, world, client, cleaner>>

\* The save was applied and its answer lost.
SaveUnanswered ==
  LET r == worker.id
      answered == Saved(r, worker.held) IN
  /\ worker.pc = "save" /\ MaySave(r, worker.held)
  /\ run' = [run EXCEPT ![r] = answered]
  /\ worker' = [worker EXCEPT !.pc = "recover"]
  /\ UNCHANGED <<locks, jobs, ingress, world, client, cleaner>>

\* A read or write within work fails and leaves nothing behind: the look at an incident,
\* the save of a new identity, the call of ingestion, the save of its answer, the read of
\* the locks, the transaction of finish.
WorkerFails ==
  /\ \/ worker.pc \in {"deliver", "save", "finish", "commit"}
     \/ worker.pc = "incidents" /\ worker.held.incidents # {}
     \/ /\ worker.pc = "scan" /\ MayDeliver
        /\ \E k \in 0 .. Len(Rows[worker.id]) - 1 :
             Reachable(k) /\ DeviceAt(k) \notin worker.held.pending
  /\ worker' = [worker EXCEPT !.pc = "recover"]
  /\ UNCHANGED <<rows, ingress, world, client, cleaner>>

\* Any exception of work pauses the run, if it is running still.
Recovers ==
  LET current == run[worker.id] IN
  /\ worker.pc = "recover"
  /\ worker' = IF current # None /\ current.status = "running"
               THEN [worker EXCEPT !.pc = "pause", !.held = current, !.locks = None]
               ELSE NextJob(worker)
  /\ UNCHANGED <<rows, ingress, world, client, cleaner>>

Pauses ==
  LET r == worker.id IN
  /\ worker.pc = "pause"
  /\ run' = IF MaySave(r, worker.held)
            THEN [run EXCEPT ![r] = [Saved(r, worker.held) EXCEPT !.status = "paused"]]
            ELSE run
  /\ worker' = NextJob(worker)
  /\ UNCHANGED <<locks, jobs, ingress, world, client, cleaner>>

\* The worker's invocation ends anywhere; the next takes over (Lease).
WorkerDies ==
  /\ worker.pc # "idle"
  /\ worker' = IdleWorker
  /\ UNCHANGED <<rows, ingress, world, client, cleaner>>

-----------------------------------------------------------------------------
(* Cleanup of a deleted incident, as far as runs are concerned *)

\* The drain: no invocation started before the deletion is still running.
Drained(i) ==
  /\ worker.pc # "idle" => i \in worker.knew
  /\ \A c \in Clients : client[c].pc # "idle" => i \in client[c].knew

\* Receipts are redacted first; they keep a digest of the incident.
Redacts(i) ==
  /\ cleaner.pc = "idle" /\ Deleted(i) /\ i \notin purged /\ Drained(i)
  /\ receipts' = [x \in Ids |-> IF receipts[x].incident = i
                                THEN [receipts[x] EXCEPT !.stage = "deleted"] ELSE receipts[x]]
  /\ cleaner' = [IdleCleaner EXCEPT !.pc = "query", !.incident = i]
  /\ UNCHANGED <<rows, published, late, world, worker, client>>

QueriesRuns ==
  /\ cleaner.pc = "query"
  /\ cleaner' = [cleaner EXCEPT !.pc = "scan",
                   !.page = {<<r, run[r]>> : r \in {q \in Runs : run[q] # None}}]
  /\ UNCHANGED <<rows, ingress, world, worker, client>>

\* (defect) A reservation whose answer was lost is not looked for.
Belongs_Listed(r, row, i) == i \in row.incidents

\* The run lists the incident, or a report it is still sending was bound to it.
Belongs(r, row, i) ==
  \/ i \in row.incidents
  \/ \E d \in row.pending : receipts[<<r, d, row.index[d]>>].incident = i

ChecksRun(y) ==
  /\ cleaner.pc = "scan" /\ y \in cleaner.page
  /\ cleaner' = IF ~Belongs(y[1], y[2], cleaner.incident)
                THEN [cleaner EXCEPT !.page = @ \ {y}]
                ELSE [cleaner EXCEPT !.page = @ \ {y}, !.id = y[1], !.held = y[2],
                        !.pc = IF Active(y[2]) THEN "finish" ELSE "delete"]
  /\ UNCHANGED <<rows, ingress, world, worker, client>>

CleanerReadsLocks ==
  /\ cleaner.pc = "finish"
  /\ cleaner' = [cleaner EXCEPT !.pc = "commit", !.locks = locks]
  /\ UNCHANGED <<rows, ingress, world, worker, client>>

\* A cancelled transaction ends this attempt; a later sweep tries again.
CleanerFinishes ==
  /\ cleaner.pc = "commit"
  /\ IF MayFinish(cleaner.id, cleaner.held, cleaner.locks)
     THEN /\ Finished(cleaner.id, cleaner.held, cleaner.locks, "stopped")
          /\ cleaner' = [cleaner EXCEPT !.pc = "delete", !.locks = None]
     ELSE /\ cleaner' = IdleCleaner
          /\ UNCHANGED rows
  /\ UNCHANGED <<ingress, world, worker, client>>

DeletesRun ==
  /\ cleaner.pc = "delete"
  /\ run' = [run EXCEPT ![cleaner.id] = None]
  /\ cleaner' = [cleaner EXCEPT !.pc = "scan", !.id = None, !.held = None]
  /\ UNCHANGED <<locks, jobs, ingress, world, worker, client>>

CompletesPurge ==
  /\ cleaner.pc = "scan" /\ cleaner.page = {}
  /\ purged' = purged \cup {cleaner.incident}
  /\ cleaner' = IdleCleaner
  /\ UNCHANGED <<rows, ingress, incident, due, started, commands, worker, client>>

CleanerDies ==
  /\ cleaner.pc # "idle"
  /\ cleaner' = IdleCleaner
  /\ UNCHANGED <<rows, ingress, world, worker, client>>

-----------------------------------------------------------------------------
(* The world *)

Closes(i) ==
  /\ incident[i] # "deleted"
  /\ \E s \in {"resolved", "deleted"} :
       s # incident[i] /\ incident' = [incident EXCEPT ![i] = s]
  /\ UNCHANGED <<rows, ingress, purged, due, started, commands, worker, client, cleaner>>

\* Time passes: scheduled_state's offsets grow with the index.
FallsDue(r, d) ==
  /\ run[r] # None /\ d \in DevicesOf(r) /\ due[r][d] < Reports[d]
  /\ due' = [due EXCEPT ![r][d] = @ + 1]
  /\ UNCHANGED <<rows, ingress, incident, purged, started, commands, worker, client, cleaner>>

WorkerStep ==
  \/ EndsTick \/ ChecksIncidents \/ EndsScan \/ Delivers(FALSE) \/ SavesAnswer \/ EndsWork
  \/ WorkerReadsLocks \/ WorkerFinishes \/ Recovers \/ Pauses
  \/ \E r \in Runs : TakesJob(r)
  \/ \E k \in 0 .. Cardinality(Devices) : worker.id # None /\ Scans(k)

ClientStep(c) == SaveResume(c) \/ StopReadsLocks(c) \/ CommitStop(c) \/ CommitStart(c)

CleanerStep ==
  \/ QueriesRuns \/ CleanerReadsLocks \/ CleanerFinishes \/ DeletesRun \/ CompletesPurge
  \/ \E y \in cleaner.page : ChecksRun(y)

Progress ==
  \/ Wakes \/ WorkerStep \/ CleanerStep
  \/ \E c \in Clients :
       \/ ClientStep(c)
       \/ \E r \in Runs : \/ StartRun(c, r)
                          \/ \E action \in {"stop", "resume"} : Command(c, r, action)
  \/ \E i \in Incidents : Closes(i) \/ Redacts(i)
  \/ \E r \in Runs, d \in Devices : FallsDue(r, d)

Failure ==
  \/ StopsScanning \/ Delivers(TRUE) \/ SaveUnanswered \/ WorkerFails \/ WorkerDies
  \/ CleanerDies
  \/ \E c \in Clients : Abandon(c)

Next == Progress \/ Failure

Spec == Init /\ [][Next]_vars

-----------------------------------------------------------------------------
(* Properties *)

TypeOK ==
  /\ run \in [Runs -> Run \cup {None}] /\ locks \in Locks /\ jobs \subseteq Runs
  /\ receipts \in [Ids -> Receipt] /\ published \subseteq Ids /\ late \in [Runs -> Nat]
  /\ incident \in [Incidents -> {"open", "resolved", "deleted"}] /\ purged \subseteq Incidents
  /\ due \in [Runs -> [Devices -> Nat]]
  /\ started \subseteq Runs /\ commands \in 0 .. MaxCommands
  /\ worker \in Worker /\ client \in [Clients -> Client] /\ cleaner \in Cleaner
  /\ worker.done <= PerTick

\* However starting, stopping, resuming, delivering and cleaning up race, the
\* SIMLOCKS row gives a run that is running or paused exactly its devices,
\* nobody else's; an ended or purged run holds none; and the worker is told
\* of exactly the active runs (start and finish).
LocksAreExact ==
  /\ TypeOK
  /\ \A r \in Runs, d \in Devices :
       locks.devices[d] = r <=> Active(run[r]) /\ d \in DevicesOf(r)
  /\ jobs = {r \in Runs : Active(run[r])}

\* A row's progress and its receipts agree: what it counts is published; one
\* report at most is out, under the identity it has saved; and no later one
\* was ever sent.  So nothing is skipped, sent twice under two identities or
\* sent before its predecessor was accepted; the worker turns to no row that has sent
\* its last; and a run is called completed only when all of them are (work).
ReportsInOrder ==
  /\ \A r \in Runs : run[r] # None =>
       \A d \in DevicesOf(r) : \A n \in 0 .. Reports[d] - 1 :
         /\ n < run[r].index[d] => <<r, d, n>> \in published
         /\ n > run[r].index[d] => receipts[<<r, d, n>>].stage = "none"
         /\ n = run[r].index[d] /\ receipts[<<r, d, n>>].stage # "none" => d \in run[r].pending
         /\ run[r].status = "completed" => <<r, d, n>> \in published
  /\ worker.pc = "deliver" =>
       worker.held.index[DeviceAt(worker.visited)] < Reports[DeviceAt(worker.visited)]

\* All reports of a row belong to the incident its first was assigned to,
\* and to the incident the run is for, if any.
OneIncidentPerRow ==
  \A x, y \in {z \in Ids : receipts[z].stage # "none"} :
    /\ x[1] = y[1] /\ x[2] = y[2] => receipts[x].incident = receipts[y].incident
    /\ Target[x[1]] # None => receipts[x].incident = Target[x[1]]

\* After a run has ended, one report that was in flight may still arrive and
\* no more (docs/user-guide.md: Stop run).
OneReportAfterTheEnd == \A r \in Runs : late[r] <= 1

\* An ended run is never revived, whatever copies of it are still held; only
\* cleanup removes it.
EndedStaysEnded ==
  [][\A r \in Runs :
       run[r] # None /\ ~Active(run[r]) /\ run'[r] # None =>
         /\ run'[r].status = run[r].status
         /\ run'[r].index = run[r].index]_vars

\* Cleanup of an incident leaves no run that was for it, knew it or has a
\* report bound to it, and none comes to be afterwards.
PurgedIsForgotten ==
  \A i \in purged, r \in Runs : run[r] # None =>
    /\ Target[r] # i /\ i \notin run[r].incidents
    /\ \A d \in run[r].pending : receipts[<<r, d, run[r].index[d]>>].incident # i

\* A paused run has something left to send: docs/user-guide.md says of it
\* that Resume pending continues it, and the worker's message that pending
\* events retain their identities.
PausedIsUnfinished ==
  \A r \in Runs : run[r] # None /\ run[r].status = "paused" =>
    \E d \in DevicesOf(r) : run[r].index[d] < Reports[d]

(* No call fails and no invocation dies.                                   *)
UnfailingSpec == Init /\ [][Progress]_vars

(* Fairness: nothing fails, the schedule wakes the worker, Lambda runs it  *)
(* and the requests; reports fall due.                                     *)
FairSpec ==
  /\ UnfailingSpec
  /\ WF_vars(Wakes) /\ WF_vars(WorkerStep)
  /\ \A c \in Clients : WF_vars(ClientStep(c))
  /\ \A r \in Runs, d \in Devices : WF_vars(FallsDue(r, d))

\* A run, even a paused one, ends with any of its incidents.
ClosingEndsRun ==
  \A r \in Runs, i \in Incidents :
    (run[r] # None /\ i \in run[r].incidents /\ incident[i] # "open") ~> ~Active(run[r])

\* Although a tick delivers only so much, every row gets its turn: a run ends
\* or waits for its owner.
RunsSettle ==
  \A r \in Runs : (run[r] # None) ~> (run[r] = None \/ run[r].status # "running")

=============================================================================
