------------------------ MODULE SimulationRunsProofs ------------------------
(***************************************************************************)
(* Proofs about SimulationRuns, for any runs, devices, incidents and       *)
(* requests in flight.                                                     *)
(***************************************************************************)
EXTENDS SimulationRuns, FiniteSetTheorems, TLAPS

-----------------------------------------------------------------------------
(* Copies and locks: what the optimistic writes rest on                    *)
(*                                                                         *)
(* Below, R stands for the runs' rows, L for the lock row and S for the    *)
(* runs started, so that a state can be compared with the next.            *)

\* A copy with the revision of the row is the row.
Current(row, held) == row # None /\ row.revision = held.revision
TrueCopy(row, held) == Current(row, held) => held = row
TrueLocks(L, seen) == seen.revision = L.revision => seen = L

\* A stop or resume holds an active copy; a start has seen its devices free,
\* and its run started by nobody since if the locks are as it read them.
ClientOK(c, R, L, S) ==
  /\ c.pc \in {"resume", "stop", "commit"} =>
       /\ c.id # None /\ c.held # None /\ Active(c.held) /\ TrueCopy(R[c.id], c.held)
  /\ c.pc \in {"start", "commit"} => c.id # None /\ c.locks # None /\ TrueLocks(L, c.locks)
  /\ c.pc = "start" =>
       /\ \A d \in DevicesOf(c.id) : c.locks.devices[d] = None
       /\ c.locks.revision = L.revision => c.id \notin S

Holding == {"incidents", "scan", "deliver", "save", "exhausted", "finish", "commit", "pause"}

\* The device of the row the worker looks at.
At(w) == Rows[w.id][((w.base + w.visited) % Len(Rows[w.id])) + 1]

\* While the worker holds an answer it has not saved its copy is ahead of the
\* row, which is still running if nobody wrote it.
WorkerOK(w, R, L, S) ==
  /\ w.pc \in Holding \cup {"recover"} => w.id # None /\ w.id \in S
  /\ w.pc \in Holding => w.held # None
  /\ w.pc = "commit" => w.locks # None /\ TrueLocks(L, w.locks)
  /\ w.id \notin w.page
  /\ w.pc \in Holding \ {"save"} => TrueCopy(R[w.id], w.held)
  /\ w.pc = "save" /\ Current(R[w.id], w.held) => R[w.id].status = "running"
  /\ w.pc \in {"scan", "deliver", "pause"} => w.held.status = "running"
  /\ w.pc = "deliver" => w.done < PerTick /\ w.held.index[At(w)] < Reports[At(w)]
  /\ w.pc \in {"save", "exhausted"} => Active(w.held)
  /\ w.pc \in {"incidents", "finish", "commit"} => w.held.status # "completed"
  /\ w.pc \in {"finish", "commit"} /\ w.verdict = "completed" => Active(w.held)
  /\ \A r \in w.page : R[r] # None => R[r].status # "completed"

\* What the sweep has read is still there, and what had ended has.
CleanerOK(z, R, L) ==
  /\ z.pc # "idle" => z.incident # None
  /\ z.pc \in {"finish", "commit", "delete"} =>
       /\ z.id # None /\ z.held # None /\ R[z.id] # None
       /\ \A y \in z.page : y[1] # z.id
  /\ z.pc \in {"finish", "commit"} => Active(z.held) /\ TrueCopy(R[z.id], z.held)
  /\ z.pc = "commit" => z.locks # None /\ TrueLocks(L, z.locks)
  /\ z.pc = "delete" => ~Active(R[z.id])
  /\ \A y \in z.page : /\ R[y[1]] # None /\ TrueCopy(R[y[1]], y[2])
                       /\ ~Active(y[2]) => ~Active(R[y[1]])
  /\ \A x, y \in z.page : x[1] = y[1] => x = y
  /\ z.pc \in {"idle", "query"} => z.page = {}

\* LocksAreExact, pointwise, and no row of a run that was not started.
Exact(R, L, J, S) ==
  /\ \A r \in Runs, d \in Devices :
       L.devices[d] = r <=> Active(R[r]) /\ d \in DevicesOf(r)
  /\ \A r \in Runs : r \in J <=> Active(R[r])
  /\ \A r \in Runs : R[r] # None => r \in S

CopiesInv ==
  /\ TypeOK
  /\ Exact(run, locks, jobs, started)
  /\ WorkerOK(worker, run, locks, started)
  /\ CleanerOK(cleaner, run, locks)
  /\ \A c \in Clients : ClientOK(client[c], run, locks, started)

-----------------------------------------------------------------------------
(* Revisions *)

LEMMA ImageFinite ==
  ASSUME NEW D, IsFiniteSet(D), NEW T, NEW f \in [D -> T], \A t \in T : \E s \in D : f[s] = t
  PROVE  IsFiniteSet(T)
<1> f \in Surjection(D, T)  BY DEF Surjection
<1> QED  BY FS_Surjection

\* Among one number more than have been used there is one that has not.
LEMMA FreshIsFresh ==
  ASSUME NEW used, IsFiniteSet(used)
  PROVE  Fresh(used) \in Nat /\ Fresh(used) \notin used
<1> DEFINE n == Cardinality(used)
<1>1. n \in Nat  BY FS_CardinalityType
<1>2. IsFiniteSet(0 .. n) /\ Cardinality(0 .. n) = n + 1  BY <1>1, FS_Interval
<1>3. \E m \in 0 .. n : m \notin used
  <2> SUFFICES ASSUME 0 .. n \subseteq used PROVE FALSE  OBVIOUS
  <2>1. Cardinality(0 .. n) <= Cardinality(used)  BY FS_Subset
  <2> QED  BY <1>1, <1>2, <2>1
<1> QED  BY <1>1, <1>3 DEF Fresh

\* The processes that hold something, and the rows of one run they hold.
LEMMA HoldersAreFinite ==
  ASSUME IsFiniteSet(Clients), NEW Q, NEW C, C = {client[c] : c \in Clients},
         Q \subseteq {worker, cleaner} \cup C
  PROVE  IsFiniteSet(Q)
<1>1. IsFiniteSet(C)
  <2> DEFINE f == [c \in Clients |-> client[c]]
  <2>1. f \in [Clients -> C] /\ \A t \in C : \E s \in Clients : f[s] = t  OBVIOUS
  <2> HIDE DEF f
  <2> QED  BY <2>1, ImageFinite
<1>2. IsFiniteSet({worker}) /\ IsFiniteSet({cleaner})  BY FS_Singleton
<1>3. IsFiniteSet({worker} \cup ({cleaner} \cup C))  BY <1>1, <1>2, FS_Union
<1>4. Q \subseteq {worker} \cup ({cleaner} \cup C)  OBVIOUS
<1> QED  BY <1>3, <1>4, FS_Subset

Unknown(rev, x) == x # None => x.revision # rev

\* No copy of the run has its next revision.
FreshRow(r, n) ==
  /\ n \in Nat
  /\ Unknown(n, run[r])
  /\ worker.id = r => Unknown(n, worker.held)
  /\ cleaner.id = r => Unknown(n, cleaner.held)
  /\ \A c \in Clients : client[c].id = r => Unknown(n, client[c].held)
  /\ \A y \in cleaner.page : y[1] = r => Unknown(n, y[2])

LEMMA RunRevisionIsFresh ==
  ASSUME IsFiniteSet(Clients), NEW r,
         \A x, y \in cleaner.page : x[1] = y[1] => x = y
  PROVE  FreshRow(r, RunRevision(r))
<1>1. PICK C : C = {client[c] : c \in Clients}  OBVIOUS
<1>2. PICK Q : Q = {q \in {worker, cleaner} \cup C : q.id = r}  OBVIOUS
<1>3. PICK H : H = {p.held : p \in Q}  OBVIOUS
<1>4. PICK Y : Y = {z \in cleaner.page : z[1] = r}  OBVIOUS
<1>5. PICK G : G = {y[2] : y \in Y}  OBVIOUS
<1>6. PICK U : U = ({run[r]} \cup H \cup G) \ {None}  OBVIOUS
<1>7. PICK V : V = {x.revision : x \in U}  OBVIOUS
<1>8. RunRevision(r) = Fresh(V)
  BY <1>1, <1>2, <1>3, <1>4, <1>5, <1>6, <1>7 DEF RunRevision
<1>9. IsFiniteSet(Q)  BY <1>1, <1>2, HoldersAreFinite
<1>10. IsFiniteSet(H)
  <2> DEFINE f == [p \in Q |-> p.held]
  <2>1. f \in [Q -> H] /\ \A t \in H : \E s \in Q : f[s] = t  BY <1>3
  <2> HIDE DEF f
  <2> QED  BY <2>1, <1>9, ImageFinite
<1>11. IsFiniteSet(G)
  <2>1. CASE Y = {}
    <3> G = {}  BY <2>1, <1>5
    <3> QED  BY FS_EmptySet
  <2>2. CASE Y # {}
    <3>1. PICK y \in Y : TRUE  BY <2>2
    <3>2. Y = {y}  BY <3>1, <1>4
    <3>3. G = {y[2]}  BY <3>2, <1>5
    <3> QED  BY <3>3, FS_Singleton
  <2> QED  BY <2>1, <2>2
<1>12. IsFiniteSet(U)
  <2>1. IsFiniteSet({run[r]})  BY FS_Singleton
  <2>2. IsFiniteSet({run[r]} \cup H)  BY <2>1, <1>10, FS_Union
  <2>3. IsFiniteSet(({run[r]} \cup H) \cup G)  BY <2>2, <1>11, FS_Union
  <2>4. U \subseteq ({run[r]} \cup H) \cup G  BY <1>6
  <2> QED  BY <2>3, <2>4, FS_Subset
<1>13. IsFiniteSet(V)
  <2> DEFINE f == [x \in U |-> x.revision]
  <2>1. f \in [U -> V] /\ \A t \in V : \E s \in U : f[s] = t  BY <1>7
  <2> HIDE DEF f
  <2> QED  BY <2>1, <1>12, ImageFinite
<1>14. Fresh(V) \in Nat /\ Fresh(V) \notin V  BY <1>13, FreshIsFresh
<1>15. \A x \in U : x.revision # Fresh(V)  BY <1>14, <1>7
<1>16. \A q \in Q : Unknown(Fresh(V), q.held)  BY <1>15, <1>6, <1>3 DEF Unknown
<1>17. \A y \in Y : Unknown(Fresh(V), y[2])  BY <1>15, <1>6, <1>5 DEF Unknown
<1>18. Unknown(Fresh(V), run[r])  BY <1>15, <1>6 DEF Unknown
<1>19. \A c \in Clients : client[c].id = r => Unknown(Fresh(V), client[c].held)
  BY <1>16, <1>1, <1>2
<1>20. /\ worker.id = r => Unknown(Fresh(V), worker.held)
       /\ cleaner.id = r => Unknown(Fresh(V), cleaner.held)
  BY <1>16, <1>2
<1>21. \A y \in cleaner.page : y[1] = r => Unknown(Fresh(V), y[2])  BY <1>17, <1>4
<1> QED  BY <1>8, <1>14, <1>18, <1>19, <1>20, <1>21 DEF FreshRow

\* No copy of the locks has their next revision.
FreshLocks(n) ==
  /\ n \in Nat
  /\ n # locks.revision
  /\ Unknown(n, worker.locks) /\ Unknown(n, cleaner.locks)
  /\ \A c \in Clients : Unknown(n, client[c].locks)

LEMMA LocksRevisionIsFresh ==
  ASSUME IsFiniteSet(Clients), locks # None
  PROVE  FreshLocks(LocksRevision)
<1>1. PICK C : C = {client[c].locks : c \in Clients}  OBVIOUS
<1>2. PICK U : U = ({locks, worker.locks, cleaner.locks} \cup C) \ {None}  OBVIOUS
<1>3. PICK V : V = {x.revision : x \in U}  OBVIOUS
<1>4. LocksRevision = Fresh(V)  BY <1>1, <1>2, <1>3 DEF LocksRevision
<1>5. IsFiniteSet(C)
  <2> DEFINE f == [c \in Clients |-> client[c].locks]
  <2>1. f \in [Clients -> C] /\ \A t \in C : \E s \in Clients : f[s] = t  BY <1>1
  <2> HIDE DEF f
  <2> QED  BY <2>1, ImageFinite
<1>6. IsFiniteSet(U)
  <2>1. IsFiniteSet({locks}) /\ IsFiniteSet({worker.locks}) /\ IsFiniteSet({cleaner.locks})
    BY FS_Singleton
  <2>2. IsFiniteSet({cleaner.locks} \cup C)  BY <2>1, <1>5, FS_Union
  <2>3. IsFiniteSet({worker.locks} \cup ({cleaner.locks} \cup C))  BY <2>1, <2>2, FS_Union
  <2>4. IsFiniteSet({locks} \cup ({worker.locks} \cup ({cleaner.locks} \cup C)))
    BY <2>1, <2>3, FS_Union
  <2>5. U \subseteq {locks} \cup ({worker.locks} \cup ({cleaner.locks} \cup C))  BY <1>2
  <2> QED  BY <2>4, <2>5, FS_Subset
<1>7. IsFiniteSet(V)
  <2> DEFINE f == [x \in U |-> x.revision]
  <2>1. f \in [U -> V] /\ \A t \in V : \E s \in U : f[s] = t  BY <1>3
  <2> HIDE DEF f
  <2> QED  BY <2>1, <1>6, ImageFinite
<1>8. Fresh(V) \in Nat /\ Fresh(V) \notin V  BY <1>7, FreshIsFresh
<1>9. \A x \in U : x.revision # Fresh(V)  BY <1>8, <1>3
<1> QED  BY <1>9, <1>8, <1>4, <1>1, <1>2 DEF FreshLocks, Unknown

-----------------------------------------------------------------------------
(* What a step of one leaves true of the others *)

LEMMA ClientStays ==
  ASSUME NEW c, NEW R, NEW L, NEW S, NEW R2, NEW L2, NEW S2, ClientOK(c, R, L, S),
         c.held # None => R2[c.id] = R[c.id] \/ ~Current(R2[c.id], c.held),
         (L2 = L /\ S2 = S) \/ Unknown(L2.revision, c.locks)
  PROVE  ClientOK(c, R2, L2, S2)
  BY DEF ClientOK, TrueCopy, TrueLocks, Current, Unknown

LEMMA WorkerStays ==
  ASSUME NEW w, NEW R, NEW L, NEW S, NEW R2, NEW L2, NEW S2, WorkerOK(w, R, L, S),
         w.held # None => R2[w.id] = R[w.id] \/ ~Current(R2[w.id], w.held),
         L2 = L \/ Unknown(L2.revision, w.locks), S \subseteq S2,
         \A r \in w.page : R2[r] = R[r] \/ R2[r] = None \/ R2[r].status # "completed"
  PROVE  WorkerOK(w, R2, L2, S2)
  BY DEF WorkerOK, TrueCopy, TrueLocks, Current, Unknown, Holding

LEMMA CleanerStays ==
  ASSUME NEW z, NEW R, NEW L, NEW R2, NEW L2, CleanerOK(z, R, L),
         z.held # None => R2[z.id] = R[z.id] \/ ~Current(R2[z.id], z.held),
         \A y \in z.page : R2[y[1]] = R[y[1]] \/ ~Current(R2[y[1]], y[2]),
         L2 = L \/ Unknown(L2.revision, z.locks),
         \A r : R[r] # None => R2[r] # None /\ (Active(R2[r]) => Active(R[r]))
  PROVE  CleanerOK(z, R2, L2)
  BY DEF CleanerOK, TrueCopy, TrueLocks, Current, Unknown

\* A new row of a run that exists and has ended is not active.
Advances(r) ==
  \E row \in Run :
    /\ run' = [run EXCEPT ![r] = row] /\ row.revision = RunRevision(r)
    /\ run[r] # None /\ Active(row) => Active(run[r])

LocksMove == UNCHANGED <<locks, started>> \/ (locks'.revision = LocksRevision /\ started \subseteq started')

LEMMA FreshNow ==
  ASSUME CopiesInv, NEW r \in Runs
  PROVE  FreshRow(r, RunRevision(r)) /\ FreshLocks(LocksRevision)
<1>1. IsFiniteSet(Clients)  BY SimulationAssumption DEF SimulationAssumption
<1>2. \A x, y \in cleaner.page : x[1] = y[1] => x = y  BY DEF CopiesInv, CleanerOK
<1>3. locks # None  BY NoneAssumption DEF CopiesInv, TypeOK
<1> QED  BY <1>1, <1>2, <1>3, RunRevisionIsFresh, LocksRevisionIsFresh

LEMMA OthersStay ==
  ASSUME CopiesInv, NEW r \in Runs, Advances(r), LocksMove
  PROVE  /\ \A c \in Clients : ClientOK(client[c], run', locks', started')
         /\ CleanerOK(cleaner, run', locks')
         /\ r \notin worker.page \/ run'[r].status # "completed" =>
              WorkerOK(worker, run', locks', started')
<1> USE DEF CopiesInv
<1>1. PICK row \in Run : /\ run' = [run EXCEPT ![r] = row] /\ row.revision = RunRevision(r)
                         /\ run[r] # None /\ Active(row) => Active(run[r])
  BY DEF Advances
<1>2. FreshRow(r, RunRevision(r)) /\ FreshLocks(LocksRevision)  BY FreshNow
<1> USE <1>1, <1>2
<1>3. row # None  BY NoneAssumption
<1>4. run'[r] = row /\ \A q : q # r => run'[q] = run[q]
  BY DEF TypeOK
<1>5. UNCHANGED <<locks, started>> \/ (locks'.revision = LocksRevision /\ started \subseteq started')
  BY DEF LocksMove
<1>6. ASSUME NEW c \in Clients PROVE ClientOK(client[c], run', locks', started')
  <2>1. client[c].held # None => run'[client[c].id] = run[client[c].id]
                                   \/ ~Current(run'[client[c].id], client[c].held)
    BY <1>4 DEF FreshRow, Current, Unknown
  <2>2. (locks' = locks /\ started' = started) \/ Unknown(locks'.revision, client[c].locks)
    BY <1>5 DEF FreshLocks
  <2> QED  BY <2>1, <2>2, ClientStays
<1>7. CleanerOK(cleaner, run', locks')
  <2>1. cleaner.held # None => run'[cleaner.id] = run[cleaner.id]
                                 \/ ~Current(run'[cleaner.id], cleaner.held)
    BY <1>4 DEF FreshRow, Current, Unknown
  <2>2. cleaner.page \subseteq Runs \X Run  BY DEF TypeOK, Cleaner
  <2>3. \A y \in cleaner.page : run'[y[1]] = run[y[1]] \/ ~Current(run'[y[1]], y[2])
    <3> SUFFICES ASSUME NEW y \in cleaner.page, y[1] = r
                 PROVE  ~Current(run'[y[1]], y[2])
      BY <1>4
    <3> y[2] # None  BY <2>2, NoneAssumption
    <3> QED  BY <1>4 DEF FreshRow, Current, Unknown
  <2>4. locks' = locks \/ Unknown(locks'.revision, cleaner.locks)  BY <1>5 DEF FreshLocks
  <2>5. \A q : run[q] # None => run'[q] # None /\ (Active(run'[q]) => Active(run[q]))
    BY <1>3, <1>4
  <2> QED  BY <2>1, <2>3, <2>4, <2>5, CleanerStays
<1>8. ASSUME r \notin worker.page \/ run'[r].status # "completed"
      PROVE  WorkerOK(worker, run', locks', started')
  <2>1. worker.held # None => run'[worker.id] = run[worker.id]
                                 \/ ~Current(run'[worker.id], worker.held)
    BY <1>4 DEF FreshRow, Current, Unknown
  <2>2. locks' = locks \/ Unknown(locks'.revision, worker.locks)  BY <1>5 DEF FreshLocks
  <2>3. \A q \in worker.page : run'[q] = run[q] \/ run'[q] = None \/ run'[q].status # "completed"
    BY <1>4, <1>8
  <2>4. started \subseteq started'  BY <1>5
  <2> QED  BY <2>1, <2>2, <2>3, <2>4, WorkerStays
<1> QED  BY <1>6, <1>7, <1>8

-----------------------------------------------------------------------------
(* What is left to show of a step *)

RowsTyped ==
  /\ run \in [Runs -> Run \cup {None}] /\ locks \in Locks
  /\ jobs \subseteq Runs /\ started \subseteq Runs

WorldTyped ==
  /\ receipts \in [Ids -> Receipt] /\ published \subseteq Ids /\ late \in [Runs -> Nat]
  /\ incident \in [Incidents -> {"open", "resolved", "deleted"}] /\ purged \subseteq Incidents
  /\ due \in [Runs -> [Devices -> Nat]] /\ commands \in 0 .. MaxCommands

ProcessesTyped ==
  /\ worker \in Worker /\ worker.done <= PerTick
  /\ client \in [Clients -> Client] /\ cleaner \in Cleaner

LEMMA TypeParts == TypeOK <=> RowsTyped /\ WorldTyped /\ ProcessesTyped
  BY DEF TypeOK, RowsTyped, WorldTyped, ProcessesTyped

LEMMA WorldStays == ASSUME WorldTyped, UNCHANGED <<ingress, world>> PROVE WorldTyped'
  BY DEF WorldTyped, ingress, world

LEMMA WorkerMoves ==
  ASSUME CopiesInv, UNCHANGED <<rows, started, client, cleaner>>, WorldTyped',
         NEW w, w = worker', w \in Worker, w.done <= PerTick,
         WorkerOK(w, run, locks, started)
  PROVE  CopiesInv'
<1>1. RowsTyped'  BY TypeParts DEF CopiesInv, RowsTyped, rows
<1>2. ProcessesTyped'  BY TypeParts DEF CopiesInv, ProcessesTyped
<1>3. TypeOK'  BY <1>1, <1>2, TypeParts, PTL
<1> QED  BY <1>3 DEF CopiesInv, rows

LEMMA ClientMoves ==
  ASSUME CopiesInv, UNCHANGED <<rows, started, worker, cleaner>>, WorldTyped',
         NEW c \in Clients, NEW o, client' = [client EXCEPT ![c] = o], o \in Client,
         ClientOK(o, run, locks, started)
  PROVE  CopiesInv'
<1> USE DEF CopiesInv
<1>1. RowsTyped'  BY TypeParts DEF RowsTyped, rows
<1>2. ProcessesTyped'  BY TypeParts DEF ProcessesTyped
<1>3. TypeOK'  BY <1>1, <1>2, TypeParts, PTL
<1>4. \A b \in Clients : client'[b] = IF b = c THEN o ELSE client[b]  BY DEF TypeOK
<1>5. \A b \in Clients : ClientOK(client'[b], run, locks, started)  BY <1>4
<1> QED  BY <1>3, <1>5 DEF rows

LEMMA CleanerMoves ==
  ASSUME CopiesInv, UNCHANGED <<rows, started, worker, client>>, WorldTyped',
         NEW z, z = cleaner', z \in Cleaner, CleanerOK(z, run, locks)
  PROVE  CopiesInv'
<1>1. RowsTyped'  BY TypeParts DEF CopiesInv, RowsTyped, rows
<1>2. ProcessesTyped'  BY TypeParts DEF CopiesInv, ProcessesTyped
<1>3. TypeOK'  BY <1>1, <1>2, TypeParts, PTL
<1> QED  BY <1>3 DEF CopiesInv, rows

LEMMA WorldMoves ==
  ASSUME CopiesInv, UNCHANGED <<rows, started, worker, client, cleaner>>, WorldTyped'
  PROVE  CopiesInv'
<1>1. RowsTyped'  BY TypeParts DEF CopiesInv, RowsTyped, rows
<1>2. ProcessesTyped'  BY TypeParts DEF CopiesInv, ProcessesTyped
<1>3. TypeOK'  BY <1>1, <1>2, TypeParts, PTL
<1> QED  BY <1>3 DEF CopiesInv, rows

-----------------------------------------------------------------------------
(* The worker's steps that write no row *)

LEMMA InvWakes == ASSUME CopiesInv, Wakes PROVE CopiesInv'
<1> USE DEF CopiesInv
<1>1. PICK w : w = worker'  OBVIOUS
<1>2. w = [IdleWorker EXCEPT !.pc = "next", !.page = jobs, !.knew = Known]  BY <1>1 DEF Wakes
<1>3. jobs \subseteq Runs /\ Known \subseteq Incidents  BY DEF TypeOK, Known
<1>4. /\ w \in Worker /\ w.done = 0 /\ w.pc = "next" /\ w.page = jobs /\ w.id = None
      /\ w.held = None
  BY ONLY <1>2, <1>3 DEF IdleWorker, Worker
<1>5. \A r \in jobs : run[r] # None => run[r].status # "completed"
  BY <1>3 DEF Exact, Active
<1>6. WorkerOK(w, run, locks, started)
  BY <1>3, <1>4, <1>5, SimulationAssumption DEF WorkerOK, Holding, SimulationAssumption
<1>7. UNCHANGED <<rows, started, client, cleaner>> /\ WorldTyped'
  BY TypeParts, WorldStays DEF Wakes, world
<1>8. 0 <= PerTick  BY SimulationAssumption DEF SimulationAssumption
<1> QED  BY <1>1, <1>4, <1>6, <1>7, <1>8, WorkerMoves

LEMMA IdleWorkerOK ==
  IdleWorker \in Worker /\ IdleWorker.done = 0 /\ WorkerOK(IdleWorker, run, locks, started)
<1>1. IdleWorker \in Worker  BY DEF IdleWorker, Worker
<1>2. WorkerOK(IdleWorker, run, locks, started)  BY DEF IdleWorker, WorkerOK, Holding
<1> QED  BY <1>1, <1>2 DEF IdleWorker

LEMMA InvWorkerIdle == ASSUME CopiesInv, EndsTick \/ WorkerDies PROVE CopiesInv'
<1>1. UNCHANGED <<rows, started, client, cleaner>> /\ WorldTyped'
  BY TypeParts, WorldStays DEF CopiesInv, EndsTick, WorkerDies, world
<1>2. worker' = IdleWorker  BY DEF EndsTick, WorkerDies
<1>3. 0 <= PerTick  BY SimulationAssumption DEF SimulationAssumption
<1> QED  BY <1>1, <1>2, <1>3, IdleWorkerOK, WorkerMoves

LEMMA NextJobOK ==
  ASSUME NEW w \in Worker, NEW R, NEW L, NEW S, WorkerOK(w, R, L, S)
  PROVE  /\ NextJob(w) \in Worker /\ NextJob(w).done = 0
         /\ WorkerOK(NextJob(w), R, L, S)
<1>1. PICK v : v = NextJob(w)  OBVIOUS
<1>2. /\ v \in Worker /\ v.pc = "next" /\ v.page = w.page /\ v.id = None /\ v.done = 0
  BY ONLY w \in Worker, <1>1 DEF NextJob, Worker
<1>3. w.page \subseteq Runs  BY DEF Worker
<1>4. WorkerOK(v, R, L, S)
  BY <1>2, <1>3, SimulationAssumption DEF WorkerOK, Holding, SimulationAssumption
<1> QED  BY <1>1, <1>2, <1>4

LEMMA InvTakesJob == ASSUME CopiesInv, NEW r \in Runs, TakesJob(r) PROVE CopiesInv'
<1> USE DEF CopiesInv
<1>1. PICK w : w = worker  OBVIOUS
<1>2. PICK v : v = worker'  OBVIOUS
<1>3. w \in Worker /\ w.done <= PerTick /\ WorkerOK(w, run, locks, started)  BY <1>1 DEF TypeOK
<1>4. w.pc = "next" /\ r \in w.page  BY <1>1 DEF TakesJob
<1>5. UNCHANGED <<rows, started, client, cleaner>> /\ WorldTyped'
  BY TypeParts, WorldStays DEF TakesJob, world
<1>6. CASE run[r] = None
  <2>1. v = [w EXCEPT !.page = @ \ {r}]  BY <1>1, <1>2, <1>6 DEF TakesJob
  <2>2. /\ v \in Worker /\ v.pc = "next" /\ v.page = w.page \ {r} /\ v.id = w.id
        /\ v.done = w.done
    BY ONLY <1>3, <1>4, <2>1 DEF Worker
  <2>3. WorkerOK(v, run, locks, started)  BY <1>3, <2>2 DEF WorkerOK, Holding
  <2> QED  BY <1>2, <1>3, <1>5, <2>2, <2>3, WorkerMoves
<1>7. CASE run[r] # None
  <2>1. PICK h : h = run[r]  OBVIOUS
  <2>2. v = [w EXCEPT !.page = @ \ {r}, !.pc = "incidents", !.id = r, !.held = h, !.done = 0]
    BY <1>1, <1>2, <1>7, <2>1 DEF TakesJob
  <2>3. h \in Run /\ h # None  BY <1>7, <2>1 DEF TypeOK
  <2>4. /\ v \in Worker /\ v.pc = "incidents" /\ v.page = w.page \ {r} /\ v.id = r
        /\ v.held = h /\ v.done = 0
    BY ONLY <1>3, <1>4, <2>2, <2>3 DEF Worker
  <2>5. r \in started /\ h.status # "completed"
    BY <1>1, <1>3, <1>4, <1>7, <2>1 DEF Exact, WorkerOK
  <2>6. r # None  BY SimulationAssumption DEF SimulationAssumption
  <2>7. WorkerOK(v, run, locks, started)
    BY <1>3, <2>1, <2>3, <2>4, <2>5, <2>6 DEF WorkerOK, Holding, TrueCopy
  <2>8. 0 <= PerTick  BY SimulationAssumption DEF SimulationAssumption
  <2> QED  BY <1>2, <1>5, <2>4, <2>7, <2>8, WorkerMoves
<1> QED  BY <1>6, <1>7

LEMMA InvChecksIncidents == ASSUME CopiesInv, ChecksIncidents PROVE CopiesInv'
<1> USE DEF CopiesInv
<1>1. PICK w : w = worker  OBVIOUS
<1>2. PICK v : v = worker'  OBVIOUS
<1>3. w \in Worker /\ w.done <= PerTick /\ WorkerOK(w, run, locks, started)  BY <1>1 DEF TypeOK
<1>4. w.pc = "incidents"  BY <1>1 DEF ChecksIncidents
<1>5. UNCHANGED <<rows, started, client, cleaner>> /\ WorldTyped'
  BY TypeParts, WorldStays DEF ChecksIncidents, world
<1>6. \/ v = [w EXCEPT !.pc = "finish", !.verdict = "stopped"]
      \/ v = NextJob(w)
      \/ w.held.status = "running" /\ v = [w EXCEPT !.pc = "scan", !.base = w.held.cursor]
  BY <1>1, <1>2 DEF ChecksIncidents
<1>7. w.held \in Run  BY <1>3, <1>4 DEF WorkerOK, Holding, Worker
<1>8. CASE v = [w EXCEPT !.pc = "finish", !.verdict = "stopped"]
  <2>1. /\ v \in Worker /\ v.pc = "finish" /\ v.page = w.page /\ v.id = w.id
        /\ v.held = w.held /\ v.done = w.done /\ v.verdict = "stopped"
    BY ONLY <1>3, <1>4, <1>8 DEF Worker
  <2>2. WorkerOK(v, run, locks, started)  BY <1>3, <1>4, <2>1 DEF WorkerOK, Holding
  <2> QED  BY <1>2, <1>3, <1>5, <2>1, <2>2, WorkerMoves
<1>9. CASE v = NextJob(w)
  <2>1. 0 <= PerTick  BY SimulationAssumption DEF SimulationAssumption
  <2> QED  BY <1>2, <1>3, <1>5, <1>9, <2>1, NextJobOK, WorkerMoves
<1>10. CASE w.held.status = "running" /\ v = [w EXCEPT !.pc = "scan", !.base = w.held.cursor]
  <2>1. w.held.cursor \in Nat  BY <1>7 DEF Run
  <2>2. /\ v \in Worker /\ v.pc = "scan" /\ v.page = w.page /\ v.id = w.id
        /\ v.held = w.held /\ v.done = w.done
    BY ONLY <1>3, <1>4, <1>10, <2>1 DEF Worker
  <2>3. WorkerOK(v, run, locks, started)  BY <1>3, <1>4, <1>10, <2>2 DEF WorkerOK, Holding
  <2> QED  BY <1>2, <1>3, <1>5, <2>2, <2>3, WorkerMoves
<1> QED  BY <1>6, <1>8, <1>9, <1>10

LEMMA InvEndsScan == ASSUME CopiesInv, EndsScan \/ StopsScanning PROVE CopiesInv'
<1> USE DEF CopiesInv
<1>1. PICK w : w = worker  OBVIOUS
<1>2. PICK v : v = worker'  OBVIOUS
<1>3. w \in Worker /\ w.done <= PerTick /\ WorkerOK(w, run, locks, started)  BY <1>1 DEF TypeOK
<1>4. w.pc = "scan" /\ v = [w EXCEPT !.pc = "exhausted"]
  BY <1>1, <1>2 DEF EndsScan, StopsScanning
<1>5. UNCHANGED <<rows, started, client, cleaner>> /\ WorldTyped'
  BY TypeParts, WorldStays DEF EndsScan, StopsScanning, world
<1>6. /\ v \in Worker /\ v.pc = "exhausted" /\ v.page = w.page /\ v.id = w.id
      /\ v.held = w.held /\ v.done = w.done
  BY ONLY <1>3, <1>4 DEF Worker
<1>7. WorkerOK(v, run, locks, started)  BY <1>3, <1>4, <1>6 DEF WorkerOK, Holding, Active
<1> QED  BY <1>2, <1>3, <1>5, <1>6, <1>7, WorkerMoves

LEMMA InvEndsWork == ASSUME CopiesInv, EndsWork PROVE CopiesInv'
<1> USE DEF CopiesInv
<1>1. PICK w : w = worker  OBVIOUS
<1>2. PICK v : v = worker'  OBVIOUS
<1>3. w \in Worker /\ w.done <= PerTick /\ WorkerOK(w, run, locks, started)  BY <1>1 DEF TypeOK
<1>4. w.pc = "exhausted" /\ (v = [w EXCEPT !.pc = "finish", !.verdict = "completed"]
                               \/ v = NextJob(w))
  BY <1>1, <1>2 DEF EndsWork
<1>5. UNCHANGED <<rows, started, client, cleaner>> /\ WorldTyped'
  BY TypeParts, WorldStays DEF EndsWork, world
<1>6. CASE v = [w EXCEPT !.pc = "finish", !.verdict = "completed"]
  <2>1. /\ v \in Worker /\ v.pc = "finish" /\ v.page = w.page /\ v.id = w.id
        /\ v.held = w.held /\ v.done = w.done
    BY ONLY <1>3, <1>4, <1>6 DEF Worker
  <2>2. WorkerOK(v, run, locks, started)  BY <1>3, <1>4, <2>1 DEF WorkerOK, Holding, Active
  <2> QED  BY <1>2, <1>3, <1>5, <2>1, <2>2, WorkerMoves
<1>7. CASE v = NextJob(w)
  <2>1. 0 <= PerTick  BY SimulationAssumption DEF SimulationAssumption
  <2> QED  BY <1>2, <1>3, <1>5, <1>7, <2>1, NextJobOK, WorkerMoves
<1> QED  BY <1>4, <1>6, <1>7

LEMMA InvWorkerReadsLocks == ASSUME CopiesInv, WorkerReadsLocks PROVE CopiesInv'
<1> USE DEF CopiesInv
<1>1. PICK w : w = worker  OBVIOUS
<1>2. PICK v : v = worker'  OBVIOUS
<1>3. PICK l : l = locks  OBVIOUS
<1>4. w \in Worker /\ w.done <= PerTick /\ WorkerOK(w, run, locks, started)  BY <1>1 DEF TypeOK
<1>5. l \in Locks /\ l # None  BY <1>3, NoneAssumption DEF TypeOK
<1>6. w.pc = "finish" /\ v = [w EXCEPT !.pc = "commit", !.locks = l]
  BY <1>1, <1>2, <1>3 DEF WorkerReadsLocks
<1>7. UNCHANGED <<rows, started, client, cleaner>> /\ WorldTyped'
  BY TypeParts, WorldStays DEF WorkerReadsLocks, world
<1>8. /\ v \in Worker /\ v.pc = "commit" /\ v.page = w.page /\ v.id = w.id
      /\ v.held = w.held /\ v.done = w.done /\ v.verdict = w.verdict /\ v.locks = l
  BY ONLY <1>4, <1>5, <1>6 DEF Worker
<1>9. WorkerOK(v, run, locks, started)
  BY <1>3, <1>4, <1>5, <1>6, <1>8 DEF WorkerOK, Holding, TrueLocks
<1> QED  BY <1>2, <1>4, <1>7, <1>8, <1>9, WorkerMoves

\* Giving up what it was doing.
RecoveringOf(w) == [w EXCEPT !.pc = "recover"]
LEMMA RecoverOK ==
  ASSUME NEW w \in Worker, NEW R, NEW L, NEW S, WorkerOK(w, R, L, S), w.pc \in Holding
  PROVE  /\ RecoveringOf(w) \in Worker /\ RecoveringOf(w).done = w.done
         /\ RecoveringOf(w).pc = "recover" /\ RecoveringOf(w).id = w.id
         /\ WorkerOK(RecoveringOf(w), R, L, S)
<1>1. PICK v : v = RecoveringOf(w)  OBVIOUS
<1>2. /\ v \in Worker /\ v.pc = "recover" /\ v.page = w.page /\ v.id = w.id /\ v.done = w.done
  BY ONLY w \in Worker, <1>1 DEF RecoveringOf, Worker
<1>3. WorkerOK(v, R, L, S)  BY <1>2 DEF WorkerOK, Holding
<1> QED  BY <1>1, <1>2, <1>3

LEMMA InvWorkerFails == ASSUME CopiesInv, WorkerFails PROVE CopiesInv'
<1> USE DEF CopiesInv
<1>1. PICK w : w = worker  OBVIOUS
<1>2. w \in Worker /\ w.done <= PerTick /\ WorkerOK(w, run, locks, started)  BY <1>1 DEF TypeOK
<1>3. w.pc \in Holding /\ worker' = RecoveringOf(w)
  BY <1>1 DEF WorkerFails, Holding, RecoveringOf
<1>4. UNCHANGED <<rows, started, client, cleaner>> /\ WorldTyped'
  BY TypeParts, WorldStays DEF WorkerFails, world
<1> QED  BY <1>2, <1>3, <1>4, RecoverOK, WorkerMoves

LEMMA InvRecovers == ASSUME CopiesInv, Recovers PROVE CopiesInv'
<1> USE DEF CopiesInv
<1>1. PICK w : w = worker  OBVIOUS
<1>2. PICK v : v = worker'  OBVIOUS
<1>3. PICK h : h = run[w.id]  OBVIOUS
<1>4. w \in Worker /\ w.done <= PerTick /\ WorkerOK(w, run, locks, started)  BY <1>1 DEF TypeOK
<1>5. /\ w.pc = "recover"
      /\ v = IF h # None /\ h.status = "running"
             THEN [w EXCEPT !.pc = "pause", !.held = h, !.locks = None] ELSE NextJob(w)
  BY <1>1, <1>2, <1>3 DEF Recovers
<1>6. UNCHANGED <<rows, started, client, cleaner>> /\ WorldTyped'
  BY TypeParts, WorldStays DEF Recovers, world
<1>7. CASE h # None /\ h.status = "running"
  <2>1. w.id \in Runs  BY <1>4, <1>5 DEF WorkerOK, Worker
  <2>2. h \in Run  BY <1>3, <1>7, <2>1 DEF TypeOK
  <2>3. v = [w EXCEPT !.pc = "pause", !.held = h, !.locks = None]  BY <1>5, <1>7
  <2>4. /\ v \in Worker /\ v.pc = "pause" /\ v.page = w.page /\ v.id = w.id
        /\ v.held = h /\ v.done = w.done
    BY ONLY <1>4, <2>2, <2>3 DEF Worker
  <2>5. WorkerOK(v, run, locks, started)
    BY <1>3, <1>4, <1>5, <1>7, <2>4 DEF WorkerOK, Holding, TrueCopy
  <2> QED  BY <1>2, <1>4, <1>6, <2>4, <2>5, WorkerMoves
<1>8. CASE ~(h # None /\ h.status = "running")
  <2>1. 0 <= PerTick  BY SimulationAssumption DEF SimulationAssumption
  <2>2. v = NextJob(w)  BY <1>5, <1>8
  <2> QED  BY <1>2, <1>4, <1>6, <2>1, <2>2, NextJobOK, WorkerMoves
<1> QED  BY <1>7, <1>8

-----------------------------------------------------------------------------
(* Writing rows *)

LEMMA SavedRow ==
  ASSUME CopiesInv, NEW r \in Runs, NEW held \in Run
  PROVE  /\ Saved(r, held) \in Run /\ Saved(r, held).revision = RunRevision(r)
         /\ Saved(r, held).status = held.status /\ Saved(r, held).index = held.index
         /\ Saved(r, held).pending = held.pending /\ Saved(r, held).cursor = held.cursor
         /\ Saved(r, held).incidents = held.incidents /\ Saved(r, held).follows = held.follows
<1>1. PICK n : n = RunRevision(r)  OBVIOUS
<1>2. n \in Nat  BY <1>1, FreshNow DEF FreshRow
<1>3. PICK s : s = Saved(r, held)  OBVIOUS
<1>4. s = [held EXCEPT !.revision = n]  BY <1>1, <1>3 DEF Saved
<1>5. /\ s \in Run /\ s.revision = n /\ s.status = held.status /\ s.index = held.index
      /\ s.pending = held.pending /\ s.cursor = held.cursor
      /\ s.incidents = held.incidents /\ s.follows = held.follows
  BY ONLY <1>2, <1>4, held \in Run DEF Run
<1> QED  BY <1>1, <1>3, <1>5

LEMMA ExactSaves ==
  ASSUME NEW R \in [Runs -> Run \cup {None}], NEW L, NEW J, NEW S, Exact(R, L, J, S),
         NEW r \in Runs, R[r] # None, NEW row, Active(row) <=> Active(R[r])
  PROVE  Exact([R EXCEPT ![r] = row], L, J, S)
<1>1. PICK Q : Q = [R EXCEPT ![r] = row]  OBVIOUS
<1>2. \A q \in Runs : Q[q] = IF q = r THEN row ELSE R[q]  BY <1>1
<1>3. \A q \in Runs : /\ Active(Q[q]) <=> Active(R[q])
                      /\ Q[q] # None => R[q] # None
  BY <1>2
<1>4. Exact(Q, L, J, S)  BY <1>3 DEF Exact
<1> QED  BY <1>1, <1>4

LEMMA ExactFinishes ==
  ASSUME NEW R \in [Runs -> Run \cup {None}], NEW L \in Locks, NEW J, NEW S, Exact(R, L, J, S),
         NEW r \in Runs, R[r] # None, NEW row, ~Active(row), NEW L2,
         \A d \in Devices : L2.devices[d] = IF L.devices[d] = r THEN None ELSE L.devices[d]
  PROVE  Exact([R EXCEPT ![r] = row], L2, J \ {r}, S)
<1>1. PICK Q : Q = [R EXCEPT ![r] = row]  OBVIOUS
<1>2. \A q \in Runs : Q[q] = IF q = r THEN row ELSE R[q]  BY <1>1
<1>3. ASSUME NEW q \in Runs, NEW d \in Devices
      PROVE  L2.devices[d] = q <=> Active(Q[q]) /\ d \in DevicesOf(q)
  <2>1. q # None  BY SimulationAssumption DEF SimulationAssumption
  <2>2. L2.devices[d] = q <=> L.devices[d] = q /\ q # r  BY <2>1
  <2> QED  BY <1>2, <2>2 DEF Exact
<1>4. \A q \in Runs : q \in J \ {r} <=> Active(Q[q])  BY <1>2 DEF Exact
<1>5. \A q \in Runs : Q[q] # None => q \in S  BY <1>2 DEF Exact
<1>6. Exact(Q, L2, J \ {r}, S)  BY <1>3, <1>4, <1>5 DEF Exact
<1> QED  BY <1>1, <1>6

\* A save that changes no more than what is active allows.
LEMMA Saves ==
  ASSUME CopiesInv, NEW r \in Runs, run[r] # None, NEW row \in Run,
         row.revision = RunRevision(r), Active(row) <=> Active(run[r]),
         run' = [run EXCEPT ![r] = row], UNCHANGED <<locks, jobs, started>>
  PROVE  /\ Advances(r) /\ LocksMove /\ RowsTyped'
         /\ Exact(run', locks', jobs', started')
<1> USE DEF CopiesInv
<1>1. Advances(r)  BY DEF Advances
<1>2. LocksMove  BY DEF LocksMove
<1>3. RowsTyped'  BY DEF TypeOK, RowsTyped
<1>4. run \in [Runs -> Run \cup {None}]  BY DEF TypeOK
<1>5. Exact(run', locks', jobs', started')  BY <1>4, ExactSaves
<1> QED  BY <1>1, <1>2, <1>3, <1>5

\* What finish may write, and what it leaves.
LEMMA Finishes ==
  ASSUME CopiesInv, NEW r \in Runs, NEW held \in Run, NEW seen, NEW status,
         MayFinish(r, held, seen), Finished(r, held, seen, status),
         TrueCopy(run[r], held), TrueLocks(locks, seen),
         status \in {"stopped", "completed"}, UNCHANGED started
  PROVE  /\ run[r] = held /\ held # None /\ Advances(r) /\ LocksMove /\ RowsTyped'
         /\ Exact(run', locks', jobs', started')
         /\ run' = [run EXCEPT ![r] = [Saved(r, held) EXCEPT !.status = status]]
         /\ run'[r] = [Saved(r, held) EXCEPT !.status = status]
         /\ run'[r].status = status /\ ~Active(run'[r]) /\ run'[r] # None
<1> USE DEF CopiesInv
<1>1. run[r] = held /\ seen = locks /\ held # None
  BY DEF MayFinish, MaySave, TrueCopy, TrueLocks, Current
<1>2. PICK s : s = Saved(r, held)  OBVIOUS
<1>3. s \in Run /\ s.revision = RunRevision(r)  BY <1>2, SavedRow
<1>4. PICK row : row = [s EXCEPT !.status = status]  OBVIOUS
<1>5. row \in Run /\ row.revision = s.revision /\ row.status = status
  BY ONLY <1>3, <1>4, status \in {"stopped", "completed"} DEF Run
<1>6. run' = [run EXCEPT ![r] = row] /\ locks' = Unlocked(r, locks) /\ jobs' = jobs \ {r}
  BY <1>1, <1>2, <1>4 DEF Finished
<1>7. ~Active(row) /\ row # None  BY <1>5, NoneAssumption DEF Active
<1>8. run \in [Runs -> Run \cup {None}] /\ locks \in Locks  BY DEF TypeOK
<1>9. run'[r] = row  BY <1>6, <1>8
<1>10. PICK n : n = LocksRevision  OBVIOUS
<1>11. n \in Nat  BY <1>10, FreshNow DEF FreshLocks
<1>12. locks' = [revision |-> n, devices |-> [d \in Devices |->
                   IF locks.devices[d] = r THEN None ELSE locks.devices[d]]]
  BY <1>6, <1>10 DEF Unlocked
<1>13. locks' \in Locks /\ locks'.revision = n
  BY <1>8, <1>11, <1>12 DEF Locks
<1>14. \A d \in Devices : locks'.devices[d] = IF locks.devices[d] = r THEN None ELSE locks.devices[d]
  BY <1>12
<1>15. Advances(r)  BY <1>3, <1>5, <1>6, <1>7 DEF Advances
<1>16. LocksMove  BY <1>10, <1>13 DEF LocksMove
<1>17. RowsTyped'  BY <1>5, <1>6, <1>8, <1>13 DEF TypeOK, RowsTyped
<1>18. run[r] # None  BY <1>1
<1>19. Exact(run', locks', jobs', started')
  BY <1>6, <1>7, <1>8, <1>14, <1>18, ExactFinishes
<1> QED  BY <1>1, <1>2, <1>4, <1>5, <1>6, <1>7, <1>9, <1>15, <1>16, <1>17, <1>19

(* A finish with the status "stopped", as a lemma the stop and the cleaner cite. *)
Stopped(r, held, seen) == Finished(r, held, seen, "stopped")

LEMMA Stops ==
  ASSUME CopiesInv, NEW r \in Runs, NEW held \in Run, NEW seen,
         MayFinish(r, held, seen), Stopped(r, held, seen),
         TrueCopy(run[r], held), TrueLocks(locks, seen), UNCHANGED started
  PROVE  /\ run[r] = held /\ Advances(r) /\ LocksMove /\ RowsTyped'
         /\ Exact(run', locks', jobs', started') /\ run'[r].status # "completed"
         /\ ~Active(run'[r]) /\ run'[r] # None
<1>1. PICK s : s = "stopped"  OBVIOUS
<1>2. Finished(r, held, seen, s) /\ s \in {"stopped", "completed"}  BY <1>1 DEF Stopped
<1>3. /\ run[r] = held /\ Advances(r) /\ LocksMove /\ RowsTyped'
      /\ Exact(run', locks', jobs', started') /\ run'[r].status = s
      /\ ~Active(run'[r]) /\ run'[r] # None
  BY <1>2, Finishes
<1> QED  BY <1>1, <1>3

LEMMA WorkerWrites ==
  ASSUME CopiesInv, NEW r \in Runs, Advances(r), LocksMove, RowsTyped', WorldTyped',
         Exact(run', locks', jobs', started'), UNCHANGED <<client, cleaner>>,
         NEW w, w = worker', w \in Worker, w.done <= PerTick,
         WorkerOK(w, run', locks', started')
  PROVE  CopiesInv'
<1>1. ProcessesTyped'  BY TypeParts DEF CopiesInv, ProcessesTyped
<1>2. TypeOK'  BY <1>1, TypeParts, PTL
<1>3. CleanerOK(cleaner', run', locks')
      /\ \A c \in Clients : ClientOK(client'[c], run', locks', started')
  BY OthersStay
<1> QED  BY <1>2, <1>3 DEF CopiesInv

LEMMA CleanerWrites ==
  ASSUME CopiesInv, NEW r \in Runs, Advances(r), LocksMove, RowsTyped', WorldTyped',
         Exact(run', locks', jobs', started'), UNCHANGED <<client, worker>>,
         run'[r].status # "completed", NEW z, z = cleaner', z \in Cleaner,
         CleanerOK(z, run', locks')
  PROVE  CopiesInv'
<1>1. ProcessesTyped'  BY TypeParts DEF CopiesInv, ProcessesTyped
<1>2. TypeOK'  BY <1>1, TypeParts, PTL
<1>3. WorkerOK(worker', run', locks', started')
      /\ \A c \in Clients : ClientOK(client'[c], run', locks', started')
  BY OthersStay
<1> QED  BY <1>2, <1>3 DEF CopiesInv

LEMMA IdleClientOK ==
  ASSUME NEW R, NEW L, NEW S
  PROVE IdleClient \in Client /\ ClientOK(IdleClient, R, L, S)
<1>1. IdleClient \in Client  BY DEF IdleClient, Client
<1>2. ClientOK(IdleClient, R, L, S)  BY DEF IdleClient, ClientOK
<1> QED  BY <1>1, <1>2

LEMMA ClientWrites ==
  ASSUME CopiesInv, NEW r \in Runs, Advances(r), LocksMove, RowsTyped', WorldTyped',
         Exact(run', locks', jobs', started'), UNCHANGED <<worker, cleaner>>,
         run'[r].status # "completed", NEW c \in Clients, IdleNow(c)
  PROVE  CopiesInv'
<1>1. client' = [client EXCEPT ![c] = IdleClient] /\ client \in [Clients -> Client]
  BY DEF IdleNow, CopiesInv, TypeOK
<1>2. client' \in [Clients -> Client]  BY <1>1, IdleClientOK
<1>3. ProcessesTyped'  BY <1>2, TypeParts DEF CopiesInv, ProcessesTyped
<1>4. TypeOK'  BY <1>3, TypeParts, PTL
<1>5. /\ WorkerOK(worker', run', locks', started') /\ CleanerOK(cleaner', run', locks')
      /\ \A b \in Clients : ClientOK(client[b], run', locks', started')
  BY OthersStay
<1>6. ASSUME NEW b \in Clients PROVE ClientOK(client'[b], run', locks', started')
  <2>1. client'[b] = IF b = c THEN IdleClient ELSE client[b]  BY <1>1
  <2> QED  BY <2>1, <1>5, IdleClientOK
<1> QED  BY <1>4, <1>5, <1>6 DEF CopiesInv

-----------------------------------------------------------------------------
(* The worker's steps that write rows or send reports *)

LEMMA InvPauses == ASSUME CopiesInv, Pauses PROVE CopiesInv'
<1> USE DEF CopiesInv
<1>1. PICK w : w = worker  OBVIOUS
<1>2. PICK r : r = w.id  OBVIOUS
<1>3. PICK h : h = w.held  OBVIOUS
<1>4. w \in Worker /\ w.done <= PerTick /\ WorkerOK(w, run, locks, started)  BY <1>1 DEF TypeOK
<1>5. w.pc = "pause" /\ worker' = NextJob(w) /\ UNCHANGED <<client, cleaner>>
  BY <1>1 DEF Pauses
<1>6. WorldTyped'  BY TypeParts, WorldStays DEF Pauses
<1>7. r \in Runs /\ h \in Run /\ h.status = "running" /\ TrueCopy(run[r], h)
  BY <1>2, <1>3, <1>4, <1>5 DEF WorkerOK, Holding, Worker
<1>8. NextJob(w) \in Worker /\ NextJob(w).done <= PerTick
  BY <1>4, NextJobOK, SimulationAssumption DEF SimulationAssumption
<1>9. CASE MaySave(r, h)
  <2>1. run[r] = h /\ h # None  BY <1>7, <1>9 DEF MaySave, TrueCopy, Current
  <2>2. PICK s : s = Saved(r, h)  OBVIOUS
  <2>3. s \in Run /\ s.revision = RunRevision(r)  BY <1>7, <2>2, SavedRow
  <2>4. PICK row : row = [s EXCEPT !.status = "paused"]  OBVIOUS
  <2>5. row \in Run /\ row.revision = s.revision /\ row.status = "paused"
    BY ONLY <2>3, <2>4 DEF Run
  <2>6. run' = [run EXCEPT ![r] = row] /\ UNCHANGED <<locks, jobs, started>>
    BY <1>1, <1>2, <1>3, <1>9, <2>2, <2>4 DEF Pauses, world
  <2>7. Active(row) <=> Active(run[r])  BY <1>7, <2>1, <2>5, NoneAssumption DEF Active
  <2>8. run[r] # None  BY <2>1
  <2>9. /\ Advances(r) /\ LocksMove /\ RowsTyped' /\ Exact(run', locks', jobs', started')
    BY <1>7, <2>3, <2>5, <2>6, <2>7, <2>8, Saves
  <2>10. r \notin worker.page  BY <1>1, <1>2, <1>4 DEF WorkerOK
  <2>11. WorkerOK(w, run', locks', started')  BY <1>1, <1>7, <2>9, <2>10, OthersStay
  <2> QED  BY <1>4, <1>5, <1>6, <1>7, <1>8, <2>9, <2>11, NextJobOK, WorkerWrites
<1>10. CASE ~MaySave(r, h)
  <2>1. UNCHANGED <<rows, started>>  BY <1>1, <1>2, <1>3, <1>10 DEF Pauses, rows, world
  <2> QED  BY <1>4, <1>5, <1>6, <1>8, <2>1, NextJobOK, WorkerMoves
<1> QED  BY <1>9, <1>10

LEMMA InvWorkerFinishes == ASSUME CopiesInv, WorkerFinishes PROVE CopiesInv'
<1> USE DEF CopiesInv
<1>1. PICK w : w = worker  OBVIOUS
<1>2. PICK r : r = w.id  OBVIOUS
<1>3. PICK h : h = w.held  OBVIOUS
<1>4. w \in Worker /\ w.done <= PerTick /\ WorkerOK(w, run, locks, started)  BY <1>1 DEF TypeOK
<1>5. w.pc = "commit" /\ UNCHANGED <<client, cleaner>>  BY <1>1 DEF WorkerFinishes
<1>6. WorldTyped'  BY TypeParts, WorldStays DEF WorkerFinishes
<1>7. r \in Runs /\ h \in Run /\ TrueCopy(run[r], h) /\ TrueLocks(locks, w.locks)
  BY <1>2, <1>3, <1>4, <1>5 DEF WorkerOK, Holding, Worker
<1>8. NextJob(w) \in Worker /\ NextJob(w).done <= PerTick
  BY <1>4, NextJobOK, SimulationAssumption DEF SimulationAssumption
<1>9. CASE MayFinish(r, h, w.locks)
  <2>1. Finished(r, h, w.locks, w.verdict) /\ worker' = NextJob(w) /\ UNCHANGED started
    BY <1>1, <1>2, <1>3, <1>9 DEF WorkerFinishes, world
  <2>2. w.verdict \in {"stopped", "completed"}  BY <1>4 DEF Worker
  <2>3. /\ Advances(r) /\ LocksMove /\ RowsTyped' /\ Exact(run', locks', jobs', started')
    BY <1>7, <1>9, <2>1, <2>2, Finishes
  <2>4. r \notin worker.page  BY <1>1, <1>2, <1>4 DEF WorkerOK
  <2>5. WorkerOK(w, run', locks', started')  BY <1>1, <1>7, <2>3, <2>4, OthersStay
  <2> QED  BY <1>4, <1>5, <1>6, <1>7, <1>8, <2>1, <2>3, <2>5, NextJobOK, WorkerWrites
<1>10. CASE ~MayFinish(r, h, w.locks)
  <2>1. UNCHANGED <<rows, started>> /\ worker' = RecoveringOf(w)
    BY <1>1, <1>2, <1>3, <1>10 DEF WorkerFinishes, world, RecoveringOf
  <2>2. w.pc \in Holding  BY <1>5 DEF Holding
  <2> QED  BY <1>4, <1>5, <1>6, <2>1, <2>2, RecoverOK, WorkerMoves
<1> QED  BY <1>9, <1>10

LEMMA InvSavesAnswer == ASSUME CopiesInv, SavesAnswer PROVE CopiesInv'
<1> USE DEF CopiesInv
<1>1. PICK w : w = worker  OBVIOUS
<1>2. PICK r : r = w.id  OBVIOUS
<1>3. PICK h : h = w.held  OBVIOUS
<1>4. w \in Worker /\ w.done <= PerTick /\ WorkerOK(w, run, locks, started)  BY <1>1 DEF TypeOK
<1>5. w.pc = "save" /\ UNCHANGED <<client, cleaner>>  BY <1>1 DEF SavesAnswer
<1>6. WorldTyped'  BY TypeParts, WorldStays DEF SavesAnswer
<1>7. r \in Runs /\ h \in Run /\ Active(h)
  BY <1>2, <1>3, <1>4, <1>5 DEF WorkerOK, Holding, Worker
<1>8. CASE MaySave(r, h)
  <2>1. run[r] # None /\ run[r].status = "running"
    BY <1>2, <1>3, <1>4, <1>5, <1>8 DEF MaySave, Current, WorkerOK
  <2>2. PICK row : row = Saved(r, h)  OBVIOUS
  <2>3. row \in Run /\ row.revision = RunRevision(r) /\ row.status = h.status
    BY <1>7, <2>2, SavedRow
  <2>4. run' = [run EXCEPT ![r] = row] /\ UNCHANGED <<locks, jobs, started>>
    BY <1>1, <1>2, <1>3, <1>8, <2>2 DEF SavesAnswer, world
  <2>5. row # None  BY <2>3, NoneAssumption
  <2>6. Active(row) /\ (Active(row) <=> Active(run[r]))  BY <1>7, <2>1, <2>3, <2>5 DEF Active
  <2>7. /\ Advances(r) /\ LocksMove /\ RowsTyped' /\ Exact(run', locks', jobs', started')
    BY <1>7, <2>1, <2>3, <2>4, <2>6, Saves
  <2>8. r \notin worker.page  BY <1>1, <1>2, <1>4 DEF WorkerOK
  <2>9. WorkerOK(w, run', locks', started')  BY <1>1, <1>7, <2>7, <2>8, OthersStay
  <2>10. PICK v : v = worker'  OBVIOUS
  <2> PICK p : p = IF row.status = "running" THEN "scan" ELSE "exhausted"  OBVIOUS
  <2> PICK x : x = w.visited + 1  OBVIOUS
  <2> x \in Nat  BY <1>4 DEF Worker
  <2>11. v = [w EXCEPT !.held = row, !.visited = x, !.pc = p] /\ p \in {"scan", "exhausted"}
    BY <1>1, <1>2, <1>3, <1>8, <2>2, <2>10 DEF SavesAnswer
  <2>12. /\ v \in Worker /\ v.pc = p /\ v.page = w.page /\ v.id = w.id /\ v.held = row
         /\ v.done = w.done
    BY ONLY <1>4, <2>3, <2>11, x \in Nat DEF Worker
  <2>13. run'[r] = row  BY <1>7, <2>4 DEF TypeOK
  <2>14. WorkerOK(v, run', locks', started')
    BY <1>2, <1>5, <2>5, <2>6, <2>9, <2>12, <2>13 DEF WorkerOK, Holding, TrueCopy
  <2> QED  BY <1>4, <1>5, <1>6, <1>7, <2>7, <2>10, <2>12, <2>14, WorkerWrites
<1>9. CASE ~MaySave(r, h)
  <2>1. UNCHANGED <<rows, started>> /\ worker' = RecoveringOf(w)
    BY <1>1, <1>2, <1>3, <1>9 DEF SavesAnswer, rows, world, RecoveringOf
  <2>2. w.pc \in Holding  BY <1>5 DEF Holding
  <2> QED  BY <1>4, <1>5, <1>6, <2>1, <2>2, RecoverOK, WorkerMoves
<1> QED  BY <1>8, <1>9

LEMMA InvSaveUnanswered == ASSUME CopiesInv, SaveUnanswered PROVE CopiesInv'
<1> USE DEF CopiesInv
<1>1. PICK w : w = worker  OBVIOUS
<1>2. PICK r : r = w.id  OBVIOUS
<1>3. PICK h : h = w.held  OBVIOUS
<1>4. w \in Worker /\ w.done <= PerTick /\ WorkerOK(w, run, locks, started)  BY <1>1 DEF TypeOK
<1>5. w.pc = "save" /\ MaySave(r, h) /\ UNCHANGED <<client, cleaner>>
  BY <1>1, <1>2, <1>3 DEF SaveUnanswered
<1>6. WorldTyped'  BY TypeParts, WorldStays DEF SaveUnanswered
<1>7. r \in Runs /\ h \in Run /\ Active(h) /\ run[r] # None /\ run[r].status = "running"
  BY <1>2, <1>3, <1>4, <1>5 DEF MaySave, Current, WorkerOK, Holding, Worker
<1>8. PICK row : row = Saved(r, h)  OBVIOUS
<1>9. row \in Run /\ row.revision = RunRevision(r) /\ row.status = h.status
  BY <1>7, <1>8, SavedRow
<1>10. run' = [run EXCEPT ![r] = row] /\ UNCHANGED <<locks, jobs, started>>
  BY <1>1, <1>2, <1>3, <1>8 DEF SaveUnanswered, world
<1>11. row # None  BY <1>9, NoneAssumption
<1>12. Active(row) /\ (Active(row) <=> Active(run[r]))  BY <1>7, <1>9, <1>11 DEF Active
<1>13. /\ Advances(r) /\ LocksMove /\ RowsTyped' /\ Exact(run', locks', jobs', started')
  BY <1>7, <1>9, <1>10, <1>12, Saves
<1>14. r \notin worker.page  BY <1>1, <1>2, <1>4, <1>5 DEF WorkerOK
<1>15. WorkerOK(w, run', locks', started')  BY <1>1, <1>7, <1>13, <1>14, OthersStay
<1>16. worker' = RecoveringOf(w) /\ w.pc \in Holding
  BY <1>1, <1>5 DEF SaveUnanswered, RecoveringOf, Holding
<1> QED  BY <1>4, <1>5, <1>6, <1>7, <1>13, <1>15, <1>16, RecoverOK, WorkerWrites

\* The device at a place of the rotation.
LEMMA RotationOK ==
  ASSUME NEW r \in Runs, NEW n \in Nat
  PROVE  /\ n % Len(Rows[r]) \in 0 .. Len(Rows[r]) - 1
         /\ Rows[r][(n % Len(Rows[r])) + 1] \in DevicesOf(r)
         /\ DevicesOf(r) \subseteq Devices
<1>1. Rows[r] \in Seq(Devices) /\ Len(Rows[r]) > 0
  BY SimulationAssumption DEF SimulationAssumption
<1>2. PICK m : m = Len(Rows[r])  OBVIOUS
<1>3. m \in Nat /\ m > 0  BY <1>1, <1>2
<1>4. PICK x : x = n % m  OBVIOUS
<1>5. x \in 0 .. m - 1  BY <1>3, <1>4
<1>6. x + 1 \in 1 .. m  BY <1>3, <1>5
<1>7. Rows[r][x + 1] \in Devices /\ DevicesOf(r) \subseteq Devices
  BY <1>1, <1>2, <1>6 DEF DevicesOf
<1>8. Rows[r][x + 1] \in DevicesOf(r)  BY <1>2, <1>6 DEF DevicesOf
<1> QED  BY <1>2, <1>4, <1>5, <1>7, <1>8

LEMMA InvScans == ASSUME CopiesInv, NEW k, Scans(k) PROVE CopiesInv'
<1> USE DEF CopiesInv
<1>1. PICK w : w = worker  OBVIOUS
<1>2. PICK r : r = w.id  OBVIOUS
<1>3. PICK h : h = w.held  OBVIOUS
<1>4. w \in Worker /\ w.done <= PerTick /\ WorkerOK(w, run, locks, started)  BY <1>1 DEF TypeOK
<1>5. w.pc = "scan" /\ w.done < PerTick /\ UNCHANGED <<client, cleaner>>
  BY <1>1 DEF Scans, MayDeliver
<1>6. WorldTyped'  BY TypeParts, WorldStays DEF Scans
<1>7. r \in Runs /\ h \in Run /\ h # None /\ TrueCopy(run[r], h) /\ h.status = "running"
  BY <1>2, <1>3, <1>4, <1>5 DEF WorkerOK, Holding, Worker
<1>8. PICK d : d = Rows[r][((w.base + k) % Len(Rows[r])) + 1]  OBVIOUS
<1>9. Reachable(k) /\ d = DeviceAt(k)  BY <1>1, <1>2, <1>8 DEF Scans, DeviceAt, Position
<1>10. k \in Nat
  <2>1. Len(Rows[r]) \in Nat /\ w.visited \in Nat
    BY <1>4, <1>7, SimulationAssumption DEF SimulationAssumption, Worker
  <2> QED  BY <1>1, <1>2, <1>9, <2>1 DEF Reachable
<1>11. d \in DevicesOf(r) /\ d \in Devices
  <2>1. w.base + k \in Nat  BY <1>4, <1>10 DEF Worker
  <2> QED  BY <1>7, <1>8, <2>1, RotationOK
<1>12. h.index[d] < Reports[d]  BY <1>1, <1>3, <1>9 DEF Reachable, Ready
<1>13. PICK v : v = worker'  OBVIOUS
<1>14. CASE d \in h.pending
  <2>1. v = [w EXCEPT !.pc = "deliver", !.visited = k] /\ UNCHANGED <<rows, started>>
    BY <1>1, <1>3, <1>9, <1>13, <1>14 DEF Scans, rows, world
  <2>2. /\ v \in Worker /\ v.pc = "deliver" /\ v.page = w.page /\ v.id = w.id
        /\ v.held = w.held /\ v.done = w.done /\ v.base = w.base /\ v.visited = k
    BY ONLY <1>4, <1>10, <2>1 DEF Worker
  <2>3. At(v) = d  BY <1>2, <1>8, <2>2 DEF At
  <2>4. WorkerOK(v, run, locks, started)
    BY <1>3, <1>4, <1>5, <1>12, <2>2, <2>3 DEF WorkerOK, Holding
  <2> QED  BY <1>4, <1>5, <1>6, <1>13, <2>1, <2>2, <2>4, WorkerMoves
<1>15. CASE d \notin h.pending /\ MaySave(r, h)
  <2>1. run[r] = h /\ run[r] # None  BY <1>7, <1>15 DEF MaySave, TrueCopy, Current
  <2>2. PICK s : s = Saved(r, h)  OBVIOUS
  <2>3. s \in Run /\ s.revision = RunRevision(r) /\ s.status = "running" /\ s.index = h.index
    BY <1>7, <2>2, SavedRow
  <2>4. PICK row : row = [s EXCEPT !.pending = @ \cup {d}]  OBVIOUS
  <2>5. row \in Run /\ row.revision = s.revision /\ row.status = s.status /\ row.index = s.index
    BY ONLY <1>11, <2>3, <2>4 DEF Run
  <2>6. /\ run' = [run EXCEPT ![r] = row] /\ UNCHANGED <<locks, jobs, started>>
        /\ v = [w EXCEPT !.pc = "deliver", !.visited = k, !.held = row]
    BY <1>1, <1>2, <1>3, <1>9, <1>13, <1>15, <2>2, <2>4 DEF Scans, world
  <2>7. row # None  BY <2>5, NoneAssumption
  <2>8. Active(row) <=> Active(run[r])  BY <1>7, <2>1, <2>3, <2>5, <2>7 DEF Active
  <2>9. /\ Advances(r) /\ LocksMove /\ RowsTyped' /\ Exact(run', locks', jobs', started')
    BY <1>7, <2>1, <2>3, <2>5, <2>6, <2>8, Saves
  <2>10. r \notin worker.page  BY <1>1, <1>2, <1>4 DEF WorkerOK
  <2>11. WorkerOK(w, run', locks', started')  BY <1>1, <1>7, <2>9, <2>10, OthersStay
  <2>12. /\ v \in Worker /\ v.pc = "deliver" /\ v.page = w.page /\ v.id = w.id
         /\ v.held = row /\ v.done = w.done /\ v.base = w.base /\ v.visited = k
    BY ONLY <1>4, <1>10, <2>5, <2>6 DEF Worker
  <2>13. run'[r] = row  BY <1>7, <2>6 DEF TypeOK
  <2>14. At(v) = d  BY <1>2, <1>8, <2>12 DEF At
  <2>15. WorkerOK(v, run', locks', started')
    BY <1>2, <1>5, <1>12, <2>3, <2>5, <2>7, <2>11, <2>12, <2>13, <2>14
    DEF WorkerOK, Holding, TrueCopy
  <2> QED  BY <1>4, <1>5, <1>6, <1>7, <1>13, <2>9, <2>12, <2>15, WorkerWrites
<1>16. CASE d \notin h.pending /\ ~MaySave(r, h)
  <2>1. UNCHANGED <<rows, started>> /\ worker' = RecoveringOf(w)
    BY <1>1, <1>2, <1>3, <1>9, <1>16 DEF Scans, rows, world, RecoveringOf
  <2>2. w.pc \in Holding  BY <1>5 DEF Holding
  <2> QED  BY <1>4, <1>5, <1>6, <2>1, <2>2, RecoverOK, WorkerMoves
<1> QED  BY <1>14, <1>15, <1>16

\* What ingestion answers and what it leaves of the receipt.
Answer == [receipt : Receipt, ok : BOOLEAN, told : Incidents \cup {None}]

LEMMA IngestionMakes ==
  ASSUME NEW x, NEW t, NEW troubled \in BOOLEAN, NEW o \in Ingestion(x, t, troubled),
         receipts[x] \in Receipt
  PROVE  /\ o \in Answer
         /\ \/ ~o.ok /\ o.told = None /\ o.receipt = receipts[x]
            \/ /\ o.receipt.stage \in {"bound", "charged", "published"}
               /\ o.ok <=> o.receipt.stage = "published"
               /\ o.told = o.receipt.incident
               /\ receipts[x].stage # "none" =>
                    o.told = receipts[x].incident /\ o.told \notin Known
               /\ receipts[x].stage = "none" =>
                    /\ o.told \in Incidents /\ incident[o.told] = "open"
                    /\ t # None => o.told = t
<1>1. PICK now : now = receipts[x]  OBVIOUS
<1>2. PICK open : open = {i \in Incidents : incident[i] = "open"}  OBVIOUS
<1>3. PICK home : home = IF now.stage # "none" THEN {now.incident} \ Known
                         ELSE IF t = None THEN open ELSE open \cap {t}
  OBVIOUS
<1> DEFINE Made(s, i) == o = [receipt |-> [stage |-> s, incident |-> i],
                              ok |-> s = "published", told |-> i]
<1>4. \/ \E i \in home, s \in {"bound", "charged", "published"} : Made(s, i)
      \/ o = [receipt |-> now, ok |-> FALSE, told |-> None]
  BY <1>1, <1>2, <1>3 DEF Ingestion
<1>5. CASE o = [receipt |-> now, ok |-> FALSE, told |-> None]
  BY <1>1, <1>5 DEF Answer
<1>6. ASSUME NEW i \in home, NEW s \in {"bound", "charged", "published"}, Made(s, i)
      PROVE  /\ i \in Incidents \cup {None}
             /\ now.stage # "none" => i = now.incident /\ i \notin Known
             /\ now.stage = "none" => /\ i \in Incidents /\ incident[i] = "open"
                                      /\ t # None => i = t
  BY <1>1, <1>2, <1>3, <1>6 DEF Receipt
<1>7. ASSUME NEW i \in home, NEW s \in {"bound", "charged", "published"}, Made(s, i)
      PROVE  /\ o.ok = (s = "published") /\ o.told = i
             /\ o.receipt.stage = s /\ o.receipt.incident = i
             /\ o.receipt = [stage |-> s, incident |-> i]
  BY <1>7
<1> HIDE DEF Made
<1>8. ASSUME NEW i \in home, NEW s \in {"bound", "charged", "published"}, Made(s, i)
      PROVE  o \in Answer
  <2>1. i \in Incidents \cup {None}  BY <1>6, <1>8
  <2>2. o = [receipt |-> [stage |-> s, incident |-> i], ok |-> s = "published", told |-> i]
    BY <1>8 DEF Made
  <2> QED  BY ONLY <2>1, <2>2 DEF Receipt, Answer
<1>9. ASSUME NEW i \in home, NEW s \in {"bound", "charged", "published"}, Made(s, i)
      PROVE  /\ o.receipt.stage \in {"bound", "charged", "published"}
             /\ o.ok <=> o.receipt.stage = "published"
             /\ o.told = o.receipt.incident
             /\ now.stage # "none" => o.told = now.incident /\ o.told \notin Known
             /\ now.stage = "none" =>
                  /\ o.told \in Incidents /\ incident[o.told] = "open"
                  /\ t # None => o.told = t
  <2>1. o.ok = (s = "published") /\ o.told = i /\ o.receipt.stage = s /\ o.receipt.incident = i
    BY <1>7, <1>9
  <2>2. /\ now.stage # "none" => i = now.incident /\ i \notin Known
        /\ now.stage = "none" => i \in Incidents /\ incident[i] = "open" /\ (t # None => i = t)
    BY <1>6, <1>9
  <2> QED  BY ONLY <1>9, <2>1, <2>2
<1>10. CASE \E i \in home, s \in {"bound", "charged", "published"} : Made(s, i)
  <2>1. PICK i \in home, s \in {"bound", "charged", "published"} : Made(s, i)  BY <1>10
  <2>2. o \in Answer  BY <1>8, <2>1
  <2> QED  BY <1>1, <1>9, <2>1, <2>2
<1> QED  BY <1>1, <1>4, <1>5, <1>10

\* The run after an answer.
LEMMA AnsweredRow ==
  ASSUME NEW h \in Run, h = worker.held, NEW d \in Devices, NEW o, o.ok \in BOOLEAN,
         o.told \in Incidents \cup {None},
         (Position(worker.visited) + 1) % Len(Rows[worker.id]) \in Nat
  PROVE  /\ Answered(d, o) \in Run
         /\ Answered(d, o).revision = h.revision
         /\ Answered(d, o).incidents = h.incidents \cup ({o.told} \ {None})
         /\ \A e \in Devices : e # d =>
              Answered(d, o).follows[e] = h.follows[e] /\ Answered(d, o).index[e] = h.index[e]
         /\ o.ok => /\ Answered(d, o).status = h.status
                    /\ Answered(d, o).pending = h.pending \ {d}
                    /\ Answered(d, o).follows[d] = o.told
                    /\ Answered(d, o).index[d] = h.index[d] + 1
         /\ ~o.ok => /\ Answered(d, o).status = "paused"
                     /\ Answered(d, o).pending = h.pending
                     /\ Answered(d, o).follows = h.follows
                     /\ Answered(d, o).index = h.index
<1>1. PICK n : n = (Position(worker.visited) + 1) % Len(Rows[worker.id])  OBVIOUS
<1>2. PICK known : known = h.incidents \cup ({o.told} \ {None})  OBVIOUS
<1>3. PICK s : s = IF o.ok THEN h.status ELSE "paused"  OBVIOUS
<1>4. PICK f : f = [h.follows EXCEPT ![d] = IF o.ok THEN o.told ELSE h.follows[d]]  OBVIOUS
<1>5. PICK x : x = [h.index EXCEPT ![d] = IF o.ok THEN h.index[d] + 1 ELSE h.index[d]]  OBVIOUS
<1>6. PICK p : p = IF o.ok THEN h.pending \ {d} ELSE h.pending  OBVIOUS
<1>7. PICK a : a = Answered(d, o)  OBVIOUS
<1>8. a = [h EXCEPT !.cursor = n, !.incidents = known, !.status = s, !.follows = f,
                    !.index = x, !.pending = p]
  BY <1>1, <1>2, <1>3, <1>4, <1>5, <1>6, <1>7 DEF Answered
<1>9. /\ n \in Nat /\ known \in SUBSET Incidents /\ s \in {"running", "paused", "completed", "stopped"}
      /\ f \in [Devices -> Incidents \cup {None}] /\ x \in [Devices -> Nat]
      /\ p \in SUBSET Devices
  BY <1>1, <1>2, <1>3, <1>4, <1>5, <1>6 DEF Run
<1>10. /\ a \in Run /\ a.revision = h.revision /\ a.status = s /\ a.incidents = known
       /\ a.pending = p /\ a.follows = f /\ a.index = x
  BY ONLY h \in Run, <1>8, <1>9 DEF Run
<1>11. h.follows \in [Devices -> Incidents \cup {None}] /\ h.index \in [Devices -> Nat]
  BY DEF Run
<1>12. \A e \in Devices : e # d => f[e] = h.follows[e] /\ x[e] = h.index[e]
  BY <1>4, <1>5, <1>11
<1>13. o.ok => s = h.status /\ p = h.pending \ {d} /\ f[d] = o.told /\ x[d] = h.index[d] + 1
  BY <1>3, <1>4, <1>5, <1>6, <1>11
<1>14. ~o.ok => s = "paused" /\ p = h.pending /\ f = h.follows /\ x = h.index
  BY <1>3, <1>4, <1>5, <1>6, <1>11
<1> QED  BY <1>2, <1>7, <1>10, <1>12, <1>13, <1>14

LEMMA NextPlace ==
  ASSUME worker \in Worker, worker.id \in Runs
  PROVE  (Position(worker.visited) + 1) % Len(Rows[worker.id]) \in Nat
<1>1. PICK w : w = worker  OBVIOUS
<1>2. PICK r : r = w.id  OBVIOUS
<1>3. w.base + w.visited \in Nat  BY <1>1 DEF Worker
<1>4. Len(Rows[r]) \in Nat /\ Len(Rows[r]) > 0
  BY <1>1, <1>2, SimulationAssumption DEF SimulationAssumption
<1>5. PICK m : m = (w.base + w.visited) % Len(Rows[r])  OBVIOUS
<1>6. m = Position(worker.visited)  BY <1>1, <1>2, <1>5 DEF Position
<1>7. m \in Nat  BY <1>1, <1>2, <1>3, <1>4, <1>5, RotationOK
<1>8. m + 1 \in Nat  BY <1>7
<1>9. (m + 1) % Len(Rows[r]) \in 0 .. Len(Rows[r]) - 1  BY <1>1, <1>2, <1>8, RotationOK
<1>10. (m + 1) % Len(Rows[r]) \in Nat  BY <1>4, <1>9
<1> QED  BY <1>1, <1>2, <1>6, <1>10

\* What a delivery does, one outcome at a time.
Outcome(t, troubled, x, o, lost) ==
  /\ o \in Ingestion(x, t, troubled) /\ lost \in BOOLEAN
  /\ receipts' = [receipts EXCEPT ![x] = o.receipt]
  /\ published' \in {published, published \cup {x}}
  /\ o.ok => published' = published \cup {x}
  /\ published' # published => o.ok \/ (lost /\ o.receipt.stage = "charged")
  /\ late' = IF published' # published /\ ~Active(run[x[1]])
             THEN [late EXCEPT ![x[1]] = @ + 1] ELSE late

LEMMA InIds ==
  ASSUME NEW r \in Runs, NEW d \in Devices, NEW n \in Nat, n < Reports[d]
  PROVE  <<r, d, n>> \in Ids
<1>1. Reports[d] \in Nat  BY SimulationAssumption DEF SimulationAssumption
<1>2. PICK B : B = {r} \X {d} \X (0 .. Reports[d] - 1)  OBVIOUS
<1>3. <<r, d, n>> \in B  BY <1>1, <1>2
<1>4. B \in {{q} \X {e} \X (0 .. Reports[e] - 1) : q \in Runs, e \in Devices}  BY <1>2
<1> QED  BY <1>3, <1>4 DEF Ids

\* The worker with the answer.
AnsweringOf(w, a) == [w EXCEPT !.pc = "save", !.done = @ + 1, !.held = a]

Sends(r, d, h, n, o, lost, t, troubled) ==
  /\ r = worker.id /\ d = At(worker) /\ h = worker.held /\ n = h.index[d]
  /\ d = DeviceAt(worker.visited) /\ d \in DevicesOf(r)
  /\ n < Reports[d] /\ <<r, d, n>> \in Ids
  /\ t = IF h.follows[d] # None THEN h.follows[d] ELSE Target[r]
  /\ Outcome(t, troubled, <<r, d, n>>, o, lost)
  /\ lost => worker' = RecoveringOf(worker)
  /\ ~lost => worker' = AnsweringOf(worker, Answered(d, o))

LEMMA Delivering ==
  ASSUME CopiesInv, NEW troubled \in BOOLEAN, Delivers(troubled)
  PROVE  \E r \in Runs, d \in Devices, h \in Run, n \in Nat, o \in Answer,
            lost \in BOOLEAN, t \in Incidents \cup {None} :
              Sends(r, d, h, n, o, lost, t, troubled)
<1> USE DEF CopiesInv
<1>1. PICK w : w = worker  OBVIOUS
<1>2. PICK r : r = w.id  OBVIOUS
<1>3. PICK h : h = w.held  OBVIOUS
<1>4. w \in Worker /\ w.pc = "deliver" /\ WorkerOK(w, run, locks, started)
  BY <1>1 DEF TypeOK, Delivers
<1>5. r \in Runs /\ h \in Run  BY <1>2, <1>3, <1>4 DEF WorkerOK, Holding, Worker
<1>6. PICK d : d = At(w)  OBVIOUS
<1>7. d \in DevicesOf(r) /\ d \in Devices
  <2>1. w.base + w.visited \in Nat  BY <1>4 DEF Worker
  <2> QED  BY <1>2, <1>5, <1>6, <2>1, RotationOK DEF At
<1>8. PICK n : n = h.index[d]  OBVIOUS
<1>9. n \in Nat /\ n < Reports[d]  BY <1>3, <1>4, <1>5, <1>6, <1>7, <1>8 DEF WorkerOK, Run
<1>10. PICK x : x = <<r, d, n>>  OBVIOUS
<1>11. x \in Ids  BY <1>5, <1>7, <1>9, <1>10, InIds
<1>12. d = DeviceAt(worker.visited)  BY <1>1, <1>6 DEF At, DeviceAt, Position
<1>13. PICK t : t = IF h.follows[d] # None THEN h.follows[d] ELSE Target[r]  OBVIOUS
<1>14. t \in Incidents \cup {None}
  BY <1>5, <1>7, <1>13, SimulationAssumption DEF SimulationAssumption, Run
<1> DEFINE Leaves(o, lost, e, y, q) ==
      /\ receipts' = [receipts EXCEPT ![y] = o.receipt]
      /\ published' \in IF o.ok THEN {published \cup {y}}
                        ELSE IF lost /\ o.receipt.stage = "charged"
                        THEN {published, published \cup {y}} ELSE {published}
      /\ late' = IF published' # published /\ ~Active(run[q])
                 THEN [late EXCEPT ![q] = @ + 1] ELSE late
      /\ worker' = IF lost THEN [worker EXCEPT !.pc = "recover"]
                   ELSE [worker EXCEPT !.pc = "save", !.done = @ + 1,
                                       !.held = Answered(e, o)]
<1> DEFINE D == DeviceAt(worker.visited)
           T == IF worker.held.follows[D] # None THEN worker.held.follows[D]
                ELSE Target[worker.id]
<1>15. \E o \in Ingestion(<<worker.id, D, worker.held.index[D]>>, T, troubled),
          lost \in {FALSE, troubled} :
            Leaves(o, lost, D, <<worker.id, D, worker.held.index[D]>>, worker.id)
  BY Zenon DEF Delivers
<1>16. x = <<worker.id, D, worker.held.index[D]>> /\ t = T /\ r = worker.id /\ d = D
  BY <1>1, <1>2, <1>3, <1>8, <1>10, <1>12, <1>13
<1> HIDE DEF Leaves, D, T
<1>17. PICK o \in Ingestion(x, t, troubled), lost \in {FALSE, troubled} : Leaves(o, lost, d, x, r)
  BY <1>15, <1>16, Zenon
<1>18. lost \in BOOLEAN  BY <1>17, Zenon
<1>19. o \in Answer  BY <1>11, <1>17, IngestionMakes DEF TypeOK
<1>20. x[1] = r  BY <1>10
<1>21. Outcome(t, troubled, x, o, lost)
  BY <1>17, <1>18, <1>20 DEF Outcome, Leaves
<1>22. /\ lost => worker' = RecoveringOf(worker)
       /\ ~lost => worker' = AnsweringOf(worker, Answered(d, o))
  BY <1>17, Zenon DEF RecoveringOf, AnsweringOf, Leaves
<1>23. Sends(r, d, h, n, o, lost, t, troubled)
  BY <1>1, <1>2, <1>3, <1>6, <1>7, <1>8, <1>9, <1>10, <1>11, <1>12, <1>13, <1>21, <1>22 DEF Sends
<1> QED  BY <1>5, <1>7, <1>9, <1>14, <1>18, <1>19, <1>23, Zenon

LEMMA WithAnswer ==
  ASSUME NEW w \in Worker, NEW a \in Run, NEW v, v = AnsweringOf(w, a)
  PROVE  /\ v \in Worker /\ v.pc = "save" /\ v.done = w.done + 1 /\ v.held = a
         /\ v.page = w.page /\ v.id = w.id /\ v.base = w.base /\ v.visited = w.visited
         /\ v.knew = w.knew
<1>1. PICK n : n = w.done + 1  OBVIOUS
<1>2. n \in Nat  BY <1>1 DEF Worker
<1>3. v = [w EXCEPT !.pc = "save", !.done = n, !.held = a]  BY <1>1 DEF AnsweringOf
<1>4. /\ v \in Worker /\ v.pc = "save" /\ v.done = n /\ v.held = a
      /\ v.page = w.page /\ v.id = w.id /\ v.base = w.base /\ v.visited = w.visited
      /\ v.knew = w.knew
  BY ONLY w \in Worker, a \in Run, <1>2, <1>3 DEF Worker
<1> QED  BY <1>1, <1>4

LEMMA InvDelivers ==
  ASSUME CopiesInv, NEW troubled \in BOOLEAN, Delivers(troubled)
  PROVE  CopiesInv'
<1> USE DEF CopiesInv
<1>1. PICK w : w = worker  OBVIOUS
<1>2. w \in Worker /\ w.done <= PerTick /\ w.pc = "deliver" /\ WorkerOK(w, run, locks, started)
  BY <1>1 DEF TypeOK, Delivers
<1>3. UNCHANGED <<rows, started, client, cleaner>>  BY DEF Delivers, world
<1>S. PICK r \in Runs, d \in Devices, h \in Run, n \in Nat, o \in Answer,
           lost \in BOOLEAN, t \in Incidents \cup {None} :
        Sends(r, d, h, n, o, lost, t, troubled)
  BY Delivering
<1>4. /\ r = w.id /\ h = w.held /\ h = worker.held /\ d = DeviceAt(worker.visited)
      /\ <<r, d, n>> \in Ids /\ Outcome(t, troubled, <<r, d, n>>, o, lost)
  BY <1>1, <1>S DEF Sends
<1>A. /\ lost => worker' = RecoveringOf(w)
      /\ ~lost => worker' = AnsweringOf(w, Answered(d, o))
  BY <1>1, <1>S DEF Sends
<1>5. WorldTyped'
  <2>1. receipts' \in [Ids -> Receipt] /\ published' \subseteq Ids
    BY <1>4 DEF Outcome, TypeOK, Answer
  <2>2. late' \in [Runs -> Nat]
    <3>1. <<r, d, n>>[1] = r  OBVIOUS
    <3>2. late' = late \/ late' = [late EXCEPT ![r] = late[r] + 1]
      BY <1>4, <3>1 DEF Outcome
    <3> QED  BY <3>2 DEF TypeOK
  <2> QED  BY <2>1, <2>2 DEF Delivers, world, TypeOK, WorldTyped
<1>6. CASE lost
  <2>1. w.pc \in Holding  BY <1>2 DEF Holding
  <2>2. worker' = RecoveringOf(w)  BY <1>A, <1>6
  <2> QED  BY <1>2, <1>3, <1>5, <2>1, <2>2, RecoverOK, WorkerMoves
<1>7. CASE ~lost
  <2>1. PICK a : a = Answered(d, o)  OBVIOUS
  <2>2. (Position(worker.visited) + 1) % Len(Rows[worker.id]) \in Nat
    BY <1>1, <1>2, <1>4, NextPlace
  <2>3. /\ a \in Run /\ a.revision = h.revision
        /\ o.ok => a.status = h.status
        /\ ~o.ok => a.status = "paused"
    <3>1. h = worker.held /\ o.ok \in BOOLEAN /\ o.told \in Incidents \cup {None}
      BY <1>4 DEF Answer
    <3>2. /\ Answered(d, o) \in Run /\ Answered(d, o).revision = h.revision
          /\ o.ok => Answered(d, o).status = h.status
          /\ ~o.ok => Answered(d, o).status = "paused"
      BY <2>2, <3>1, AnsweredRow
    <3> QED  BY <2>1, <3>2
  <2>4. PICK v : v = worker'  OBVIOUS
  <2>5. /\ v \in Worker /\ v.pc = "save" /\ v.done = w.done + 1 /\ v.held = a
        /\ v.page = w.page /\ v.id = w.id
    <3>1. v = AnsweringOf(w, a)
      BY <1>A, <1>7, <2>1, <2>4
    <3>2. w \in Worker /\ a \in Run  BY <1>2, <2>3
    <3> QED  BY <3>1, <3>2, WithAnswer
  <2>6. w.done < PerTick /\ h.status = "running" /\ TrueCopy(run[w.id], h)
    BY <1>2, <1>4 DEF WorkerOK, Holding
  <2>7. a # None /\ Active(a)  BY <2>3, <2>6, NoneAssumption DEF Active
  <2>8. Current(run[w.id], a) => run[w.id].status = "running"
    BY <2>3, <2>6 DEF Current, TrueCopy
  <2>9. WorkerOK(v, run, locks, started)
    BY <1>2, <2>5, <2>7, <2>8 DEF WorkerOK, Holding
  <2>10. v.done <= PerTick  BY <1>2, <2>5, <2>6, SimulationAssumption DEF SimulationAssumption, Worker
  <2> QED  BY <1>3, <1>5, <2>4, <2>5, <2>9, <2>10, WorkerMoves
<1> QED  BY <1>6, <1>7

-----------------------------------------------------------------------------
(* The owner's requests *)

LEMMA InvStartRun ==
  ASSUME CopiesInv, NEW c \in Clients, NEW r \in Runs, StartRun(c, r) PROVE CopiesInv'
<1> USE DEF CopiesInv
<1>1. PICK l : l = locks  OBVIOUS
<1>2. PICK o : o = [IdleClient EXCEPT !.pc = "start", !.id = r, !.locks = l, !.knew = Known]
  OBVIOUS
<1>3. l \in Locks /\ l # None /\ Known \subseteq Incidents
  BY <1>1, NoneAssumption DEF TypeOK, Known
<1>4. /\ o \in Client /\ o.pc = "start" /\ o.id = r /\ o.locks = l
  BY ONLY <1>2, <1>3, r \in Runs DEF IdleClient, Client
<1>5. /\ client' = [client EXCEPT ![c] = o] /\ r \notin started
      /\ \A d \in DevicesOf(r) : l.devices[d] = None
  BY <1>1, <1>2 DEF StartRun
<1>6. r # None  BY SimulationAssumption DEF SimulationAssumption
<1>7. ClientOK(o, run, locks, started)
  BY <1>1, <1>3, <1>4, <1>5, <1>6 DEF ClientOK, TrueLocks
<1>8. UNCHANGED <<rows, started, worker, cleaner>> /\ WorldTyped'
  BY TypeParts, WorldStays DEF StartRun, world
<1> QED  BY <1>4, <1>5, <1>7, <1>8, ClientMoves

LEMMA InvCommand ==
  ASSUME CopiesInv, NEW c \in Clients, NEW r \in Runs, NEW action \in {"stop", "resume"},
         Command(c, r, action)
  PROVE  CopiesInv'
<1> USE DEF CopiesInv
<1>1. PICK h : h = run[r]  OBVIOUS
<1>2. PICK o : o = [IdleClient EXCEPT !.pc = action, !.id = r, !.held = h, !.knew = Known]
  OBVIOUS
<1>3. h \in Run /\ h # None /\ Active(h) /\ Known \subseteq Incidents
  BY <1>1 DEF TypeOK, Known, Command, Active
<1>4. /\ o \in Client /\ o.pc = action /\ o.id = r /\ o.held = h
  BY ONLY <1>2, <1>3, r \in Runs, action \in {"stop", "resume"} DEF IdleClient, Client
<1>5. client' = [client EXCEPT ![c] = o]  BY <1>1, <1>2 DEF Command
<1>6. r # None  BY SimulationAssumption DEF SimulationAssumption
<1>7. ClientOK(o, run, locks, started)
  BY <1>1, <1>3, <1>4, <1>5, <1>6 DEF ClientOK, TrueCopy
<1>8. UNCHANGED <<rows, started, worker, cleaner>>  BY DEF Command
<1>9. WorldTyped'
  <2>1. commands' \in 0 .. MaxCommands
    BY SimulationAssumption DEF Command, TypeOK, SimulationAssumption
  <2> QED  BY <2>1 DEF Command, ingress, TypeOK, WorldTyped
<1> QED  BY <1>4, <1>5, <1>7, <1>8, <1>9, ClientMoves

LEMMA InvStopReadsLocks ==
  ASSUME CopiesInv, NEW c \in Clients, StopReadsLocks(c) PROVE CopiesInv'
<1> USE DEF CopiesInv
<1>1. PICK l : l = locks  OBVIOUS
<1>2. PICK b : b = client[c]  OBVIOUS
<1>3. PICK o : o = [b EXCEPT !.pc = "commit", !.locks = l]  OBVIOUS
<1>4. l \in Locks /\ l # None /\ b \in Client /\ b.pc = "stop" /\ ClientOK(b, run, locks, started)
  BY <1>1, <1>2, NoneAssumption DEF TypeOK, StopReadsLocks
<1>5. /\ o \in Client /\ o.pc = "commit" /\ o.id = b.id /\ o.locks = l /\ o.held = b.held
  BY ONLY <1>3, <1>4 DEF Client
<1>6. client' = [client EXCEPT ![c] = o]
  BY <1>1, <1>2, <1>3 DEF StopReadsLocks, TypeOK
<1>7. ClientOK(o, run, locks, started)
  BY <1>1, <1>4, <1>5 DEF ClientOK, TrueLocks
<1>8. UNCHANGED <<rows, started, worker, cleaner>> /\ WorldTyped'
  BY TypeParts, WorldStays DEF StopReadsLocks, world
<1> QED  BY <1>5, <1>6, <1>7, <1>8, ClientMoves

LEMMA InvClientIdle ==
  ASSUME CopiesInv, NEW c \in Clients, IdleNow(c), UNCHANGED <<rows, ingress, world, worker, cleaner>>
  PROVE  CopiesInv'
<1>1. client' = [client EXCEPT ![c] = IdleClient]  BY DEF IdleNow
<1>2. UNCHANGED <<rows, started, worker, cleaner>> /\ WorldTyped'
  BY TypeParts, WorldStays DEF world, CopiesInv
<1> QED  BY <1>1, <1>2, IdleClientOK, ClientMoves

LEMMA InvSaveResume ==
  ASSUME CopiesInv, NEW c \in Clients, SaveResume(c) PROVE CopiesInv'
<1> USE DEF CopiesInv
<1>1. PICK b : b = client[c]  OBVIOUS
<1>2. PICK r : r = b.id  OBVIOUS
<1>3. PICK h : h = b.held  OBVIOUS
<1>4. b \in Client /\ b.pc = "resume" /\ ClientOK(b, run, locks, started)
  BY <1>1 DEF TypeOK, SaveResume
<1>5. r \in Runs /\ h \in Run /\ h # None /\ Active(h) /\ TrueCopy(run[r], h)
  BY <1>2, <1>3, <1>4 DEF ClientOK, Client
<1>6. UNCHANGED <<locks, jobs, ingress, world, worker, cleaner>> /\ IdleNow(c) /\ WorldTyped'
  BY TypeParts, WorldStays DEF SaveResume
<1>7. CASE MaySave(r, h)
  <2>1. run[r] = h  BY <1>5, <1>7 DEF MaySave, TrueCopy, Current
  <2>2. PICK s : s = Saved(r, h)  OBVIOUS
  <2>3. s \in Run /\ s.revision = RunRevision(r)  BY <1>5, <2>2, SavedRow
  <2>4. PICK row : row = [s EXCEPT !.status = "running"]  OBVIOUS
  <2>5. row \in Run /\ row.revision = s.revision /\ row.status = "running"
    BY ONLY <2>3, <2>4 DEF Run
  <2>6. run' = [run EXCEPT ![r] = row] /\ UNCHANGED <<locks, jobs, started>>
    BY <1>1, <1>2, <1>3, <1>7, <2>2, <2>4 DEF SaveResume, world
  <2>7. Active(row) <=> Active(run[r])  BY <1>5, <2>1, <2>5, NoneAssumption DEF Active
  <2>8. run[r] # None  BY <1>5, <2>1
  <2>9. /\ Advances(r) /\ LocksMove /\ RowsTyped' /\ Exact(run', locks', jobs', started')
    BY <1>5, <2>3, <2>5, <2>6, <2>7, <2>8, Saves
  <2>10. run'[r].status # "completed"  BY <1>5, <2>5, <2>6 DEF TypeOK
  <2> QED  BY <1>5, <1>6, <2>9, <2>10, ClientWrites
<1>8. CASE ~MaySave(r, h)
  <2>1. UNCHANGED rows  BY <1>1, <1>2, <1>3, <1>8 DEF SaveResume, rows
  <2> QED  BY <1>6, <2>1, InvClientIdle
<1> QED  BY <1>7, <1>8

LEMMA InvCommitStop ==
  ASSUME CopiesInv, NEW c \in Clients, CommitStop(c) PROVE CopiesInv'
<1> USE DEF CopiesInv
<1>1. PICK b : b = client[c]  OBVIOUS
<1>2. PICK r : r = b.id  OBVIOUS
<1>3. PICK h : h = b.held  OBVIOUS
<1>4. b \in Client /\ b.pc = "commit" /\ ClientOK(b, run, locks, started)
  BY <1>1 DEF TypeOK, CommitStop
<1>5. r \in Runs /\ h \in Run /\ TrueCopy(run[r], h) /\ TrueLocks(locks, b.locks)
  BY <1>2, <1>3, <1>4 DEF ClientOK, Client
<1>6. UNCHANGED <<ingress, world, worker, cleaner>> /\ IdleNow(c) /\ WorldTyped'
  BY TypeParts, WorldStays DEF CommitStop
<1>7. CASE MayFinish(r, h, b.locks)
  <2>1. Finished(r, h, b.locks, "stopped") /\ UNCHANGED started
    BY <1>1, <1>2, <1>3, <1>7 DEF CommitStop, world
  <2>2. /\ Advances(r) /\ LocksMove /\ RowsTyped' /\ Exact(run', locks', jobs', started')
        /\ run'[r].status # "completed"
    <3>1. Stopped(r, h, b.locks) /\ UNCHANGED started  BY <2>1 DEF Stopped
    <3> QED  BY <1>5, <1>7, <3>1, Stops
  <2> QED  BY <1>5, <1>6, <2>2, ClientWrites
<1>8. CASE ~MayFinish(r, h, b.locks)
  <2>1. UNCHANGED rows  BY <1>1, <1>2, <1>3, <1>8 DEF CommitStop
  <2> QED  BY <1>6, <2>1, InvClientIdle
<1> QED  BY <1>7, <1>8

LEMMA NewRunOK ==
  ASSUME CopiesInv, NEW r \in Runs
  PROVE  /\ NewRun(r) \in Run /\ NewRun(r).revision = RunRevision(r)
         /\ NewRun(r).status = "running" /\ NewRun(r).pending = {}
         /\ NewRun(r).incidents = {Target[r]} \ {None}
         /\ \A d \in Devices : NewRun(r).index[d] = 0 /\ NewRun(r).follows[d] = None
<1>1. PICK n : n = RunRevision(r)  OBVIOUS
<1>2. n \in Nat  BY <1>1, FreshNow DEF FreshRow
<1>3. {Target[r]} \ {None} \subseteq Incidents  BY SimulationAssumption DEF SimulationAssumption
<1> QED  BY <1>1, <1>2, <1>3 DEF NewRun, Run

LEMMA InvCommitStart ==
  ASSUME CopiesInv, NEW c \in Clients, CommitStart(c) PROVE CopiesInv'
<1> USE DEF CopiesInv
<1>1. PICK b : b = client[c]  OBVIOUS
<1>2. PICK r : r = b.id  OBVIOUS
<1>3. PICK l : l = b.locks  OBVIOUS
<1>4. b \in Client /\ b.pc = "start" /\ ClientOK(b, run, locks, started)
  BY <1>1 DEF TypeOK, CommitStart
<1>5. /\ r \in Runs /\ TrueLocks(locks, l) /\ \A d \in DevicesOf(r) : l.devices[d] = None
  BY <1>2, <1>3, <1>4 DEF ClientOK, Client
<1>6. UNCHANGED <<ingress, incident, purged, due, commands, worker, cleaner>> /\ IdleNow(c)
  BY DEF CommitStart
<1>7. CASE MayStart(c)
  <2>1. run[r] = None /\ locks = l  BY <1>1, <1>2, <1>3, <1>5, <1>7 DEF MayStart, TrueLocks
  <2>2. PICK row : row = NewRun(r)  OBVIOUS
  <2>3. row \in Run /\ row.revision = RunRevision(r) /\ row.status = "running"
    BY <1>5, <2>2, NewRunOK
  <2>4. /\ run' = [run EXCEPT ![r] = row] /\ jobs' = jobs \cup {r} /\ started' = started \cup {r}
        /\ locks' = [revision |-> LocksRevision, devices |-> [d \in Devices |->
                        IF d \in DevicesOf(r) THEN r ELSE l.devices[d]]]
    BY <1>1, <1>2, <1>3, <1>7, <2>2 DEF CommitStart
  <2>5. run \in [Runs -> Run \cup {None}] /\ l \in Locks  BY <2>1 DEF TypeOK
  <2>6. LocksRevision \in Nat  BY <1>5, FreshNow DEF FreshLocks
  <2>7. locks' \in Locks /\ locks'.revision = LocksRevision
    <3>1. PICK n : n = LocksRevision  OBVIOUS
    <3>2. PICK D : D = [d \in Devices |-> IF d \in DevicesOf(r) THEN r ELSE l.devices[d]]  OBVIOUS
    <3>3. D \in [Devices -> Runs \cup {None}]  BY <1>5, <2>5, <3>2 DEF Locks
    <3> QED  BY <2>4, <2>6, <3>1, <3>2, <3>3 DEF Locks
  <2>8. \A d \in Devices : locks'.devices[d] = IF d \in DevicesOf(r) THEN r ELSE l.devices[d]
    BY <2>4
  <2>9. \A q \in Runs : run'[q] = IF q = r THEN row ELSE run[q]  BY <2>4, <2>5
  <2>10. Active(row) /\ row # None  BY <2>3, NoneAssumption DEF Active
  <2>11. ASSUME NEW q \in Runs, NEW d \in Devices
         PROVE  locks'.devices[d] = q <=> Active(run'[q]) /\ d \in DevicesOf(q)
    <3>1. locks.devices[d] = q <=> Active(run[q]) /\ d \in DevicesOf(q)  BY DEF Exact
    <3>2. d \in DevicesOf(r) => locks.devices[d] = None  BY <1>5, <2>1
    <3>3. ~Active(run[r])  BY <2>1 DEF Active
    <3>4. q # None  BY SimulationAssumption DEF SimulationAssumption
    <3> QED  BY <2>1, <2>8, <2>9, <2>10, <3>1, <3>2, <3>3, <3>4
  <2>12. \A q \in Runs : q \in jobs' <=> Active(run'[q])  BY <2>4, <2>9, <2>10 DEF Exact
  <2>13. \A q \in Runs : run'[q] # None => q \in started'  BY <2>4, <2>9 DEF Exact
  <2>14. Exact(run', locks', jobs', started')  BY <2>11, <2>12, <2>13 DEF Exact
  <2>15. RowsTyped'
    <3>1. run' \in [Runs -> Run \cup {None}]  BY <2>3, <2>4, <2>5
    <3> QED  BY <1>5, <2>4, <2>7, <3>1 DEF TypeOK, RowsTyped
  <2>16. WorldTyped'  BY <1>6 DEF ingress, TypeOK, WorldTyped
  <2>17. Advances(r)  BY <2>1, <2>3, <2>4 DEF Advances
  <2>18. LocksMove  BY <2>4, <2>7 DEF LocksMove
  <2>19. run'[r].status # "completed"  BY <1>5, <2>3, <2>9
  <2> QED  BY <1>5, <1>6, <2>14, <2>15, <2>16, <2>17, <2>18, <2>19, ClientWrites
<1>8. CASE ~MayStart(c)
  <2>1. UNCHANGED rows /\ UNCHANGED world  BY <1>6, <1>8 DEF CommitStart, world
  <2> QED  BY <1>6, <2>1, InvClientIdle
<1> QED  BY <1>7, <1>8

-----------------------------------------------------------------------------
(* Cleanup and the world *)

LEMMA IdleCleanerOK ==
  ASSUME NEW R, NEW L
  PROVE IdleCleaner \in Cleaner /\ CleanerOK(IdleCleaner, R, L)
<1>1. IdleCleaner \in Cleaner  BY DEF IdleCleaner, Cleaner
<1>2. CleanerOK(IdleCleaner, R, L)  BY DEF IdleCleaner, CleanerOK
<1> QED  BY <1>1, <1>2

LEMMA InvRedacts == ASSUME CopiesInv, NEW i \in Incidents, Redacts(i) PROVE CopiesInv'
<1> USE DEF CopiesInv
<1>1. PICK z : z = [IdleCleaner EXCEPT !.pc = "query", !.incident = i]  OBVIOUS
<1>2. /\ z \in Cleaner /\ z.pc = "query" /\ z.incident = i /\ z.page = {}
  BY ONLY <1>1, i \in Incidents DEF IdleCleaner, Cleaner
<1>3. i # None  BY SimulationAssumption DEF SimulationAssumption
<1>4. CleanerOK(z, run, locks)  BY <1>2, <1>3 DEF CleanerOK
<1>5. UNCHANGED <<rows, started, worker, client>> /\ cleaner' = z
  BY <1>1 DEF Redacts, world
<1>6. WorldTyped'
  <2>1. ASSUME NEW x \in Ids PROVE [receipts[x] EXCEPT !.stage = "deleted"] \in Receipt
    BY DEF TypeOK, Receipt
  <2>2. receipts' \in [Ids -> Receipt]  BY <2>1 DEF TypeOK, Redacts
  <2> QED  BY <2>2 DEF TypeOK, Redacts, WorldTyped, world
<1> QED  BY <1>2, <1>4, <1>5, <1>6, CleanerMoves

LEMMA InvQueriesRuns == ASSUME CopiesInv, QueriesRuns PROVE CopiesInv'
<1> USE DEF CopiesInv
<1>1. PICK z : z = cleaner  OBVIOUS
<1>2. PICK P : P = {<<r, run[r]>> : r \in {q \in Runs : run[q] # None}}  OBVIOUS
<1>3. PICK v : v = cleaner'  OBVIOUS
<1>4. z \in Cleaner /\ z.pc = "query" /\ CleanerOK(z, run, locks)
      /\ v = [z EXCEPT !.pc = "scan", !.page = P]
  BY <1>1, <1>2, <1>3 DEF TypeOK, QueriesRuns
<1>5. \A y \in P : y[1] \in Runs /\ y[2] = run[y[1]] /\ run[y[1]] # None /\ y = <<y[1], y[2]>>
  BY <1>2
<1>6. P \in SUBSET (Runs \X Run)
  <2> SUFFICES ASSUME NEW y \in P PROVE y \in Runs \X Run  OBVIOUS
  <2>1. y[2] \in Run  BY <1>5 DEF TypeOK
  <2> QED  BY <1>5, <2>1
<1>7. v \in Cleaner /\ v.pc = "scan" /\ v.page = P /\ v.incident = z.incident
  BY ONLY <1>4, <1>6 DEF Cleaner
<1>8. \A x, y \in P : x[1] = y[1] => x = y  BY <1>5
<1>9. CleanerOK(v, run, locks)  BY <1>4, <1>5, <1>7, <1>8 DEF CleanerOK, TrueCopy
<1>10. UNCHANGED <<rows, started, worker, client>> /\ WorldTyped'
  BY TypeParts, WorldStays DEF QueriesRuns, world
<1> QED  BY <1>3, <1>7, <1>9, <1>10, CleanerMoves

LEMMA InvChecksRun ==
  ASSUME CopiesInv, NEW y \in cleaner.page, ChecksRun(y) PROVE CopiesInv'
<1> USE DEF CopiesInv
<1>1. PICK z : z = cleaner  OBVIOUS
<1>2. PICK v : v = cleaner'  OBVIOUS
<1>3. PICK p : p = IF Active(y[2]) THEN "finish" ELSE "delete"  OBVIOUS
<1>4. /\ z \in Cleaner /\ z.pc = "scan" /\ CleanerOK(z, run, locks) /\ y \in z.page
      /\ \/ v = [z EXCEPT !.page = @ \ {y}]
         \/ v = [z EXCEPT !.page = @ \ {y}, !.id = y[1], !.held = y[2], !.pc = p]
  BY <1>1, <1>2, <1>3 DEF TypeOK, ChecksRun
<1>5. y[1] \in Runs /\ y[2] \in Run  BY <1>4 DEF Cleaner
<1>6. UNCHANGED <<rows, started, worker, client>> /\ WorldTyped'
  BY TypeParts, WorldStays DEF ChecksRun, world
<1>7. CASE v = [z EXCEPT !.page = @ \ {y}]
  <2>1. v \in Cleaner /\ v.pc = "scan" /\ v.page = z.page \ {y} /\ v.incident = z.incident
    BY ONLY <1>4, <1>7 DEF Cleaner
  <2>2. CleanerOK(v, run, locks)  BY <1>4, <2>1 DEF CleanerOK
  <2> QED  BY <1>2, <1>6, <2>1, <2>2, CleanerMoves
<1>8. CASE v = [z EXCEPT !.page = @ \ {y}, !.id = y[1], !.held = y[2], !.pc = p]
  <2>1. p \in {"finish", "delete"}  BY <1>3
  <2>2. /\ v \in Cleaner /\ v.pc = p /\ v.page = z.page \ {y} /\ v.incident = z.incident
        /\ v.id = y[1] /\ v.held = y[2]
    BY ONLY <1>4, <1>5, <1>8, <2>1 DEF Cleaner
  <2>3. y[1] # None /\ y[2] # None
    BY <1>5, NoneAssumption, SimulationAssumption DEF SimulationAssumption
  <2>4. CleanerOK(v, run, locks)  BY <1>3, <1>4, <2>1, <2>2, <2>3 DEF CleanerOK
  <2> QED  BY <1>2, <1>6, <2>2, <2>4, CleanerMoves
<1> QED  BY <1>4, <1>7, <1>8

LEMMA InvCleanerReadsLocks == ASSUME CopiesInv, CleanerReadsLocks PROVE CopiesInv'
<1> USE DEF CopiesInv
<1>1. PICK z : z = cleaner  OBVIOUS
<1>2. PICK v : v = cleaner'  OBVIOUS
<1>3. PICK l : l = locks  OBVIOUS
<1>4. /\ z \in Cleaner /\ z.pc = "finish" /\ CleanerOK(z, run, locks) /\ l \in Locks /\ l # None
      /\ v = [z EXCEPT !.pc = "commit", !.locks = l]
  BY <1>1, <1>2, <1>3, NoneAssumption DEF TypeOK, CleanerReadsLocks
<1>5. /\ v \in Cleaner /\ v.pc = "commit" /\ v.page = z.page /\ v.incident = z.incident
      /\ v.id = z.id /\ v.held = z.held /\ v.locks = l
  BY ONLY <1>4 DEF Cleaner
<1>6. CleanerOK(v, run, locks)  BY <1>3, <1>4, <1>5 DEF CleanerOK, TrueLocks
<1>7. UNCHANGED <<rows, started, worker, client>> /\ WorldTyped'
  BY TypeParts, WorldStays DEF CleanerReadsLocks, world
<1> QED  BY <1>2, <1>5, <1>6, <1>7, CleanerMoves

LEMMA InvCleanerFinishes == ASSUME CopiesInv, CleanerFinishes PROVE CopiesInv'
<1> USE DEF CopiesInv
<1>1. PICK z : z = cleaner  OBVIOUS
<1>2. PICK r : r = z.id  OBVIOUS
<1>3. PICK h : h = z.held  OBVIOUS
<1>4. z \in Cleaner /\ z.pc = "commit" /\ CleanerOK(z, run, locks)
  BY <1>1 DEF TypeOK, CleanerFinishes
<1>5. /\ r \in Runs /\ h \in Run /\ TrueCopy(run[r], h) /\ TrueLocks(locks, z.locks)
  BY <1>2, <1>3, <1>4 DEF CleanerOK, Cleaner
<1>6. UNCHANGED <<ingress, world, worker, client>> /\ WorldTyped'
  BY TypeParts, WorldStays DEF CleanerFinishes
<1>7. CASE MayFinish(r, h, z.locks)
  <2>1. PICK v : v = cleaner'  OBVIOUS
  <2>2. /\ Finished(r, h, z.locks, "stopped") /\ UNCHANGED started
        /\ v = [z EXCEPT !.pc = "delete", !.locks = None]
    BY <1>1, <1>2, <1>3, <1>7, <2>1 DEF CleanerFinishes, world
  <2>3. /\ Advances(r) /\ LocksMove /\ RowsTyped' /\ Exact(run', locks', jobs', started')
        /\ run'[r].status # "completed" /\ ~Active(run'[r]) /\ run'[r] # None
    <3>1. Stopped(r, h, z.locks) /\ UNCHANGED started  BY <2>2 DEF Stopped
    <3> QED  BY <1>5, <1>7, <3>1, Stops
  <2>4. /\ v \in Cleaner /\ v.pc = "delete" /\ v.page = z.page /\ v.incident = z.incident
        /\ v.id = z.id /\ v.held = z.held
    BY ONLY <1>4, <2>2 DEF Cleaner
  <2>5. CleanerOK(z, run', locks')  BY <1>1, <1>5, <2>3, OthersStay
  <2>6. CleanerOK(v, run', locks')  BY <1>2, <1>4, <2>3, <2>4, <2>5 DEF CleanerOK
  <2>7. run'[r].status # "completed"  BY <2>3
  <2> QED  BY <1>5, <1>6, <2>1, <2>3, <2>4, <2>6, <2>7, CleanerWrites
<1>8. CASE ~MayFinish(r, h, z.locks)
  <2>1. UNCHANGED <<rows, started>> /\ cleaner' = IdleCleaner
    BY <1>1, <1>2, <1>3, <1>8 DEF CleanerFinishes, world
  <2> QED  BY <1>6, <2>1, IdleCleanerOK, CleanerMoves
<1> QED  BY <1>7, <1>8

LEMMA InvDeletesRun == ASSUME CopiesInv, DeletesRun PROVE CopiesInv'
<1> USE DEF CopiesInv
<1>1. PICK z : z = cleaner  OBVIOUS
<1>2. PICK v : v = cleaner'  OBVIOUS
<1>3. PICK r : r = z.id  OBVIOUS
<1>4. /\ z \in Cleaner /\ z.pc = "delete" /\ CleanerOK(z, run, locks)
      /\ v = [z EXCEPT !.pc = "scan", !.id = None, !.held = None]
      /\ run' = [run EXCEPT ![r] = None] /\ UNCHANGED <<locks, jobs, started, worker, client>>
  BY <1>1, <1>2, <1>3 DEF TypeOK, DeletesRun, world
<1>5. r \in Runs /\ ~Active(run[r])  BY <1>3, <1>4 DEF CleanerOK, Cleaner
<1>6. run \in [Runs -> Run \cup {None}]  BY DEF TypeOK
<1>7. run'[r] = None /\ \A q : q # r => run'[q] = run[q]  BY <1>4, <1>5, <1>6
<1>8. v \in Cleaner /\ v.pc = "scan" /\ v.page = z.page /\ v.incident = z.incident
  BY ONLY <1>4 DEF Cleaner
<1>9. CleanerOK(v, run', locks')
  BY <1>3, <1>4, <1>7, <1>8 DEF CleanerOK
<1>10. WorkerOK(worker, run', locks', started')
  <2>1. worker.held # None => run'[worker.id] = run[worker.id]
                                \/ ~Current(run'[worker.id], worker.held)
    BY <1>7 DEF Current
  <2>2. \A q \in worker.page : run'[q] = run[q] \/ run'[q] = None \/ run'[q].status # "completed"
    BY <1>7
  <2> QED  BY <1>4, <2>1, <2>2, WorkerStays
<1>11. ASSUME NEW c \in Clients PROVE ClientOK(client[c], run', locks', started')
  <2>1. client[c].held # None => run'[client[c].id] = run[client[c].id]
                                   \/ ~Current(run'[client[c].id], client[c].held)
    BY <1>7 DEF Current
  <2> QED  BY <1>4, <2>1, ClientStays
<1>12. Exact(run', locks', jobs', started')
  <2>1. ~Active(None)  BY DEF Active
  <2>2. \A q \in Runs : (Active(run'[q]) <=> Active(run[q])) /\ (run'[q] # None => run[q] # None)
    BY <1>5, <1>7, <2>1
  <2> QED  BY <1>4, <2>2 DEF Exact
<1>13. RowsTyped'  BY <1>4, <1>6 DEF TypeOK, RowsTyped
<1>14. WorldTyped'  BY TypeParts, WorldStays DEF DeletesRun
<1>15. ProcessesTyped'  BY <1>2, <1>4, <1>8, TypeParts DEF ProcessesTyped
<1>16. TypeOK'  BY <1>13, <1>14, <1>15, TypeParts, PTL
<1> QED  BY <1>2, <1>4, <1>9, <1>10, <1>11, <1>12, <1>16

LEMMA InvCleanerIdle == ASSUME CopiesInv, CompletesPurge \/ CleanerDies PROVE CopiesInv'
<1> USE DEF CopiesInv
<1>1. UNCHANGED <<rows, started, worker, client>> /\ cleaner' = IdleCleaner
  BY DEF CompletesPurge, CleanerDies, world
<1>2. purged' \subseteq Incidents
  BY DEF TypeOK, CompletesPurge, CleanerDies, world, Cleaner, CleanerOK
<1>3. WorldTyped'
  BY <1>2 DEF TypeOK, CompletesPurge, CleanerDies, world, ingress, WorldTyped
<1> QED  BY <1>1, <1>3, IdleCleanerOK, CleanerMoves

LEMMA InvCloses == ASSUME CopiesInv, NEW i \in Incidents, Closes(i) PROVE CopiesInv'
<1>1. WorldTyped'
  <2>1. incident' \in [Incidents -> {"open", "resolved", "deleted"}]
    BY DEF CopiesInv, TypeOK, Closes
  <2> QED  BY <2>1 DEF CopiesInv, TypeOK, Closes, ingress, WorldTyped
<1> QED  BY <1>1, WorldMoves DEF Closes

LEMMA InvFallsDue ==
  ASSUME CopiesInv, NEW r \in Runs, NEW d \in Devices, FallsDue(r, d) PROVE CopiesInv'
<1>1. WorldTyped'
  <2>1. due \in [Runs -> [Devices -> Nat]]  BY DEF CopiesInv, TypeOK
  <2>2. due' = [due EXCEPT ![r] = [due[r] EXCEPT ![d] = due[r][d] + 1]]
    BY DEF FallsDue
  <2>3. due' \in [Runs -> [Devices -> Nat]]  BY <2>1, <2>2
  <2> QED  BY <2>3 DEF CopiesInv, TypeOK, FallsDue, ingress, WorldTyped
<1> QED  BY <1>1, WorldMoves DEF FallsDue

-----------------------------------------------------------------------------
(* All steps together *)

LEMMA InvInit == Init => CopiesInv
<1> SUFFICES ASSUME Init PROVE CopiesInv  OBVIOUS
<1> USE DEF Init
<1>1. RowsTyped  BY DEF RowsTyped, Locks
<1>2. WorldTyped
  <2>1. receipts \in [Ids -> Receipt]  BY DEF Receipt
  <2>2. commands \in 0 .. MaxCommands  BY SimulationAssumption DEF SimulationAssumption
  <2> QED  BY <2>1, <2>2 DEF WorldTyped
<1>3. ProcessesTyped
  <2>1. 0 <= PerTick  BY SimulationAssumption DEF SimulationAssumption
  <2>2. client \in [Clients -> Client]  BY IdleClientOK
  <2> QED  BY <2>1, <2>2, IdleWorkerOK, IdleCleanerOK DEF ProcessesTyped
<1>4. TypeOK  BY <1>1, <1>2, <1>3, TypeParts
<1>5. Exact(run, locks, jobs, started)
  <2>1. ~Active(None)  BY DEF Active
  <2>2. \A r \in Runs : r # None  BY SimulationAssumption DEF SimulationAssumption
  <2> QED  BY <2>1, <2>2 DEF Exact
<1>6. WorkerOK(worker, run, locks, started) /\ CleanerOK(cleaner, run, locks)
  BY IdleWorkerOK, IdleCleanerOK
<1>7. \A c \in Clients : ClientOK(client[c], run, locks, started)  BY IdleClientOK
<1> QED  BY <1>4, <1>5, <1>6, <1>7 DEF CopiesInv

\* Who takes a step.
WorkerTakes ==
  \/ Wakes \/ EndsTick \/ ChecksIncidents \/ EndsScan \/ StopsScanning
  \/ SavesAnswer \/ EndsWork \/ WorkerReadsLocks \/ WorkerFinishes \/ Recovers \/ Pauses
  \/ SaveUnanswered \/ WorkerFails \/ WorkerDies
  \/ \E r \in Runs : TakesJob(r)
  \/ \E k : Scans(k)
  \/ \E troubled \in BOOLEAN : Delivers(troubled)

ClientTakes(c) ==
  \/ SaveResume(c) \/ StopReadsLocks(c) \/ CommitStop(c) \/ CommitStart(c) \/ Abandon(c)
  \/ \E r \in Runs : StartRun(c, r)
  \/ \E r \in Runs, action \in {"stop", "resume"} : Command(c, r, action)

CleanerTakes ==
  \/ QueriesRuns \/ CleanerReadsLocks \/ CleanerFinishes \/ DeletesRun \/ CompletesPurge
  \/ CleanerDies
  \/ \E y \in cleaner.page : ChecksRun(y)
  \/ \E i \in Incidents : Redacts(i)

WorldTakes ==
  \/ \E i \in Incidents : Closes(i)
  \/ \E r \in Runs, d \in Devices : FallsDue(r, d)

LEMMA WhoTakes ==
  Next => \/ WorkerTakes \/ CleanerTakes \/ WorldTakes
          \/ \E c \in Clients : ClientTakes(c)
<1> SUFFICES ASSUME Next
             PROVE  \/ WorkerTakes \/ CleanerTakes \/ WorldTakes
                    \/ \E c \in Clients : ClientTakes(c)
  OBVIOUS
<1>1. CASE Failure
  BY <1>1 DEF Failure, WorkerTakes, CleanerTakes, ClientTakes
<1>2. CASE Progress
  <2>1. CASE Wakes \/ WorkerStep  BY <2>1 DEF WorkerStep, WorkerTakes
  <2>2. CASE CleanerStep  BY <2>2 DEF CleanerStep, CleanerTakes
  <2>3. CASE \E i \in Incidents : Closes(i) \/ Redacts(i)
    BY <2>3 DEF WorldTakes, CleanerTakes
  <2>4. CASE \E r \in Runs, d \in Devices : FallsDue(r, d)  BY <2>4 DEF WorldTakes
  <2>5. CASE \E c \in Clients :
               \/ ClientStep(c)
               \/ \E r \in Runs : \/ StartRun(c, r)
                                  \/ \E action \in {"stop", "resume"} : Command(c, r, action)
    BY <2>5 DEF ClientStep, ClientTakes
  <2> QED  BY <1>2, <2>1, <2>2, <2>3, <2>4, <2>5 DEF Progress
<1> QED  BY <1>1, <1>2 DEF Next

LEMMA InvWorker == ASSUME CopiesInv, WorkerTakes PROVE CopiesInv'
  BY InvWakes, InvWorkerIdle, InvChecksIncidents, InvEndsScan, InvSavesAnswer, InvSaveUnanswered,
     InvEndsWork, InvWorkerReadsLocks, InvWorkerFinishes, InvRecovers, InvPauses, InvWorkerFails,
     InvTakesJob, InvScans, InvDelivers
  DEF WorkerTakes

LEMMA InvClient == ASSUME CopiesInv, NEW c \in Clients, ClientTakes(c) PROVE CopiesInv'
<1>1. CASE Abandon(c)  BY <1>1, InvClientIdle DEF Abandon
<1> QED
  BY <1>1, InvSaveResume, InvStopReadsLocks, InvCommitStop, InvCommitStart, InvStartRun,
     InvCommand
  DEF ClientTakes

LEMMA InvCleaner == ASSUME CopiesInv, CleanerTakes PROVE CopiesInv'
  BY InvQueriesRuns, InvCleanerReadsLocks, InvCleanerFinishes, InvDeletesRun, InvCleanerIdle,
     InvChecksRun, InvRedacts
  DEF CleanerTakes

LEMMA InvWorld == ASSUME CopiesInv, WorldTakes PROVE CopiesInv'
  BY InvCloses, InvFallsDue DEF WorldTakes

LEMMA InvNext == ASSUME CopiesInv, [Next]_vars PROVE CopiesInv'
<1>1. CASE UNCHANGED vars
  <2>1. WorldTyped'  BY <1>1, TypeParts, WorldStays DEF CopiesInv, vars
  <2>2. UNCHANGED <<rows, started, worker, client, cleaner>>  BY <1>1 DEF vars, world
  <2> QED  BY <2>1, <2>2, WorldMoves
<1>2. CASE Next  BY <1>2, WhoTakes, InvWorker, InvClient, InvCleaner, InvWorld
<1> QED  BY <1>1, <1>2

\* The copies and locks that the worker, the owner and cleanup hold are current, or their
\* writes fail.
THEOREM CopiesCorrect == Spec => []CopiesInv
  BY InvInit, InvNext, PTL DEF Spec

\* A run that is running or paused has exactly its devices in SIMLOCKS and its job in
\* SIMRUNS, an ended one nothing (start, finish and the deletion of a run).
THEOREM LocksAlwaysExact == Spec => []LocksAreExact
<1>1. CopiesInv => LocksAreExact
  <2> SUFFICES ASSUME CopiesInv PROVE LocksAreExact  OBVIOUS
  <2>1. jobs = {r \in Runs : Active(run[r])}  BY DEF CopiesInv, Exact, TypeOK
  <2> QED  BY <2>1 DEF CopiesInv, Exact, LocksAreExact
<1> QED  BY <1>1, CopiesCorrect, PTL

-----------------------------------------------------------------------------
(* What has ended stays so *)

Settled ==
  \A r \in Runs :
    run[r] # None /\ ~Active(run[r]) /\ run'[r] # None =>
      run'[r].status = run[r].status /\ run'[r].index = run[r].index

LEMMA SettledUnlessWritten ==
  ASSUME CopiesInv, NEW r \in Runs, NEW row, run' = [run EXCEPT ![r] = row],
         run[r] # None /\ ~Active(run[r]) /\ row # None =>
           row.status = run[r].status /\ row.index = run[r].index
  PROVE  Settled
<1>1. run'[r] = row /\ \A q \in Runs : q # r => run'[q] = run[q]
  BY DEF CopiesInv, TypeOK
<1> QED  BY <1>1 DEF Settled

LEMMA SettledIfActive ==
  ASSUME CopiesInv, NEW r \in Runs, NEW row, run' = [run EXCEPT ![r] = row],
         Active(run[r]) \/ run[r] = None \/ row = None
  PROVE  Settled
  BY SettledUnlessWritten

LEMMA EndedScans == ASSUME CopiesInv, NEW k, Scans(k) PROVE Settled
<1> USE DEF CopiesInv
<1>1. PICK r : r = worker.id  OBVIOUS
<1>2. PICK h : h = worker.held  OBVIOUS
<1>3. r \in Runs /\ TrueCopy(run[r], h) /\ h.status = "running" /\ h # None
  BY <1>1, <1>2 DEF TypeOK, Scans, WorkerOK, Holding, Worker
<1>4. CASE UNCHANGED run  BY <1>4 DEF Settled
<1>5. CASE run' # run
  <2>1. MaySave(r, h) /\ \E row : run' = [run EXCEPT ![r] = row]
    BY <1>1, <1>2, <1>5 DEF Scans
  <2>2. Active(run[r])  BY <1>3, <2>1 DEF MaySave, TrueCopy, Current, Active
  <2> QED  BY <1>3, <2>1, <2>2, SettledIfActive
<1> QED  BY <1>4, <1>5

LEMMA EndedSavesAnswer ==
  ASSUME CopiesInv, SavesAnswer \/ SaveUnanswered PROVE Settled
<1> USE DEF CopiesInv
<1>1. PICK r : r = worker.id  OBVIOUS
<1>2. PICK h : h = worker.held  OBVIOUS
<1>3. r \in Runs /\ (Current(run[r], h) => run[r].status = "running")
  BY <1>1, <1>2 DEF TypeOK, SavesAnswer, SaveUnanswered, WorkerOK, Holding, Worker
<1>4. CASE UNCHANGED run  BY <1>4 DEF Settled
<1>5. CASE run' # run
  <2>1. MaySave(r, h) /\ \E row : run' = [run EXCEPT ![r] = row]
    BY <1>1, <1>2, <1>5 DEF SavesAnswer, SaveUnanswered
  <2>2. Active(run[r])  BY <1>3, <2>1 DEF MaySave, Current, Active
  <2> QED  BY <1>3, <2>1, <2>2, SettledIfActive
<1> QED  BY <1>4, <1>5

LEMMA EndedPauses == ASSUME CopiesInv, Pauses PROVE Settled
<1> USE DEF CopiesInv
<1>1. PICK r : r = worker.id  OBVIOUS
<1>2. PICK h : h = worker.held  OBVIOUS
<1>3. r \in Runs /\ TrueCopy(run[r], h) /\ h.status = "running" /\ h # None
  BY <1>1, <1>2 DEF TypeOK, Pauses, WorkerOK, Holding, Worker
<1>4. CASE UNCHANGED run  BY <1>4 DEF Settled
<1>5. CASE run' # run
  <2>1. MaySave(r, h) /\ \E row : run' = [run EXCEPT ![r] = row]
    BY <1>1, <1>2, <1>5 DEF Pauses
  <2>2. Active(run[r])  BY <1>3, <2>1 DEF MaySave, TrueCopy, Current, Active
  <2> QED  BY <1>3, <2>1, <2>2, SettledIfActive
<1> QED  BY <1>4, <1>5

LEMMA EndedWorkerFinishes == ASSUME CopiesInv, WorkerFinishes PROVE Settled
<1> USE DEF CopiesInv
<1>1. PICK w : w = worker  OBVIOUS
<1>2. PICK r : r = w.id  OBVIOUS
<1>3. PICK h : h = w.held  OBVIOUS
<1>4. /\ r \in Runs /\ h \in Run /\ TrueCopy(run[r], h) /\ h.status # "completed"
      /\ w.verdict \in {"stopped", "completed"} /\ (w.verdict = "completed" => Active(h))
  BY <1>1, <1>2, <1>3 DEF TypeOK, WorkerFinishes, WorkerOK, Holding, Worker
<1>5. CASE UNCHANGED run  BY <1>5 DEF Settled
<1>6. CASE run' # run
  <2>1. MayFinish(r, h, w.locks) /\ Finished(r, h, w.locks, w.verdict)
    BY <1>1, <1>2, <1>3, <1>6 DEF WorkerFinishes, rows
  <2>2. run[r] = h  BY <1>4, <2>1 DEF MayFinish, MaySave, TrueCopy, Current
  <2>3. PICK s : s = Saved(r, h)  OBVIOUS
  <2>4. s \in Run /\ s.index = h.index  BY <1>4, <2>3, SavedRow
  <2>5. PICK row : row = [s EXCEPT !.status = w.verdict]  OBVIOUS
  <2>6. row.status = w.verdict /\ row.index = s.index  BY ONLY <2>4, <2>5 DEF Run
  <2>7. run' = [run EXCEPT ![r] = row]  BY <2>1, <2>3, <2>5 DEF Finished
  <2>8. run[r] # None /\ ~Active(run[r]) => row.status = run[r].status /\ row.index = run[r].index
    BY <1>4, <2>2, <2>4, <2>6 DEF Active, Run
  <2> QED  BY <1>4, <2>7, <2>8, SettledUnlessWritten
<1> QED  BY <1>5, <1>6

LEMMA EndedClient == ASSUME CopiesInv, NEW c \in Clients, ClientTakes(c) PROVE Settled
<1> USE DEF CopiesInv
<1>1. PICK b : b = client[c]  OBVIOUS
<1>2. PICK r : r = b.id  OBVIOUS
<1>3. b \in Client /\ ClientOK(b, run, locks, started)  BY <1>1 DEF TypeOK
<1>4. CASE UNCHANGED run  BY <1>4 DEF Settled
<1>5. CASE SaveResume(c) /\ run' # run
  <2>1. b.pc = "resume" /\ MaySave(r, b.held) /\ \E row : run' = [run EXCEPT ![r] = row]
    BY <1>1, <1>2, <1>5 DEF SaveResume
  <2>2. r \in Runs /\ Active(run[r])
    BY <1>2, <1>3, <2>1 DEF MaySave, ClientOK, Client, TrueCopy, Current
  <2> QED  BY <2>1, <2>2, SettledIfActive
<1>6. CASE CommitStop(c) /\ run' # run
  <2>1. b.pc = "commit" /\ MaySave(r, b.held) /\ \E row : run' = [run EXCEPT ![r] = row]
    BY <1>1, <1>2, <1>6 DEF CommitStop, MayFinish, Finished, rows
  <2>2. r \in Runs /\ Active(run[r])
    BY <1>2, <1>3, <2>1 DEF MaySave, ClientOK, Client, TrueCopy, Current
  <2> QED  BY <2>1, <2>2, SettledIfActive
<1>7. CASE CommitStart(c) /\ run' # run
  <2>1. b.pc = "start" /\ run[r] = None /\ \E row : run' = [run EXCEPT ![r] = row]
    BY <1>1, <1>2, <1>7 DEF CommitStart, MayStart, rows
  <2>2. r \in Runs  BY <1>2, <1>3, <2>1 DEF ClientOK, Client
  <2> QED  BY <2>1, <2>2, SettledIfActive
<1> QED
  BY <1>4, <1>5, <1>6, <1>7 DEF ClientTakes, Abandon, StopReadsLocks, StartRun, Command, rows

LEMMA EndedCleaner == ASSUME CopiesInv, CleanerTakes PROVE Settled
<1> USE DEF CopiesInv
<1>1. PICK z : z = cleaner  OBVIOUS
<1>2. PICK r : r = z.id  OBVIOUS
<1>3. z \in Cleaner /\ CleanerOK(z, run, locks)  BY <1>1 DEF TypeOK
<1>4. CASE UNCHANGED run  BY <1>4 DEF Settled
<1>5. CASE CleanerFinishes /\ run' # run
  <2>1. z.pc = "commit" /\ MaySave(r, z.held) /\ \E row : run' = [run EXCEPT ![r] = row]
    BY <1>1, <1>2, <1>5 DEF CleanerFinishes, MayFinish, Finished, rows
  <2>2. r \in Runs /\ Active(run[r])
    BY <1>2, <1>3, <2>1 DEF MaySave, CleanerOK, Cleaner, TrueCopy, Current
  <2> QED  BY <2>1, <2>2, SettledIfActive
<1>6. CASE DeletesRun
  <2>1. z.pc = "delete" /\ run' = [run EXCEPT ![r] = None]  BY <1>1, <1>2, <1>6 DEF DeletesRun
  <2>2. r \in Runs  BY <1>2, <1>3, <2>1 DEF CleanerOK, Cleaner
  <2> QED  BY <2>1, <2>2, SettledIfActive
<1> QED
  BY <1>4, <1>5, <1>6
  DEF CleanerTakes, QueriesRuns, CleanerReadsLocks, CompletesPurge, CleanerDies, ChecksRun,
      Redacts, rows

LEMMA EndedWorker == ASSUME CopiesInv, WorkerTakes PROVE Settled
<1>1. CASE UNCHANGED run  BY <1>1 DEF Settled
<1> QED
  BY <1>1, EndedScans, EndedSavesAnswer, EndedPauses, EndedWorkerFinishes
  DEF WorkerTakes, Wakes, EndsTick, ChecksIncidents, EndsScan, StopsScanning, EndsWork,
      WorkerReadsLocks, Recovers, WorkerFails, WorkerDies, TakesJob, Delivers, rows

LEMMA SettledNext == ASSUME CopiesInv, [Next]_vars PROVE Settled
<1>1. CASE UNCHANGED run  BY <1>1 DEF Settled
<1>2. CASE WorldTakes \/ UNCHANGED vars
  BY <1>1, <1>2 DEF WorldTakes, Closes, FallsDue, vars, rows
<1> QED  BY <1>1, <1>2, WhoTakes, EndedWorker, EndedClient, EndedCleaner

\* A run that has ended keeps its status and its progress until cleanup removes it, whatever
\* the worker, the owner or cleanup still hold of it (save, finish, command and pause).
THEOREM EndedAlwaysStays == Spec => EndedStaysEnded
<1>1. ASSUME CopiesInv, [Next]_vars
      PROVE  [\A r \in Runs :
                run[r] # None /\ ~Active(run[r]) /\ run'[r] # None =>
                  /\ run'[r].status = run[r].status
                  /\ run'[r].index = run[r].index]_vars
  BY <1>1, SettledNext DEF Settled
<1> QED  BY <1>1, CopiesCorrect, PTL DEF Spec, EndedStaysEnded

-----------------------------------------------------------------------------
(* Rows and receipts: nothing skipped, nothing out of order                *)
(*                                                                         *)
(* P stands for the reports published, X for the receipts.                 *)

Sent(X, x) == X[x].stage # "none"

\* A row, of the run or of a copy of it, counts what is published and has marked what is out.
Fits(r, row, P, X) ==
  /\ \A d \in row.pending : row.index[d] < Reports[d]
  /\ Target[r] # None => Target[r] \in row.incidents
  /\ \A d \in DevicesOf(r) :
       /\ Target[r] # None => row.follows[d] \in {Target[r], None}
       /\ \A n \in 0 .. Reports[d] - 1 :
            /\ n < row.index[d] =>
                 /\ <<r, d, n>> \in P /\ Sent(X, <<r, d, n>>)
                 /\ X[<<r, d, n>>].incident = row.follows[d]
            /\ n > row.index[d] => ~Sent(X, <<r, d, n>>)
            /\ n = row.index[d] /\ Sent(X, <<r, d, n>>) => d \in row.pending

Exhausts(r, row) == \A d \in DevicesOf(r) : row.index[d] >= Reports[d]

\* All of a row but its status and its revision: only the worker writes it.
Done(row) == <<row.index, row.pending, row.cursor, row.incidents, row.follows>>

Keeping(w, R, P, X) ==
  /\ w.pc \in Holding => Fits(w.id, w.held, P, X)
  /\ w.pc \in Holding \ {"save"} /\ R[w.id] # None => Done(w.held) = Done(R[w.id])
  /\ w.pc = "deliver" => At(w) \in w.held.pending
  /\ w.pc \in {"finish", "commit"} /\ w.verdict = "completed" => Exhausts(w.id, w.held)

RowOK(r, row, P, X) ==
  row # None => Fits(r, row, P, X) /\ (row.status = "completed" => Exhausts(r, row))

ReceiptsOK(X, S) ==
  /\ \A x \in Ids : /\ Sent(X, x) => x[1] \in S
                    /\ Sent(X, x) <=> X[x].incident # None
                    /\ Sent(X, x) /\ Target[x[1]] # None => X[x].incident = Target[x[1]]
  /\ \A x, y \in Ids :
       x[1] = y[1] /\ x[2] = y[2] /\ Sent(X, x) /\ Sent(X, y) => X[x].incident = X[y].incident

ReportsInv ==
  /\ \A r \in Runs : RowOK(r, run[r], published, receipts)
  /\ Keeping(worker, run, published, receipts)
  /\ ReceiptsOK(receipts, started)

-----------------------------------------------------------------------------
(* Steps that send nothing and count nothing *)

SameReceipts(X, Y) == \A x \in Ids : Y[x].incident = X[x].incident /\ (Sent(Y, x) <=> Sent(X, x))

Kept(R, Q) ==
  \A r \in Runs :
    \/ Q[r] = R[r] \/ Q[r] = None
    \/ /\ R[r] # None /\ Done(Q[r]) = Done(R[r])
       /\ Q[r].status = "completed" => Exhausts(r, Q[r])

LEMMA DeviceOK == ASSUME NEW r \in Runs PROVE DevicesOf(r) \subseteq Devices
  BY SimulationAssumption DEF SimulationAssumption, DevicesOf

LEMMA FitsSame ==
  ASSUME NEW r \in Runs, NEW row, NEW P, NEW X, Fits(r, row, P, X), NEW copy, Done(copy) = Done(row),
         NEW Q, P \subseteq Q, NEW Y, SameReceipts(X, Y)
  PROVE  Fits(r, copy, Q, Y)
<1>1. /\ copy.index = row.index /\ copy.pending = row.pending
      /\ copy.incidents = row.incidents /\ copy.follows = row.follows
  BY DEF Done
<1>2. ASSUME NEW d \in DevicesOf(r), NEW n \in 0 .. Reports[d] - 1
      PROVE  Y[<<r, d, n>>].incident = X[<<r, d, n>>].incident /\ (Sent(Y, <<r, d, n>>) <=> Sent(X, <<r, d, n>>))
  <2>1. d \in Devices  BY DeviceOK
  <2>2. Reports[d] \in Nat  BY <2>1, SimulationAssumption DEF SimulationAssumption
  <2>3. n \in Nat /\ n < Reports[d]  BY <2>2
  <2>4. <<r, d, n>> \in Ids  BY <2>1, <2>3, InIds
  <2> QED  BY <2>4 DEF SameReceipts
<1> QED  BY <1>1, <1>2 DEF Fits

LEMMA QuietStep ==
  ASSUME CopiesInv, ReportsInv, Kept(run, run'), SameReceipts(receipts, receipts'),
         UNCHANGED <<published, started>>,
         NEW w, w = worker', Keeping(w, run, published, receipts),
         w.pc \in Holding => w.id \in Runs
  PROVE  ReportsInv'
<1>1. ASSUME NEW r \in Runs PROVE RowOK(r, run'[r], published', receipts')
  <2>1. CASE run'[r] = None  BY <2>1 DEF RowOK
  <2>2. CASE run'[r] = run[r] /\ run[r] # None
    <3>1. Fits(r, run[r], published, receipts)  BY <2>2 DEF ReportsInv, RowOK
    <3>2. Fits(r, run'[r], published', receipts')  BY <2>2, <3>1, FitsSame
    <3> QED  BY <2>2, <3>2 DEF ReportsInv, RowOK
  <2>3. CASE /\ run[r] # None /\ Done(run'[r]) = Done(run[r])
             /\ run'[r].status = "completed" => Exhausts(r, run'[r])
    <3>1. Fits(r, run[r], published, receipts)  BY <2>3 DEF ReportsInv, RowOK
    <3>2. Fits(r, run'[r], published', receipts')  BY <2>3, <3>1, FitsSame
    <3> QED  BY <2>3, <3>2 DEF RowOK
  <2> QED  BY <2>1, <2>2, <2>3 DEF Kept
<1>2. Keeping(w, run', published', receipts')
  <2>1. w.pc \in Holding => Fits(w.id, w.held, published', receipts')
    <3> SUFFICES ASSUME w.pc \in Holding PROVE Fits(w.id, w.held, published', receipts')
      OBVIOUS
    <3>1. w.id \in Runs /\ Fits(w.id, w.held, published, receipts)  BY DEF Keeping
    <3> QED  BY <3>1, FitsSame
  <2>2. w.pc \in Holding \ {"save"} /\ run'[w.id] # None => Done(w.held) = Done(run'[w.id])
    BY DEF Keeping, Kept
  <2> QED  BY <2>1, <2>2 DEF Keeping
<1>3. ReceiptsOK(receipts', started')
  BY DEF ReportsInv, ReceiptsOK, SameReceipts
<1> QED  BY <1>1, <1>2, <1>3 DEF ReportsInv

LEMMA SameIfUnchanged == ASSUME UNCHANGED receipts PROVE SameReceipts(receipts, receipts')
  BY DEF SameReceipts

LEMMA KeptIfUnchanged == ASSUME UNCHANGED run PROVE Kept(run, run')
  BY DEF Kept

\* A step of somebody else than the worker.
LEMMA OthersQuiet ==
  ASSUME CopiesInv, ReportsInv, Kept(run, run'), SameReceipts(receipts, receipts'),
         UNCHANGED <<published, started, worker>>
  PROVE  ReportsInv'
<1>1. PICK w : w = worker'  OBVIOUS
<1>2. Keeping(w, run, published, receipts)  BY <1>1 DEF ReportsInv
<1>3. w.pc \in Holding => w.id \in Runs
  BY <1>1 DEF CopiesInv, TypeOK, WorkerOK, Worker
<1> QED  BY <1>1, <1>2, <1>3, QuietStep

\* A copy that is the row is saved with another status.
LEMMA KeptIfCopied ==
  ASSUME CopiesInv, NEW r \in Runs, NEW held \in Run, TrueCopy(run[r], held), MaySave(r, held),
         NEW status, NEW row, row = [Saved(r, held) EXCEPT !.status = status],
         run' = [run EXCEPT ![r] = row],
         status = "completed" => Exhausts(r, held)
  PROVE  Kept(run, run')
<1>1. run[r] = held /\ held # None  BY DEF MaySave, TrueCopy, Current
<1>2. PICK s : s = Saved(r, held)  OBVIOUS
<1>3. /\ s \in Run /\ s.index = held.index /\ s.pending = held.pending /\ s.cursor = held.cursor
      /\ s.incidents = held.incidents /\ s.follows = held.follows
  BY <1>2, SavedRow
<1>4. row = [s EXCEPT !.status = status]  BY <1>2
<1>5. /\ row.status = status /\ row.index = s.index /\ row.pending = s.pending
      /\ row.cursor = s.cursor /\ row.incidents = s.incidents /\ row.follows = s.follows
  BY ONLY <1>3, <1>4 DEF Run
<1>6. Done(row) = Done(run[r])  BY <1>1, <1>3, <1>5 DEF Done
<1>7. row.status = "completed" => Exhausts(r, row)  BY <1>3, <1>5 DEF Exhausts
<1>8. run'[r] = row /\ \A q \in Runs : q # r => run'[q] = run[q]
  BY DEF CopiesInv, TypeOK
<1> QED  BY <1>1, <1>6, <1>7, <1>8 DEF Kept

\* What an idle worker, or one between two runs, keeps: nothing.
LEMMA KeepsNothing ==
  ASSUME NEW w, w.pc \in {"idle", "next", "recover"}, NEW R, NEW P, NEW X
  PROVE  Keeping(w, R, P, X) /\ w.pc \notin Holding
  BY DEF Keeping, Holding

\* Cleanup and the owner change no more than the status of a row, or remove it.
LEMMA CleanerKeeps == ASSUME CopiesInv, CleanerTakes PROVE Kept(run, run')
<1> USE DEF CopiesInv
<1>1. PICK z : z = cleaner  OBVIOUS
<1>2. PICK r : r = z.id  OBVIOUS
<1>3. z \in Cleaner /\ CleanerOK(z, run, locks)  BY <1>1 DEF TypeOK
<1>4. CASE CleanerFinishes /\ run' # run
  <2>1. PICK h : h = z.held  OBVIOUS
  <2>2. /\ z.pc = "commit" /\ MaySave(r, h)
        /\ run' = [run EXCEPT ![r] = [Saved(r, h) EXCEPT !.status = "stopped"]]
    BY <1>1, <1>2, <1>4, <2>1 DEF CleanerFinishes, MayFinish, Finished, rows
  <2>3. r \in Runs /\ h \in Run /\ TrueCopy(run[r], h)
    BY <1>2, <1>3, <2>1, <2>2 DEF CleanerOK, Cleaner
  <2>4. PICK s : s = "stopped"  OBVIOUS
  <2>5. PICK row : row = [Saved(r, h) EXCEPT !.status = s]  OBVIOUS
  <2>6. run' = [run EXCEPT ![r] = row] /\ (s = "completed" => Exhausts(r, h))
    BY <2>2, <2>4, <2>5
  <2> QED  BY <2>2, <2>3, <2>5, <2>6, KeptIfCopied
<1>5. CASE DeletesRun
  <2>1. run' = [run EXCEPT ![r] = None] /\ z.pc = "delete"  BY <1>1, <1>2, <1>5 DEF DeletesRun
  <2>2. \A q \in Runs : run'[q] = run[q] \/ run'[q] = None  BY <2>1 DEF TypeOK
  <2> QED  BY <2>2 DEF Kept
<1>6. CASE UNCHANGED run  BY <1>6, KeptIfUnchanged
<1> QED
  BY <1>4, <1>5, <1>6
  DEF CleanerTakes, QueriesRuns, CleanerReadsLocks, CompletesPurge, CleanerDies, ChecksRun,
      Redacts, rows

LEMMA ClientKeeps ==
  ASSUME CopiesInv, NEW c \in Clients, ClientTakes(c), ~CommitStart(c) PROVE Kept(run, run')
<1> USE DEF CopiesInv
<1>1. PICK b : b = client[c]  OBVIOUS
<1>2. PICK r : r = b.id  OBVIOUS
<1>3. PICK h : h = b.held  OBVIOUS
<1>4. b \in Client /\ ClientOK(b, run, locks, started)  BY <1>1 DEF TypeOK
<1>5. ASSUME NEW s, s \in {"running", "stopped"}, MaySave(r, h), b.pc \in {"resume", "commit"},
             run' = [run EXCEPT ![r] = [Saved(r, h) EXCEPT !.status = s]]
      PROVE  Kept(run, run')
  <2>1. r \in Runs /\ h \in Run /\ TrueCopy(run[r], h)
    BY <1>2, <1>3, <1>4, <1>5 DEF ClientOK, Client
  <2>2. PICK row : row = [Saved(r, h) EXCEPT !.status = s]  OBVIOUS
  <2>3. run' = [run EXCEPT ![r] = row] /\ (s = "completed" => Exhausts(r, h))
    BY <1>5, <2>2
  <2> QED  BY <1>5, <2>1, <2>2, <2>3, KeptIfCopied
<1>6. CASE SaveResume(c) /\ run' # run
  <2>1. /\ MaySave(r, h) /\ b.pc = "resume"
        /\ run' = [run EXCEPT ![r] = [Saved(r, h) EXCEPT !.status = "running"]]
    BY <1>1, <1>2, <1>3, <1>6 DEF SaveResume
  <2> QED  BY <1>5, <2>1
<1>7. CASE CommitStop(c) /\ run' # run
  <2>1. /\ MaySave(r, h) /\ b.pc = "commit"
        /\ run' = [run EXCEPT ![r] = [Saved(r, h) EXCEPT !.status = "stopped"]]
    BY <1>1, <1>2, <1>3, <1>7 DEF CommitStop, MayFinish, Finished, rows
  <2> QED  BY <1>5, <2>1
<1>8. CASE UNCHANGED run  BY <1>8, KeptIfUnchanged
<1> QED
  BY <1>6, <1>7, <1>8 DEF ClientTakes, StopReadsLocks, Abandon, StartRun, Command, rows

LEMMA RedactsSame ==
  ASSUME CopiesInv, ReportsInv, NEW i \in Incidents, Redacts(i)
  PROVE  SameReceipts(receipts, receipts')
<1> SUFFICES ASSUME NEW x \in Ids
             PROVE  /\ receipts'[x].incident = receipts[x].incident
                    /\ Sent(receipts', x) <=> Sent(receipts, x)
  BY DEF SameReceipts
<1>1. receipts[x] \in Receipt  BY DEF CopiesInv, TypeOK
<1>2. PICK X : X = receipts[x]  OBVIOUS
<1>3. PICK Y : Y = receipts'[x]  OBVIOUS
<1>4. Y = IF X.incident = i THEN [X EXCEPT !.stage = "deleted"] ELSE X
  BY <1>2, <1>3 DEF Redacts
<1>5. Y.incident = X.incident /\ (Y = X \/ (X.incident = i /\ Y.stage = "deleted"))
  BY ONLY <1>1, <1>2, <1>4 DEF Receipt
<1>6. X.incident = i => Sent(receipts, x)
  BY <1>2, SimulationAssumption DEF SimulationAssumption, ReportsInv, ReceiptsOK
<1> QED  BY <1>2, <1>3, <1>5, <1>6 DEF Sent

LEMMA ReportsOthers == ASSUME CopiesInv, ReportsInv, CleanerTakes \/ WorldTakes PROVE ReportsInv'
<1>1. CASE WorldTakes
  <2>1. UNCHANGED <<run, receipts, published, started, worker>>
    BY <1>1 DEF WorldTakes, Closes, FallsDue, rows, ingress
  <2> QED  BY <2>1, SameIfUnchanged, KeptIfUnchanged, OthersQuiet
<1>2. CASE CleanerTakes
  <2>1. Kept(run, run')  BY <1>2, CleanerKeeps
  <2>2. UNCHANGED <<published, started, worker>>
        /\ (UNCHANGED receipts \/ \E i \in Incidents : Redacts(i))
    BY <1>2
    DEF CleanerTakes, QueriesRuns, CleanerReadsLocks, CleanerFinishes, DeletesRun,
        CompletesPurge, CleanerDies, ChecksRun, Redacts, ingress, world
  <2> QED  BY <2>1, <2>2, SameIfUnchanged, RedactsSame, OthersQuiet
<1> QED  BY <1>1, <1>2

LEMMA ReportsCommitStart ==
  ASSUME CopiesInv, ReportsInv, NEW c \in Clients, CommitStart(c) PROVE ReportsInv'
<1> USE DEF CopiesInv
<1>1. PICK b : b = client[c]  OBVIOUS
<1>2. PICK r : r = b.id  OBVIOUS
<1>3. b \in Client /\ b.pc = "start" /\ ClientOK(b, run, locks, started)
  BY <1>1 DEF TypeOK, CommitStart
<1>4. r \in Runs  BY <1>2, <1>3 DEF ClientOK, Client
<1>5. UNCHANGED <<receipts, published, worker>>  BY DEF CommitStart, ingress
<1>6. CASE MayStart(c)
  <2>1. PICK n : n = NewRun(r)  OBVIOUS
  <2>2. /\ run[r] = None /\ r \notin started /\ started' = started \cup {r}
        /\ run' = [run EXCEPT ![r] = n]
    BY <1>1, <1>2, <1>3, <1>6, <2>1 DEF CommitStart, MayStart, ClientOK
  <2>3. /\ n.status = "running" /\ n.pending = {} /\ n.incidents = {Target[r]} \ {None}
        /\ \A d \in Devices : n.index[d] = 0 /\ n.follows[d] = None
    BY <1>4, <2>1, NewRunOK
  <2>4. Fits(r, n, published, receipts)
    <3>1. ASSUME NEW d \in DevicesOf(r), NEW m \in 0 .. Reports[d] - 1
          PROVE  ~Sent(receipts, <<r, d, m>>) /\ ~(m < n.index[d])
      <4>1. d \in Devices  BY <1>4, DeviceOK
      <4>2. Reports[d] \in Nat  BY <4>1, SimulationAssumption DEF SimulationAssumption
      <4>3. m \in Nat /\ m < Reports[d]  BY <4>2
      <4>4. <<r, d, m>> \in Ids  BY <1>4, <4>1, <4>3, InIds
      <4>5. <<r, d, m>>[1] = r  OBVIOUS
      <4>6. ~Sent(receipts, <<r, d, m>>)  BY <2>2, <4>4, <4>5 DEF ReportsInv, ReceiptsOK
      <4> QED  BY <2>3, <4>1, <4>3, <4>6
    <3>2. \A d \in DevicesOf(r) : n.follows[d] = None  BY <1>4, <2>3, DeviceOK
    <3> QED  BY <2>3, <3>1, <3>2 DEF Fits
  <2>5. ASSUME NEW q \in Runs PROVE RowOK(q, run'[q], published, receipts)
    <3>1. run'[q] = IF q = r THEN n ELSE run[q]  BY <2>2 DEF TypeOK
    <3> QED  BY <2>3, <2>4, <3>1 DEF RowOK, ReportsInv
  <2>6. Keeping(worker, run', published, receipts)
    <3>1. worker.pc \in Holding => worker.id \in Runs /\ run'[worker.id] = run[worker.id]
      BY <2>2 DEF WorkerOK, TypeOK, Worker
    <3> QED  BY <3>1 DEF Keeping, ReportsInv
  <2>7. ReceiptsOK(receipts, started')  BY <2>2 DEF ReceiptsOK, ReportsInv
  <2> QED  BY <1>5, <2>5, <2>6, <2>7 DEF ReportsInv
<1>7. CASE ~MayStart(c)
  <2>1. UNCHANGED <<run, started>>  BY <1>7 DEF CommitStart, rows
  <2> QED  BY <1>5, <2>1, SameIfUnchanged, KeptIfUnchanged, OthersQuiet
<1> QED  BY <1>6, <1>7

LEMMA ReportsClient ==
  ASSUME CopiesInv, ReportsInv, NEW c \in Clients, ClientTakes(c) PROVE ReportsInv'
<1>1. CASE ~CommitStart(c)
  <2>1. UNCHANGED <<receipts, published, started, worker>>
    BY <1>1
    DEF ClientTakes, SaveResume, StopReadsLocks, CommitStop, Abandon, StartRun, Command,
        ingress, world
  <2> QED  BY <1>1, <2>1, ClientKeeps, SameIfUnchanged, OthersQuiet
<1> QED  BY <1>1, ReportsCommitStart

LEMMA PlacesOfRest ==
  ASSUME NEW w \in Worker
  PROVE  /\ IdleWorker.pc = "idle" /\ NextJob(w).pc = "next" /\ RecoveringOf(w).pc = "recover"
         /\ NextJob(w).id = None
<1>1. IdleWorker.pc = "idle"  BY DEF IdleWorker
<1>2. NextJob(w).pc = "next" /\ NextJob(w).id = None  BY DEF NextJob, Worker
<1>3. RecoveringOf(w).pc = "recover"  BY DEF RecoveringOf, Worker
<1> QED  BY <1>1, <1>2, <1>3

\* The worker's steps that write nothing but its own state.
LEMMA ReportsWorkerReads ==
  ASSUME CopiesInv, ReportsInv, WorkerTakes, UNCHANGED <<run, receipts, published, started>>,
         ~Pauses, ~WorkerFinishes, ~SavesAnswer, ~SaveUnanswered, \A k : ~Scans(k),
         \A troubled \in BOOLEAN : ~Delivers(troubled)
  PROVE  ReportsInv'
<1> USE DEF CopiesInv
<1>1. PICK w : w = worker  OBVIOUS
<1>2. PICK v : v = worker'  OBVIOUS
<1>3. /\ w \in Worker /\ WorkerOK(w, run, locks, started)
      /\ Keeping(w, run, published, receipts)
  BY <1>1 DEF TypeOK, ReportsInv
<1>4. SUFFICES Keeping(v, run, published, receipts) /\ (v.pc \in Holding => v.id \in Runs)
  BY <1>2, SameIfUnchanged, KeptIfUnchanged, QuietStep
<1>5. CASE v.pc \in {"idle", "next", "recover"}  BY <1>5, KeepsNothing
<1>6. CASE /\ w.pc \in {"incidents", "scan", "exhausted", "finish"} /\ v.id = w.id /\ v.held = w.held
           /\ v.pc \in {"finish", "scan", "exhausted", "commit"}
           /\ v.pc \in {"finish", "commit"} /\ v.verdict = "completed" => Exhausts(w.id, w.held)
  <2>1. w.id \in Runs  BY <1>3, <1>6 DEF WorkerOK, Holding, Worker
  <2> QED  BY <1>3, <1>6, <2>1 DEF Keeping, Holding
<1>7. ASSUME NEW r \in Runs, run[r] # None, v.pc \in {"incidents", "pause"}, v.id = r, v.held = run[r]
      PROVE  Keeping(v, run, published, receipts) /\ v.id \in Runs
  BY <1>7 DEF Keeping, ReportsInv, RowOK, Holding
<1>8. CASE Wakes \/ EndsTick \/ WorkerDies
  <2>1. CASE v = IdleWorker  BY <1>3, <1>5, <2>1, PlacesOfRest
  <2>2. CASE Wakes
    <3>1. v = [IdleWorker EXCEPT !.pc = "next", !.page = jobs, !.knew = Known]
      BY <1>2, <2>2 DEF Wakes
    <3>2. v.pc = "next"  BY ONLY <3>1 DEF IdleWorker
    <3> QED  BY <1>5, <3>2
  <2> QED  BY <1>2, <1>8, <2>1, <2>2 DEF EndsTick, WorkerDies
<1>9. CASE WorkerFails
  <2>1. v = [w EXCEPT !.pc = "recover"]  BY <1>1, <1>2, <1>9 DEF WorkerFails
  <2>2. v.pc = "recover"  BY ONLY <1>3, <2>1 DEF Worker
  <2> QED  BY <1>5, <2>2
<1>10. CASE v = NextJob(w)
  <2>1. v.pc = "next"  BY <1>3, <1>10, PlacesOfRest
  <2> QED  BY <1>5, <2>1
<1>11. CASE ChecksIncidents
  <2>1. w.pc = "incidents"  BY <1>1, <1>11 DEF ChecksIncidents
  <2>2. CASE v = [w EXCEPT !.pc = "finish", !.verdict = "stopped"]
    <3>1. v.pc = "finish" /\ v.verdict = "stopped" /\ v.id = w.id /\ v.held = w.held
      BY ONLY <1>3, <2>2 DEF Worker
    <3> QED  BY <1>6, <2>1, <3>1
  <2>3. CASE v = [w EXCEPT !.pc = "scan", !.base = w.held.cursor]
    <3>1. v.pc = "scan" /\ v.id = w.id /\ v.held = w.held  BY ONLY <1>3, <2>3 DEF Worker
    <3> QED  BY <1>6, <2>1, <3>1
  <2> QED  BY <1>1, <1>2, <1>10, <1>11, <2>2, <2>3 DEF ChecksIncidents
<1>12. CASE EndsScan \/ StopsScanning
  <2>1. w.pc = "scan" /\ v = [w EXCEPT !.pc = "exhausted"]
    BY <1>1, <1>2, <1>12 DEF EndsScan, StopsScanning
  <2>2. v.pc = "exhausted" /\ v.id = w.id /\ v.held = w.held  BY ONLY <1>3, <2>1 DEF Worker
  <2> QED  BY <1>6, <2>1, <2>2
<1>13. CASE EndsWork
  <2>1. w.pc = "exhausted"  BY <1>1, <1>13 DEF EndsWork
  <2>2. CASE Exhausted /\ v = [w EXCEPT !.pc = "finish", !.verdict = "completed"]
    <3>1. v.pc = "finish" /\ v.id = w.id /\ v.held = w.held  BY ONLY <1>3, <2>2 DEF Worker
    <3>2. Exhausts(w.id, w.held)  BY <1>1, <2>2 DEF Exhausted, Exhausts
    <3> QED  BY <1>6, <2>1, <3>1, <3>2
  <2> QED  BY <1>1, <1>2, <1>10, <1>13, <2>2 DEF EndsWork
<1>14. CASE WorkerReadsLocks
  <2>1. w.pc = "finish" /\ v = [w EXCEPT !.pc = "commit", !.locks = locks]
    BY <1>1, <1>2, <1>14 DEF WorkerReadsLocks
  <2>2. v.pc = "commit" /\ v.id = w.id /\ v.held = w.held /\ v.verdict = w.verdict
    BY ONLY <1>3, <2>1 DEF Worker
  <2>3. w.verdict = "completed" => Exhausts(w.id, w.held)  BY <1>3, <2>1 DEF Keeping
  <2> QED  BY <1>6, <2>1, <2>2, <2>3
<1>15. CASE Recovers
  <2>1. w.pc = "recover"  BY <1>1, <1>15 DEF Recovers
  <2>2. PICK c : c = run[w.id]  OBVIOUS
  <2>3. CASE c # None /\ v = [w EXCEPT !.pc = "pause", !.held = c, !.locks = None]
    <3>1. w.id \in Runs  BY <1>3, <2>1 DEF WorkerOK, Worker
    <3>2. v.pc = "pause" /\ v.id = w.id /\ v.held = c  BY ONLY <1>3, <2>3 DEF Worker
    <3> QED  BY <1>7, <2>2, <2>3, <3>1, <3>2
  <2> QED  BY <1>1, <1>2, <1>10, <1>15, <2>2, <2>3 DEF Recovers
<1>16. ASSUME NEW r \in Runs, TakesJob(r)
       PROVE  Keeping(v, run, published, receipts) /\ (v.pc \in Holding => v.id \in Runs)
  <2>1. w.pc = "next"  BY <1>1, <1>16 DEF TakesJob
  <2>2. PICK c : c = run[r]  OBVIOUS
  <2>3. CASE c = None
    <3>1. v = [w EXCEPT !.page = @ \ {r}]  BY <1>1, <1>2, <1>16, <2>2, <2>3 DEF TakesJob
    <3>2. v.pc = "next"  BY ONLY <1>3, <2>1, <3>1 DEF Worker
    <3> QED  BY <1>5, <3>2
  <2>4. CASE c # None
    <3>1. v = [w EXCEPT !.page = @ \ {r}, !.pc = "incidents", !.id = r, !.held = c, !.done = 0]
      BY <1>1, <1>2, <1>16, <2>2, <2>4 DEF TakesJob
    <3>2. v.pc = "incidents" /\ v.id = r /\ v.held = c  BY ONLY <1>3, <3>1 DEF Worker
    <3> QED  BY <1>7, <2>2, <2>4, <3>2
  <2> QED  BY <2>3, <2>4
<1> QED
  BY <1>8, <1>9, <1>11, <1>12, <1>13, <1>14, <1>15, <1>16 DEF WorkerTakes

LEMMA PausesKeep == ASSUME CopiesInv, Pauses PROVE Kept(run, run')
<1> USE DEF CopiesInv
<1>1. PICK r : r = worker.id  OBVIOUS
<1>2. PICK h : h = worker.held  OBVIOUS
<1>3. r \in Runs /\ h \in Run /\ TrueCopy(run[r], h)
  BY <1>1, <1>2 DEF TypeOK, Pauses, WorkerOK, Holding, Worker
<1>4. CASE run' # run
  <2>1. MaySave(r, h) /\ run' = [run EXCEPT ![r] = [Saved(r, h) EXCEPT !.status = "paused"]]
    BY <1>1, <1>2, <1>4 DEF Pauses
  <2>2. PICK s : s = "paused"  OBVIOUS
  <2>3. PICK row : row = [Saved(r, h) EXCEPT !.status = s]  OBVIOUS
  <2>4. run' = [run EXCEPT ![r] = row] /\ (s = "completed" => Exhausts(r, h))
    BY <2>1, <2>2, <2>3
  <2> QED  BY <1>3, <2>1, <2>3, <2>4, KeptIfCopied
<1> QED  BY <1>4, KeptIfUnchanged

LEMMA FinishesKeep == ASSUME CopiesInv, ReportsInv, WorkerFinishes PROVE Kept(run, run')
<1> USE DEF CopiesInv
<1>1. PICK w : w = worker  OBVIOUS
<1>2. PICK r : r = w.id  OBVIOUS
<1>3. PICK h : h = w.held  OBVIOUS
<1>4. r \in Runs /\ h \in Run /\ TrueCopy(run[r], h)
  BY <1>1, <1>2, <1>3 DEF TypeOK, WorkerFinishes, WorkerOK, Holding, Worker
<1>5. CASE run' # run
  <2>1. /\ w.pc = "commit" /\ MaySave(r, h)
        /\ run' = [run EXCEPT ![r] = [Saved(r, h) EXCEPT !.status = w.verdict]]
    BY <1>1, <1>2, <1>3, <1>5 DEF WorkerFinishes, MayFinish, Finished, rows
  <2>2. PICK s : s = w.verdict  OBVIOUS
  <2>3. PICK row : row = [Saved(r, h) EXCEPT !.status = s]  OBVIOUS
  <2>4. run' = [run EXCEPT ![r] = row] /\ (s = "completed" => Exhausts(r, h))
    BY <1>1, <1>2, <1>3, <2>1, <2>2, <2>3 DEF Keeping, ReportsInv
  <2> QED  BY <1>4, <2>1, <2>3, <2>4, KeptIfCopied
<1> QED  BY <1>5, KeptIfUnchanged

\* They leave the worker without a run, or about to recover.
LEMMA ReportsFinishes ==
  ASSUME CopiesInv, ReportsInv, Pauses \/ WorkerFinishes PROVE ReportsInv'
<1>1. PICK w : w = worker  OBVIOUS
<1>2. PICK v : v = worker'  OBVIOUS
<1>3. w \in Worker /\ UNCHANGED <<receipts, published, started>>
  BY <1>1 DEF CopiesInv, TypeOK, Pauses, WorkerFinishes, ingress, world
<1>4. v = NextJob(w) \/ v = RecoveringOf(w)
  BY <1>1, <1>2 DEF Pauses, WorkerFinishes, RecoveringOf
<1>5. v.pc \in {"next", "recover"}  BY <1>3, <1>4, PlacesOfRest
<1>6. Keeping(v, run, published, receipts) /\ v.pc \notin Holding  BY <1>5, KeepsNothing
<1>7. Kept(run, run')  BY PausesKeep, FinishesKeep
<1> QED  BY <1>2, <1>3, <1>6, <1>7, SameIfUnchanged, QuietStep

\* The worker's steps that mark, send and count.
LEMMA WritesRow ==
  ASSUME CopiesInv, ReportsInv, NEW r \in Runs, NEW row, run' = [run EXCEPT ![r] = row],
         RowOK(r, row, published, receipts), UNCHANGED <<receipts, published, started>>,
         NEW w, w = worker', Keeping(w, run', published, receipts)
  PROVE  ReportsInv'
<1>1. \A q \in Runs : run'[q] = IF q = r THEN row ELSE run[q]  BY DEF CopiesInv, TypeOK
<1>2. ASSUME NEW q \in Runs PROVE RowOK(q, run'[q], published, receipts)
  BY <1>1 DEF ReportsInv
<1> QED  BY <1>2 DEF ReportsInv

LEMMA ReportsScans == ASSUME CopiesInv, ReportsInv, NEW k, Scans(k) PROVE ReportsInv'
<1> USE DEF CopiesInv
<1>1. PICK w : w = worker  OBVIOUS
<1>2. PICK r : r = w.id  OBVIOUS
<1>3. PICK h : h = w.held  OBVIOUS
<1>4. /\ w \in Worker /\ w.pc = "scan" /\ WorkerOK(w, run, locks, started)
      /\ Keeping(w, run, published, receipts) /\ UNCHANGED <<receipts, published, started>>
  BY <1>1 DEF TypeOK, Scans, ingress, world, ReportsInv
<1>5. /\ r \in Runs /\ h \in Run /\ h # None /\ TrueCopy(run[r], h) /\ h.status = "running"
      /\ Fits(r, h, published, receipts)
  BY <1>2, <1>3, <1>4 DEF WorkerOK, Holding, Worker, Keeping
<1>6. PICK d : d = Rows[r][((w.base + k) % Len(Rows[r])) + 1]  OBVIOUS
<1>7. Reachable(k) /\ d = DeviceAt(k)  BY <1>1, <1>2, <1>6 DEF Scans, DeviceAt, Position
<1>8. k \in Nat
  <2>1. Len(Rows[r]) \in Nat /\ w.visited \in Nat
    BY <1>4, <1>5, SimulationAssumption DEF SimulationAssumption, Worker
  <2> QED  BY <1>1, <1>2, <1>7, <2>1 DEF Reachable
<1>9. d \in Devices
  <2>1. w.base + k \in Nat  BY <1>4, <1>8 DEF Worker
  <2> QED  BY <1>5, <1>6, <2>1, RotationOK
<1>10. h.index[d] < Reports[d]  BY <1>1, <1>3, <1>7 DEF Reachable, Ready
<1>11. PICK v : v = worker'  OBVIOUS
<1>12. CASE d \in h.pending
  <2>1. v = [w EXCEPT !.pc = "deliver", !.visited = k] /\ UNCHANGED run
    BY <1>1, <1>3, <1>7, <1>11, <1>12 DEF Scans
  <2>2. /\ v.pc = "deliver" /\ v.id = r /\ v.held = h /\ v.base = w.base /\ v.visited = k
    BY ONLY <1>2, <1>3, <1>4, <2>1 DEF Worker
  <2>3. At(v) \in h.pending  BY <1>6, <1>12, <2>2 DEF At
  <2>4. Keeping(v, run, published, receipts)
    BY <1>2, <1>3, <1>4, <2>2, <2>3 DEF Keeping, Holding
  <2> QED  BY <1>4, <1>5, <1>11, <2>1, <2>2, <2>4, SameIfUnchanged, KeptIfUnchanged, QuietStep
<1>13. CASE d \notin h.pending /\ MaySave(r, h)
  <2>1. PICK s : s = Saved(r, h)  OBVIOUS
  <2>2. /\ s \in Run /\ s.status = "running" /\ s.index = h.index /\ s.pending = h.pending
        /\ s.incidents = h.incidents /\ s.follows = h.follows
    BY <1>5, <2>1, SavedRow
  <2>3. PICK row : row = [s EXCEPT !.pending = @ \cup {d}]  OBVIOUS
  <2>4. /\ row.status = "running" /\ row.index = h.index /\ row.pending = h.pending \cup {d}
        /\ row.incidents = h.incidents /\ row.follows = h.follows
    BY ONLY <2>2, <2>3 DEF Run
  <2>5. /\ run' = [run EXCEPT ![r] = row]
        /\ v = [w EXCEPT !.pc = "deliver", !.visited = k, !.held = row]
    BY <1>1, <1>2, <1>3, <1>7, <1>11, <1>13, <2>1, <2>3 DEF Scans
  <2>6. /\ v.pc = "deliver" /\ v.id = r /\ v.held = row /\ v.base = w.base /\ v.visited = k
    BY ONLY <1>2, <1>4, <2>5 DEF Worker
  <2>7. Fits(r, row, published, receipts)  BY <1>5, <1>10, <2>4 DEF Fits
  <2>8. At(v) \in row.pending  BY <1>6, <2>4, <2>6 DEF At
  <2>9. run'[r] = row  BY <1>5, <2>5 DEF TypeOK
  <2>10. Keeping(v, run', published, receipts)  BY <2>6, <2>7, <2>8, <2>9 DEF Keeping
  <2>11. RowOK(r, row, published, receipts)  BY <2>4, <2>7 DEF RowOK
  <2> QED  BY <1>4, <1>5, <1>11, <2>5, <2>10, <2>11, WritesRow
<1>14. CASE d \notin h.pending /\ ~MaySave(r, h)
  <2>1. UNCHANGED run /\ v = RecoveringOf(w)
    BY <1>1, <1>2, <1>3, <1>7, <1>11, <1>14 DEF Scans, RecoveringOf
  <2>2. v.pc = "recover"  BY <1>4, <2>1, PlacesOfRest
  <2>3. Keeping(v, run, published, receipts) /\ v.pc \notin Holding  BY <2>2, KeepsNothing
  <2> QED  BY <1>4, <1>11, <2>1, <2>3, SameIfUnchanged, KeptIfUnchanged, QuietStep
<1> QED  BY <1>12, <1>13, <1>14

LEMMA ReportsSavesAnswer == ASSUME CopiesInv, ReportsInv, SavesAnswer PROVE ReportsInv'
<1> USE DEF CopiesInv
<1>1. PICK w : w = worker  OBVIOUS
<1>2. PICK r : r = w.id  OBVIOUS
<1>3. PICK h : h = w.held  OBVIOUS
<1>4. /\ w \in Worker /\ w.pc = "save" /\ WorkerOK(w, run, locks, started)
      /\ Keeping(w, run, published, receipts) /\ UNCHANGED <<receipts, published, started>>
  BY <1>1 DEF TypeOK, SavesAnswer, ingress, world, ReportsInv
<1>5. r \in Runs /\ h \in Run /\ Active(h) /\ Fits(r, h, published, receipts)
  BY <1>2, <1>3, <1>4 DEF WorkerOK, Holding, Worker, Keeping
<1>6. PICK v : v = worker'  OBVIOUS
<1>7. CASE MaySave(r, h)
  <2>1. PICK row : row = Saved(r, h)  OBVIOUS
  <2>2. row \in Run /\ row.status = h.status /\ Done(row) = Done(h)
    BY <1>5, <2>1, SavedRow DEF Done
  <2>3. PICK p : p = IF row.status = "running" THEN "scan" ELSE "exhausted"  OBVIOUS
  <2>4. PICK n : n = w.visited + 1  OBVIOUS
  <2>5. run' = [run EXCEPT ![r] = row] /\ v = [w EXCEPT !.held = row, !.visited = n, !.pc = p]
    BY <1>1, <1>2, <1>3, <1>6, <1>7, <2>1, <2>3, <2>4 DEF SavesAnswer
  <2>6. v.pc = p /\ v.id = r /\ v.held = row  BY ONLY <1>2, <1>4, <2>5 DEF Worker
  <2>7. SameReceipts(receipts, receipts)  BY DEF SameReceipts
  <2>8. Fits(r, row, published, receipts)  BY <1>5, <2>2, <2>7, FitsSame
  <2>9. run'[r] = row  BY <1>5, <2>5 DEF TypeOK
  <2>10. Keeping(v, run', published, receipts)  BY <2>3, <2>6, <2>8, <2>9 DEF Keeping
  <2>11. row.status # "completed"  BY <1>5, <2>2 DEF Active
  <2>12. RowOK(r, row, published, receipts)  BY <2>8, <2>11 DEF RowOK
  <2> QED  BY <1>4, <1>5, <1>6, <2>5, <2>10, <2>12, WritesRow
<1>8. CASE ~MaySave(r, h)
  <2>1. UNCHANGED run /\ v = RecoveringOf(w)
    BY <1>1, <1>2, <1>3, <1>6, <1>8 DEF SavesAnswer, RecoveringOf
  <2>2. v.pc = "recover"  BY <1>4, <2>1, PlacesOfRest
  <2>3. Keeping(v, run, published, receipts) /\ v.pc \notin Holding  BY <2>2, KeepsNothing
  <2> QED  BY <1>4, <1>6, <2>1, <2>3, SameIfUnchanged, KeptIfUnchanged, QuietStep
<1> QED  BY <1>7, <1>8

LEMMA ReportsSaveUnanswered ==
  ASSUME CopiesInv, ReportsInv, SaveUnanswered PROVE ReportsInv'
<1> USE DEF CopiesInv
<1>1. PICK w : w = worker  OBVIOUS
<1>2. PICK r : r = w.id  OBVIOUS
<1>3. PICK h : h = w.held  OBVIOUS
<1>4. /\ w \in Worker /\ w.pc = "save" /\ WorkerOK(w, run, locks, started)
      /\ Keeping(w, run, published, receipts) /\ UNCHANGED <<receipts, published, started>>
  BY <1>1 DEF TypeOK, SaveUnanswered, ingress, world, ReportsInv
<1>5. r \in Runs /\ h \in Run /\ Active(h) /\ Fits(r, h, published, receipts)
  BY <1>2, <1>3, <1>4 DEF WorkerOK, Holding, Worker, Keeping
<1>6. PICK row : row = Saved(r, h)  OBVIOUS
<1>7. row \in Run /\ row.status = h.status /\ Done(row) = Done(h)
  BY <1>5, <1>6, SavedRow DEF Done
<1>8. PICK v : v = worker'  OBVIOUS
<1>9. run' = [run EXCEPT ![r] = row] /\ v = RecoveringOf(w)
  BY <1>1, <1>2, <1>3, <1>6, <1>8 DEF SaveUnanswered, RecoveringOf
<1>10. SameReceipts(receipts, receipts)  BY DEF SameReceipts
<1>11. Fits(r, row, published, receipts)  BY <1>5, <1>7, <1>10, FitsSame
<1>12. row.status # "completed"  BY <1>5, <1>7 DEF Active
<1>13. RowOK(r, row, published, receipts)  BY <1>11, <1>12 DEF RowOK
<1>14. v.pc = "recover"  BY <1>4, <1>9, PlacesOfRest
<1>15. Keeping(v, run', published, receipts)  BY <1>14, KeepsNothing
<1> QED  BY <1>4, <1>5, <1>8, <1>9, <1>13, <1>15, WritesRow

LEMMA IdParts ==
  ASSUME NEW x \in Ids
  PROVE  /\ x = <<x[1], x[2], x[3]>> /\ x[1] \in Runs /\ x[2] \in Devices
         /\ x[3] \in 0 .. Reports[x[2]] - 1 /\ x[3] \in Nat
<1>1. PICK r \in Runs, d \in Devices : x \in {r} \X {d} \X (0 .. Reports[d] - 1)
  BY DEF Ids
<1>2. Reports[d] \in Nat  BY SimulationAssumption DEF SimulationAssumption
<1> QED  BY <1>1, <1>2

LEMMA ReportIds ==
  ASSUME NEW r \in Runs, NEW d \in DevicesOf(r), NEW m \in 0 .. Reports[d] - 1
  PROVE  <<r, d, m>> \in Ids /\ m \in Nat /\ d \in Devices /\ m < Reports[d]
<1>1. d \in Devices  BY DeviceOK
<1>2. Reports[d] \in Nat  BY <1>1, SimulationAssumption DEF SimulationAssumption
<1>3. m \in Nat /\ m < Reports[d]  BY <1>2
<1> QED  BY <1>1, <1>3, InIds

\* Sending the report that is marked changes nothing of what a row counts.
LEMMA FitsDelivered ==
  ASSUME NEW r \in Runs, NEW d \in DevicesOf(r), NEW h, NEW n, n = h.index[d],
         d \in h.pending, NEW P, NEW X, Fits(r, h, P, X), NEW Q, P \subseteq Q, NEW Y,
         \A y \in Ids : y # <<r, d, n>> => Y[y] = X[y]
  PROVE  Fits(r, h, Q, Y)
<1>1. ASSUME NEW e \in DevicesOf(r), NEW m \in 0 .. Reports[e] - 1
      PROVE  (e = d /\ m = n) \/ Y[<<r, e, m>>] = X[<<r, e, m>>]
  <2>1. <<r, e, m>> \in Ids  BY ReportIds
  <2>2. e # d \/ m # n => <<r, e, m>> # <<r, d, n>>  OBVIOUS
  <2> QED  BY <2>1, <2>2
<1>2. ASSUME NEW e \in DevicesOf(r), NEW m \in 0 .. Reports[e] - 1
      PROVE  /\ m < h.index[e] =>
                  /\ <<r, e, m>> \in Q /\ Sent(Y, <<r, e, m>>)
                  /\ Y[<<r, e, m>>].incident = h.follows[e]
             /\ m > h.index[e] => ~Sent(Y, <<r, e, m>>)
             /\ m = h.index[e] /\ Sent(Y, <<r, e, m>>) => e \in h.pending
  <2>1. CASE e = d /\ m = n  BY <2>1
  <2>2. CASE Y[<<r, e, m>>] = X[<<r, e, m>>]  BY <2>2 DEF Fits, Sent
  <2> QED  BY <1>1, <2>1, <2>2
<1> QED  BY <1>2 DEF Fits

\* A row that counts the report just published fits.
LEMMA FitsAnswered ==
  ASSUME NEW r \in Runs, NEW d \in DevicesOf(r), NEW h, NEW n \in Nat, n = h.index[d], h.pending \subseteq Devices,
         d \in h.pending, NEW P, NEW X, Fits(r, h, P, X),
         NEW told, Sent(X, <<r, d, n>>), X[<<r, d, n>>].incident = told, <<r, d, n>> \in P,
         n > 0 => told = h.follows[d], Target[r] # None => told = Target[r],
         NEW a, h.incidents \subseteq a.incidents, a.pending = h.pending \ {d},
         a.index[d] = n + 1, a.follows[d] = told,
         \A e \in Devices : e # d => a.follows[e] = h.follows[e] /\ a.index[e] = h.index[e]
  PROVE  Fits(r, a, P, X)
<1>1. ASSUME NEW e \in DevicesOf(r), NEW m \in 0 .. Reports[e] - 1
      PROVE  /\ m < a.index[e] =>
                  /\ <<r, e, m>> \in P /\ Sent(X, <<r, e, m>>)
                  /\ X[<<r, e, m>>].incident = a.follows[e]
             /\ m > a.index[e] => ~Sent(X, <<r, e, m>>)
             /\ m = a.index[e] /\ Sent(X, <<r, e, m>>) => e \in a.pending
  <2>1. m \in Nat /\ e \in Devices  BY ReportIds
  <2>2. CASE e # d  BY <2>1, <2>2 DEF Fits
  <2>3. CASE e = d /\ m < n
    <3>1. n > 0 /\ m < h.index[e]  BY <2>1, <2>3
    <3> QED  BY <2>1, <2>3, <3>1 DEF Fits
  <2>4. CASE e = d /\ m = n  BY <2>1, <2>4
  <2>5. CASE e = d /\ m > n
    <3>1. ~Sent(X, <<r, e, m>>)  BY <2>5 DEF Fits
    <3> QED  BY <2>1, <2>5, <3>1
  <2> QED  BY <2>1, <2>2, <2>3, <2>4, <2>5
<1>2. \A e \in a.pending : e # d /\ e \in h.pending  OBVIOUS
<1>3. \A e \in DevicesOf(r) : Target[r] # None => a.follows[e] \in {Target[r], None}
  <2> SUFFICES ASSUME NEW e \in DevicesOf(r), Target[r] # None
               PROVE  a.follows[e] \in {Target[r], None}
    OBVIOUS
  <2>1. e \in Devices  BY DeviceOK
  <2> QED  BY <2>1 DEF Fits
<1>4. ASSUME NEW e \in a.pending PROVE a.index[e] < Reports[e]
  BY <1>2 DEF Fits
<1> QED  BY <1>1, <1>3, <1>4 DEF Fits

\* What a delivery is answered fits the reports of the row sent before it.
LEMMA AnsweredHome ==
  ASSUME CopiesInv, ReportsInv, NEW r \in Runs, NEW d \in DevicesOf(r), NEW h, NEW n \in Nat,
         n = h.index[d], n < Reports[d], Fits(r, h, published, receipts), NEW t,
         t = IF h.follows[d] # None THEN h.follows[d] ELSE Target[r], NEW told,
         Sent(receipts, <<r, d, n>>) => told = receipts[<<r, d, n>>].incident,
         ~Sent(receipts, <<r, d, n>>) => told \in Incidents /\ (t # None => told = t)
  PROVE  /\ told # None /\ (n > 0 => told = h.follows[d])
         /\ Target[r] # None => told = Target[r]
<1>1. d \in Devices  BY DeviceOK
<1>2. Reports[d] \in Nat /\ None \notin Incidents  BY <1>1, SimulationAssumption DEF SimulationAssumption
<1>3. <<r, d, n>> \in Ids  BY <1>1, InIds
<1>4. <<r, d, n>>[1] = r /\ <<r, d, n>>[2] = d /\ <<r, d, 0>>[1] = r /\ <<r, d, 0>>[2] = d  OBVIOUS
<1>5. ASSUME n > 0
      PROVE  /\ <<r, d, 0>> \in Ids /\ Sent(receipts, <<r, d, 0>>)
             /\ receipts[<<r, d, 0>>].incident = h.follows[d] /\ h.follows[d] # None
  <2>1. 0 \in 0 .. Reports[d] - 1 /\ 0 < h.index[d]  BY <1>2, <1>5
  <2>2. <<r, d, 0>> \in Ids  BY <2>1, ReportIds
  <2>3. Sent(receipts, <<r, d, 0>>) /\ receipts[<<r, d, 0>>].incident = h.follows[d]
    BY <2>1 DEF Fits
  <2> QED  BY <2>2, <2>3 DEF ReportsInv, ReceiptsOK
<1>6. CASE Sent(receipts, <<r, d, n>>)
  <2>1. told # None /\ (Target[r] # None => told = Target[r])
    BY <1>3, <1>4, <1>6 DEF ReportsInv, ReceiptsOK
  <2>2. n > 0 => told = h.follows[d]  BY <1>3, <1>4, <1>5, <1>6 DEF ReportsInv, ReceiptsOK
  <2> QED  BY <2>1, <2>2
<1>7. CASE ~Sent(receipts, <<r, d, n>>)
  <2>1. Target[r] # None => h.follows[d] \in {Target[r], None}  BY DEF Fits
  <2> QED  BY <1>2, <1>5, <1>7, <2>1
<1> QED  BY <1>6, <1>7

\* The receipts with one more report, or the same further on.
LEMMA ReceiptsAfter ==
  ASSUME CopiesInv, ReportsInv, NEW r \in Runs, NEW d \in DevicesOf(r), NEW h, NEW n \in Nat,
         n = h.index[d], n < Reports[d], Fits(r, h, published, receipts), r \in started,
         NEW Y, \A y \in Ids : y # <<r, d, n>> => Y[y] = receipts[y],
         Sent(Y, <<r, d, n>>), NEW told, Y[<<r, d, n>>].incident = told,
         told # None, n > 0 => told = h.follows[d], Target[r] # None => told = Target[r]
  PROVE  ReceiptsOK(Y, started)
<1>1. PICK x : x = <<r, d, n>>  OBVIOUS
<1>2. x[1] = r /\ x[2] = d  BY <1>1
<1>3. ASSUME NEW y \in Ids
      PROVE  /\ Sent(Y, y) => y[1] \in started
             /\ Sent(Y, y) <=> Y[y].incident # None
             /\ Sent(Y, y) /\ Target[y[1]] # None => Y[y].incident = Target[y[1]]
  <2>1. CASE y = x  BY <1>1, <1>2, <2>1
  <2>2. CASE y # x
    <3>1. Y[y] = receipts[y]  BY <1>1, <2>2
    <3> QED  BY <3>1 DEF ReportsInv, ReceiptsOK, Sent
  <2> QED  BY <2>1, <2>2
<1>4. ASSUME NEW y \in Ids, y # x, y[1] = r, y[2] = d, Sent(Y, y)
      PROVE  Y[y].incident = told
  <2>1. Y[y] = receipts[y]  BY <1>1, <1>4
  <2>2. y = <<r, d, y[3]>> /\ y[3] \in 0 .. Reports[d] - 1 /\ y[3] \in Nat
    BY <1>4, IdParts
  <2>3. y[3] # n  BY <1>1, <1>4, <2>2
  <2>4. ~(y[3] > h.index[d])  BY <1>4, <2>1, <2>2 DEF Fits, Sent
  <2>5. y[3] < h.index[d] /\ n > 0  BY <2>2, <2>3, <2>4
  <2>6. receipts[y].incident = h.follows[d]  BY <2>2, <2>5 DEF Fits
  <2> QED  BY <2>1, <2>5, <2>6
<1>5. ASSUME NEW y \in Ids, NEW z \in Ids, y[1] = z[1], y[2] = z[2], Sent(Y, y), Sent(Y, z)
      PROVE  Y[y].incident = Y[z].incident
  <2>1. CASE y # x /\ z # x
    <3>1. Y[y] = receipts[y] /\ Y[z] = receipts[z]  BY <1>1, <2>1
    <3> QED  BY <1>5, <3>1 DEF ReportsInv, ReceiptsOK, Sent
  <2>2. CASE y = x /\ z # x  BY <1>1, <1>2, <1>4, <1>5, <2>2
  <2>3. CASE y # x /\ z = x  BY <1>1, <1>2, <1>4, <1>5, <2>3
  <2> QED  BY <2>1, <2>2, <2>3
<1> QED  BY <1>3, <1>5 DEF ReceiptsOK

\* Rows of all runs, when the worker's copy still fits.
LEMMA RowsAfter ==
  ASSUME CopiesInv, ReportsInv, NEW r \in Runs, NEW d \in DevicesOf(r), NEW n, NEW h,
         run[r] # None => Done(h) = Done(run[r]), NEW Q, published \subseteq Q,
         NEW Y, \A y \in Ids : y # <<r, d, n>> => Y[y] = receipts[y], Fits(r, h, Q, Y),
         NEW q \in Runs
  PROVE  RowOK(q, run[q], Q, Y)
<1>1. CASE q = r
  <2>1. SameReceipts(Y, Y)  BY DEF SameReceipts
  <2>2. run[r] # None => Fits(r, run[r], Q, Y)
    <3> SUFFICES ASSUME run[r] # None PROVE Fits(r, run[r], Q, Y)  OBVIOUS
    <3>1. Done(run[r]) = Done(h)  OBVIOUS
    <3> QED  BY <2>1, <3>1, FitsSame
  <2> QED  BY <1>1, <2>2 DEF ReportsInv, RowOK
<1>2. CASE q # r
  <2>1. ASSUME NEW e \in DevicesOf(q), NEW m \in 0 .. Reports[e] - 1
        PROVE  Y[<<q, e, m>>] = receipts[<<q, e, m>>]
    <3>1. <<q, e, m>> \in Ids  BY ReportIds
    <3>2. <<q, e, m>> # <<r, d, n>>  BY <1>2
    <3> QED  BY <3>1, <3>2
  <2>2. run[q] # None => Fits(q, run[q], Q, Y)
    BY <2>1 DEF ReportsInv, RowOK, Fits, Sent
  <2> QED  BY <2>2 DEF ReportsInv, RowOK
<1> QED  BY <1>1, <1>2

LEMMA ReportsDelivers ==
  ASSUME CopiesInv, ReportsInv, NEW troubled \in BOOLEAN, Delivers(troubled)
  PROVE  ReportsInv'
<1> USE DEF CopiesInv
<1>1. PICK w : w = worker  OBVIOUS
<1>2. /\ w \in Worker /\ w.pc = "deliver" /\ WorkerOK(w, run, locks, started)
      /\ Keeping(w, run, published, receipts) /\ UNCHANGED <<run, started>>
  BY <1>1 DEF TypeOK, Delivers, rows, world, ReportsInv
<1>S. PICK r \in Runs, d \in Devices, h \in Run, n \in Nat, o \in Answer,
           lost \in BOOLEAN, t \in Incidents \cup {None} :
        Sends(r, d, h, n, o, lost, t, troubled)
  BY Delivering
<1>3. /\ r = w.id /\ h = w.held /\ h = worker.held /\ d = At(w) /\ n = h.index[d]
      /\ d \in DevicesOf(r) /\ n < Reports[d] /\ <<r, d, n>> \in Ids
      /\ t = IF h.follows[d] # None THEN h.follows[d] ELSE Target[r]
      /\ Outcome(t, troubled, <<r, d, n>>, o, lost)
      /\ lost => worker' = RecoveringOf(w)
      /\ ~lost => worker' = AnsweringOf(w, Answered(d, o))
  BY <1>1, <1>S DEF Sends
<1>4. /\ Fits(r, h, published, receipts) /\ d \in h.pending /\ r \in started
      /\ run[r] # None => Done(h) = Done(run[r])
  BY <1>2, <1>3 DEF Keeping, Holding, WorkerOK
<1>5. PICK x : x = <<r, d, n>>  OBVIOUS
<1>6. /\ receipts' = [receipts EXCEPT ![x] = o.receipt] /\ published' \in {published, published \cup {x}}
      /\ o.ok => published' = published \cup {x}
      /\ o \in Ingestion(x, t, troubled) /\ receipts[x] \in Receipt /\ x \in Ids
  BY <1>3, <1>5 DEF Outcome, TypeOK
<1>7. receipts'[x] = o.receipt /\ \A y \in Ids : y # x => receipts'[y] = receipts[y]
  BY <1>6 DEF TypeOK
<1>8. \/ ~o.ok /\ o.told = None /\ o.receipt = receipts[x]
      \/ /\ Sent(receipts', x) /\ o.receipt.incident = o.told
         /\ Sent(receipts, x) => o.told = receipts[x].incident
         /\ ~Sent(receipts, x) => o.told \in Incidents /\ (t # None => o.told = t)
  BY <1>6, <1>7, IngestionMakes DEF Sent
<1>9. published \subseteq published'  BY <1>6
<1>10. Fits(r, h, published', receipts')
  BY <1>3, <1>4, <1>5, <1>7, <1>9, FitsDelivered
<1>11. \A q \in Runs : RowOK(q, run'[q], published', receipts')
  BY <1>2, <1>3, <1>4, <1>5, <1>7, <1>9, <1>10, RowsAfter
<1>12. /\ ReceiptsOK(receipts', started')
       /\ o.ok => /\ o.told # None /\ (n > 0 => o.told = h.follows[d])
                  /\ Target[r] # None => o.told = Target[r]
                  /\ Sent(receipts', x) /\ receipts'[x].incident = o.told
  <2>1. CASE ~o.ok /\ o.receipt = receipts[x]
    <3>1. \A y \in Ids : receipts'[y] = receipts[y]  BY <1>7, <2>1
    <3> QED  BY <1>2, <2>1, <3>1 DEF ReportsInv, ReceiptsOK, Sent
  <2>2. CASE /\ Sent(receipts', x) /\ o.receipt.incident = o.told
             /\ Sent(receipts, x) => o.told = receipts[x].incident
             /\ ~Sent(receipts, x) => o.told \in Incidents /\ (t # None => o.told = t)
    <3>1. /\ o.told # None /\ (n > 0 => o.told = h.follows[d])
          /\ Target[r] # None => o.told = Target[r]
      BY <1>3, <1>4, <1>5, <2>2, AnsweredHome
    <3>2. ReceiptsOK(receipts', started)
      BY <1>3, <1>4, <1>5, <1>7, <2>2, <3>1, ReceiptsAfter
    <3> QED  BY <1>2, <1>7, <2>2, <3>1, <3>2
  <2> QED  BY <1>8, <2>1, <2>2
<1>13. PICK v : v = worker'  OBVIOUS
<1>14. Keeping(v, run', published', receipts')
  <2>1. CASE lost
    <3>1. v.pc = "recover"  BY <1>2, <1>3, <1>13, <2>1, PlacesOfRest
    <3> QED  BY <3>1, KeepsNothing
  <2>2. CASE ~lost
    <3>1. PICK a : a = Answered(d, o)  OBVIOUS
    <3>2. (Position(worker.visited) + 1) % Len(Rows[worker.id]) \in Nat
      BY <1>1, <1>2, <1>3, NextPlace
    <3>3. o.ok \in BOOLEAN /\ o.told \in Incidents \cup {None}  BY DEF Answer
    <3>4. /\ a \in Run /\ a.incidents = h.incidents \cup ({o.told} \ {None})
          /\ \A e \in Devices : e # d => a.follows[e] = h.follows[e] /\ a.index[e] = h.index[e]
          /\ o.ok => /\ a.pending = h.pending \ {d} /\ a.follows[d] = o.told
                     /\ a.index[d] = h.index[d] + 1
          /\ ~o.ok => a.pending = h.pending /\ a.follows = h.follows /\ a.index = h.index
      BY <1>3, <3>1, <3>2, <3>3, AnsweredRow
    <3>5. v.pc = "save" /\ v.held = a /\ v.id = r
      BY <1>2, <1>3, <1>13, <2>2, <3>1, <3>4, WithAnswer
    <3>6. Fits(r, a, published', receipts')
      <4>1. CASE o.ok
        <5>1. x \in published' /\ h.pending \subseteq Devices  BY <1>6, <4>1 DEF Run
        <5> QED  BY <1>3, <1>4, <1>5, <1>10, <1>12, <3>4, <4>1, <5>1, FitsAnswered
      <4>2. CASE ~o.ok  BY <1>10, <3>4, <4>2 DEF Fits
      <4> QED  BY <4>1, <4>2
    <3> QED  BY <3>5, <3>6 DEF Keeping
  <2> QED  BY <2>1, <2>2
<1> QED  BY <1>11, <1>12, <1>13, <1>14 DEF ReportsInv

LEMMA ReportsInit == Init => ReportsInv
<1> SUFFICES ASSUME Init PROVE ReportsInv  OBVIOUS
<1>1. \A r \in Runs : RowOK(r, run[r], published, receipts)  BY DEF Init, RowOK
<1>2. worker.pc = "idle"  BY PlacesOfRest, IdleWorkerOK DEF Init
<1>3. Keeping(worker, run, published, receipts)  BY <1>2, KeepsNothing
<1>4. \A x \in Ids : receipts[x].stage = "none" /\ receipts[x].incident = None  BY DEF Init
<1>5. ReceiptsOK(receipts, started)  BY <1>4 DEF ReceiptsOK, Sent
<1> QED  BY <1>1, <1>3, <1>5 DEF ReportsInv

LEMMA ReportsNext == ASSUME CopiesInv, ReportsInv, [Next]_vars PROVE ReportsInv'
<1>1. CASE UNCHANGED vars
  <2>1. UNCHANGED <<run, receipts, published, started, worker>>
    BY <1>1 DEF vars, rows, ingress, world
  <2> QED  BY <2>1, SameIfUnchanged, KeptIfUnchanged, OthersQuiet
<1>2. CASE WorkerTakes
  <2>1. CASE /\ ~Pauses /\ ~WorkerFinishes /\ ~SavesAnswer /\ ~SaveUnanswered
             /\ \A k : ~Scans(k)
             /\ \A troubled \in BOOLEAN : ~Delivers(troubled)
    <3>1. UNCHANGED <<run, receipts, published, started>>
      BY <1>2, <2>1
      DEF WorkerTakes, Wakes, EndsTick, ChecksIncidents, EndsScan, StopsScanning, EndsWork,
          WorkerReadsLocks, Recovers, WorkerFails, WorkerDies, TakesJob, rows, ingress, world
    <3> QED  BY <1>2, <2>1, <3>1, ReportsWorkerReads
  <2> QED
    BY <2>1, ReportsFinishes, ReportsSavesAnswer, ReportsSaveUnanswered, ReportsScans,
       ReportsDelivers
<1> QED  BY <1>1, <1>2, WhoTakes, ReportsClient, ReportsOthers

\* What the rows and the worker's copy say was done was done, and nothing else was.
THEOREM ReportsCorrect == Spec => []ReportsInv
  BY CopiesCorrect, ReportsInit, ReportsNext, PTL DEF Spec

\* A row's progress and its receipts agree, so nothing is skipped, sent twice under two
\* identities or sent before its predecessor was accepted (scan, deliver and save of work).
THEOREM ReportsAlwaysInOrder == Spec => []ReportsInOrder
<1>1. CopiesInv /\ ReportsInv => ReportsInOrder
  <2> SUFFICES ASSUME CopiesInv, ReportsInv PROVE ReportsInOrder  OBVIOUS
  <2>1. ASSUME NEW r \in Runs, run[r] # None, NEW d \in DevicesOf(r), NEW n \in 0 .. Reports[d] - 1
        PROVE  /\ n < run[r].index[d] => <<r, d, n>> \in published
               /\ n > run[r].index[d] => receipts[<<r, d, n>>].stage = "none"
               /\ n = run[r].index[d] /\ receipts[<<r, d, n>>].stage # "none" => d \in run[r].pending
               /\ run[r].status = "completed" => <<r, d, n>> \in published
    <3>1. Fits(r, run[r], published, receipts)  BY <2>1 DEF ReportsInv, RowOK
    <3>2. run[r].status = "completed" => n < run[r].index[d]
      <4>1. n \in Nat /\ n < Reports[d] /\ d \in Devices  BY ReportIds
      <4>2. Reports[d] \in Nat /\ run[r].index[d] \in Nat
        BY <2>1, <4>1, SimulationAssumption DEF SimulationAssumption, CopiesInv, TypeOK, Run
      <4>3. run[r].status = "completed" => run[r].index[d] >= Reports[d]
        BY <2>1 DEF ReportsInv, RowOK, Exhausts
      <4> QED  BY <4>1, <4>2, <4>3
    <3> QED  BY <3>1, <3>2 DEF Fits, Sent
  <2>2. DeviceAt(worker.visited) = At(worker)  BY DEF DeviceAt, Position, At
  <2>3. worker.pc = "deliver" => worker.held.index[At(worker)] < Reports[At(worker)]
    BY DEF CopiesInv, WorkerOK
  <2> QED  BY <2>1, <2>2, <2>3 DEF ReportsInOrder
<1> QED  BY <1>1, CopiesCorrect, ReportsCorrect, PTL

\* All reports of a row are of one incident, the target of the run if it has one (follows).
THEOREM AlwaysOneIncidentPerRow == Spec => []OneIncidentPerRow
<1>1. ReportsInv => OneIncidentPerRow
  BY DEF ReportsInv, ReceiptsOK, OneIncidentPerRow, Sent
<1> QED  BY <1>1, ReportsCorrect, PTL

-----------------------------------------------------------------------------
(* Reports that arrive after the end *)

\* What was published late was in flight when its run ended: the worker is on its way out
\* of that run and comes back to it never.
LateInv ==
  \A r \in Runs :
    /\ late[r] <= 1
    /\ late[r] > 0 => /\ r \in started /\ ~Active(run[r]) /\ r \notin worker.page
                      /\ worker.id = r => worker.pc \in {"save", "recover"}

LEMMA GoneStaysGone ==
  ASSUME CopiesInv, [Next]_vars, NEW r \in Runs, r \in started, run[r] = None
  PROVE  run'[r] = None
<1> USE DEF CopiesInv
<1>1. CASE UNCHANGED run  BY <1>1
<1>2. ASSUME NEW q \in Runs, q # r, NEW row, run' = [run EXCEPT ![q] = row] PROVE run'[r] = None
  BY <1>2 DEF TypeOK
<1>3. CASE WorkerTakes
  <2>1. PICK w : w = worker  OBVIOUS
  <2>2. CASE run' # run
    <3>1. run[w.id] # None /\ w.pc \in {"scan", "save", "pause", "commit"}
          /\ \E row : run' = [run EXCEPT ![w.id] = row]
      BY <1>3, <2>1, <2>2
      DEF WorkerTakes, Wakes, EndsTick, ChecksIncidents, EndsScan, StopsScanning, EndsWork,
          WorkerReadsLocks, Recovers, WorkerFails, WorkerDies, TakesJob, Delivers, rows,
          Scans, SavesAnswer, SaveUnanswered, Pauses, WorkerFinishes, MayFinish, Finished, MaySave
    <3>2. w.id \in Runs  BY <2>1, <3>1 DEF TypeOK, WorkerOK, Holding, Worker
    <3> QED  BY <1>2, <3>1, <3>2
  <2> QED  BY <1>1, <2>2
<1>4. ASSUME NEW c \in Clients, ClientTakes(c) PROVE run'[r] = None
  <2>1. PICK b : b = client[c]  OBVIOUS
  <2>2. b \in Client /\ ClientOK(b, run, locks, started)  BY <2>1 DEF TypeOK
  <2>3. CASE run' # run
    <3>1. /\ b.pc \in {"resume", "commit", "start"}
          /\ b.pc = "start" => locks.revision = b.locks.revision
          /\ b.pc # "start" => run[b.id] # None
          /\ \E row : run' = [run EXCEPT ![b.id] = row]
      BY <1>4, <2>1, <2>3
      DEF ClientTakes, SaveResume, StopReadsLocks, CommitStop, CommitStart, MayStart, Abandon,
          StartRun, Command, rows, MayFinish, Finished, MaySave
    <3>2. b.id \in Runs /\ (b.pc = "start" => b.id \notin started)
      BY <2>2, <3>1 DEF ClientOK, Client
    <3> QED  BY <1>2, <3>1, <3>2
  <2> QED  BY <1>1, <2>3
<1>5. CASE CleanerTakes
  <2>1. PICK z : z = cleaner  OBVIOUS
  <2>2. z \in Cleaner /\ CleanerOK(z, run, locks)  BY <2>1 DEF TypeOK
  <2>3. CASE run' # run
    <3>1. z.pc \in {"commit", "delete"} /\ \E row : run' = [run EXCEPT ![z.id] = row]
      BY <1>5, <2>1, <2>3
      DEF CleanerTakes, QueriesRuns, CleanerReadsLocks, CompletesPurge, CleanerDies, ChecksRun,
          Redacts, CleanerFinishes, DeletesRun, rows, Finished
    <3>2. z.id \in Runs /\ run[z.id] # None  BY <2>2, <3>1 DEF CleanerOK, Cleaner
    <3> QED  BY <1>2, <3>1, <3>2
  <2> QED  BY <1>1, <2>3
<1>6. CASE WorldTakes \/ UNCHANGED vars
  BY <1>1, <1>6 DEF WorldTakes, Closes, FallsDue, vars, rows
<1> QED  BY <1>3, <1>4, <1>5, <1>6, WhoTakes

LEMMA InactiveStays ==
  ASSUME CopiesInv, [Next]_vars, NEW r \in Runs, r \in started, ~Active(run[r])
  PROVE  r \in started' /\ ~Active(run'[r])
<1>1. started \subseteq started'
  <2>1. CASE UNCHANGED started  BY <2>1
  <2>2. CASE \E c \in Clients : CommitStart(c)  BY <2>2 DEF CommitStart
  <2> QED
    BY <2>1, <2>2, WhoTakes
    DEF WorkerTakes, ClientTakes, CleanerTakes, WorldTakes, vars, world, Wakes, EndsTick,
        ChecksIncidents, EndsScan, StopsScanning, EndsWork, WorkerReadsLocks, Recovers,
        WorkerFails, WorkerDies, TakesJob, Delivers, Scans, SavesAnswer, SaveUnanswered, Pauses, WorkerFinishes,
        SaveResume, StopReadsLocks, CommitStop, Abandon, StartRun, Command,
        QueriesRuns, CleanerReadsLocks, CompletesPurge, CleanerDies, ChecksRun, Redacts,
        CleanerFinishes, DeletesRun, Closes, FallsDue
<1> QED  BY <1>1, GoneStaysGone, SettledNext DEF Settled, Active

\* Where the worker can be after a step that is neither a wake nor a new job nor a delivery.
LEMMA WorkerGoesOn ==
  ASSUME CopiesInv, WorkerTakes, ~Wakes, \A r \in Runs : ~TakesJob(r),
         \A troubled \in BOOLEAN : ~Delivers(troubled)
  PROVE  /\ worker'.page \subseteq worker.page /\ worker'.id \in {worker.id, None}
         /\ worker.id \in Runs /\ ~Active(run[worker.id]) /\ worker'.id = worker.id
            /\ worker.pc \in {"save", "recover"} => worker'.pc \in {"save", "recover"}
         /\ UNCHANGED late
<1> USE DEF CopiesInv
<1>1. PICK w : w = worker  OBVIOUS
<1>2. PICK v : v = worker'  OBVIOUS
<1>3. w \in Worker /\ WorkerOK(w, run, locks, started)  BY <1>1 DEF TypeOK
<1>4. UNCHANGED late
  BY DEF WorkerTakes, EndsTick, ChecksIncidents, EndsScan, StopsScanning, EndsWork,
         WorkerReadsLocks, Recovers, WorkerFails, WorkerDies, Scans, SavesAnswer, SaveUnanswered, Pauses,
         WorkerFinishes, ingress
<1>5. SUFFICES /\ v.page \subseteq w.page /\ v.id \in {w.id, None}
               /\ w.id \in Runs /\ ~Active(run[w.id]) /\ v.id = w.id
                  /\ w.pc \in {"save", "recover"} => v.pc \in {"save", "recover"}
  BY <1>1, <1>2, <1>4
<1>6. None \notin Runs  BY SimulationAssumption DEF SimulationAssumption
<1>7. CASE v = IdleWorker
  <2>1. IdleWorker.page = {} /\ IdleWorker.id = None  BY DEF IdleWorker
  <2> QED  BY <1>6, <1>7, <2>1
<1>8. CASE v = NextJob(w)
  <2>1. v.page = w.page /\ v.id = None  BY ONLY <1>3, <1>8 DEF NextJob, Worker
  <2> QED  BY <1>6, <2>1
<1>9. CASE v = RecoveringOf(w)
  <2>1. v.page = w.page /\ v.id = w.id /\ v.pc = "recover"
    BY ONLY <1>3, <1>9 DEF RecoveringOf, Worker
  <2> QED  BY <2>1
<1>10. ASSUME v.page = w.page, v.id = w.id, w.pc \notin {"save", "recover"} \/ Active(run[w.id])
       PROVE  /\ v.page \subseteq w.page /\ v.id \in {w.id, None}
              /\ w.id \in Runs /\ ~Active(run[w.id]) /\ v.id = w.id
                 /\ w.pc \in {"save", "recover"} => v.pc \in {"save", "recover"}
  BY <1>10
<1>11. CASE ChecksIncidents
  <2>1. w.pc = "incidents"  BY <1>1, <1>11 DEF ChecksIncidents
  <2>2. CASE v = [w EXCEPT !.pc = "finish", !.verdict = "stopped"]
    <3>1. v.page = w.page /\ v.id = w.id  BY ONLY <1>3, <2>2 DEF Worker
    <3> QED  BY <1>10, <2>1, <3>1
  <2>3. CASE v = [w EXCEPT !.pc = "scan", !.base = w.held.cursor]
    <3>1. v.page = w.page /\ v.id = w.id  BY ONLY <1>3, <2>3 DEF Worker
    <3> QED  BY <1>10, <2>1, <3>1
  <2> QED  BY <1>1, <1>2, <1>8, <1>11, <2>2, <2>3 DEF ChecksIncidents
<1>12. CASE EndsScan \/ StopsScanning
  <2>1. w.pc = "scan" /\ v = [w EXCEPT !.pc = "exhausted"]
    BY <1>1, <1>2, <1>12 DEF EndsScan, StopsScanning
  <2>2. v.page = w.page /\ v.id = w.id  BY ONLY <1>3, <2>1 DEF Worker
  <2> QED  BY <1>10, <2>1, <2>2
<1>13. CASE EndsWork
  <2>1. w.pc = "exhausted"  BY <1>1, <1>13 DEF EndsWork
  <2>2. CASE v = [w EXCEPT !.pc = "finish", !.verdict = "completed"]
    <3>1. v.page = w.page /\ v.id = w.id  BY ONLY <1>3, <2>2 DEF Worker
    <3> QED  BY <1>10, <2>1, <3>1
  <2> QED  BY <1>1, <1>2, <1>8, <1>13, <2>2 DEF EndsWork
<1>14. CASE WorkerReadsLocks
  <2>1. w.pc = "finish" /\ v = [w EXCEPT !.pc = "commit", !.locks = locks]
    BY <1>1, <1>2, <1>14 DEF WorkerReadsLocks
  <2>2. v.page = w.page /\ v.id = w.id  BY ONLY <1>3, <2>1 DEF Worker
  <2> QED  BY <1>10, <2>1, <2>2
<1>15. CASE Recovers
  <2>1. w.pc = "recover" /\ w.id \in Runs  BY <1>1, <1>3, <1>15 DEF Recovers, WorkerOK, Worker
  <2>2. PICK c : c = run[w.id]  OBVIOUS
  <2>3. CASE c # None /\ c.status = "running" /\ v = [w EXCEPT !.pc = "pause", !.held = c, !.locks = None]
    <3>1. v.page = w.page /\ v.id = w.id  BY ONLY <1>3, <2>3 DEF Worker
    <3>2. Active(run[w.id])  BY <2>2, <2>3 DEF Active
    <3> QED  BY <1>10, <3>1, <3>2
  <2> QED  BY <1>1, <1>2, <1>8, <1>15, <2>2, <2>3 DEF Recovers
<1>16. ASSUME NEW k, Scans(k)
       PROVE  /\ v.page \subseteq w.page /\ v.id \in {w.id, None}
              /\ w.id \in Runs /\ ~Active(run[w.id]) /\ v.id = w.id
                 /\ w.pc \in {"save", "recover"} => v.pc \in {"save", "recover"}
  <2>1. w.pc = "scan"  BY <1>1, <1>16 DEF Scans
  <2>2. \/ v = [w EXCEPT !.pc = "deliver", !.visited = k] \/ v = RecoveringOf(w)
        \/ \E row : v = [w EXCEPT !.pc = "deliver", !.visited = k, !.held = row]
    BY <1>1, <1>2, <1>16 DEF Scans, RecoveringOf
  <2>3. CASE v = [w EXCEPT !.pc = "deliver", !.visited = k]
    <3>1. v.page = w.page /\ v.id = w.id  BY ONLY <1>3, <2>3 DEF Worker
    <3> QED  BY <1>10, <2>1, <3>1
  <2>4. CASE \E row : v = [w EXCEPT !.pc = "deliver", !.visited = k, !.held = row]
    <3>1. PICK row : v = [w EXCEPT !.pc = "deliver", !.visited = k, !.held = row]  BY <2>4
    <3>2. v.page = w.page /\ v.id = w.id  BY ONLY <1>3, <3>1 DEF Worker
    <3> QED  BY <1>10, <2>1, <3>2
  <2> QED  BY <1>9, <2>2, <2>3, <2>4
<1>17. CASE SavesAnswer
  <2>1. PICK h : h = w.held  OBVIOUS
  <2>2. CASE MaySave(w.id, h)
    <3>1. Active(run[w.id])
      BY <1>1, <1>3, <1>17, <2>1, <2>2 DEF SavesAnswer, MaySave, WorkerOK, Current, Active
    <3>2. PICK row : row = Saved(w.id, h)  OBVIOUS
    <3>3. PICK n : n = w.visited + 1  OBVIOUS
    <3>4. PICK p : p = IF row.status = "running" THEN "scan" ELSE "exhausted"  OBVIOUS
    <3>5. v = [w EXCEPT !.held = row, !.visited = n, !.pc = p]
      BY <1>1, <1>2, <1>17, <2>1, <2>2, <3>2, <3>3, <3>4 DEF SavesAnswer
    <3>6. v.page = w.page /\ v.id = w.id  BY ONLY <1>3, <3>5 DEF Worker
    <3> QED  BY <1>10, <3>1, <3>6
  <2>3. CASE ~MaySave(w.id, h)
    <3>1. v = RecoveringOf(w)  BY <1>1, <1>2, <1>17, <2>1, <2>3 DEF SavesAnswer, RecoveringOf
    <3> QED  BY <1>9, <3>1
  <2> QED  BY <2>2, <2>3
<1>18. CASE \/ EndsTick \/ WorkerDies \/ SaveUnanswered \/ WorkerFails \/ Pauses
            \/ WorkerFinishes
  <2>1. v = IdleWorker \/ v = NextJob(w) \/ v = RecoveringOf(w)
    BY <1>1, <1>2, <1>18
    DEF EndsTick, WorkerDies, SaveUnanswered, WorkerFails, Pauses, WorkerFinishes,
        RecoveringOf
  <2> QED  BY <1>7, <1>8, <1>9, <2>1
<1> QED
  BY <1>11, <1>12, <1>13, <1>14, <1>15, <1>16, <1>17, <1>18 DEF WorkerTakes

LEMMA LateNext == ASSUME CopiesInv, LateInv, [Next]_vars PROVE LateInv'
<1> USE DEF CopiesInv
<1>1. \A r \in Runs : r \in started /\ ~Active(run[r]) => r \in started' /\ ~Active(run'[r])
  BY InactiveStays
<1>2. \A r \in Runs : late[r] \in Nat  BY DEF TypeOK
<1>3. PICK w : w = worker  OBVIOUS
<1>4. PICK v : v = worker'  OBVIOUS
<1>5. w \in Worker /\ WorkerOK(w, run, locks, started)  BY <1>3 DEF TypeOK
<1>6. ASSUME UNCHANGED late,
             \A r \in Runs : r \in started /\ ~Active(run[r]) /\ r \notin w.page
                               /\ (w.id = r => w.pc \in {"save", "recover"}) =>
                             r \notin v.page /\ (v.id = r => v.pc \in {"save", "recover"})
      PROVE  LateInv'
  BY <1>1, <1>3, <1>4, <1>6 DEF LateInv
<1>7. CASE UNCHANGED vars \/ CleanerTakes \/ WorldTakes \/ \E c \in Clients : ClientTakes(c)
  <2>1. UNCHANGED <<late, worker>>
    BY <1>7
    DEF ClientTakes, CleanerTakes, WorldTakes, vars, ingress,
        SaveResume, StopReadsLocks, CommitStop, CommitStart, Abandon, StartRun, Command,
        QueriesRuns, CleanerReadsLocks, CompletesPurge, CleanerDies, ChecksRun, Redacts,
        CleanerFinishes, DeletesRun, Closes, FallsDue
  <2> QED  BY <1>3, <1>4, <1>6, <2>1
<1>8. CASE Wakes
  <2>1. v = [IdleWorker EXCEPT !.pc = "next", !.page = jobs, !.knew = Known] /\ UNCHANGED late
    BY <1>4, <1>8 DEF Wakes, ingress
  <2>2. v.page = jobs /\ v.id = None  BY ONLY <2>1 DEF IdleWorker
  <2>3. \A r \in Runs : r # None /\ (r \in jobs => Active(run[r]))
    BY SimulationAssumption DEF SimulationAssumption, Exact
  <2> QED  BY <1>6, <2>1, <2>2, <2>3
<1>9. ASSUME NEW q \in Runs, TakesJob(q) PROVE LateInv'
  <2>1. q \in w.page /\ UNCHANGED late  BY <1>3, <1>9 DEF TakesJob, ingress
  <2>2. \/ v = [w EXCEPT !.page = @ \ {q}]
        \/ v = [w EXCEPT !.page = @ \ {q}, !.pc = "incidents", !.id = q, !.held = run[q], !.done = 0]
    BY <1>3, <1>4, <1>9 DEF TakesJob
  <2>3. v.page = w.page \ {q} /\ ((v.id = w.id /\ v.pc = w.pc) \/ v.id = q)
    BY ONLY <1>5, <2>2 DEF Worker
  <2> QED  BY <1>6, <2>1, <2>3
<1>10. ASSUME NEW troubled \in BOOLEAN, Delivers(troubled) PROVE LateInv'
  <2>1. w.pc = "deliver" /\ UNCHANGED <<run, started>>  BY <1>3, <1>10 DEF Delivers, rows, world
  <2>2. PICK r \in Runs, d \in Devices, h \in Run, n \in Nat, o \in Answer,
             lost \in BOOLEAN, t \in Incidents \cup {None} :
          Sends(r, d, h, n, o, lost, t, troubled)
    BY <1>10, Delivering
  <2>3. /\ r = w.id /\ Outcome(t, troubled, <<r, d, n>>, o, lost)
        /\ lost => v = RecoveringOf(w)
        /\ ~lost => v = AnsweringOf(w, Answered(d, o))
    BY <1>3, <1>4, <2>2 DEF Sends
  <2>4. v.page = w.page /\ v.id = r /\ v.pc \in {"save", "recover"}
    <3>1. CASE lost
      <4>1. v = [w EXCEPT !.pc = "recover"]  BY <2>3, <3>1 DEF RecoveringOf
      <4> QED  BY ONLY <1>5, <2>3, <4>1 DEF Worker
    <3>2. CASE ~lost
      <4>1. PICK a : a = Answered(d, o)  OBVIOUS
      <4>2. v = [w EXCEPT !.pc = "save", !.done = @ + 1, !.held = a]
        BY <2>3, <3>2, <4>1 DEF AnsweringOf
      <4> QED  BY ONLY <1>5, <2>3, <4>2 DEF Worker
    <3> QED  BY <3>1, <3>2
  <2>5. <<r, d, n>>[1] = r  OBVIOUS
  <2>6. late' = late \/ (~Active(run[r]) /\ late' = [late EXCEPT ![r] = late[r] + 1])
    BY <2>3, <2>5 DEF Outcome
  <2>7. late[r] = 0
    <3>1. ~(late[r] > 0)  BY <1>3, <2>1, <2>3 DEF LateInv
    <3> QED  BY <1>2, <3>1
  <2>8. r \in started /\ r \notin w.page  BY <1>5, <2>1, <2>3 DEF WorkerOK, Holding
  <2>9. ASSUME NEW q \in Runs
        PROVE  /\ late'[q] <= 1
               /\ late'[q] > 0 => /\ q \in started /\ ~Active(run[q]) /\ q \notin w.page
                                  /\ v.id = q => v.pc \in {"save", "recover"}
    <3>1. CASE late'[q] = late[q]  BY <1>3, <2>4, <3>1 DEF LateInv
    <3>2. CASE q = r /\ ~Active(run[r]) /\ late'[r] = late[r] + 1
      BY <2>4, <2>7, <2>8, <3>2
    <3>3. late'[q] = late[q] \/ (q = r /\ ~Active(run[r]) /\ late'[r] = late[r] + 1)
      BY <2>6 DEF TypeOK
    <3> QED  BY <3>1, <3>2, <3>3
  <2> QED  BY <1>4, <2>1, <2>4, <2>9 DEF LateInv
<1>11. CASE /\ WorkerTakes /\ ~Wakes /\ \A r \in Runs : ~TakesJob(r)
            /\ \A troubled \in BOOLEAN : ~Delivers(troubled)
  <2>1. /\ v.page \subseteq w.page /\ v.id \in {w.id, None} /\ UNCHANGED late
        /\ w.id \in Runs /\ ~Active(run[w.id]) /\ v.id = w.id
           /\ w.pc \in {"save", "recover"} => v.pc \in {"save", "recover"}
    BY <1>3, <1>4, <1>11, WorkerGoesOn
  <2>2. None \notin Runs  BY SimulationAssumption DEF SimulationAssumption
  <2> QED  BY <1>6, <2>1, <2>2
<1> QED  BY <1>7, <1>8, <1>9, <1>10, <1>11, WhoTakes

\* After a run has ended one report that was in flight may still arrive, and no more (stop
\* does not wait for a call of ingestion under way).
THEOREM AtMostOneLateReport == Spec => []OneReportAfterTheEnd
<1>1. Init => LateInv
  <2> SUFFICES ASSUME Init PROVE LateInv  OBVIOUS
  <2>1. \A r \in Runs : late[r] = 0  BY DEF Init
  <2> QED  BY <2>1 DEF LateInv
<1>2. LateInv => OneReportAfterTheEnd  BY DEF LateInv, OneReportAfterTheEnd
<1> QED  BY <1>1, <1>2, CopiesCorrect, LateNext, PTL DEF Spec

-----------------------------------------------------------------------------
(* What cleanup forgets                                                    *)
(*                                                                         *)
(* I stands for the incidents, G for those purged.                         *)

\* Belongs, of the receipts X.
Bel(r, row, i, X) ==
  i \in row.incidents \/ \E d \in row.pending : X[<<r, d, row.index[d]>>].incident = i

Redacted(i) == i \in purged \/ (cleaner.pc # "idle" /\ cleaner.incident = i)

\* The worker goes on only with incidents that were not deleted when it woke, and what its
\* answer leaves marked is what the row has marked.
KnowsOK(w, R, I) ==
  /\ \A i \in w.knew : I[i] = "deleted"
  /\ w.pc \in {"scan", "deliver", "save"} => \A i \in w.held.incidents : i \notin w.knew
  /\ w.pc = "save" /\ R[w.id] # None =>
       \A d \in w.held.pending : d \in R[w.id].pending /\ w.held.index[d] = R[w.id].index[d]

\* The sweep has still before it, or in hand, every run that belongs to its incident.
ForgetsOK(z, G, R, X) ==
  /\ \A y \in z.page : \A d \in y[2].pending : y[2].index[d] < Reports[d]
  /\ z.pc \in {"query", "scan"} => z.id = None
  /\ \A i \in G, r \in Runs : R[r] # None => ~Bel(r, R[r], i, X)
  /\ z.pc \notin {"idle", "query"} =>
       \A r \in Runs : R[r] # None /\ Bel(r, R[r], z.incident, X) =>
         r = z.id \/ \E y \in z.page : y[1] = r /\ Bel(r, y[2], z.incident, X)

PurgeInv ==
  /\ \A i \in Incidents : Redacted(i) => Deleted(i) /\ Drained(i)
  /\ KnowsOK(worker, run, incident)
  /\ \A c \in Clients : client[c].pc = "start" => Target[client[c].id] \notin client[c].knew
  /\ ForgetsOK(cleaner, purged, run, receipts)

-----------------------------------------------------------------------------
(* No run comes to belong to an incident that has been redacted            *)

\* A receipt keeps its incident, and gets only one that is not deleted.
NewsOK(X, Y, I) ==
  \A x \in Ids : Y[x].incident = X[x].incident
                 \/ (X[x].incident = None /\ I[Y[x].incident] # "deleted")

LEMMA ReceiptsNews ==
  ASSUME CopiesInv, ReportsInv, [Next]_vars PROVE NewsOK(receipts, receipts', incident)
<1> USE DEF CopiesInv
<1>1. CASE UNCHANGED receipts  BY <1>1 DEF NewsOK
<1>2. ASSUME NEW i \in Incidents, Redacts(i) PROVE NewsOK(receipts, receipts', incident)
  <2> SUFFICES ASSUME NEW x \in Ids PROVE receipts'[x].incident = receipts[x].incident
    BY DEF NewsOK
  <2>1. receipts[x] \in Receipt  BY DEF TypeOK
  <2>2. PICK X : X = receipts[x]  OBVIOUS
  <2>3. PICK Y : Y = receipts'[x]  OBVIOUS
  <2>4. Y = IF X.incident = i THEN [X EXCEPT !.stage = "deleted"] ELSE X
    BY <1>2, <2>2, <2>3 DEF Redacts
  <2>5. Y.incident = X.incident  BY ONLY <2>1, <2>2, <2>4 DEF Receipt
  <2> QED  BY <2>2, <2>3, <2>5
<1>3. ASSUME NEW troubled \in BOOLEAN, Delivers(troubled)
      PROVE  NewsOK(receipts, receipts', incident)
  <2>1. PICK r \in Runs, d \in Devices, h \in Run, n \in Nat, o \in Answer,
             lost \in BOOLEAN, t \in Incidents \cup {None} :
          Sends(r, d, h, n, o, lost, t, troubled)
    BY <1>3, Delivering
  <2>2. PICK x : x = <<r, d, n>>  OBVIOUS
  <2>3. /\ receipts' = [receipts EXCEPT ![x] = o.receipt] /\ o \in Ingestion(x, t, troubled)
        /\ receipts[x] \in Receipt /\ x \in Ids
    BY <2>1, <2>2 DEF Sends, Outcome, TypeOK
  <2>4. \/ o.receipt.incident = receipts[x].incident
        \/ ~Sent(receipts, x) /\ incident[o.receipt.incident] # "deleted"
    BY <2>3, IngestionMakes DEF Sent
  <2>5. ~Sent(receipts, x) => receipts[x].incident = None
    BY <2>3 DEF ReportsInv, ReceiptsOK
  <2>6. \A y \in Ids : receipts'[y] = IF y = x THEN o.receipt ELSE receipts[y]
    BY <2>3 DEF TypeOK
  <2> QED  BY <2>4, <2>5, <2>6 DEF NewsOK
<1> QED
  BY <1>1, <1>2, <1>3, WhoTakes
  DEF WorkerTakes, ClientTakes, CleanerTakes, WorldTakes, vars, ingress, Wakes, EndsTick,
      ChecksIncidents, EndsScan, StopsScanning, EndsWork, WorkerReadsLocks, Recovers,
      WorkerFails, WorkerDies, TakesJob, Scans, SavesAnswer, SaveUnanswered, Pauses, WorkerFinishes,
      SaveResume, StopReadsLocks, CommitStop, CommitStart, Abandon, StartRun, Command,
      QueriesRuns, CleanerReadsLocks, CompletesPurge, CleanerDies, ChecksRun,
      CleanerFinishes, DeletesRun, Closes, FallsDue

\* So belonging to a deleted incident does not depend on the receipts of before or after.
LEMMA BelStays ==
  ASSUME NEW r \in Runs, NEW row \in Run, \A d \in row.pending : row.index[d] < Reports[d],
         NEW i \in Incidents, NEW X, NEW Y, NEW I, NewsOK(X, Y, I), I[i] = "deleted"
  PROVE  Bel(r, row, i, X) <=> Bel(r, row, i, Y)
<1>1. i # None  BY SimulationAssumption DEF SimulationAssumption
<1>2. ASSUME NEW d \in row.pending
      PROVE  X[<<r, d, row.index[d]>>].incident = i <=> Y[<<r, d, row.index[d]>>].incident = i
  <2>1. d \in Devices /\ row.index[d] \in Nat /\ row.index[d] < Reports[d]  BY DEF Run
  <2>2. <<r, d, row.index[d]>> \in Ids  BY <2>1, InIds
  <2> QED  BY <1>1, <2>2 DEF NewsOK
<1> QED  BY <1>2 DEF Bel

\* What a step adds to no run: belonging to an incident that is being purged.
NoneJoins(R, Q, X) ==
  \A i \in Incidents, r \in Runs :
    Redacted(i) /\ Q[r] # None /\ Bel(r, Q[r], i, X) => R[r] # None /\ Bel(r, R[r], i, X)

LEMMA NoneJoinsKept ==
  ASSUME NEW R, NEW Q, NEW X, Kept(R, Q) PROVE NoneJoins(R, Q, X)
<1> SUFFICES ASSUME NEW i \in Incidents, NEW r \in Runs, Q[r] # None, Bel(r, Q[r], i, X)
             PROVE  R[r] # None /\ Bel(r, R[r], i, X)
  BY DEF NoneJoins
<1>1. CASE Q[r] = R[r]  BY <1>1
<1>2. CASE R[r] # None /\ Done(Q[r]) = Done(R[r])
  <2>1. Q[r].index = R[r].index /\ Q[r].pending = R[r].pending /\ Q[r].incidents = R[r].incidents
    BY <1>2 DEF Done
  <2> QED  BY <1>2, <2>1 DEF Bel
<1> QED  BY <1>1, <1>2 DEF Kept

LEMMA NoneJoinsWritten ==
  ASSUME CopiesInv, NEW r \in Runs, NEW row, run' = [run EXCEPT ![r] = row], NEW X,
         \A i \in Incidents : Redacted(i) /\ Bel(r, row, i, X) =>
           run[r] # None /\ Bel(r, run[r], i, X)
  PROVE  NoneJoins(run, run', X)
<1>1. \A q \in Runs : run'[q] = IF q = r THEN row ELSE run[q]  BY DEF CopiesInv, TypeOK
<1> QED  BY <1>1 DEF NoneJoins

LEMMA JoinsCommitStart ==
  ASSUME CopiesInv, PurgeInv, NEW c \in Clients, CommitStart(c)
  PROVE  NoneJoins(run, run', receipts)
<1>1. PICK b : b = client[c]  OBVIOUS
<1>2. PICK r : r = b.id  OBVIOUS
<1>3. b \in Client /\ b.pc = "start" /\ ClientOK(b, run, locks, started)
  BY <1>1 DEF CopiesInv, TypeOK, CommitStart
<1>4. r \in Runs  BY <1>2, <1>3 DEF ClientOK, Client
<1>5. CASE MayStart(c)
  <2>1. PICK n : n = NewRun(r)  OBVIOUS
  <2>2. run' = [run EXCEPT ![r] = n]  BY <1>1, <1>2, <1>5, <2>1 DEF CommitStart
  <2>3. n.pending = {} /\ n.incidents = {Target[r]} \ {None}  BY <1>4, <2>1, NewRunOK
  <2>4. \A i \in Incidents : Redacted(i) => i \in b.knew
    BY <1>1, <1>3 DEF PurgeInv, Drained
  <2>5. Target[r] \notin b.knew  BY <1>1, <1>2, <1>3 DEF PurgeInv
  <2>6. \A i \in Incidents : Redacted(i) => ~Bel(r, n, i, receipts)  BY <2>3, <2>4, <2>5 DEF Bel
  <2> QED  BY <1>4, <2>2, <2>6, NoneJoinsWritten
<1>6. CASE ~MayStart(c)
  <2>1. UNCHANGED run  BY <1>6 DEF CommitStart, rows
  <2> QED  BY <2>1, KeptIfUnchanged, NoneJoinsKept
<1> QED  BY <1>5, <1>6

LEMMA JoinsScans ==
  ASSUME CopiesInv, ReportsInv, PurgeInv, NEW k, Scans(k)
  PROVE  NoneJoins(run, run', receipts)
<1> USE DEF CopiesInv
<1>1. PICK w : w = worker  OBVIOUS
<1>2. PICK r : r = w.id  OBVIOUS
<1>3. PICK h : h = w.held  OBVIOUS
<1>4. /\ w \in Worker /\ w.pc = "scan" /\ WorkerOK(w, run, locks, started)
      /\ Keeping(w, run, published, receipts)
  BY <1>1 DEF TypeOK, Scans, ReportsInv
<1>5. /\ r \in Runs /\ h \in Run /\ h # None /\ TrueCopy(run[r], h)
      /\ Fits(r, h, published, receipts)
  BY <1>2, <1>3, <1>4 DEF WorkerOK, Holding, Worker, Keeping
<1>6. PICK d : d = Rows[r][((w.base + k) % Len(Rows[r])) + 1]  OBVIOUS
<1>7. Reachable(k) /\ d = DeviceAt(k)  BY <1>1, <1>2, <1>6 DEF Scans, DeviceAt, Position
<1>8. k \in Nat
  <2>1. Len(Rows[r]) \in Nat /\ w.visited \in Nat
    BY <1>4, <1>5, SimulationAssumption DEF SimulationAssumption, Worker
  <2> QED  BY <1>1, <1>2, <1>7, <2>1 DEF Reachable
<1>9. d \in Devices /\ d \in DevicesOf(r)
  <2>1. w.base + k \in Nat  BY <1>4, <1>8 DEF Worker
  <2> QED  BY <1>5, <1>6, <2>1, RotationOK
<1>10. h.index[d] < Reports[d] /\ h.index[d] \in Nat
  BY <1>1, <1>3, <1>5, <1>7, <1>9 DEF Reachable, Ready, Run
<1>11. CASE UNCHANGED run  BY <1>11, KeptIfUnchanged, NoneJoinsKept
<1>12. CASE run' # run
  <2>1. PICK s : s = Saved(r, h)  OBVIOUS
  <2>2. /\ s \in Run /\ s.index = h.index /\ s.pending = h.pending /\ s.incidents = h.incidents
    BY <1>5, <2>1, SavedRow
  <2>3. PICK row : row = [s EXCEPT !.pending = @ \cup {d}]  OBVIOUS
  <2>4. row.index = h.index /\ row.pending = h.pending \cup {d} /\ row.incidents = h.incidents
    BY ONLY <2>2, <2>3 DEF Run
  <2>5. d \notin h.pending /\ MaySave(r, h) /\ run' = [run EXCEPT ![r] = row]
    BY <1>1, <1>2, <1>3, <1>7, <1>12, <2>1, <2>3 DEF Scans
  <2>6. run[r] = h  BY <1>5, <2>5 DEF MaySave, TrueCopy, Current
  <2>7. <<r, d, h.index[d]>> \in Ids  BY <1>5, <1>9, <1>10, InIds
  <2>8. Reports[d] \in Nat  BY <1>9, SimulationAssumption DEF SimulationAssumption
  <2>9. h.index[d] \in 0 .. Reports[d] - 1  BY <1>10, <2>8
  <2>10. ~Sent(receipts, <<r, d, h.index[d]>>)  BY <1>5, <1>9, <2>5, <2>9 DEF Fits
  <2>11. receipts[<<r, d, h.index[d]>>].incident = None  BY <2>7, <2>10 DEF ReportsInv, ReceiptsOK
  <2>12. None \notin Incidents  BY SimulationAssumption DEF SimulationAssumption
  <2>13. \A i \in Incidents : Bel(r, row, i, receipts) => Bel(r, h, i, receipts)
    BY <2>4, <2>11, <2>12 DEF Bel
  <2> QED  BY <1>5, <2>5, <2>6, <2>13, NoneJoinsWritten
<1> QED  BY <1>11, <1>12

LEMMA JoinsSavesAnswer ==
  ASSUME CopiesInv, ReportsInv, PurgeInv, SavesAnswer \/ SaveUnanswered
  PROVE  NoneJoins(run, run', receipts)
<1> USE DEF CopiesInv
<1>1. PICK w : w = worker  OBVIOUS
<1>2. PICK r : r = w.id  OBVIOUS
<1>3. PICK h : h = w.held  OBVIOUS
<1>4. /\ w \in Worker /\ w.pc = "save" /\ WorkerOK(w, run, locks, started)
      /\ KnowsOK(w, run, incident)
  BY <1>1 DEF TypeOK, SavesAnswer, SaveUnanswered, PurgeInv
<1>5. r \in Runs /\ h \in Run  BY <1>2, <1>3, <1>4 DEF WorkerOK, Holding, Worker
<1>6. CASE UNCHANGED run  BY <1>6, KeptIfUnchanged, NoneJoinsKept
<1>7. CASE run' # run
  <2>1. PICK row : row = Saved(r, h)  OBVIOUS
  <2>2. row.index = h.index /\ row.pending = h.pending /\ row.incidents = h.incidents
    BY <1>5, <2>1, SavedRow
  <2>3. run[r] # None /\ run' = [run EXCEPT ![r] = row]
    BY <1>1, <1>2, <1>3, <1>7, <2>1 DEF SavesAnswer, SaveUnanswered, MaySave
  <2>4. ASSUME NEW i \in Incidents, Redacted(i), Bel(r, row, i, receipts)
        PROVE  Bel(r, run[r], i, receipts)
    <3>1. i \in w.knew  BY <1>1, <1>4, <2>4 DEF PurgeInv, Drained
    <3>2. i \notin h.incidents  BY <1>3, <1>4, <3>1 DEF KnowsOK
    <3>3. PICK d \in h.pending : receipts[<<r, d, h.index[d]>>].incident = i
      BY <2>2, <2>4, <3>2 DEF Bel
    <3>4. d \in run[r].pending /\ run[r].index[d] = h.index[d]
      BY <1>2, <1>3, <1>4, <2>3 DEF KnowsOK
    <3> QED  BY <3>3, <3>4 DEF Bel
  <2> QED  BY <1>5, <2>3, <2>4, NoneJoinsWritten
<1> QED  BY <1>6, <1>7

LEMMA JoinsNext ==
  ASSUME CopiesInv, ReportsInv, PurgeInv, [Next]_vars PROVE NoneJoins(run, run', receipts)
<1>1. CASE UNCHANGED run  BY <1>1, KeptIfUnchanged, NoneJoinsKept
<1>2. CASE WorkerTakes
  BY <1>1, <1>2, JoinsScans, JoinsSavesAnswer, PausesKeep, FinishesKeep, NoneJoinsKept
  DEF WorkerTakes, Wakes, EndsTick, ChecksIncidents, EndsScan, StopsScanning, EndsWork,
      WorkerReadsLocks, Recovers, WorkerFails, WorkerDies, TakesJob, Delivers, rows
<1>3. ASSUME NEW c \in Clients, ClientTakes(c) PROVE NoneJoins(run, run', receipts)
  BY <1>3, ClientKeeps, NoneJoinsKept, JoinsCommitStart
<1>4. CASE CleanerTakes  BY <1>4, CleanerKeeps, NoneJoinsKept
<1>5. CASE WorldTakes \/ UNCHANGED vars
  BY <1>1, <1>5 DEF WorldTakes, Closes, FallsDue, vars, rows
<1> QED  BY <1>2, <1>3, <1>4, <1>5, WhoTakes

-----------------------------------------------------------------------------
(* Who knows what has been deleted *)

LEMMA KnowsNothing ==
  ASSUME NEW w, w.pc \notin {"scan", "deliver", "save"}, NEW R, NEW I,
         \A i \in w.knew : I[i] = "deleted"
  PROVE  KnowsOK(w, R, I)
  BY DEF KnowsOK

\* A step of the worker after it woke keeps what it knew.
LEMMA WorkerKnows ==
  ASSUME CopiesInv, ReportsInv, PurgeInv, WorkerTakes
  PROVE  /\ KnowsOK(worker', run', incident)
         /\ worker'.pc # "idle" =>
              worker'.knew = Known \/ (worker.pc # "idle" /\ worker'.knew = worker.knew)
<1> USE DEF CopiesInv
<1>1. PICK w : w = worker  OBVIOUS
<1>2. PICK v : v = worker'  OBVIOUS
<1>3. /\ w \in Worker /\ WorkerOK(w, run, locks, started) /\ KnowsOK(w, run, incident)
      /\ Keeping(w, run, published, receipts)
  BY <1>1 DEF TypeOK, PurgeInv, ReportsInv
<1>4. \A i \in w.knew : incident[i] = "deleted"  BY <1>3 DEF KnowsOK
<1>5. SUFFICES /\ KnowsOK(v, run', incident)
               /\ v.pc # "idle" => v.knew = Known \/ (w.pc # "idle" /\ v.knew = w.knew)
  BY <1>1, <1>2
<1>6. ASSUME v.pc \notin {"scan", "deliver", "save"}, w.pc # "idle", v.knew = w.knew
      PROVE  /\ KnowsOK(v, run', incident)
             /\ v.pc # "idle" => v.knew = Known \/ (w.pc # "idle" /\ v.knew = w.knew)
  BY <1>4, <1>6, KnowsNothing
<1>7. ASSUME v.pc \in {"scan", "deliver"}, w.pc # "idle", v.knew = w.knew,
             \A i \in v.held.incidents : i \notin w.knew
      PROVE  /\ KnowsOK(v, run', incident)
             /\ v.pc # "idle" => v.knew = Known \/ (w.pc # "idle" /\ v.knew = w.knew)
  BY <1>4, <1>7 DEF KnowsOK
<1>8. CASE v = IdleWorker
  <2>1. v.pc = "idle" /\ v.knew = {}  BY <1>8 DEF IdleWorker
  <2>2. KnowsOK(v, run', incident)  BY <2>1, KnowsNothing
  <2> QED  BY <2>1, <2>2
<1>9. CASE v = NextJob(w) /\ w.pc # "idle"
  <2>1. v.pc = "next" /\ v.knew = w.knew  BY ONLY <1>3, <1>9 DEF NextJob, Worker
  <2> QED  BY <1>6, <1>9, <2>1
<1>10. CASE v = RecoveringOf(w) /\ w.pc # "idle"
  <2>1. v.pc = "recover" /\ v.knew = w.knew  BY ONLY <1>3, <1>10 DEF RecoveringOf, Worker
  <2> QED  BY <1>6, <1>10, <2>1
<1>11. CASE Wakes
  <2>1. v = [IdleWorker EXCEPT !.pc = "next", !.page = jobs, !.knew = Known]
    BY <1>2, <1>11 DEF Wakes
  <2>2. v.pc = "next" /\ v.knew = Known  BY ONLY <2>1 DEF IdleWorker
  <2>3. KnowsOK(v, run', incident)  BY <2>2, KnowsNothing DEF Known, Deleted
  <2> QED  BY <2>2, <2>3
<1>12. ASSUME NEW r \in Runs, TakesJob(r)
       PROVE  /\ KnowsOK(v, run', incident)
              /\ v.pc # "idle" => v.knew = Known \/ (w.pc # "idle" /\ v.knew = w.knew)
  <2>1. w.pc = "next"  BY <1>1, <1>12 DEF TakesJob
  <2>2. \/ v = [w EXCEPT !.page = @ \ {r}]
        \/ v = [w EXCEPT !.page = @ \ {r}, !.pc = "incidents", !.id = r, !.held = run[r], !.done = 0]
    BY <1>1, <1>2, <1>12 DEF TakesJob
  <2>3. v.pc \in {"next", "incidents"} /\ v.knew = w.knew  BY ONLY <1>3, <2>1, <2>2 DEF Worker
  <2> QED  BY <1>6, <2>1, <2>3
<1>13. CASE ChecksIncidents
  <2>1. w.pc = "incidents"  BY <1>1, <1>13 DEF ChecksIncidents
  <2>2. CASE v = [w EXCEPT !.pc = "finish", !.verdict = "stopped"]
    <3>1. v.pc = "finish" /\ v.knew = w.knew  BY ONLY <1>3, <2>2 DEF Worker
    <3> QED  BY <1>6, <2>1, <3>1
  <2>3. CASE /\ v = [w EXCEPT !.pc = "scan", !.base = w.held.cursor]
             /\ \A i \in w.held.incidents : incident[i] = "open"
    <3>1. v.pc = "scan" /\ v.knew = w.knew /\ v.held = w.held  BY ONLY <1>3, <2>3 DEF Worker
    <3>2. \A i \in v.held.incidents : i \notin w.knew  BY <1>4, <2>3, <3>1
    <3> QED  BY <1>7, <2>1, <3>1, <3>2
  <2> QED  BY <1>1, <1>2, <1>9, <1>13, <2>1, <2>2, <2>3 DEF ChecksIncidents
<1>14. CASE EndsScan \/ StopsScanning
  <2>1. w.pc = "scan" /\ v = [w EXCEPT !.pc = "exhausted"]
    BY <1>1, <1>2, <1>14 DEF EndsScan, StopsScanning
  <2>2. v.pc = "exhausted" /\ v.knew = w.knew  BY ONLY <1>3, <2>1 DEF Worker
  <2> QED  BY <1>6, <2>1, <2>2
<1>15. CASE EndsWork
  <2>1. w.pc = "exhausted"  BY <1>1, <1>15 DEF EndsWork
  <2>2. CASE v = [w EXCEPT !.pc = "finish", !.verdict = "completed"]
    <3>1. v.pc = "finish" /\ v.knew = w.knew  BY ONLY <1>3, <2>2 DEF Worker
    <3> QED  BY <1>6, <2>1, <3>1
  <2> QED  BY <1>1, <1>2, <1>9, <1>15, <2>1, <2>2 DEF EndsWork
<1>16. CASE WorkerReadsLocks
  <2>1. w.pc = "finish" /\ v = [w EXCEPT !.pc = "commit", !.locks = locks]
    BY <1>1, <1>2, <1>16 DEF WorkerReadsLocks
  <2>2. v.pc = "commit" /\ v.knew = w.knew  BY ONLY <1>3, <2>1 DEF Worker
  <2> QED  BY <1>6, <2>1, <2>2
<1>17. CASE Recovers
  <2>1. w.pc = "recover"  BY <1>1, <1>17 DEF Recovers
  <2>2. PICK c : c = run[w.id]  OBVIOUS
  <2>3. CASE v = [w EXCEPT !.pc = "pause", !.held = c, !.locks = None]
    <3>1. v.pc = "pause" /\ v.knew = w.knew  BY ONLY <1>3, <2>3 DEF Worker
    <3> QED  BY <1>6, <2>1, <3>1
  <2> QED  BY <1>1, <1>2, <1>9, <1>17, <2>1, <2>2, <2>3 DEF Recovers
<1>18. CASE \/ EndsTick \/ WorkerDies \/ SaveUnanswered \/ WorkerFails \/ Pauses
            \/ WorkerFinishes
  <2>1. v = IdleWorker \/ (w.pc # "idle" /\ (v = NextJob(w) \/ v = RecoveringOf(w)))
    BY <1>1, <1>2, <1>18
    DEF EndsTick, WorkerDies, SaveUnanswered, WorkerFails, Pauses, WorkerFinishes,
        RecoveringOf
  <2> QED  BY <1>8, <1>9, <1>10, <2>1
<1>19. ASSUME NEW k, Scans(k)
       PROVE  /\ KnowsOK(v, run', incident)
              /\ v.pc # "idle" => v.knew = Known \/ (w.pc # "idle" /\ v.knew = w.knew)
  <2>1. w.pc = "scan" /\ w.id \in Runs /\ w.held \in Run /\ \A i \in w.held.incidents : i \notin w.knew
    BY <1>1, <1>3, <1>19 DEF Scans, KnowsOK, WorkerOK, Holding, Worker
  <2>2. PICK s : s = Saved(w.id, w.held)  OBVIOUS
  <2>3. s \in Run /\ s.incidents = w.held.incidents  BY <2>1, <2>2, SavedRow
  <2>4. PICK row : row = [s EXCEPT !.pending = @ \cup {DeviceAt(k)}]  OBVIOUS
  <2>5. row.incidents = w.held.incidents  BY ONLY <2>3, <2>4 DEF Run
  <2>6. \/ v = [w EXCEPT !.pc = "deliver", !.visited = k] \/ v = RecoveringOf(w)
        \/ v = [w EXCEPT !.pc = "deliver", !.visited = k, !.held = row]
    BY <1>1, <1>2, <1>19, <2>2, <2>4 DEF Scans, RecoveringOf
  <2>7. CASE \/ v = [w EXCEPT !.pc = "deliver", !.visited = k]
             \/ v = [w EXCEPT !.pc = "deliver", !.visited = k, !.held = row]
    <3>1. v.pc = "deliver" /\ v.knew = w.knew /\ v.held \in {w.held, row}
      BY ONLY <1>3, <2>7 DEF Worker
    <3> QED  BY <1>7, <2>1, <2>5, <3>1
  <2> QED  BY <1>10, <2>1, <2>6, <2>7
<1>20. CASE SavesAnswer
  <2>1. PICK h : h = w.held  OBVIOUS
  <2>2. w.pc = "save" /\ w.id \in Runs /\ h \in Run /\ \A i \in h.incidents : i \notin w.knew
    BY <1>1, <1>3, <1>20, <2>1 DEF SavesAnswer, KnowsOK, WorkerOK, Holding, Worker
  <2>3. CASE MaySave(w.id, h)
    <3>1. PICK row : row = Saved(w.id, h)  OBVIOUS
    <3>2. row.incidents = h.incidents  BY <2>2, <3>1, SavedRow
    <3>3. PICK n : n = w.visited + 1  OBVIOUS
    <3>4. PICK p : p = IF row.status = "running" THEN "scan" ELSE "exhausted"  OBVIOUS
    <3>5. v = [w EXCEPT !.held = row, !.visited = n, !.pc = p]
      BY <1>1, <1>2, <1>20, <2>1, <2>3, <3>1, <3>3, <3>4 DEF SavesAnswer
    <3>6. v.pc = p /\ v.knew = w.knew /\ v.held = row  BY ONLY <1>3, <3>5 DEF Worker
    <3> QED  BY <1>6, <1>7, <2>2, <3>2, <3>4, <3>6
  <2>4. CASE ~MaySave(w.id, h)
    <3>1. v = RecoveringOf(w)  BY <1>1, <1>2, <1>20, <2>1, <2>4 DEF SavesAnswer, RecoveringOf
    <3> QED  BY <1>10, <2>2, <3>1
  <2> QED  BY <2>3, <2>4
<1>21. ASSUME NEW troubled \in BOOLEAN, Delivers(troubled)
       PROVE  /\ KnowsOK(v, run', incident)
              /\ v.pc # "idle" => v.knew = Known \/ (w.pc # "idle" /\ v.knew = w.knew)
  <2>1. w.pc = "deliver" /\ UNCHANGED run  BY <1>1, <1>21 DEF Delivers, rows
  <2>2. PICK r \in Runs, d \in Devices, h \in Run, n \in Nat, o \in Answer,
             lost \in BOOLEAN, t \in Incidents \cup {None} :
          Sends(r, d, h, n, o, lost, t, troubled)
    BY <1>21, Delivering
  <2>3. /\ r = w.id /\ h = w.held /\ h = worker.held /\ d = DeviceAt(worker.visited)
        /\ o \in Ingestion(<<r, d, n>>, t, troubled) /\ <<r, d, n>> \in Ids
        /\ lost => v = RecoveringOf(w)
        /\ ~lost => v = AnsweringOf(w, Answered(d, o))
    BY <1>1, <1>2, <2>2 DEF Sends, Outcome
  <2>4. CASE lost  BY <1>10, <2>1, <2>3, <2>4
  <2>5. CASE ~lost
    <3>1. PICK a : a = Answered(d, o)  OBVIOUS
    <3>2. (Position(worker.visited) + 1) % Len(Rows[worker.id]) \in Nat
      BY <1>1, <1>3, <2>3, NextPlace
    <3>3. o.ok \in BOOLEAN /\ o.told \in Incidents \cup {None}  BY DEF Answer
    <3>4. /\ a \in Run /\ a.incidents = h.incidents \cup ({o.told} \ {None})
          /\ \A e \in Devices : e # d => a.index[e] = h.index[e]
          /\ o.ok => a.pending = h.pending \ {d}
          /\ ~o.ok => a.pending = h.pending /\ a.index = h.index
      BY <2>3, <3>1, <3>2, <3>3, AnsweredRow
    <3>5. v.pc = "save" /\ v.held = a /\ v.id = r /\ v.knew = w.knew
      BY <1>3, <2>3, <2>5, <3>1, <3>4, WithAnswer
    <3>6. o.told # None => o.told \notin w.knew
      <4>1. receipts[<<r, d, n>>] \in Receipt  BY <2>3 DEF TypeOK
      <4>2. o.told # None => o.told \notin Known \/ incident[o.told] = "open"
        BY <2>3, <4>1, IngestionMakes
      <4> QED  BY <1>3, <1>4, <3>3, <4>2 DEF Known, Deleted, Worker
    <3>7. \A i \in a.incidents : i \notin w.knew
      BY <1>3, <2>1, <2>3, <3>4, <3>6 DEF KnowsOK
    <3>8. ASSUME run[r] # None, NEW e \in a.pending
          PROVE  e \in run[r].pending /\ a.index[e] = run[r].index[e]
      <4>1. run[r].index = h.index /\ run[r].pending = h.pending
        BY <1>3, <2>1, <2>3, <3>8 DEF Keeping, Holding, Done
      <4>2. e \in h.pending /\ e \in Devices  BY <3>4, <3>8 DEF Run
      <4>3. a.index[e] = h.index[e]  BY <3>4, <3>8, <4>2
      <4> QED  BY <4>1, <4>2, <4>3
    <3> QED  BY <1>4, <2>1, <3>5, <3>7, <3>8 DEF KnowsOK
  <2> QED  BY <2>4, <2>5
<1> QED
  BY <1>11, <1>12, <1>13, <1>14, <1>15, <1>16, <1>17, <1>18, <1>19, <1>20, <1>21 DEF WorkerTakes

\* A request knows what had been deleted when it began, and starts a run of nothing else.
LEMMA ClientKnows ==
  ASSUME CopiesInv, [Next]_vars, NEW c \in Clients,
         client[c].pc = "start" => Target[client[c].id] \notin client[c].knew
  PROVE  /\ client'[c].pc = "start" => Target[client'[c].id] \notin client'[c].knew
         /\ client'[c].pc # "idle" =>
              client'[c].knew = Known \/ (client[c].pc # "idle" /\ client'[c].knew = client[c].knew)
<1> USE DEF CopiesInv
<1>1. CASE client'[c] = client[c]  BY <1>1
<1>2. client \in [Clients -> Client]  BY DEF TypeOK
<1>3. ASSUME NEW e \in Clients, ClientTakes(e), e = c
      PROVE  /\ client'[c].pc = "start" => Target[client'[c].id] \notin client'[c].knew
             /\ client'[c].pc # "idle" => client'[c].knew = Known
                  \/ (client[c].pc # "idle" /\ client'[c].knew = client[c].knew)
  <2>1. PICK b : b = client[c]  OBVIOUS
  <2>2. PICK n : n = client'[c]  OBVIOUS
  <2>3. b \in Client  BY <1>2, <2>1
  <2>4. CASE SaveResume(c) \/ CommitStop(c) \/ CommitStart(c) \/ Abandon(c)
    <3>1. n = IdleClient
      BY <1>2, <2>2, <2>4 DEF SaveResume, CommitStop, CommitStart, Abandon, IdleNow
    <3>2. n.pc = "idle"  BY <3>1 DEF IdleClient
    <3> QED  BY <2>2, <3>2
  <2>5. CASE StopReadsLocks(c)
    <3>1. b.pc = "stop" /\ n = [b EXCEPT !.pc = "commit", !.locks = locks]
      BY <1>2, <2>1, <2>2, <2>5 DEF StopReadsLocks
    <3>2. n.pc = "commit" /\ n.knew = b.knew  BY ONLY <2>3, <3>1 DEF Client
    <3> QED  BY <2>1, <2>2, <3>1, <3>2
  <2>6. ASSUME NEW r \in Runs, StartRun(c, r)
        PROVE  n.pc = "start" /\ Target[n.id] \notin n.knew /\ n.knew = Known
    <3>1. n = [IdleClient EXCEPT !.pc = "start", !.id = r, !.locks = locks, !.knew = Known]
      BY <1>2, <2>2, <2>6 DEF StartRun
    <3>2. n.pc = "start" /\ n.id = r /\ n.knew = Known  BY ONLY <3>1 DEF IdleClient
    <3>3. Target[r] # None => incident[Target[r]] = "open"  BY <2>6 DEF StartRun
    <3>4. None \notin Incidents  BY SimulationAssumption DEF SimulationAssumption
    <3>5. Target[r] \notin Known  BY <3>3, <3>4 DEF Known, Deleted
    <3> QED  BY <3>2, <3>5
  <2>7. ASSUME NEW r \in Runs, NEW action \in {"stop", "resume"}, Command(c, r, action)
        PROVE  n.pc = action /\ n.knew = Known
    <3>1. n = [IdleClient EXCEPT !.pc = action, !.id = r, !.held = run[r], !.knew = Known]
      BY <1>2, <2>2, <2>7 DEF Command
    <3> QED  BY ONLY <3>1 DEF IdleClient
  <2> QED  BY <1>3, <2>2, <2>4, <2>5, <2>6, <2>7 DEF ClientTakes
<1>4. ASSUME NEW e \in Clients, ClientTakes(e), e # c PROVE client'[c] = client[c]
  BY <1>2, <1>4
  DEF ClientTakes, SaveResume, StopReadsLocks, CommitStop, CommitStart, Abandon, StartRun,
      Command, IdleNow
<1>5. CASE WorkerTakes \/ CleanerTakes \/ WorldTakes \/ UNCHANGED vars
  BY <1>1, <1>5
  DEF WorkerTakes, CleanerTakes, WorldTakes, vars, Wakes, EndsTick, ChecksIncidents, EndsScan,
      StopsScanning, EndsWork, WorkerReadsLocks, Recovers, WorkerFails, WorkerDies, TakesJob,
      Delivers, Scans, SavesAnswer, SaveUnanswered, Pauses, WorkerFinishes, QueriesRuns, CleanerReadsLocks,
      CompletesPurge, CleanerDies, ChecksRun, Redacts, CleanerFinishes, DeletesRun, Closes,
      FallsDue
<1> QED  BY <1>1, <1>3, <1>4, <1>5, WhoTakes

LEMMA DeletedStays ==
  ASSUME CopiesInv, [Next]_vars, NEW i \in Incidents, Deleted(i) PROVE Deleted(i)'
<1>1. CASE UNCHANGED incident  BY <1>1 DEF Deleted
<1>2. ASSUME NEW j \in Incidents, Closes(j) PROVE Deleted(i)'
  BY <1>2 DEF Closes, Deleted, CopiesInv, TypeOK
<1> QED
  BY <1>1, <1>2, WhoTakes
  DEF WorkerTakes, ClientTakes, CleanerTakes, WorldTakes, vars, world, Wakes, EndsTick,
      ChecksIncidents, EndsScan, StopsScanning, EndsWork, WorkerReadsLocks, Recovers,
      WorkerFails, WorkerDies, TakesJob, Delivers, Scans, SavesAnswer, SaveUnanswered, Pauses, WorkerFinishes,
      SaveResume, StopReadsLocks, CommitStop, CommitStart, Abandon, StartRun, Command,
      QueriesRuns, CleanerReadsLocks, CompletesPurge, CleanerDies, ChecksRun, Redacts,
      CleanerFinishes, DeletesRun, FallsDue

-----------------------------------------------------------------------------
(* What the sweep has still to do *)

\* The step leads to rows and copies that fit.
Good == CopiesInv /\ ReportsInv /\ PurgeInv /\ [Next]_vars /\ CopiesInv' /\ ReportsInv'

LEMMA BelBefore ==
  ASSUME Good, NEW i \in Incidents, Redacted(i), NEW r \in Runs, run'[r] # None,
         Bel(r, run'[r], i, receipts')
  PROVE  run[r] # None /\ Bel(r, run[r], i, receipts)
<1>1. PICK row : row = run'[r]  OBVIOUS
<1>2. row \in Run /\ \A d \in row.pending : row.index[d] < Reports[d]
  BY <1>1 DEF Good, CopiesInv, TypeOK, ReportsInv, RowOK, Fits
<1>3. NewsOK(receipts, receipts', incident)  BY ReceiptsNews DEF Good
<1>4. incident[i] = "deleted"  BY DEF Good, PurgeInv, Deleted
<1>5. Bel(r, row, i, receipts)  BY <1>1, <1>2, <1>3, <1>4, BelStays
<1>6. NoneJoins(run, run', receipts)  BY JoinsNext DEF Good
<1> QED  BY <1>1, <1>5, <1>6 DEF NoneJoins

LEMMA PageSame ==
  ASSUME Good, NEW i \in Incidents, Redacted(i), NEW y \in cleaner.page
  PROVE  Bel(y[1], y[2], i, receipts) <=> Bel(y[1], y[2], i, receipts')
<1>1. PICK q : q = y[1]  OBVIOUS
<1>2. PICK row : row = y[2]  OBVIOUS
<1>3. q \in Runs /\ row \in Run  BY <1>1, <1>2 DEF Good, CopiesInv, TypeOK, Cleaner
<1>4. \A d \in row.pending : row.index[d] < Reports[d]  BY <1>2 DEF Good, PurgeInv, ForgetsOK
<1>5. NewsOK(receipts, receipts', incident) /\ incident[i] = "deleted"
  BY ReceiptsNews DEF Good, PurgeInv, Deleted
<1>6. Bel(q, row, i, receipts) <=> Bel(q, row, i, receipts')  BY <1>3, <1>4, <1>5, BelStays
<1> QED  BY <1>1, <1>2, <1>6

\* What was purged stays forgotten, and of what the sweep has before it no more is left than
\* of the step's page and run.
LEMMA ForgetsAfter ==
  ASSUME Good, NEW z, z = cleaner', z.page \subseteq cleaner.page, UNCHANGED purged,
         z.pc \in {"query", "scan"} => z.id = None,
         z.pc \notin {"idle", "query"} =>
           /\ cleaner.pc \notin {"idle", "query"} /\ z.incident = cleaner.incident
           /\ cleaner.id \in Runs => z.id = cleaner.id \/ run'[cleaner.id] = None
           /\ \A y \in cleaner.page :
                y \in z.page \/ y[1] = z.id \/ ~Bel(y[1], y[2], cleaner.incident, receipts)
  PROVE  ForgetsOK(z, purged', run', receipts')
<1>1. ForgetsOK(cleaner, purged, run, receipts)  BY DEF Good, PurgeInv
<1>2. \A i \in purged : i \in Incidents /\ Redacted(i)
  BY DEF Good, CopiesInv, TypeOK, Redacted
<1>3. \A i \in purged', r \in Runs : run'[r] # None => ~Bel(r, run'[r], i, receipts')
  BY <1>1, <1>2, BelBefore DEF ForgetsOK
<1>4. ASSUME z.pc \notin {"idle", "query"}, NEW r \in Runs, run'[r] # None,
             Bel(r, run'[r], z.incident, receipts')
      PROVE  r = z.id \/ \E y \in z.page : y[1] = r /\ Bel(r, y[2], z.incident, receipts')
  <2>1. PICK i : i = cleaner.incident  OBVIOUS
  <2>2. i \in Incidents /\ Redacted(i) /\ z.incident = i
    BY <1>4, <2>1 DEF Good, CopiesInv, TypeOK, CleanerOK, Cleaner, Redacted
  <2>3. run[r] # None /\ Bel(r, run[r], i, receipts)  BY <1>4, <2>2, BelBefore
  <2>4. r = cleaner.id \/ \E y \in cleaner.page : y[1] = r /\ Bel(r, y[2], i, receipts)
    BY <1>1, <1>4, <2>1, <2>3 DEF ForgetsOK
  <2>5. CASE r = cleaner.id  BY <1>4, <2>5
  <2>6. CASE \E y \in cleaner.page : y[1] = r /\ Bel(r, y[2], i, receipts)
    <3>1. PICK y \in cleaner.page : y[1] = r /\ Bel(r, y[2], i, receipts)  BY <2>6
    <3>2. Bel(r, y[2], i, receipts')  BY <2>2, <3>1, PageSame
    <3>3. y \in z.page \/ r = z.id  BY <1>4, <2>1, <3>1
    <3> QED  BY <2>2, <3>1, <3>2, <3>3
  <2> QED  BY <2>4, <2>5, <2>6
<1>5. \A y \in z.page : \A d \in y[2].pending : y[2].index[d] < Reports[d]
  BY <1>1 DEF ForgetsOK
<1> QED  BY <1>3, <1>4, <1>5 DEF ForgetsOK

LEMMA ForgetsOthers ==
  ASSUME Good, UNCHANGED <<cleaner, purged>>
  PROVE  ForgetsOK(cleaner', purged', run', receipts')
<1>1. PICK z : z = cleaner'  OBVIOUS
<1>2. z.pc \in {"query", "scan"} => z.id = None  BY <1>1 DEF Good, PurgeInv, ForgetsOK
<1> QED  BY <1>1, <1>2, ForgetsAfter

LEMMA ForgetsCleaner ==
  ASSUME Good, CleanerTakes PROVE ForgetsOK(cleaner', purged', run', receipts')
<1>1. PICK z : z = cleaner  OBVIOUS
<1>2. PICK v : v = cleaner'  OBVIOUS
<1>3. /\ z \in Cleaner /\ CleanerOK(z, run, locks) /\ ForgetsOK(z, purged, run, receipts)
  BY <1>1 DEF Good, CopiesInv, TypeOK, PurgeInv
<1>4. SUFFICES ForgetsOK(v, purged', run', receipts')  BY <1>2
<1>5. None \notin Runs  BY SimulationAssumption DEF SimulationAssumption
<1>6. CASE v = IdleCleaner /\ UNCHANGED purged
  <2>1. v.pc = "idle" /\ v.page = {}  BY <1>6 DEF IdleCleaner
  <2> QED  BY <1>2, <1>6, <2>1, ForgetsAfter
<1>7. ASSUME NEW i \in Incidents, Redacts(i) PROVE ForgetsOK(v, purged', run', receipts')
  <2>1. v = [IdleCleaner EXCEPT !.pc = "query", !.incident = i] /\ UNCHANGED purged
    BY <1>2, <1>7 DEF Redacts, world
  <2>2. v.pc = "query" /\ v.page = {} /\ v.id = None  BY ONLY <2>1 DEF IdleCleaner
  <2> QED  BY <1>2, <2>1, <2>2, ForgetsAfter
<1>8. CASE QueriesRuns
  <2>1. PICK P : P = {<<r, run[r]>> : r \in {q \in Runs : run[q] # None}}  OBVIOUS
  <2>2. /\ z.pc = "query" /\ v = [z EXCEPT !.pc = "scan", !.page = P]
        /\ UNCHANGED <<purged, run, receipts>>
    BY <1>1, <1>2, <1>8, <2>1 DEF QueriesRuns, world, rows, ingress
  <2>3. v.pc = "scan" /\ v.page = P /\ v.id = z.id /\ v.incident = z.incident
    BY ONLY <1>3, <2>2 DEF Cleaner
  <2>4. \A r \in Runs : run[r] # None => <<r, run[r]>> \in P  BY <2>1
  <2>5. \A r \in Runs : <<r, run[r]>>[1] = r /\ <<r, run[r]>>[2] = run[r]  OBVIOUS
  <2>6. \A y \in P : \E r \in Runs : run[r] # None /\ y[2] = run[r]  BY <2>1
  <2>7. \A y \in P : \A d \in y[2].pending : y[2].index[d] < Reports[d]
    BY <2>6 DEF Good, ReportsInv, RowOK, Fits
  <2>8. z.id = None  BY <1>3, <2>2 DEF ForgetsOK
  <2>9. \A r \in Runs : run[r] # None /\ Bel(r, run[r], v.incident, receipts) =>
          \E y \in P : y[1] = r /\ Bel(r, y[2], v.incident, receipts)
    BY <2>4, <2>5
  <2> QED  BY <1>3, <2>2, <2>3, <2>7, <2>8, <2>9 DEF ForgetsOK
<1>9. ASSUME NEW y \in cleaner.page, ChecksRun(y)
      PROVE  ForgetsOK(v, purged', run', receipts')
  <2>1. /\ z.pc = "scan" /\ UNCHANGED purged /\ z.id = None
    BY <1>1, <1>3, <1>9 DEF ChecksRun, world, ForgetsOK
  <2>2. CASE ~Belongs(y[1], y[2], z.incident)
    <3>1. v = [z EXCEPT !.page = @ \ {y}]  BY <1>1, <1>2, <1>9, <2>2 DEF ChecksRun
    <3>2. v.pc = "scan" /\ v.page = z.page \ {y} /\ v.id = None /\ v.incident = z.incident
      BY ONLY <1>3, <2>1, <3>1 DEF Cleaner
    <3>3. ~Bel(y[1], y[2], z.incident, receipts)  BY <2>2 DEF Belongs, Bel
    <3> QED  BY <1>1, <1>2, <1>5, <2>1, <3>2, <3>3, ForgetsAfter
  <2>3. CASE Belongs(y[1], y[2], z.incident)
    <3>1. PICK p : p = IF Active(y[2]) THEN "finish" ELSE "delete"  OBVIOUS
    <3>2. v = [z EXCEPT !.page = @ \ {y}, !.id = y[1], !.held = y[2], !.pc = p]
      BY <1>1, <1>2, <1>9, <2>3, <3>1 DEF ChecksRun
    <3>3. v.pc = p /\ v.page = z.page \ {y} /\ v.id = y[1] /\ v.incident = z.incident
      BY ONLY <1>3, <3>2 DEF Cleaner
    <3> QED  BY <1>1, <1>2, <1>5, <2>1, <3>1, <3>3, ForgetsAfter
  <2> QED  BY <2>2, <2>3
<1>10. CASE CleanerReadsLocks
  <2>1. z.pc = "finish" /\ v = [z EXCEPT !.pc = "commit", !.locks = locks] /\ UNCHANGED purged
    BY <1>1, <1>2, <1>10 DEF CleanerReadsLocks, world
  <2>2. v.pc = "commit" /\ v.page = z.page /\ v.id = z.id /\ v.incident = z.incident
    BY ONLY <1>3, <2>1 DEF Cleaner
  <2> QED  BY <1>1, <1>2, <2>1, <2>2, ForgetsAfter
<1>11. CASE CleanerFinishes
  <2>1. z.pc = "commit" /\ UNCHANGED purged  BY <1>1, <1>11 DEF CleanerFinishes, world
  <2>2. CASE v = [z EXCEPT !.pc = "delete", !.locks = None]
    <3>1. v.pc = "delete" /\ v.page = z.page /\ v.id = z.id /\ v.incident = z.incident
      BY ONLY <1>3, <2>2 DEF Cleaner
    <3> QED  BY <1>1, <1>2, <2>1, <3>1, ForgetsAfter
  <2> QED  BY <1>1, <1>2, <1>6, <1>11, <2>1, <2>2 DEF CleanerFinishes
<1>12. CASE DeletesRun
  <2>1. /\ z.pc = "delete" /\ v = [z EXCEPT !.pc = "scan", !.id = None, !.held = None]
        /\ run' = [run EXCEPT ![z.id] = None] /\ UNCHANGED purged
    BY <1>1, <1>2, <1>12 DEF DeletesRun, world
  <2>2. v.pc = "scan" /\ v.page = z.page /\ v.id = None /\ v.incident = z.incident
    BY ONLY <1>3, <2>1 DEF Cleaner
  <2>3. z.id \in Runs => run'[z.id] = None  BY <2>1 DEF Good, CopiesInv, TypeOK
  <2> QED  BY <1>1, <1>2, <2>1, <2>2, <2>3, ForgetsAfter
<1>13. CASE CompletesPurge
  <2>1. /\ z.pc = "scan" /\ z.page = {} /\ v = IdleCleaner /\ UNCHANGED <<run, receipts>>
        /\ purged' = purged \cup {z.incident}
    BY <1>1, <1>2, <1>13 DEF CompletesPurge, rows, ingress
  <2>2. v.pc = "idle" /\ v.page = {}  BY <2>1 DEF IdleCleaner
  <2>3. \A r \in Runs : run[r] # None => ~Bel(r, run[r], z.incident, receipts)
    BY <1>3, <1>5, <2>1 DEF ForgetsOK
  <2>4. \A i \in purged', r \in Runs : run'[r] # None => ~Bel(r, run'[r], i, receipts')
    BY <1>3, <2>1, <2>3 DEF ForgetsOK
  <2> QED  BY <2>2, <2>4 DEF ForgetsOK
<1>14. CASE CleanerDies
  <2>1. v = IdleCleaner /\ UNCHANGED purged  BY <1>2, <1>14 DEF CleanerDies, world
  <2> QED  BY <1>6, <2>1
<1> QED
  BY <1>7, <1>8, <1>9, <1>10, <1>11, <1>12, <1>13, <1>14 DEF CleanerTakes

LEMMA WorkerOnlyKnows ==
  ASSUME CopiesInv, PurgeInv, [Next]_vars, ~WorkerTakes
  PROVE  UNCHANGED worker /\ KnowsOK(worker, run', incident')
<1> USE DEF CopiesInv
<1>1. UNCHANGED worker
  BY WhoTakes
  DEF ClientTakes, CleanerTakes, WorldTakes, vars, SaveResume, StopReadsLocks, CommitStop,
      CommitStart, Abandon, StartRun, Command, QueriesRuns, CleanerReadsLocks, CompletesPurge,
      CleanerDies, ChecksRun, Redacts, CleanerFinishes, DeletesRun, Closes, FallsDue
<1>2. KnowsOK(worker, run, incident) /\ worker \in Worker /\ WorkerOK(worker, run, locks, started)
  BY DEF PurgeInv, TypeOK
<1>3. \A i \in worker.knew : incident'[i] = "deleted"
  <2>1. worker.knew \subseteq Incidents  BY <1>2 DEF Worker
  <2> QED  BY <1>2, <2>1, DeletedStays DEF KnowsOK, Deleted
<1>4. worker.pc = "save" /\ run'[worker.id] # None =>
        /\ run[worker.id] # None
        /\ run'[worker.id].pending = run[worker.id].pending
        /\ run'[worker.id].index = run[worker.id].index
  <2>1. CASE Kept(run, run')
    <3>1. worker.pc = "save" => worker.id \in Runs  BY <1>2 DEF WorkerOK, Holding, Worker
    <3> QED  BY <2>1, <3>1 DEF Kept, Done
  <2>2. ASSUME NEW c \in Clients, CommitStart(c), worker.pc = "save"
        PROVE  run'[worker.id] = run[worker.id]
    <3>1. PICK b : b = client[c]  OBVIOUS
    <3>2. b.pc = "start" /\ ClientOK(b, run, locks, started) /\ b \in Client
      BY <2>2, <3>1 DEF CommitStart, TypeOK
    <3>3. worker.id \in Runs /\ worker.id \in started
      BY <1>2, <2>2 DEF WorkerOK, Holding, Worker
    <3>4. UNCHANGED run \/ (b.id \notin started /\ \E row : run' = [run EXCEPT ![b.id] = row])
      BY <2>2, <3>1, <3>2 DEF CommitStart, MayStart, ClientOK, rows
    <3> QED  BY <3>3, <3>4 DEF TypeOK
  <2>3. CASE WorldTakes \/ UNCHANGED vars
    <3>1. UNCHANGED run  BY <2>3 DEF WorldTakes, Closes, FallsDue, vars, rows
    <3> QED  BY <2>1, <3>1, KeptIfUnchanged
  <2> QED  BY <2>1, <2>2, <2>3, WhoTakes, CleanerKeeps, ClientKeeps
<1> QED  BY <1>1, <1>2, <1>3, <1>4 DEF KnowsOK

\* An incident is redacted by its own step only.
LEMMA RedactedOnce ==
  ASSUME CopiesInv, [Next]_vars, NEW i \in Incidents, Redacted(i)'
  PROVE  Redacted(i) \/ Redacts(i)
<1>1. PICK z : z = cleaner  OBVIOUS
<1>2. PICK v : v = cleaner'  OBVIOUS
<1>3. z \in Cleaner  BY <1>1 DEF CopiesInv, TypeOK
<1>4. i \in purged' \/ (v.pc # "idle" /\ v.incident = i)  BY <1>2 DEF Redacted
<1>5. ASSUME UNCHANGED purged, z.pc # "idle", v.incident = z.incident \/ v.pc = "idle"
      PROVE  Redacted(i)
  BY <1>1, <1>4, <1>5 DEF Redacted
<1>6. CASE UNCHANGED <<cleaner, purged>>  BY <1>1, <1>2, <1>4, <1>6 DEF Redacted
<1>7. CASE v = IdleCleaner /\ z.pc # "idle" /\ UNCHANGED purged
  <2>1. v.pc = "idle"  BY <1>7 DEF IdleCleaner
  <2> QED  BY <1>5, <1>7, <2>1
<1>8. ASSUME NEW j \in Incidents, Redacts(j) PROVE Redacted(i) \/ Redacts(i)
  <2>1. v = [IdleCleaner EXCEPT !.pc = "query", !.incident = j] /\ UNCHANGED purged
    BY <1>2, <1>8 DEF Redacts, world
  <2>2. v.incident = j  BY ONLY <2>1 DEF IdleCleaner
  <2> QED  BY <1>4, <1>8, <2>1, <2>2 DEF Redacted
<1>9. CASE QueriesRuns
  <2>1. PICK P : P = {<<r, run[r]>> : r \in {q \in Runs : run[q] # None}}  OBVIOUS
  <2>2. z.pc = "query" /\ v = [z EXCEPT !.pc = "scan", !.page = P] /\ UNCHANGED purged
    BY <1>1, <1>2, <1>9, <2>1 DEF QueriesRuns, world
  <2>3. v.incident = z.incident  BY ONLY <1>3, <2>2 DEF Cleaner
  <2> QED  BY <1>5, <2>2, <2>3
<1>10. ASSUME NEW y \in cleaner.page, ChecksRun(y) PROVE Redacted(i)
  <2>1. /\ z.pc = "scan" /\ UNCHANGED purged
        /\ \/ v = [z EXCEPT !.page = @ \ {y}]
           \/ v = [z EXCEPT !.page = @ \ {y}, !.id = y[1], !.held = y[2], !.pc = "finish"]
           \/ v = [z EXCEPT !.page = @ \ {y}, !.id = y[1], !.held = y[2], !.pc = "delete"]
    BY <1>1, <1>2, <1>10 DEF ChecksRun, world
  <2>2. v.incident = z.incident  BY ONLY <1>3, <2>1 DEF Cleaner
  <2> QED  BY <1>5, <2>1, <2>2
<1>11. CASE CleanerReadsLocks \/ CleanerFinishes \/ DeletesRun
  <2>1. z.pc # "idle" /\ UNCHANGED purged
    BY <1>1, <1>11 DEF CleanerReadsLocks, CleanerFinishes, DeletesRun, world
  <2>2. \/ v = [z EXCEPT !.pc = "commit", !.locks = locks]
        \/ v = [z EXCEPT !.pc = "delete", !.locks = None]
        \/ v = [z EXCEPT !.pc = "scan", !.id = None, !.held = None]
        \/ v = IdleCleaner
    BY <1>1, <1>2, <1>11 DEF CleanerReadsLocks, CleanerFinishes, DeletesRun
  <2>3. CASE \/ v = [z EXCEPT !.pc = "commit", !.locks = locks]
             \/ v = [z EXCEPT !.pc = "delete", !.locks = None]
             \/ v = [z EXCEPT !.pc = "scan", !.id = None, !.held = None]
    <3>1. v.incident = z.incident  BY ONLY <1>3, <2>3 DEF Cleaner
    <3> QED  BY <1>5, <2>1, <3>1
  <2> QED  BY <1>7, <2>1, <2>2, <2>3
<1>12. CASE CompletesPurge
  <2>1. z.pc = "scan" /\ v = IdleCleaner /\ purged' = purged \cup {z.incident}
    BY <1>1, <1>2, <1>12 DEF CompletesPurge
  <2>2. v.pc = "idle"  BY <2>1 DEF IdleCleaner
  <2> QED  BY <1>1, <1>4, <2>1, <2>2 DEF Redacted
<1>13. CASE CleanerDies
  <2>1. v = IdleCleaner /\ z.pc # "idle" /\ UNCHANGED purged
    BY <1>1, <1>2, <1>13 DEF CleanerDies, world
  <2> QED  BY <1>7, <2>1
<1>14. CASE CleanerTakes
  BY <1>8, <1>9, <1>10, <1>11, <1>12, <1>13, <1>14 DEF CleanerTakes
<1>15. CASE ~CleanerTakes
  <2>1. UNCHANGED <<cleaner, purged>>
    BY <1>15, WhoTakes
    DEF WorkerTakes, ClientTakes, WorldTakes, vars, world, Wakes, EndsTick, ChecksIncidents,
        EndsScan, StopsScanning, EndsWork, WorkerReadsLocks, Recovers, WorkerFails,
        WorkerDies, TakesJob, Delivers, Scans, SavesAnswer, SaveUnanswered, Pauses, WorkerFinishes,
        SaveResume, StopReadsLocks, CommitStop, CommitStart, Abandon, StartRun, Command,
        Closes, FallsDue
  <2> QED  BY <1>6, <2>1
<1> QED  BY <1>14, <1>15

LEMMA PurgeNext == ASSUME Good PROVE PurgeInv'
<1> USE DEF Good
<1>1. KnowsOK(worker', run', incident')
      /\ (worker'.pc # "idle" => worker'.knew = Known
            \/ (worker.pc # "idle" /\ worker'.knew = worker.knew))
  <2>1. CASE WorkerTakes
    <3>1. UNCHANGED incident
      BY <2>1
      DEF WorkerTakes, Wakes, EndsTick, ChecksIncidents, EndsScan, StopsScanning, EndsWork,
          WorkerReadsLocks, Recovers, WorkerFails, WorkerDies, TakesJob, Delivers, Scans,
          SavesAnswer, SaveUnanswered, Pauses, WorkerFinishes, world
    <3> QED  BY <2>1, <3>1, WorkerKnows
  <2>2. CASE ~WorkerTakes  BY <2>2, WorkerOnlyKnows
  <2> QED  BY <2>1, <2>2
<1>2. \A c \in Clients :
        /\ client'[c].pc = "start" => Target[client'[c].id] \notin client'[c].knew
        /\ client'[c].pc # "idle" => client'[c].knew = Known
             \/ (client[c].pc # "idle" /\ client'[c].knew = client[c].knew)
  BY ClientKnows DEF PurgeInv
<1>3. ForgetsOK(cleaner', purged', run', receipts')
  <2>1. CASE CleanerTakes  BY <2>1, ForgetsCleaner
  <2>2. CASE ~CleanerTakes
    <3>1. UNCHANGED <<cleaner, purged>>
      BY <2>2, WhoTakes
      DEF WorkerTakes, ClientTakes, WorldTakes, vars, world, Wakes, EndsTick, ChecksIncidents,
          EndsScan, StopsScanning, EndsWork, WorkerReadsLocks, Recovers, WorkerFails,
          WorkerDies, TakesJob, Delivers, Scans, SavesAnswer, SaveUnanswered, Pauses, WorkerFinishes,
          SaveResume, StopReadsLocks, CommitStop, CommitStart, Abandon, StartRun, Command,
          Closes, FallsDue
    <3> QED  BY <3>1, ForgetsOthers
  <2> QED  BY <2>1, <2>2
<1>4. ASSUME NEW i \in Incidents, Redacted(i)'
      PROVE  Deleted(i) /\ Drained(i)
  <2>1. Redacted(i) \/ Redacts(i)  BY <1>4, RedactedOnce
  <2> QED  BY <2>1 DEF PurgeInv, Redacts
<1>5. ASSUME NEW i \in Incidents, Redacted(i)'
      PROVE  Deleted(i)' /\ Drained(i)'
  <2>1. Deleted(i) /\ Drained(i) /\ i \in Known  BY <1>4, <1>5 DEF Known
  <2>2. worker'.pc # "idle" => i \in worker'.knew  BY <1>1, <2>1 DEF Drained
  <2>3. \A c \in Clients : client'[c].pc # "idle" => i \in client'[c].knew
    BY <1>2, <2>1 DEF Drained
  <2>4. Deleted(i)'  BY <2>1, DeletedStays
  <2> QED  BY <2>2, <2>3, <2>4 DEF Drained
<1> QED  BY <1>1, <1>2, <1>3, <1>5 DEF PurgeInv

LEMMA PurgeInit == Init => PurgeInv
<1> SUFFICES ASSUME Init PROVE PurgeInv  OBVIOUS
<1>1. worker.pc = "idle" /\ worker.knew = {} /\ cleaner.pc = "idle" /\ cleaner.page = {}
  BY DEF Init, IdleWorker, IdleCleaner
<1>2. \A c \in Clients : client[c].pc = "idle"  BY DEF Init, IdleClient
<1>3. purged = {}  BY DEF Init
<1>4. \A i \in Incidents : ~Redacted(i)  BY <1>1, <1>3 DEF Redacted
<1>5. KnowsOK(worker, run, incident)  BY <1>1 DEF KnowsOK
<1>6. ForgetsOK(cleaner, purged, run, receipts)  BY <1>1, <1>3 DEF ForgetsOK
<1> QED  BY <1>2, <1>4, <1>5, <1>6 DEF PurgeInv

\* The sweep looks at every run that belongs to its incident, and nobody it has not waited
\* for makes another one belong.
THEOREM PurgeCorrect == Spec => []PurgeInv
<1>1. CopiesInv /\ CopiesInv' /\ ReportsInv /\ ReportsInv' /\ PurgeInv /\ [Next]_vars => PurgeInv'
  BY PurgeNext DEF Good
<1> QED  BY <1>1, PurgeInit, CopiesCorrect, ReportsCorrect, PTL DEF Spec

\* Cleanup of an incident leaves no run that was for it, knew it or has a report bound to
\* it, and none comes to be afterwards (purge of a run, drain and save).
THEOREM PurgedAlwaysForgotten == Spec => []PurgedIsForgotten
<1>1. CopiesInv /\ ReportsInv /\ PurgeInv => PurgedIsForgotten
  <2> SUFFICES ASSUME CopiesInv, ReportsInv, PurgeInv, NEW i \in purged, NEW r \in Runs, run[r] # None
               PROVE  /\ Target[r] # i /\ i \notin run[r].incidents
                      /\ \A d \in run[r].pending : receipts[<<r, d, run[r].index[d]>>].incident # i
    BY DEF PurgedIsForgotten
  <2>1. ~Bel(r, run[r], i, receipts)  BY DEF PurgeInv, ForgetsOK
  <2>2. i \in Incidents /\ i # None
    BY SimulationAssumption DEF SimulationAssumption, CopiesInv, TypeOK
  <2>3. Target[r] # None => Target[r] \in run[r].incidents  BY DEF ReportsInv, RowOK, Fits
  <2> QED  BY <2>1, <2>2, <2>3 DEF Bel
<1> QED  BY <1>1, CopiesCorrect, ReportsCorrect, PurgeCorrect, PTL

=============================================================================
