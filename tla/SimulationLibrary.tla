------------------------- MODULE SimulationLibrary --------------------------
(***************************************************************************)
(* The household's library of saved simulations.  A save writes all its    *)
(* definitions as a new generation of SIMLIB# rows, moves the pointer (the *)
(* SIMULATIONS row) to it if the pointer is where its client saw it, and   *)
(* discards the generation that lost.  A read collects the rows of the     *)
(* generation the pointer names, page by page.  LIBGC jobs let the sweep   *)
(* of cleanup remove what an interrupted save leaves behind.               *)
(***************************************************************************)
EXTENDS Naturals, FiniteSets

CONSTANTS Generations, \* revisions of saves
          Savers, Readers,
          Items,       \* definitions of a library, one page each
          None

ASSUME LibraryAssumption ==
  /\ None \notin Generations /\ IsFiniteSet(Items) /\ Items # {}

VARIABLES
  pointer,   \* revision of the SIMULATIONS row, None before the first save
  rows,      \* SIMLIB# rows
  jobs,      \* LIBGC rows: "fresh" until eligible_at, then "due"
  published, \* history: the generations the pointer has named
  saver, reader, collector

vars == <<pointer, rows, jobs, published, saver, reader, collector>>

Saver == [pc : {"idle", "jobs", "write", "publish", "discard"},
          new : Generations \cup {None}, base : Generations \cup {None},
          todo : SUBSET (Generations \cup Items), victim : Generations \cup {None}]

Reader == [pc : {"idle", "pages", "check", "loaded", "changed"},
           of : Generations \cup {None}, todo : SUBSET Items, got : SUBSET Items]

Collector == [pc : {"idle", "next", "delete", "done"}, page : SUBSET Generations,
              of : Generations \cup {None}]

IdleSaver == [pc |-> "idle", new |-> None, base |-> None, todo |-> {}, victim |-> None]
IdleReader == [pc |-> "idle", of |-> None, todo |-> {}, got |-> {}]
IdleCollector == [pc |-> "idle", page |-> {}, of |-> None]

Init ==
  /\ pointer = None /\ published = {}
  /\ rows = [g \in Generations |-> {}] /\ jobs = [g \in Generations |-> "none"]
  /\ saver = [s \in Savers |-> IdleSaver] /\ reader = [r \in Readers |-> IdleReader]
  /\ collector = IdleCollector

-----------------------------------------------------------------------------
(* Saving *)

Step(s, new) == saver' = [saver EXCEPT ![s] = new]
Unused(g) == g \notin published /\ rows[g] = {} /\ jobs[g] = "none"
             /\ \A s \in Savers : saver[s].new # g

\* The client knows a revision from an earlier save or read.
Save(s, g, b) ==
  /\ saver[s].pc = "idle" /\ Unused(g)
  /\ Step(s, [IdleSaver EXCEPT !.pc = "jobs", !.new = g, !.base = b,
                               !.todo = {g, b} \ {None}])
  /\ UNCHANGED <<pointer, rows, jobs, published, reader, collector>>

\* (defect) Only the old generation is noted.
Noted_OldOnly(s, x) == IF x = saver[s].base THEN "fresh" ELSE jobs[x]

Noted(s, x) == "fresh"

PutsJob(s, x) ==
  /\ saver[s].pc = "jobs" /\ x \in saver[s].todo
  /\ jobs' = [jobs EXCEPT ![x] = Noted(s, x)]
  /\ Step(s, IF saver[s].todo = {x} THEN [saver[s] EXCEPT !.pc = "write", !.todo = Items]
             ELSE [saver[s] EXCEPT !.todo = @ \ {x}])
  /\ UNCHANGED <<pointer, rows, published, reader, collector>>

WritesRow(s, i) ==
  /\ saver[s].pc = "write" /\ i \in saver[s].todo
  /\ rows' = [rows EXCEPT ![saver[s].new] = @ \cup {i}]
  /\ Step(s, IF saver[s].todo = {i} THEN [saver[s] EXCEPT !.pc = "publish", !.todo = {}]
             ELSE [saver[s] EXCEPT !.todo = @ \ {i}])
  /\ UNCHANGED <<pointer, jobs, published, reader, collector>>

\* A write fails: what was written is discarded, the error goes to the client.
WriteFails(s) ==
  /\ saver[s].pc = "write"
  /\ Step(s, [saver[s] EXCEPT !.pc = "discard", !.todo = {}, !.victim = saver[s].new])
  /\ UNCHANGED <<pointer, rows, jobs, published, reader, collector>>

MayPublish(s) == pointer = saver[s].base

Loser(s, won) == IF won THEN saver[s].base ELSE saver[s].new

\* The conditional put of the pointer; the loser is discarded.
Publishes(s) ==
  LET won == MayPublish(s)
      victim == Loser(s, won) IN
  /\ saver[s].pc = "publish"
  /\ pointer' = IF won THEN saver[s].new ELSE pointer
  /\ published' = published \cup ({pointer'} \ {None})
  /\ Step(s, IF victim = None THEN IdleSaver
             ELSE [saver[s] EXCEPT !.pc = "discard", !.victim = victim])
  /\ UNCHANGED <<rows, jobs, reader, collector>>

DiscardsRow(s, i) ==
  LET g == saver[s].victim IN
  /\ saver[s].pc = "discard" /\ i \in rows[g]
  /\ rows' = [rows EXCEPT ![g] = @ \ {i}]
  /\ UNCHANGED <<pointer, jobs, published, saver, reader, collector>>

Discarded(s) ==
  /\ saver[s].pc = "discard" /\ rows[saver[s].victim] = {}
  /\ Step(s, IdleSaver)
  /\ UNCHANGED <<pointer, rows, jobs, published, reader, collector>>

\* The invocation ends anywhere.
Dies(s) ==
  /\ saver[s].pc # "idle"
  /\ Step(s, IdleSaver)
  /\ UNCHANGED <<pointer, rows, jobs, published, reader, collector>>

-----------------------------------------------------------------------------
(* Reading *)

Reads(r) ==
  /\ reader[r].pc = "idle" /\ pointer # None
  /\ reader' = [reader EXCEPT ![r] = [IdleReader EXCEPT !.pc = "pages", !.of = pointer,
                                                        !.todo = Items]]
  /\ UNCHANGED <<pointer, rows, jobs, published, saver, collector>>

ReadsPage(r, i) ==
  /\ reader[r].pc = "pages" /\ i \in reader[r].todo
  /\ reader' = [reader EXCEPT ![r].todo = @ \ {i},
                              ![r].got = @ \cup (rows[reader[r].of] \cap {i}),
                              ![r].pc = IF reader[r].todo = {i} THEN "check" ELSE @]
  /\ UNCHANGED <<pointer, rows, jobs, published, saver, collector>>

\* (defect) The pointer is not read again.
Unchanged_Assumed(r) == TRUE

Unchanged(r) == pointer = reader[r].of

Checks(r) ==
  /\ reader[r].pc = "check"
  /\ reader' = [reader EXCEPT ![r].pc = IF Unchanged(r) THEN "loaded" ELSE "changed"]
  /\ UNCHANGED <<pointer, rows, jobs, published, saver, collector>>

Returns(r) ==
  /\ reader[r].pc \in {"pages", "check", "loaded", "changed"}
  /\ reader' = [reader EXCEPT ![r] = IdleReader]
  /\ UNCHANGED <<pointer, rows, jobs, published, saver, collector>>

-----------------------------------------------------------------------------
(* Collecting: one sweep of cleanup at a time (Lease) *)

\* (defect) The job is due while the save is still running.
Over_Ignored(g) == TRUE

\* eligible_at is 900 s after a save that lasts 25 s at most.
Over(g) == \A s \in Savers : g \notin {saver[s].new, saver[s].base}

FallsDue(g) ==
  /\ jobs[g] = "fresh" /\ Over(g)
  /\ jobs' = [jobs EXCEPT ![g] = "due"]
  /\ UNCHANGED <<pointer, rows, published, saver, reader, collector>>

Sweeps ==
  /\ collector.pc = "idle" /\ \E g \in Generations : jobs[g] = "due"
  /\ collector' = [IdleCollector EXCEPT !.pc = "next",
                                        !.page = {g \in Generations : jobs[g] = "due"}]
  /\ UNCHANGED <<pointer, rows, jobs, published, saver, reader>>

Superseded(g) == pointer # g

TakesJob(g) ==
  /\ collector.pc = "next" /\ g \in collector.page
  /\ collector' = [pc |-> IF Superseded(g) THEN "delete" ELSE "done",
                   page |-> collector.page \ {g}, of |-> g]
  /\ UNCHANGED <<pointer, rows, jobs, published, saver, reader>>

DeletesRow(i) ==
  /\ collector.pc = "delete" /\ i \in rows[collector.of]
  /\ rows' = [rows EXCEPT ![collector.of] = @ \ {i}]
  /\ UNCHANGED <<pointer, jobs, published, saver, reader, collector>>

FindsNone ==
  /\ collector.pc = "delete" /\ rows[collector.of] = {}
  /\ collector' = [collector EXCEPT !.pc = "done"]
  /\ UNCHANGED <<pointer, rows, jobs, published, saver, reader>>

RemovesJob ==
  /\ collector.pc = "done"
  /\ jobs' = [jobs EXCEPT ![collector.of] = "none"]
  /\ collector' = [collector EXCEPT !.pc = "next", !.of = None]
  /\ UNCHANGED <<pointer, rows, published, saver, reader>>

EndsSweep ==
  /\ collector.pc = "next" /\ collector.page = {}
  /\ collector' = IdleCollector
  /\ UNCHANGED <<pointer, rows, jobs, published, saver, reader>>

\* The sweep runs out of time, or dies.
Interrupted ==
  /\ collector.pc # "idle"
  /\ collector' = IdleCollector
  /\ UNCHANGED <<pointer, rows, jobs, published, saver, reader>>

CollectorStep ==
  \/ FindsNone \/ RemovesJob \/ EndsSweep
  \/ \E g \in Generations : TakesJob(g)
  \/ \E i \in Items : DeletesRow(i)

Next ==
  \/ \E s \in Savers :
       \/ \E g \in Generations, b \in published \cup {None} : Save(s, g, b)
       \/ \E x \in Generations : PutsJob(s, x)
       \/ \E i \in Items : WritesRow(s, i) \/ DiscardsRow(s, i)
       \/ WriteFails(s) \/ Publishes(s) \/ Discarded(s) \/ Dies(s)
  \/ \E r \in Readers :
       \/ Reads(r) \/ Checks(r) \/ Returns(r)
       \/ \E i \in Items : ReadsPage(r, i)
  \/ Sweeps \/ CollectorStep \/ Interrupted
  \/ \E g \in Generations : FallsDue(g)

Spec == Init /\ [][Next]_vars

-----------------------------------------------------------------------------
(* Properties *)

TypeOK ==
  /\ pointer \in Generations \cup {None} /\ published \subseteq Generations
  /\ rows \in [Generations -> SUBSET Items]
  /\ jobs \in [Generations -> {"none", "fresh", "due"}]
  /\ saver \in [Savers -> Saver] /\ reader \in [Readers -> Reader]
  /\ collector \in Collector

\* Whatever saves, deaths and sweeps did, the generation the pointer names has
\* all its definitions, and nobody is about to discard them (save_library writes
\* before it publishes; docs/user-guide.md: "Saving stores a reusable recipe").
PointerIsComplete ==
  /\ TypeOK
  /\ pointer # None => rows[pointer] = Items
  /\ \A s \in Savers : saver[s].pc = "discard" => saver[s].victim \notin {None, pointer}

\* A read that reports no change returns one whole generation, although its
\* pages were read one by one while others saved (read_library).
LoadedIsWhole == \A r \in Readers : reader[r].pc = "loaded" => reader[r].got = Items

\* Rows that no reader will be sent to are known to a job, or to a save or a sweep that
\* is removing or still writing them (save_library: GC jobs survive interruption).
InUse(g) ==
  \/ \E s \in Savers : g \in {saver[s].new, saver[s].base, saver[s].victim}
  \/ collector.of = g
Collectable(g) == rows[g] # {} /\ g # pointer => jobs[g] # "none" \/ InUse(g)

\* A generation whose save was interrupted before it was published keeps its job
\* until its rows are gone.
UnpublishedIsCollectable == \A g \in Generations \ published : Collectable(g)

=============================================================================
