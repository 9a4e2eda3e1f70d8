----------------------- MODULE SimulationLibraryProofs ----------------------
(***************************************************************************)
(* Proofs about SimulationLibrary for any number of saves, readers,        *)
(* generations and definitions.                                            *)
(***************************************************************************)
EXTENDS SimulationLibrary, TLAPS

-----------------------------------------------------------------------------
(* The inductive invariant *)

\* The pointer names a generation that was published and is whole.
PointerOK ==
  /\ pointer \in published \cup {None}
  /\ pointer # None => rows[pointer] = Items

\* A save owns its new generation: until it is published nobody else knows it,
\* its job is not due, and it holds what has been written so far.  What a save
\* discards is not, and never will be, where the pointer points.
SaveOK(c) ==
  /\ c.base \in published \cup {None}
  /\ c.pc # "idle" => c.new \in Generations
  /\ c.new \in Generations \ published => jobs[c.new] # "due"
  /\ c.pc \in {"jobs", "write", "publish"} => c.new \notin published
  /\ c.pc = "jobs" =>
       /\ c.todo \subseteq {c.new, c.base} \ {None}
       /\ rows[c.new] = {}
       /\ c.new \in c.todo \/ jobs[c.new] = "fresh"
  /\ c.pc \in {"write", "publish"} => jobs[c.new] = "fresh"
  /\ c.pc = "write" => c.todo \subseteq Items /\ rows[c.new] = Items \ c.todo
  /\ c.pc = "publish" => rows[c.new] = Items
  /\ c.pc = "discard" =>
       /\ c.victim \in Generations \ {pointer}
       /\ c.victim \in published \/ c.victim = c.new

SaversOK == \A s \in Savers : SaveOK(saver[s])

OwnersDiffer ==
  \A s, t \in Savers : s # t /\ saver[s].new = saver[t].new => saver[s].new = None

\* The sweep has the pointer's word that what it deletes is superseded.
CollectorOK ==
  /\ \A g \in collector.page : g \in published \/ jobs[g] = "due"
  /\ collector.pc \in {"delete", "done"} =>
       /\ collector.of \in Generations \ collector.page
       /\ collector.of \in published \/ jobs[collector.of] = "due"
  /\ collector.pc = "delete" => collector.of # pointer
  /\ collector.pc = "done" => collector.of \in published \/ rows[collector.of] = {}

\* A reader has every page it has passed, as long as the pointer stands.
ReadOK(c) ==
  /\ c.pc \in {"pages", "check"} =>
       /\ c.of \in published
       /\ c.todo \subseteq Items
       /\ pointer = c.of => c.got = Items \ c.todo
  /\ c.pc = "check" => c.todo = {}
  /\ c.pc = "loaded" => c.got = Items

ReadersOK == \A r \in Readers : ReadOK(reader[r])

\* Rows that were never published have a job.
JobsOK == \A g \in Generations \ published : rows[g] # {} => jobs[g] # "none"

LibraryInv ==
  /\ TypeOK /\ PointerOK /\ SaversOK /\ OwnersDiffer /\ CollectorOK /\ ReadersOK /\ JobsOK

-----------------------------------------------------------------------------
(* Initial states, and what is left to show of a step *)

LEMMA InvInit == Init => LibraryInv
<1> SUFFICES ASSUME Init PROVE LibraryInv  OBVIOUS
<1> USE LibraryAssumption DEF Init
<1>1. IdleSaver \in Saver /\ IdleReader \in Reader /\ IdleCollector \in Collector
  BY DEF IdleSaver, Saver, IdleReader, Reader, IdleCollector, Collector
<1>2. TypeOK  BY <1>1 DEF TypeOK
<1>3. SaversOK /\ OwnersDiffer  BY DEF SaversOK, SaveOK, OwnersDiffer, IdleSaver
<1>4. ReadersOK /\ CollectorOK  BY DEF ReadersOK, ReadOK, CollectorOK, IdleReader, IdleCollector
<1> QED  BY <1>2, <1>3, <1>4 DEF LibraryInv, PointerOK, JobsOK

\* One save steps; what it leaves of the others is for the step to say.
LEMMA SaverStep ==
  ASSUME TypeOK, SaversOK, OwnersDiffer, NEW s \in Savers, NEW c \in Saver,
         saver' = [saver EXCEPT ![s] = c], SaveOK(c)',
         \A t \in Savers \ {s} : saver[t].new = c.new => c.new = None,
         \A d \in Saver : SaveOK(d) /\ (d.new = saver[s].new => d.new = None) => SaveOK(d)'
  PROVE  saver' \in [Savers -> Saver] /\ SaversOK' /\ OwnersDiffer'
<1>1. saver' \in [Savers -> Saver]  BY DEF TypeOK
<1>2. saver'[s] = c /\ \A t \in Savers \ {s} : saver'[t] = saver[t]  BY DEF TypeOK
<1>3. OwnersDiffer'  BY <1>2 DEF OwnersDiffer
<1>4. SaversOK'
  <2> SUFFICES ASSUME NEW t \in Savers PROVE SaveOK(saver[t])'  BY DEF SaversOK
  <2>1. PICK d \in Saver : d = saver'[t]  BY <1>1
  <2>2. SaveOK(d)'
    <3>1. CASE t = s  BY <1>2, <2>1, <3>1
    <3>2. CASE t # s
      <4>1. d = saver[t] /\ SaveOK(d)  BY <1>2, <2>1, <3>2 DEF SaversOK
      <4>2. d.new = saver[s].new => d.new = None  BY <3>2, <4>1 DEF OwnersDiffer
      <4> QED  BY <4>1, <4>2
    <3> QED  BY <3>1, <3>2
  <2> QED  BY <2>1, <2>2 DEF SaveOK
<1> QED  BY <1>1, <1>3, <1>4

\* Nobody's save steps.
LEMMA SaversStill ==
  ASSUME TypeOK, SaversOK, OwnersDiffer, UNCHANGED saver,
         \A d \in Saver : SaveOK(d) /\ (\E t \in Savers : saver[t] = d) => SaveOK(d)'
  PROVE  saver' \in [Savers -> Saver] /\ SaversOK' /\ OwnersDiffer'
<1>1. SaversOK'
  <2> SUFFICES ASSUME NEW t \in Savers PROVE SaveOK(saver[t])'  BY DEF SaversOK
  <2>1. PICK d \in Saver : d = saver[t]  BY DEF TypeOK
  <2>2. SaveOK(d)'  BY <2>1 DEF SaversOK
  <2>3. d = saver'[t]  BY <2>1
  <2> QED  BY <2>2, <2>3 DEF SaveOK
<1> QED  BY <1>1 DEF TypeOK, OwnersDiffer

\* A generation that is neither published nor due is out of the sweep's reach.
LEMMA OutOfReach ==
  ASSUME CollectorOK, NEW g \in Generations \ published, jobs[g] # "due"
  PROVE  /\ g \notin collector.page
         /\ collector.pc \in {"delete", "done"} => collector.of # g
  BY DEF CollectorOK

-----------------------------------------------------------------------------
(* Saving *)

LEMMA InvSave ==
  ASSUME LibraryInv, NEW s \in Savers, NEW g \in Generations, NEW b \in published \cup {None},
         Save(s, g, b)
  PROVE  LibraryInv'
<1> USE LibraryAssumption DEF LibraryInv
<1>1. PICK c : c = [IdleSaver EXCEPT !.pc = "jobs", !.new = g, !.base = b,
                                     !.todo = {g, b} \ {None}]
  OBVIOUS
<1>2. /\ saver' = [saver EXCEPT ![s] = c]
      /\ UNCHANGED <<pointer, rows, jobs, published, reader, collector>>
      /\ g \notin published /\ rows[g] = {} /\ jobs[g] = "none"
      /\ \A t \in Savers : saver[t].new # g
  BY <1>1 DEF Save, Step, Unused
<1>3. /\ c.pc = "jobs" /\ c.new = g /\ c.base = b /\ c.todo = {g, b} \ {None}
      /\ c.victim = None
  BY <1>1 DEF IdleSaver
<1>4. c \in Saver
  <2>1. b \in Generations \cup {None}  BY DEF TypeOK
  <2> QED  BY <1>1, <2>1 DEF IdleSaver, Saver
<1>5. SaveOK(c)'  BY <1>2, <1>3 DEF SaveOK
<1>6. \A d \in Saver : SaveOK(d) => SaveOK(d)'  BY <1>2 DEF SaveOK
<1>7. saver' \in [Savers -> Saver] /\ SaversOK' /\ OwnersDiffer'
  BY <1>2, <1>3, <1>4, <1>5, <1>6, SaverStep
<1>8. TypeOK'  BY <1>2, <1>7 DEF TypeOK
<1>9. PointerOK' /\ CollectorOK' /\ JobsOK'  BY <1>2 DEF PointerOK, CollectorOK, JobsOK
<1>10. ReadersOK'  BY <1>2 DEF ReadersOK, ReadOK
<1> QED  BY <1>7, <1>8, <1>9, <1>10

LEMMA InvPutsJob ==
  ASSUME LibraryInv, NEW s \in Savers, NEW x \in Generations, PutsJob(s, x)
  PROVE  LibraryInv'
<1> USE LibraryAssumption DEF LibraryInv
<1>1. /\ saver[s] \in Saver /\ SaveOK(saver[s])
      /\ saver[s].pc = "jobs" /\ x \in saver[s].todo
      /\ jobs' = [jobs EXCEPT ![x] = "fresh"]
      /\ UNCHANGED <<pointer, rows, published, reader, collector>>
  BY DEF TypeOK, SaversOK, PutsJob, Noted
<1>2. jobs'[x] = "fresh" /\ \A g \in Generations \ {x} : jobs'[g] = jobs[g]
  BY <1>1 DEF TypeOK
<1>3. PICK c \in Saver :
        /\ saver' = [saver EXCEPT ![s] = c]
        /\ c.new = saver[s].new /\ c.base = saver[s].base
        /\ \/ c.pc = "write" /\ c.todo = Items /\ saver[s].todo = {x}
           \/ c.pc = "jobs" /\ c.todo = saver[s].todo \ {x}
  <2>1. CASE saver[s].todo = {x}
    <3> DEFINE c == [saver[s] EXCEPT !.pc = "write", !.todo = Items]
    <3>1. c \in Saver  BY <1>1 DEF Saver
    <3>2. c.new = saver[s].new /\ c.base = saver[s].base /\ c.pc = "write" /\ c.todo = Items
      BY <1>1 DEF Saver
    <3>3. saver' = [saver EXCEPT ![s] = c]  BY <2>1 DEF PutsJob, Step
    <3> QED  BY <2>1, <3>1, <3>2, <3>3
  <2>2. CASE saver[s].todo # {x}
    <3> DEFINE c == [saver[s] EXCEPT !.todo = @ \ {x}]
    <3>1. c \in Saver  BY <1>1 DEF Saver
    <3>2. /\ c.new = saver[s].new /\ c.base = saver[s].base /\ c.pc = "jobs"
          /\ c.todo = saver[s].todo \ {x}
      BY <1>1 DEF Saver
    <3>3. saver' = [saver EXCEPT ![s] = c]  BY <2>2 DEF PutsJob, Step
    <3> QED  BY <3>1, <3>2, <3>3
  <2> QED  BY <2>1, <2>2
<1>4. saver[s].new \in Generations \ published /\ rows[saver[s].new] = {}
  BY <1>1 DEF SaveOK
<1>5. (c.new \in c.todo /\ c.pc = "jobs") \/ jobs'[c.new] = "fresh"
  BY <1>1, <1>2, <1>3, <1>4 DEF SaveOK
<1>6. SaveOK(c)'
  BY <1>1, <1>2, <1>3, <1>4, <1>5 DEF SaveOK
<1>7. \A d \in Saver : SaveOK(d) => SaveOK(d)'  BY <1>1, <1>2 DEF SaveOK
<1>8. \A t \in Savers \ {s} : saver[t].new = c.new => c.new = None
  BY <1>3 DEF OwnersDiffer
<1>9. saver' \in [Savers -> Saver] /\ SaversOK' /\ OwnersDiffer'
  BY <1>3, <1>6, <1>7, <1>8, SaverStep
<1>10. TypeOK'
  <2>1. jobs' \in [Generations -> {"none", "fresh", "due"}]  BY <1>1 DEF TypeOK
  <2> QED  BY <1>1, <1>9, <2>1 DEF TypeOK
<1>11. CollectorOK'
  <2>1. x \in published \/ jobs[x] # "due"
    BY <1>1 DEF SaveOK
  <2> QED  BY <1>1, <1>2, <2>1 DEF CollectorOK, TypeOK, Collector
<1>12. PointerOK' /\ JobsOK'  BY <1>1, <1>2 DEF PointerOK, JobsOK
<1>13. ReadersOK'  BY <1>1 DEF ReadersOK, ReadOK
<1> QED  BY <1>9, <1>10, <1>11, <1>12, <1>13

LEMMA InvWritesRow ==
  ASSUME LibraryInv, NEW s \in Savers, NEW i \in Items, WritesRow(s, i)
  PROVE  LibraryInv'
<1> USE LibraryAssumption DEF LibraryInv
<1>1. /\ saver[s] \in Saver /\ SaveOK(saver[s])
      /\ saver[s].pc = "write" /\ i \in saver[s].todo
      /\ UNCHANGED <<pointer, jobs, published, reader, collector>>
  BY DEF TypeOK, SaversOK, WritesRow
<1>2. PICK g \in Generations \ published :
        g = saver[s].new /\ jobs[g] = "fresh" /\ rows[g] = Items \ saver[s].todo
  BY <1>1 DEF SaveOK
<1>3. rows' = [rows EXCEPT ![g] = rows[g] \cup {i}]  BY <1>2 DEF WritesRow, TypeOK
<1>4. rows'[g] = rows[g] \cup {i} /\ \A h \in Generations \ {g} : rows'[h] = rows[h]
  BY <1>3 DEF TypeOK
<1>5. PICK c \in Saver :
        /\ saver' = [saver EXCEPT ![s] = c]
        /\ c.new = g /\ c.base = saver[s].base /\ c.todo = saver[s].todo \ {i}
        /\ c.pc = "write" \/ c.pc = "publish"
        /\ c.pc = "publish" => c.todo = {}
  <2>1. CASE saver[s].todo = {i}
    <3> DEFINE c == [saver[s] EXCEPT !.pc = "publish", !.todo = {}]
    <3>1. c \in Saver  BY <1>1 DEF Saver
    <3>2. c.new = g /\ c.base = saver[s].base /\ c.pc = "publish" /\ c.todo = {}
      BY <1>1, <1>2 DEF Saver
    <3>3. saver' = [saver EXCEPT ![s] = c]  BY <2>1 DEF WritesRow, Step
    <3> QED  BY <2>1, <3>1, <3>2, <3>3
  <2>2. CASE saver[s].todo # {i}
    <3> DEFINE c == [saver[s] EXCEPT !.todo = @ \ {i}]
    <3>1. c \in Saver  BY <1>1 DEF Saver
    <3>2. c.new = g /\ c.base = saver[s].base /\ c.pc = "write" /\ c.todo = saver[s].todo \ {i}
      BY <1>1, <1>2 DEF Saver
    <3>3. saver' = [saver EXCEPT ![s] = c]  BY <2>2 DEF WritesRow, Step
    <3> QED  BY <3>1, <3>2, <3>3
  <2> QED  BY <2>1, <2>2
<1>6. SaveOK(c)'
  <2>1. rows'[g] = Items \ c.todo /\ c.todo \subseteq Items
    BY <1>1, <1>2, <1>4, <1>5 DEF SaveOK
  <2> QED  BY <1>1, <1>2, <1>5, <2>1 DEF SaveOK
<1>7. \A d \in Saver : SaveOK(d) /\ (d.new = saver[s].new => d.new = None) => SaveOK(d)'
  BY <1>1, <1>2, <1>4 DEF SaveOK
<1>8. \A t \in Savers \ {s} : saver[t].new = c.new => c.new = None
  BY <1>2, <1>5 DEF OwnersDiffer
<1>9. saver' \in [Savers -> Saver] /\ SaversOK' /\ OwnersDiffer'
  BY <1>5, <1>6, <1>7, <1>8, SaverStep
<1>10. TypeOK'
  <2>1. rows' \in [Generations -> SUBSET Items]  BY <1>3 DEF TypeOK
  <2> QED  BY <1>1, <1>9, <2>1 DEF TypeOK
<1>11. PointerOK' /\ JobsOK'  BY <1>1, <1>2, <1>4 DEF PointerOK, JobsOK, TypeOK
<1>12. CollectorOK'  BY <1>1, <1>2, <1>4, OutOfReach DEF CollectorOK
<1>13. ReadersOK'  BY <1>1 DEF ReadersOK, ReadOK
<1> QED  BY <1>9, <1>10, <1>11, <1>12, <1>13

\* A save ends early, or is done.
LEMMA InvEndsSave ==
  ASSUME LibraryInv, NEW s \in Savers, WriteFails(s) \/ Discarded(s) \/ Dies(s)
  PROVE  LibraryInv'
<1> USE LibraryAssumption DEF LibraryInv
<1>1. /\ saver[s] \in Saver /\ SaveOK(saver[s])
      /\ UNCHANGED <<pointer, rows, jobs, published, reader, collector>>
  BY DEF TypeOK, SaversOK, WriteFails, Discarded, Dies
<1>2. PICK c \in Saver :
        /\ saver' = [saver EXCEPT ![s] = c] /\ c.new \in {saver[s].new, None}
        /\ SaveOK(c)
  <2>1. CASE WriteFails(s)
    <3> DEFINE c == [saver[s] EXCEPT !.pc = "discard", !.todo = {}, !.victim = saver[s].new]
    <3>1. c \in Saver  BY <1>1 DEF Saver
    <3>2. /\ c.new = saver[s].new /\ c.base = saver[s].base /\ c.pc = "discard"
          /\ c.victim = saver[s].new
      BY <1>1 DEF Saver
    <3>3. saver' = [saver EXCEPT ![s] = c]  BY <2>1 DEF WriteFails, Step
    <3>4. /\ saver[s].new \in Generations \ published /\ saver[s].new # pointer
      BY <1>1, <2>1 DEF WriteFails, SaveOK, PointerOK
    <3>5. SaveOK(c)  BY <1>1, <3>2, <3>4 DEF SaveOK
    <3> QED  BY <3>1, <3>2, <3>3, <3>5
  <2>2. CASE Discarded(s) \/ Dies(s)
    <3>1. IdleSaver \in Saver /\ SaveOK(IdleSaver)
      BY DEF IdleSaver, Saver, SaveOK
    <3>2. saver' = [saver EXCEPT ![s] = IdleSaver] /\ IdleSaver.new = None
      BY <2>2 DEF Discarded, Dies, Step, IdleSaver
    <3> QED  BY <3>1, <3>2
  <2> QED  BY <2>1, <2>2
<1>3. \A d \in Saver : SaveOK(d) => SaveOK(d)'  BY <1>1 DEF SaveOK
<1>4. \A t \in Savers \ {s} : saver[t].new = c.new => c.new = None
  BY <1>2 DEF OwnersDiffer
<1>5. saver' \in [Savers -> Saver] /\ SaversOK' /\ OwnersDiffer'
  BY <1>2, <1>3, <1>4, SaverStep
<1>6. TypeOK'  BY <1>1, <1>5 DEF TypeOK
<1>7. PointerOK' /\ CollectorOK' /\ JobsOK'  BY <1>1 DEF PointerOK, CollectorOK, JobsOK
<1>8. ReadersOK'  BY <1>1 DEF ReadersOK, ReadOK
<1> QED  BY <1>5, <1>6, <1>7, <1>8

\* The pointer moves to a generation that nobody has discarded, or half read.
LEMMA InvPublishes ==
  ASSUME LibraryInv, NEW s \in Savers, Publishes(s)
  PROVE  LibraryInv'
<1> USE LibraryAssumption DEF LibraryInv
<1>1. /\ saver[s] \in Saver /\ SaveOK(saver[s]) /\ saver[s].pc = "publish"
      /\ UNCHANGED <<rows, jobs, reader, collector>>
  BY DEF TypeOK, SaversOK, Publishes
<1>2. PICK g \in Generations \ published :
        g = saver[s].new /\ jobs[g] = "fresh" /\ rows[g] = Items /\ g # pointer
  BY <1>1 DEF SaveOK, PointerOK
<1>3. PICK b \in published \cup {None} : b = saver[s].base /\ b # g  BY <1>1 DEF SaveOK
<1>4. \/ /\ pointer = b /\ pointer' = g /\ published' = published \cup {g}
         /\ \/ b = None /\ saver' = [saver EXCEPT ![s] = IdleSaver]
            \/ /\ b # None
               /\ saver' = [saver EXCEPT ![s] = [saver[s] EXCEPT !.pc = "discard", !.victim = b]]
      \/ /\ pointer' = pointer /\ published' = published
         /\ saver' = [saver EXCEPT ![s] = [saver[s] EXCEPT !.pc = "discard", !.victim = g]]
  BY <1>2, <1>3 DEF Publishes, MayPublish, Loser, Step, PointerOK
<1>5. PICK c \in Saver :
        /\ saver' = [saver EXCEPT ![s] = c]
        /\ c.new \in {g, None} /\ c.base \in {b, None} /\ c.pc \in {"idle", "discard"}
        /\ c.pc = "discard" => /\ c.new = g /\ c.victim \in {g, b} \ {None, pointer'}
  <2>1. IdleSaver \in Saver /\ IdleSaver.new = None /\ IdleSaver.base = None
        /\ IdleSaver.pc = "idle"
    BY DEF IdleSaver, Saver
  <2>2. ASSUME NEW v \in {g, b} \ {None, pointer'},
               saver' = [saver EXCEPT ![s] = [saver[s] EXCEPT !.pc = "discard", !.victim = v]]
        PROVE  \E c \in Saver :
                 /\ saver' = [saver EXCEPT ![s] = c]
                 /\ c.new \in {g, None} /\ c.base \in {b, None} /\ c.pc \in {"idle", "discard"}
                 /\ c.pc = "discard" => /\ c.new = g /\ c.victim \in {g, b} \ {None, pointer'}
    <3> DEFINE c == [saver[s] EXCEPT !.pc = "discard", !.victim = v]
    <3>1. v \in Generations  BY DEF TypeOK
    <3>2. c \in Saver  BY <1>1, <3>1 DEF Saver
    <3>3. c.new = g /\ c.base = b /\ c.pc = "discard" /\ c.victim = v
      BY <1>1, <1>2, <1>3 DEF Saver
    <3> QED  BY <2>2, <3>2, <3>3
  <2> QED  BY <1>2, <1>3, <1>4, <2>1, <2>2
<1>6. /\ published \subseteq published' /\ published' \subseteq published \cup {g}
      /\ published' \subseteq Generations
      /\ pointer' \in published' \cup {None}
      /\ pointer' = pointer \/ pointer' = g
  BY <1>2, <1>4 DEF TypeOK, PointerOK
<1>7. SaveOK(c)'
  <2>1. c.base \in published' \cup {None}  BY <1>3, <1>5, <1>6
  <2>2. c.pc = "discard" => /\ c.victim \in Generations \ {pointer'}
                            /\ c.victim \in published' \/ c.victim = c.new
    BY <1>3, <1>5, <1>6 DEF TypeOK
  <2>3. c.new \in Generations \ published' => jobs'[c.new] # "due"  BY <1>1, <1>2, <1>5
  <2> QED  BY <1>5, <2>1, <2>2, <2>3 DEF SaveOK
<1>8. ASSUME NEW d \in Saver, SaveOK(d), d.new = saver[s].new => d.new = None
      PROVE  SaveOK(d)'
  <2>1. d.new # g  BY <1>2, <1>8
  <2>2. d.pc = "discard" => d.victim # pointer'
    BY <1>6, <1>8, <2>1 DEF SaveOK
  <2> QED  BY <1>1, <1>6, <1>8, <2>1, <2>2 DEF SaveOK
<1>9. \A t \in Savers \ {s} : saver[t].new = c.new => c.new = None
  BY <1>2, <1>5 DEF OwnersDiffer
<1>10. saver' \in [Savers -> Saver] /\ SaversOK' /\ OwnersDiffer'
  BY <1>5, <1>7, <1>8, <1>9, SaverStep
<1>11. TypeOK'  BY <1>1, <1>6, <1>10 DEF TypeOK
<1>12. PointerOK'  BY <1>1, <1>2, <1>6 DEF PointerOK
<1>13. CollectorOK'
  <2>1. collector.pc = "delete" => collector.of # pointer'
    BY <1>2, <1>6, OutOfReach DEF CollectorOK
  <2> QED  BY <1>1, <1>6, <2>1 DEF CollectorOK
<1>14. ReadersOK'
  <2> SUFFICES ASSUME NEW r \in Readers PROVE ReadOK(reader[r])'  BY DEF ReadersOK
  <2>1. PICK d : d = reader[r]  OBVIOUS
  <2>2. ReadOK(d) /\ d = reader'[r]  BY <1>1, <2>1 DEF ReadersOK
  <2>3. ReadOK(d)'  BY <1>2, <1>6, <2>2 DEF ReadOK
  <2> QED  BY <2>2, <2>3 DEF ReadOK
<1>15. JobsOK'  BY <1>1, <1>6 DEF JobsOK
<1> QED  BY <1>10, <1>11, <1>12, <1>13, <1>14, <1>15

\* A row of a generation that the pointer does not name, and no save is
\* writing, is deleted.
LEMMA RowGoes ==
  ASSUME LibraryInv, NEW g \in Generations, NEW i \in Items,
         g # pointer,
         \/ g \in published
         \/ jobs[g] = "due"
         \/ \E s \in Savers : saver[s].pc = "discard" /\ saver[s].new = g,
         rows' = [rows EXCEPT ![g] = @ \ {i}],
         UNCHANGED <<pointer, jobs, published, saver, reader, collector>>
  PROVE  LibraryInv'
<1> USE LibraryAssumption DEF LibraryInv
<1>1. rows'[g] = rows[g] \ {i} /\ \A h \in Generations \ {g} : rows'[h] = rows[h]
  BY DEF TypeOK
<1>2. ASSUME NEW d \in Saver, SaveOK(d), NEW t \in Savers, saver[t] = d PROVE SaveOK(d)'
  <2>1. d.pc \in {"write", "publish"} => d.new # g
    <3> SUFFICES ASSUME d.pc \in {"write", "publish"}, d.new = g PROVE FALSE  OBVIOUS
    <3>1. g \notin published /\ jobs[g] = "fresh"  BY <1>2 DEF SaveOK
    <3>2. PICK s \in Savers : saver[s].pc = "discard" /\ saver[s].new = g  BY <3>1
    <3> QED  BY <1>2, <3>2 DEF OwnersDiffer
  <2> QED  BY <1>1, <1>2, <2>1 DEF SaveOK
<1>3. saver' \in [Savers -> Saver] /\ SaversOK' /\ OwnersDiffer'  BY <1>2, SaversStill
<1>4. TypeOK'
  <2>1. rows' \in [Generations -> SUBSET Items]  BY DEF TypeOK
  <2> QED  BY <1>3, <2>1 DEF TypeOK
<1>5. PointerOK' /\ JobsOK'  BY <1>1 DEF PointerOK, JobsOK, TypeOK
<1>6. CollectorOK'  BY <1>1 DEF CollectorOK
<1>7. ReadersOK'  BY DEF ReadersOK, ReadOK
<1> QED  BY <1>3, <1>4, <1>5, <1>6, <1>7

LEMMA InvDiscardsRow ==
  ASSUME LibraryInv, NEW s \in Savers, NEW i \in Items, DiscardsRow(s, i)
  PROVE  LibraryInv'
<1>1. SaveOK(saver[s]) /\ saver[s].pc = "discard"  BY DEF LibraryInv, SaversOK, DiscardsRow
<1>2. PICK g \in Generations : g = saver[s].victim /\ g # pointer
  BY <1>1 DEF SaveOK
<1>3. g \in published \/ g = saver[s].new  BY <1>1, <1>2 DEF SaveOK
<1>4. /\ rows' = [rows EXCEPT ![g] = @ \ {i}]
      /\ UNCHANGED <<pointer, jobs, published, saver, reader, collector>>
  BY <1>2 DEF DiscardsRow
<1> QED  BY <1>1, <1>2, <1>3, <1>4, RowGoes

-----------------------------------------------------------------------------
(* Reading *)

\* One read steps.
LEMMA ReaderStep ==
  ASSUME LibraryInv, NEW r \in Readers, NEW c \in Reader, ReadOK(c),
         reader' = [reader EXCEPT ![r] = c],
         UNCHANGED <<pointer, rows, jobs, published, saver, collector>>
  PROVE  LibraryInv'
<1> USE DEF LibraryInv
<1>1. reader' \in [Readers -> Reader]  BY DEF TypeOK
<1>2. ReadersOK'
  <2> SUFFICES ASSUME NEW q \in Readers PROVE ReadOK(reader[q])'  BY DEF ReadersOK
  <2>1. reader'[q] = c \/ reader'[q] = reader[q]  BY DEF TypeOK
  <2>2. ReadOK(reader'[q])  BY <2>1 DEF ReadersOK
  <2> QED  BY <2>2 DEF ReadOK
<1>3. TypeOK'  BY <1>1 DEF TypeOK
<1>4. \A d \in Saver : SaveOK(d) => SaveOK(d)'  BY DEF SaveOK
<1>5. SaversOK' /\ OwnersDiffer'  BY <1>4, SaversStill
<1>6. PointerOK' /\ CollectorOK' /\ JobsOK'  BY DEF PointerOK, CollectorOK, JobsOK
<1> QED  BY <1>2, <1>3, <1>5, <1>6

LEMMA InvReads ==
  ASSUME LibraryInv, NEW r \in Readers, Reads(r)
  PROVE  LibraryInv'
<1> USE LibraryAssumption DEF LibraryInv
<1>1. PICK c : c = [IdleReader EXCEPT !.pc = "pages", !.of = pointer, !.todo = Items]  OBVIOUS
<1>2. c \in Reader  BY <1>1 DEF IdleReader, Reader, TypeOK
<1>3. c.pc = "pages" /\ c.of = pointer /\ c.todo = Items /\ c.got = {}
  BY <1>1 DEF IdleReader
<1>4. pointer \in published  BY DEF Reads, PointerOK
<1>5. ReadOK(c)  BY <1>3, <1>4 DEF ReadOK
<1>6. reader' = [reader EXCEPT ![r] = c]  BY <1>1 DEF Reads
<1> QED  BY <1>2, <1>5, <1>6, ReaderStep DEF Reads

LEMMA InvReadsPage ==
  ASSUME LibraryInv, NEW r \in Readers, NEW i \in Items, ReadsPage(r, i)
  PROVE  LibraryInv'
<1> USE LibraryAssumption DEF LibraryInv
<1>1. /\ reader[r] \in Reader /\ ReadOK(reader[r]) /\ reader[r].pc = "pages"
      /\ i \in reader[r].todo
  BY DEF TypeOK, ReadersOK, ReadsPage
<1>2. PICK of \in Generations : of = reader[r].of  BY <1>1 DEF ReadOK, TypeOK
<1>3. PICK pc : pc = IF reader[r].todo = {i} THEN "check" ELSE "pages"  OBVIOUS
<1>4. PICK c : c = [reader[r] EXCEPT !.todo = @ \ {i}, !.got = @ \cup (rows[of] \cap {i}),
                                     !.pc = pc]
  OBVIOUS
<1>5. /\ c.todo = reader[r].todo \ {i} /\ c.got = reader[r].got \cup (rows[of] \cap {i})
      /\ c.of = of /\ c.pc = pc
  BY <1>1, <1>2, <1>4 DEF Reader
<1>6. c \in Reader
  <2>1. pc \in {"check", "pages"} /\ rows[of] \subseteq Items  BY <1>3 DEF TypeOK
  <2> QED  BY <1>1, <1>4, <2>1 DEF Reader
<1>7. reader' = [reader EXCEPT ![r] = c]  BY <1>1, <1>2, <1>3, <1>4 DEF ReadsPage, TypeOK
<1>8. pointer = of => c.got = Items \ c.todo
  <2> SUFFICES ASSUME pointer = of PROVE c.got = Items \ c.todo  OBVIOUS
  <2>1. rows[of] = Items  BY LibraryAssumption DEF PointerOK
  <2>2. reader[r].got = Items \ reader[r].todo /\ reader[r].todo \subseteq Items
    BY <1>1, <1>2 DEF ReadOK
  <2> QED  BY <1>5, <2>1, <2>2
<1>9. ReadOK(c)  BY <1>1, <1>2, <1>3, <1>5, <1>8 DEF ReadOK
<1> QED  BY <1>6, <1>7, <1>9, ReaderStep DEF ReadsPage

LEMMA InvChecks ==
  ASSUME LibraryInv, NEW r \in Readers, Checks(r)
  PROVE  LibraryInv'
<1> USE DEF LibraryInv
<1>1. reader[r] \in Reader /\ ReadOK(reader[r]) /\ reader[r].pc = "check"
  BY DEF TypeOK, ReadersOK, Checks
<1>2. PICK pc : pc = IF Unchanged(r) THEN "loaded" ELSE "changed"  OBVIOUS
<1>3. PICK c : c = [reader[r] EXCEPT !.pc = pc]  OBVIOUS
<1>4. c \in Reader /\ c.pc = pc /\ c.got = reader[r].got
  BY <1>1, <1>2, <1>3 DEF Reader
<1>5. pc = "loaded" => c.got = Items
  BY <1>1, <1>2, <1>4 DEF Unchanged, ReadOK
<1>6. ReadOK(c)  BY <1>2, <1>4, <1>5 DEF ReadOK
<1>7. reader' = [reader EXCEPT ![r] = c]  BY <1>2, <1>3 DEF Checks, TypeOK
<1> QED  BY <1>4, <1>6, <1>7, ReaderStep DEF Checks

LEMMA InvReturns ==
  ASSUME LibraryInv, NEW r \in Readers, Returns(r)
  PROVE  LibraryInv'
<1>1. IdleReader \in Reader /\ ReadOK(IdleReader)  BY DEF IdleReader, Reader, ReadOK
<1> QED  BY <1>1, ReaderStep DEF Returns

-----------------------------------------------------------------------------
(* Collecting *)

\* The sweep steps without writing.
LEMMA CollectorMoves ==
  ASSUME LibraryInv, NEW c \in Collector, collector' = c, CollectorOK',
         UNCHANGED <<pointer, rows, jobs, published, saver, reader>>
  PROVE  LibraryInv'
<1> USE DEF LibraryInv
<1>1. TypeOK'  BY DEF TypeOK
<1>2. \A d \in Saver : SaveOK(d) => SaveOK(d)'  BY DEF SaveOK
<1>3. SaversOK' /\ OwnersDiffer'  BY <1>2, SaversStill
<1>4. PointerOK' /\ JobsOK'  BY DEF PointerOK, JobsOK
<1>5. ReadersOK'  BY DEF ReadersOK, ReadOK
<1> QED  BY <1>1, <1>3, <1>4, <1>5

LEMMA InvSweeps ==
  ASSUME LibraryInv, Sweeps \/ EndsSweep \/ Interrupted
  PROVE  LibraryInv'
<1>1. UNCHANGED <<pointer, rows, jobs, published, saver, reader>>
  BY DEF Sweeps, EndsSweep, Interrupted
<1>2. CASE Sweeps
  <2>1. PICK c : c = [IdleCollector EXCEPT !.pc = "next",
                                           !.page = {g \in Generations : jobs[g] = "due"}]
    OBVIOUS
  <2>2. c \in Collector  BY <2>1 DEF IdleCollector, Collector
  <2>3. c.pc = "next" /\ c.page = {g \in Generations : jobs[g] = "due"}
    BY <2>1 DEF IdleCollector
  <2>4. collector' = c  BY <1>2, <2>1 DEF Sweeps
  <2>5. CollectorOK'  BY <1>1, <2>3, <2>4 DEF CollectorOK
  <2> QED  BY <1>1, <2>2, <2>4, <2>5, CollectorMoves
<1>3. CASE EndsSweep \/ Interrupted
  <2>1. IdleCollector \in Collector /\ IdleCollector.pc = "idle" /\ IdleCollector.page = {}
    BY DEF IdleCollector, Collector
  <2>2. collector' = IdleCollector  BY <1>3 DEF EndsSweep, Interrupted
  <2>3. CollectorOK'  BY <2>1, <2>2 DEF CollectorOK
  <2> QED  BY <1>1, <2>1, <2>2, <2>3, CollectorMoves
<1> QED  BY <1>2, <1>3

LEMMA InvTakesJob ==
  ASSUME LibraryInv, NEW g \in Generations, TakesJob(g)
  PROVE  LibraryInv'
<1> USE DEF LibraryInv
<1>1. /\ g \in collector.page /\ collector \in Collector
      /\ UNCHANGED <<pointer, rows, jobs, published, saver, reader>>
  BY DEF TakesJob, TypeOK
<1>2. PICK pc : pc = IF Superseded(g) THEN "delete" ELSE "done"  OBVIOUS
<1>3. PICK c : c = [pc |-> pc, page |-> collector.page \ {g}, of |-> g]  OBVIOUS
<1>4. c \in Collector  BY <1>1, <1>2, <1>3 DEF Collector
<1>5. collector' = c  BY <1>2, <1>3 DEF TakesJob
<1>6. c.pc = pc /\ c.page = collector.page \ {g} /\ c.of = g  BY <1>3
<1>7. pc = "delete" => g # pointer  BY <1>2 DEF Superseded
<1>8. pc = "done" => g \in published  BY <1>2, LibraryAssumption DEF Superseded, PointerOK
<1>9. CollectorOK'  BY <1>1, <1>5, <1>6, <1>7, <1>8 DEF CollectorOK
<1> QED  BY <1>1, <1>4, <1>5, <1>9, CollectorMoves

LEMMA InvDeletesRow ==
  ASSUME LibraryInv, NEW i \in Items, DeletesRow(i)
  PROVE  LibraryInv'
<1>1. PICK g \in Generations :
        g = collector.of /\ g # pointer /\ (g \in published \/ jobs[g] = "due")
  BY DEF LibraryInv, CollectorOK, DeletesRow
<1>2. /\ rows' = [rows EXCEPT ![g] = @ \ {i}]
      /\ UNCHANGED <<pointer, jobs, published, saver, reader, collector>>
  BY <1>1 DEF DeletesRow
<1> QED  BY <1>1, <1>2, RowGoes

LEMMA InvFindsNone ==
  ASSUME LibraryInv, FindsNone
  PROVE  LibraryInv'
<1> USE DEF LibraryInv, FindsNone
<1>1. collector \in Collector  BY DEF TypeOK
<1>2. PICK c : c = [collector EXCEPT !.pc = "done"]  OBVIOUS
<1>3. c \in Collector /\ c.pc = "done" /\ c.page = collector.page /\ c.of = collector.of
  BY <1>1, <1>2 DEF Collector
<1>4. CollectorOK'  BY <1>2, <1>3 DEF CollectorOK
<1> QED  BY <1>2, <1>3, <1>4, CollectorMoves

\* A job goes once the rows it names are gone, or were published.
LEMMA InvRemovesJob ==
  ASSUME LibraryInv, RemovesJob
  PROVE  LibraryInv'
<1> USE LibraryAssumption DEF LibraryInv
<1>1. collector \in Collector /\ collector.pc = "done"  BY DEF RemovesJob, TypeOK
<1>2. PICK g \in Generations \ collector.page :
        /\ g = collector.of
        /\ g \in published \/ jobs[g] = "due"
        /\ g \in published \/ rows[g] = {}
  BY <1>1 DEF CollectorOK
<1>3. /\ jobs' = [jobs EXCEPT ![g] = "none"]
      /\ collector' = [collector EXCEPT !.pc = "next", !.of = None]
      /\ UNCHANGED <<pointer, rows, published, saver, reader>>
  BY <1>2 DEF RemovesJob
<1>4. jobs'[g] = "none" /\ \A h \in Generations \ {g} : jobs'[h] = jobs[h]
  BY <1>3 DEF TypeOK
<1>5. collector' \in Collector /\ collector'.pc = "next" /\ collector'.page = collector.page
  BY <1>1, <1>3 DEF Collector
<1>6. \A d \in Saver : SaveOK(d) => SaveOK(d)'  BY <1>2, <1>3, <1>4 DEF SaveOK
<1>7. saver' \in [Savers -> Saver] /\ SaversOK' /\ OwnersDiffer'
  BY <1>3, <1>6, SaversStill
<1>8. TypeOK'
  <2>1. jobs' \in [Generations -> {"none", "fresh", "due"}]  BY <1>3 DEF TypeOK
  <2> QED  BY <1>3, <1>5, <1>7, <2>1 DEF TypeOK
<1>9. CollectorOK'  BY <1>1, <1>2, <1>3, <1>4, <1>5 DEF CollectorOK, Collector
<1>10. PointerOK' /\ JobsOK'  BY <1>2, <1>3, <1>4 DEF PointerOK, JobsOK
<1>11. ReadersOK'  BY <1>3 DEF ReadersOK, ReadOK
<1> QED  BY <1>7, <1>8, <1>9, <1>10, <1>11

LEMMA InvFallsDue ==
  ASSUME LibraryInv, NEW g \in Generations, FallsDue(g)
  PROVE  LibraryInv'
<1> USE LibraryAssumption DEF LibraryInv
<1>1. /\ jobs[g] = "fresh" /\ jobs' = [jobs EXCEPT ![g] = "due"]
      /\ \A s \in Savers : saver[s].new # g
      /\ UNCHANGED <<pointer, rows, published, saver, reader, collector>>
  BY DEF FallsDue, Over
<1>2. jobs'[g] = "due" /\ \A h \in Generations \ {g} : jobs'[h] = jobs[h]
  BY <1>1 DEF TypeOK
<1>3. ASSUME NEW d \in Saver, SaveOK(d), NEW t \in Savers, saver[t] = d PROVE SaveOK(d)'
  BY <1>1, <1>2, <1>3 DEF SaveOK
<1>4. saver' \in [Savers -> Saver] /\ SaversOK' /\ OwnersDiffer'
  BY <1>1, <1>3, SaversStill
<1>5. TypeOK'
  <2>1. jobs' \in [Generations -> {"none", "fresh", "due"}]  BY <1>1 DEF TypeOK
  <2> QED  BY <1>1, <1>4, <2>1 DEF TypeOK
<1>6. PointerOK' /\ JobsOK'  BY <1>1, <1>2 DEF PointerOK, JobsOK
<1>7. CollectorOK'  BY <1>1, <1>2 DEF CollectorOK, TypeOK, Collector
<1>8. ReadersOK'  BY <1>1 DEF ReadersOK, ReadOK
<1> QED  BY <1>4, <1>5, <1>6, <1>7, <1>8

-----------------------------------------------------------------------------
(* The theorems *)

LEMMA InvNext == LibraryInv /\ [Next]_vars => LibraryInv'
<1> SUFFICES ASSUME LibraryInv, [Next]_vars PROVE LibraryInv'  OBVIOUS
<1>1. CASE UNCHANGED vars
  <2>1. CollectorOK' /\ collector \in Collector
    BY <1>1 DEF vars, LibraryInv, CollectorOK, TypeOK
  <2> QED  BY <1>1, <2>1, CollectorMoves DEF vars
<1>2. ASSUME NEW s \in Savers,
             \/ \E g \in Generations, b \in published \cup {None} : Save(s, g, b)
             \/ \E x \in Generations : PutsJob(s, x)
             \/ \E i \in Items : WritesRow(s, i) \/ DiscardsRow(s, i)
             \/ WriteFails(s) \/ Publishes(s) \/ Discarded(s) \/ Dies(s)
      PROVE  LibraryInv'
  BY <1>2, InvSave, InvPutsJob, InvWritesRow, InvDiscardsRow, InvEndsSave, InvPublishes
<1>3. ASSUME NEW r \in Readers,
             \/ Reads(r) \/ Checks(r) \/ Returns(r)
             \/ \E i \in Items : ReadsPage(r, i)
      PROVE  LibraryInv'
  BY <1>3, InvReads, InvChecks, InvReturns, InvReadsPage
<1>4. CASE Sweeps \/ CollectorStep \/ Interrupted
  BY <1>4, InvSweeps, InvTakesJob, InvDeletesRow, InvFindsNone, InvRemovesJob DEF CollectorStep
<1>5. ASSUME NEW g \in Generations, FallsDue(g) PROVE LibraryInv'
  BY <1>5, InvFallsDue
<1> QED  BY <1>1, <1>2, <1>3, <1>4, <1>5 DEF Next

\* The pointer, the rows, the jobs and what savers, readers and the collector remember
\* of them agree in every reachable state (save_library, read_library, the collector).
THEOREM LibraryCorrect == Spec => []LibraryInv
  BY InvInit, InvNext, PTL DEF Spec

\* The library that the household sees is whole, whichever saves lost, died or
\* were swept up (save_library writes before it publishes).
THEOREM PointerIsAlwaysComplete == Spec => []PointerIsComplete
<1>1. LibraryInv => PointerIsComplete
  BY LibraryAssumption
  DEF LibraryInv, PointerIsComplete, PointerOK, SaversOK, SaveOK
<1> QED  BY <1>1, LibraryCorrect, PTL

\* What read_library returns as unchanged is one whole generation.
THEOREM LoadedIsAlwaysWhole == Spec => []LoadedIsWhole
<1>1. LibraryInv => LoadedIsWhole  BY DEF LibraryInv, LoadedIsWhole, ReadersOK, ReadOK
<1> QED  BY <1>1, LibraryCorrect, PTL

\* Rows of an interrupted save keep a job (save_library's LIBGC rows, cleanup).
THEOREM UnpublishedIsAlwaysCollectable == Spec => []UnpublishedIsCollectable
<1>1. LibraryInv => UnpublishedIsCollectable
  BY DEF LibraryInv, UnpublishedIsCollectable, Collectable, JobsOK
<1> QED  BY <1>1, LibraryCorrect, PTL

=============================================================================
