--------------------------- MODULE MCIncidentView ---------------------------
(***************************************************************************)
(* A small instance of IncidentView.                                       *)
(***************************************************************************)
EXTENDS IncidentView

Row(pos, time, id, device, kind, alarm, exercise) ==
  [pos |-> pos, time |-> time, id |-> id, device |-> device, kind |-> kind,
   place |-> "kitchen", alarm |-> alarm, exercise |-> exercise, late |-> FALSE]

\* Two detectors of one room, the first of which clears at the same second,
\* under an identity that is read first.
Fire == {Row(1, 2, 2, "a", "smoke", "clear", None),
         Row(2, 2, 1, "a", "smoke", "active", None),
         Row(3, 1, 3, "b", "heat", "active", None)}

\* A device with two kinds.
Kinds == {Row(1, 1, 1, "c", "contact_open", "active", None),
          Row(2, 2, 2, "c", "forced_entry", "active", "informational")}

\* An exercise beside a real alarm of the same room.
Exercise == {Row(1, 2, 2, "c", "gas_leak", "active", "warning"),
             Row(2, 3, 3, "a", "smoke", "active", None)}

Small == {Fire, Kinds, Exercise}

\* Bounds of the instance: no briefing is being recorded while a request is
\* past the point where it reads the briefing (nothing of either is seen by
\* the other then); an entry is evicted between two requests; nothing is read
\* before the first signal; a late signal or a deletion comes after the first,
\* a note after the second at the latest.
Apart == \A r \in Readers, b \in Briefers :
  process[r].pc \in {"idle", "assessment", "briefing"} \/ process[b].pc = "idle"
Deleted == IF summary = None THEN TRUE ELSE summary.deleting
Started == recorded # <<>> \/ \A p \in DOMAIN process : process[p] = Idle
Noted == IF summary = None THEN FALSE ELSE summary.note_revision > 0
Early == /\ Deleted \/ archived # {} => Len(recorded) <= 1
         /\ Noted => Len(recorded) <= 2

Between == \A r \in Readers : cache'[r] # cache[r] => process'[r].pc = "idle"

MCNext == Next /\ Between /\ Apart' /\ Started' /\ Early'
MCSpec == Init /\ [][MCNext]_vars
=============================================================================
