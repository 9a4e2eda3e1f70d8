---------------------------- MODULE DeviceLedger ----------------------------
(***************************************************************************)
(* What the recorded signals of one incident amount to: the latest report  *)
(* of every device and kind (incident_state.py), the severity they give    *)
(* and the markers that turn red (hazard_priority.py).                     *)
(*                                                                         *)
(* A row is an EVENT# item: pos is its place in the sort order of the      *)
(* partition, <<time, id>> its occurred_at and event_id, place the         *)
(* location and room of the device (None without a room), exercise the     *)
(* simulated severity of an authenticated simulator or None.               *)
(***************************************************************************)
EXTENDS Naturals, Sequences, FiniteSets, FiniteSetsExt, SequencesExt

CONSTANT None

FireGas == {"smoke", "carbon_monoxide", "heat", "gas_leak"}
ImmediateUrgent == {"carbon_monoxide", "gas_leak", "medical_sos", "security_alarm",
                    "forced_entry", "glass_break"}
Critical == FireGas \cup ImmediateUrgent
Warning == {"water_leak", "severe_weather", "freeze_risk", "power_outage", "tamper",
            "lock_tamper"}

Levels == <<"informational", "warning", "urgent">>

ASSUME LedgerAssumption == None \notin ToSet(Levels)

SignalRows == [pos : Nat \ {0}, time : Nat, id : Nat, device : STRING, kind : STRING,
               place : STRING \cup {None}, alarm : STRING,
               exercise : ToSet(Levels) \cup {None}, late : {FALSE}]

Rank(level) == CHOOSE i \in 1 .. 3 : Levels[i] = level
Higher(a, b) == IF Rank(b) > Rank(a) THEN b ELSE a

SameKey(r, q) == r.device = q.device /\ r.kind = q.kind
Later(r, q) == r.time > q.time \/ (r.time = q.time /\ r.id > q.id)

-----------------------------------------------------------------------------
(* The ledger: one row for every device and kind, in the order in which    *)
(* the keys were first met.                                                *)

\* One turn of device_ledger's loop.
Absorb(ledger, row) ==
  LET same == {i \in DOMAIN ledger : SameKey(ledger[i], row)} IN
  IF row.late THEN ledger
  ELSE IF same = {} THEN Append(ledger, row)
  ELSE [i \in DOMAIN ledger |->
          IF i \in same /\ Later(row, ledger[i]) THEN row ELSE ledger[i]]

AbsorbAll(ledger, page) == FoldLeft(Absorb, ledger, page)

InOrder(rows) == CHOOSE s \in [1 .. Cardinality(rows) -> rows] :
                   \A i, j \in DOMAIN s : i < j => s[i].pos < s[j].pos

-----------------------------------------------------------------------------
(* Severity and markers of a set of active rows.                           *)

Ordinary(rows) == {r \in rows : r.exercise = None}

\* The devices of every place where at least two of them report fire or gas.
Corroborated(rows) ==
  LET At(place) == {r.device : r \in {q \in rows : q.kind \in FireGas /\ q.place = place}}
      places == {r.place : r \in rows} \ {None} IN
  UNION {At(p) : p \in {q \in places : Cardinality(At(q)) >= 2}}

SeverityOf(rows) ==
  IF \/ \E r \in rows : r.exercise = "urgent"
     \/ \E r \in Ordinary(rows) : r.kind \in ImmediateUrgent
     \/ Corroborated(Ordinary(rows)) # {}
  THEN "urgent"
  ELSE IF \/ \E r \in rows : r.exercise = "warning"
          \/ \E r \in Ordinary(rows) : r.kind \in Critical \cup Warning
       THEN "warning" ELSE "informational"

\* (defect) an exercise corroborates a real alarm on the map, not in the severity
RedDevices_Exercised(rows) ==
  {r.device : r \in {q \in rows : q.exercise = "urgent"}}
    \cup {r.device : r \in {q \in Ordinary(rows) : q.kind \in ImmediateUrgent}}
    \cup Corroborated(rows)

RedDevices(rows) ==
  {r.device : r \in {q \in rows : q.exercise = "urgent"}}
    \cup {r.device : r \in {q \in Ordinary(rows) : q.kind \in ImmediateUrgent}}
    \cup Corroborated(Ordinary(rows))

Exceptional(row) ==
  IF row.exercise = None THEN row.kind \in Critical \cup Warning
                         ELSE row.exercise # "informational"

Level(row, red) == IF row.alarm = "clear" THEN "normal"
                   ELSE IF row.device \in red THEN "red"
                   ELSE IF Exceptional(row) THEN "amber" ELSE "normal"

-----------------------------------------------------------------------------
(* The state that snapshot() returns, as far as a view of it goes: one     *)
(* active row stands for each device.                                      *)

Active(ledger) == {r \in ToSet(ledger) : r.alarm # "clear"}

Summarized(row, red) == [device |-> row.device, kind |-> row.kind, id |-> row.id,
                         level |-> Level(row, red)]

\* A device keeps the row it was first shown with, unless a red one follows.
Show(shown, row, red) ==
  LET new == Summarized(row, red)
      previous == {d \in shown : d.device = row.device} IN
  IF row.alarm = "clear" THEN shown
  ELSE IF \/ previous = {}
          \/ new.level = "red" /\ \A d \in previous : d.level # "red"
       THEN (shown \ previous) \cup {new} ELSE shown

ByDevice(ledger, red) == FoldLeft(LAMBDA shown, row : Show(shown, row, red), {}, ledger)

State(ledger) ==
  LET rows == Active(ledger) IN
  [severity |-> SeverityOf(rows),
   active_devices |-> ByDevice(ledger, RedDevices(rows)),
   last_reported_at |->
     IF ledger = <<>> THEN 0
     ELSE (CHOOSE r \in ToSet(ledger) : \A q \in ToSet(ledger) : ~Later(q, r)).time]

\* assessed_severity: a validated conclusion may only raise the floor.
AssessedSeverity(state, proposed) ==
  IF proposed = None \/ state.active_devices = {} THEN state.severity
  ELSE Higher(state.severity, proposed)
=============================================================================
