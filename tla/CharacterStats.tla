--------------------------- MODULE CharacterStats ---------------------------
(***************************************************************************)
(* The statistics of one character: the columns of its row and its rows in *)
(* character_stat_breakdown, which are kept up to date event by event,     *)
(* become final some time after its death, and are recomputed from the     *)
(* stored events before the pipelines start and once a day after that.     *)
(* Characters share nothing here, so that one of them is modelled; that    *)
(* its events find it is CharacterStore's part.                            *)
(*                                                                         *)
(* Each event adds 1 to one column and 1 to one key of the breakdown, so   *)
(* that both are counted in events.  Each SQL statement is an action.      *)
(*                                                                         *)
(* An operator A_B is a faulty variant of A, kept to show that the runs    *)
(* tell the two apart; no specification uses it.                           *)
(***************************************************************************)
EXTENDS Naturals, FiniteSets

CONSTANTS
  Workers,    \* the pipelines that store events
  MaxTime,    \* bound on the times of events
  MaxEvents,  \* bound on the statistics events of a behaviour
  MaxFaults   \* bound on everything that goes wrong in a behaviour

ASSUME StatsAssumption ==
  IsFiniteSet(Workers) /\ MaxTime \in Nat /\ MaxEvents \in Nat /\ MaxFaults \in Nat

Times == 1..MaxTime

VARIABLES
  alive, finalized,  \* is_alive, stats_finalized
  column,     \* the aggregate column
  breakdown,  \* the value in character_stat_breakdown
  lastAt,     \* last_event_at, 0 for NULL
  events,     \* statistics events stored for the character
  newest,     \* latest time of any of its events, 0 if it has none
  pc, time,   \* next statement of each worker, and the time of its event
  phase,      \* "backfill" before the pipelines run, then "running"
  rec,        \* the reconciliation: next statement, what it has read, and whether
              \* events were being stored meanwhile
  missed,     \* history: events that are not in the column
  torn,       \* history: the last repair of the column met events being stored
  skewed,     \* history: column and breakdown were not changed together
  faults      \* failed statements and stops

row == <<alive, finalized, column, breakdown, lastAt>>
work == <<pc, time>>
vars == <<row, events, newest, work, phase, rec, missed, torn, skewed, faults>>

Recs == [at : {"idle", "row", "column", "breakdown"}, sum : Nat, newest : Nat, touched : BOOLEAN]
Resting == [at |-> "idle", sum |-> 0, newest |-> 0, touched |-> FALSE]

TypeOK ==
  /\ alive \in BOOLEAN /\ finalized \in BOOLEAN
  /\ column \in Nat /\ breakdown \in Nat /\ lastAt \in Nat
  /\ events \in Nat /\ newest \in Nat
  /\ pc \in [Workers -> {"idle", "column", "breakdown", "last"}] /\ time \in [Workers -> Nat]
  /\ phase \in {"backfill", "running"} /\ rec \in Recs
  /\ missed \in Nat /\ torn \in BOOLEAN /\ skewed \in BOOLEAN /\ faults \in Nat

\* The columns may just have been added to a character that has events already.
Init ==
  /\ alive = TRUE /\ finalized = FALSE
  /\ column = 0 /\ breakdown = 0 /\ lastAt = 0
  /\ \/ events = 0 /\ newest = 0
     \/ events = 1 /\ newest = 1 /\ MaxTime > 0
  /\ pc = [w \in Workers |-> "idle"] /\ time = [w \in Workers |-> 0]
  /\ phase = "backfill" /\ rec = Resting
  /\ missed = events /\ torn = FALSE /\ skewed = FALSE /\ faults = 0

Later(t, u) == IF t < u THEN u ELSE t

Fault == faults < MaxFaults /\ faults' = faults + 1

\* A reconciliation under way does not see what is done now.
Touch == rec' = [rec EXCEPT !.touched = @ \/ rec.at # "idle"]

Goto(w, p) ==
  /\ pc' = [pc EXCEPT ![w] = p]
  /\ time' = [time EXCEPT ![w] = IF p = "idle" THEN 0 ELSE @]

-----------------------------------------------------------------------------
(* The handlers.                                                           *)

\* ingestExporterEvent stores the event; its time is anything, since the
\* pipelines do not wait for each other ...
InsertEvent(w) ==
  /\ phase = "running" /\ pc[w] = "idle" /\ events < MaxEvents
  /\ events' = events + 1
  /\ \E t \in Times : newest' = Later(newest, t) /\ time' = [time EXCEPT ![w] = t]
  /\ pc' = [pc EXCEPT ![w] = "column"]
  /\ Touch
  /\ UNCHANGED <<row, phase, missed, torn, skewed, faults>>

\* ... and adds it to the row, which ignores it when it is final ...
Final == finalized

AddToColumn(w) ==
  /\ pc[w] = "column" /\ ~ Final
  /\ column' = column + 1 /\ lastAt' = Later(lastAt, time[w])
  /\ Goto(w, "breakdown")
  /\ Touch
  /\ UNCHANGED <<alive, finalized, breakdown, events, newest, phase, missed, torn, skewed, faults>>

TooLate(w) ==
  /\ pc[w] = "column" /\ Final
  /\ missed' = missed + 1
  /\ Goto(w, "idle")
  /\ Touch
  /\ UNCHANGED <<row, events, newest, phase, torn, skewed, faults>>

\* ... and to the breakdown.
AddToBreakdown(w) ==
  /\ pc[w] = "breakdown"
  /\ breakdown' = breakdown + 1
  /\ Goto(w, "idle")
  /\ Touch
  /\ UNCHANGED <<alive, finalized, column, lastAt, events, newest, phase, missed, torn, skewed, faults>>

\* The other handlers store events without statistics: a login, a level.
InsertOther ==
  /\ phase = "running"
  /\ \E t \in Times : newest' = Later(newest, t)
  /\ UNCHANGED <<row, events, work, phase, rec, missed, torn, skewed, faults>>

\* ingestExporterEvent does so too, and then the row gets only the time.
InsertPlain(w) ==
  /\ phase = "running" /\ pc[w] = "idle"
  /\ \E t \in Times : newest' = Later(newest, t) /\ time' = [time EXCEPT ![w] = t]
  /\ pc' = [pc EXCEPT ![w] = "last"]
  /\ Touch
  /\ UNCHANGED <<row, events, phase, missed, torn, skewed, faults>>

SetLastAt(w) ==
  /\ pc[w] = "last"
  /\ lastAt' = (IF Final THEN lastAt ELSE Later(lastAt, time[w]))
  /\ Goto(w, "idle")
  /\ Touch
  /\ UNCHANGED <<alive, finalized, column, breakdown, events, newest, phase, missed, torn, skewed, faults>>

\* A statement fails: this is logged, and the rest of the event is not stored.
HandlerFails(w) ==
  /\ pc[w] # "idle" /\ Fault
  /\ missed' = (IF pc[w] = "column" THEN missed + 1 ELSE missed)
  /\ skewed' = (skewed \/ pc[w] = "breakdown")
  /\ Goto(w, "idle")
  /\ Touch
  /\ UNCHANGED <<row, events, newest, phase, torn>>

\* handleDied, and then finalizeDeadCharacters or finalizeStaleCharacters.
Die ==
  /\ phase = "running" /\ alive
  /\ alive' = FALSE
  /\ UNCHANGED <<finalized, column, breakdown, lastAt, events, newest, work, phase, rec, missed, torn, skewed, faults>>

Finalize ==
  /\ phase = "running" /\ ~ alive /\ ~ finalized
  /\ finalized' = TRUE
  /\ UNCHANGED <<alive, column, breakdown, lastAt, events, newest, work, phase, rec, missed, torn, skewed, faults>>

-----------------------------------------------------------------------------
(* reconcileCharacterStats.                                                *)

Rest == UNCHANGED <<alive, finalized, events, newest, work>>

\* When it is done with the character in the backfill, the pipelines start.
Finish == rec' = Resting /\ phase' = "running"

InFlight == {w \in Workers : pc[w] # "idle"}

\* It reads the events ...
ReadEvents ==
  /\ rec.at = "idle"
  /\ rec' = [at |-> "row", sum |-> events, newest |-> newest, touched |-> InFlight # {}]
  /\ Rest /\ UNCHANGED <<column, breakdown, lastAt, phase, missed, torn, skewed, faults>>

\* ... compares the columns of the row with them, and maybe leaves it at that ...
Drifted_Column == column # rec.sum
Drifted == column # rec.sum \/ (rec.newest # 0 /\ lastAt # rec.newest)

RowAgrees ==
  /\ rec.at = "row" /\ ~ Drifted
  /\ Finish
  /\ IF rec.touched THEN UNCHANGED <<missed, torn>> ELSE missed' = 0 /\ torn' = FALSE
  /\ Rest /\ UNCHANGED <<column, breakdown, lastAt, skewed, faults>>

RowDrifted ==
  /\ rec.at = "row" /\ Drifted
  /\ rec' = [rec EXCEPT !.at = "column"]
  /\ Rest /\ UNCHANGED <<column, breakdown, lastAt, phase, missed, torn, skewed, faults>>

\* ... or overwrites them ...
Repaired_Difference == rec.sum - column
Repaired_Added == column + rec.sum
Repaired == rec.sum

RepairColumn ==
  /\ rec.at = "column"
  /\ column' = Repaired /\ lastAt' = Later(lastAt, rec.newest)
  /\ rec' = [rec EXCEPT !.at = "breakdown"]
  /\ IF rec.touched THEN torn' = TRUE /\ UNCHANGED missed ELSE torn' = FALSE /\ missed' = 0
  /\ Rest /\ UNCHANGED <<breakdown, phase, skewed, faults>>

\* ... and then the breakdown, if the events have any.
RepairedBreakdown_IfNone == IF breakdown = 0 THEN rec.sum ELSE breakdown
RepairedBreakdown == IF rec.sum = 0 THEN breakdown ELSE rec.sum

RepairBreakdown ==
  /\ rec.at = "breakdown"
  /\ breakdown' = RepairedBreakdown
  /\ skewed' = rec.touched
  /\ Finish
  /\ Rest /\ UNCHANGED <<column, lastAt, missed, torn, faults>>

\* A statement fails: the character has to wait for the next day.
ReconcileFails ==
  /\ Fault
  /\ Finish
  /\ skewed' = (skewed \/ rec.at = "breakdown")
  /\ UNCHANGED <<row, events, newest, work, missed, torn>>

-----------------------------------------------------------------------------

\* The process stops and starts again.
Restart ==
  /\ Fault
  /\ missed' = missed + Cardinality({w \in Workers : pc[w] = "column"})
  /\ skewed' = (skewed \/ rec.at = "breakdown" \/ \E w \in Workers : pc[w] = "breakdown")
  /\ pc' = [w \in Workers |-> "idle"] /\ time' = [w \in Workers |-> 0]
  /\ phase' = "backfill" /\ rec' = Resting
  /\ UNCHANGED <<row, events, newest, torn>>

Handle(w) == AddToColumn(w) \/ TooLate(w) \/ AddToBreakdown(w) \/ SetLastAt(w)

Reconcile == ReadEvents \/ RowAgrees \/ RowDrifted \/ RepairColumn \/ RepairBreakdown

Next ==
  \/ \E w \in Workers : InsertEvent(w) \/ InsertPlain(w) \/ Handle(w) \/ HandlerFails(w)
  \/ InsertOther \/ Die \/ Finalize
  \/ Reconcile \/ ReconcileFails
  \/ Restart

Spec == Init /\ [][Next]_vars

\* The pipelines finish what they began, and there is a next day; faults are
\* bounded.
FairSpec == Spec /\ WF_vars(Reconcile) /\ \A w \in Workers : WF_vars(Handle(w))

-----------------------------------------------------------------------------
(* Safety.                                                                 *)

\* The column is what the events add up to, less those that are on their way to
\* it, came when it was final, or were cut off by a failure; unless the last
\* repair of the column met events being stored.
ColumnAccounted ==
  ~ torn => events = column + Cardinality({w \in Workers : pc[w] = "column"}) + missed

\* The breakdown adds up to the column, less what is on its way to it; unless a
\* failure or a repair in the middle of an event separated them.
BreakdownAccounted ==
  ~ skewed /\ rec.at # "breakdown" =>
    column = breakdown + Cardinality({w \in Workers : pc[w] = "breakdown"})

\* What the reconciliation holds: an untouched one has read all there is, and has
\* nobody to race with; what it overwrites a breakdown with is not older than the
\* first event; and only a dead character is final.
RepairInv ==
  /\ rec.at # "idle" => rec.sum <= events
  /\ rec.at # "idle" /\ ~ rec.touched => rec.sum = events /\ InFlight = {}
  /\ rec.at = "breakdown" /\ ~ rec.touched => column = rec.sum
  /\ events = 0 => breakdown = 0 /\ \A w \in Workers : pc[w] \in {"idle", "last"}
  /\ finalized => ~ alive

\* The row never claims a later event than the character has, whatever handlers and
\* reconciliation do at the same time and wherever they stop.  A later one would stay
\* for ever, and the row drifted: every repair takes the GREATEST of the two
\* (applyCharacterStatDelta, reconcileCharacterStats).
LastAtReal ==
  /\ lastAt <= newest /\ rec.newest <= newest
  /\ \A w \in Workers : time[w] <= newest

\* Live increments leave a final row alone: only a repair changes its column
\* (schema_stats_postgres.sql), and nothing brings its character back to life.
FinalIsFinal ==
  [][finalized => finalized' /\ ~ alive' /\ (column' # column => rec.at = "column")]_vars

-----------------------------------------------------------------------------
(* Liveness.                                                               *)

\* In the end the row is what the events add up to, whatever was lost, late or
\* overwritten.
RowConverges == <>[](column = events /\ lastAt = newest)

=============================================================================
