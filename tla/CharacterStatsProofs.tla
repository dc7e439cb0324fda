------------------------ MODULE CharacterStatsProofs ------------------------
(***************************************************************************)
(* The invariants of CharacterStats hold for any number of pipelines,      *)
(* events and faults.  They are inductive together with RepairInv, which   *)
(* says what an interrupted reconciliation holds in its hands.             *)
(***************************************************************************)
EXTENDS CharacterStats, FiniteSetTheorems, TLAPS

Inv == TypeOK /\ ColumnAccounted /\ BreakdownAccounted /\ RepairInv

\* Workers whose next statement is p.
At(p) == {w \in Workers : pc[w] = p}

-----------------------------------------------------------------------------
(* Counting workers.                                                       *)

LEMMA Counted ==
  ASSUME NEW p
  PROVE  IsFiniteSet(At(p)) /\ Cardinality(At(p)) \in Nat
<1>1. At(p) \subseteq Workers
  BY DEF At
<1>2. IsFiniteSet(At(p))
  BY <1>1, FS_Subset, StatsAssumption
<1> QED
  BY <1>2, FS_CardinalityType

\* A worker that goes elsewhere is missing there ...
LEMMA Leaves ==
  ASSUME TypeOK, NEW w \in Workers, NEW p, NEW q, pc[w] = p, p # q,
         pc' = [pc EXCEPT ![w] = q]
  PROVE  Cardinality(At(p)') = Cardinality(At(p)) - 1
<1>1. At(p)' = At(p) \ {w} /\ w \in At(p)
  BY DEF At, TypeOK
<1> QED
  BY <1>1, Counted, FS_RemoveElement

\* ... and counted where it goes ...
LEMMA Arrives ==
  ASSUME TypeOK, NEW w \in Workers, NEW p, pc[w] # p, pc' = [pc EXCEPT ![w] = p]
  PROVE  Cardinality(At(p)') = Cardinality(At(p)) + 1
<1>1. At(p)' = At(p) \cup {w} /\ w \notin At(p)
  BY DEF At, TypeOK
<1> QED
  BY <1>1, Counted, FS_AddElement

\* ... and nobody else's.
LEMMA Elsewhere ==
  ASSUME TypeOK, NEW w \in Workers, NEW p, NEW q, pc[w] # p, p # q,
         pc' = [pc EXCEPT ![w] = q]
  PROVE  At(p)' = At(p)
  BY DEF At, TypeOK

LEMMA NobodyThere ==
  ASSUME TypeOK, NEW p, \A w \in Workers : pc[w] # p
  PROVE  Cardinality(At(p)) = 0
<1>1. At(p) = {}
  BY DEF At
<1> QED
  BY <1>1, FS_EmptySet

-----------------------------------------------------------------------------

LEMMA InitInv == Init => Inv
<1> SUFFICES ASSUME Init PROVE Inv
  OBVIOUS
<1>1. TypeOK
  <2>1. rec \in Recs
    BY DEF Init, Recs, Resting
  <2>2. events \in Nat /\ newest \in Nat
    BY DEF Init
  <2>3. pc \in [Workers -> {"idle", "column", "breakdown", "last"}] /\ time \in [Workers -> Nat]
    BY DEF Init
  <2> QED
    BY <2>1, <2>2, <2>3 DEF Init, TypeOK
<1>2. Cardinality(At("column")) = 0 /\ Cardinality(At("breakdown")) = 0
  <2>1. \A w \in Workers : pc[w] # "column" /\ pc[w] # "breakdown"
    BY DEF Init
  <2> QED
    BY <1>1, <2>1, NobodyThere
<1> QED
  BY <1>1, <1>2 DEF Init, Inv, ColumnAccounted, BreakdownAccounted, RepairInv, Resting, At

-----------------------------------------------------------------------------
(* The handlers.                                                           *)

\* The record of a reconciliation after something was done meanwhile.
LEMMA Touched ==
  ASSUME TypeOK, Touch
  PROVE  /\ rec' \in Recs
         /\ rec'.at = rec.at /\ rec'.sum = rec.sum
         /\ rec.at # "idle" => rec'.touched
  BY DEF TypeOK, Touch, Recs

LEMMA LaterTime ==
  ASSUME NEW t \in Nat, NEW u \in Nat
  PROVE  Later(t, u) \in Nat
  BY DEF Later

LEMMA HandlerTypes ==
  ASSUME TypeOK, NEW w \in Workers, InsertEvent(w) \/ InsertPlain(w) \/ Handle(w) \/ HandlerFails(w)
  PROVE  TypeOK'
<1>1. Touch
  BY DEF InsertEvent, InsertPlain, Handle, AddToColumn, TooLate, AddToBreakdown, SetLastAt, HandlerFails
<1>2. rec' \in Recs
  BY <1>1, Touched
<1>3. time[w] \in Nat /\ \A t \in Nat : Later(newest, t) \in Nat /\ Later(lastAt, t) \in Nat
  BY LaterTime DEF TypeOK
<1>4. Times \subseteq Nat
  BY StatsAssumption DEF Times
<1>5. CASE InsertEvent(w)
  BY <1>2, <1>3, <1>4, <1>5 DEF InsertEvent, TypeOK, row
<1>6. CASE InsertPlain(w)
  BY <1>2, <1>3, <1>4, <1>6 DEF InsertPlain, TypeOK, row
<1>7. CASE AddToColumn(w)
  BY <1>2, <1>3, <1>7 DEF AddToColumn, Goto, TypeOK
<1>8. CASE TooLate(w)
  BY <1>2, <1>8 DEF TooLate, Goto, TypeOK, row
<1>9. CASE AddToBreakdown(w)
  BY <1>2, <1>9 DEF AddToBreakdown, Goto, TypeOK
<1>10. CASE SetLastAt(w)
  BY <1>2, <1>3, <1>10 DEF SetLastAt, Goto, TypeOK
<1>11. CASE HandlerFails(w)
  BY <1>2, <1>11, StatsAssumption DEF HandlerFails, Fault, Goto, TypeOK, row
<1> QED
  BY <1>5, <1>6, <1>7, <1>8, <1>9, <1>10, <1>11 DEF Handle

\* What a handler's step does to the numbers.
LEMMA HandlerCounts ==
  ASSUME Inv, NEW w \in Workers, InsertEvent(w) \/ InsertPlain(w) \/ Handle(w) \/ HandlerFails(w)
  PROVE  ColumnAccounted' /\ BreakdownAccounted'
<1> DEFINE C == Cardinality(At("column"))
           B == Cardinality(At("breakdown"))
<1>1. TypeOK /\ TypeOK'
  BY HandlerTypes DEF Inv
<1>2. Touch
  BY DEF InsertEvent, InsertPlain, Handle, AddToColumn, TooLate, AddToBreakdown, SetLastAt, HandlerFails
<1>3. rec'.at = rec.at
  BY <1>1, <1>2, Touched
<1>4. C \in Nat /\ B \in Nat
  BY Counted
<1>5. /\ ~ torn => events = column + C + missed
      /\ ~ skewed /\ rec.at # "breakdown" => column = breakdown + B
  BY DEF Inv, ColumnAccounted, BreakdownAccounted, At
<1>6. SUFFICES /\ ~ torn' => events' = column' + C' + missed'
               /\ ~ skewed' /\ rec.at # "breakdown" => column' = breakdown' + B'
  BY <1>3 DEF ColumnAccounted, BreakdownAccounted, At
<1> USE DEF TypeOK
<1>7. CASE InsertEvent(w)
  <2>1. C' = C + 1
    BY <1>1, <1>7, Arrives DEF InsertEvent
  <2>2. B' = B
    BY <1>1, <1>7, Elsewhere DEF InsertEvent
  <2> QED
    BY <1>1, <1>4, <1>5, <1>7, <2>1, <2>2 DEF InsertEvent, row
<1>8. CASE InsertPlain(w)
  <2>1. C' = C /\ B' = B
    BY <1>1, <1>8, Elsewhere DEF InsertPlain
  <2> QED
    BY <1>1, <1>4, <1>5, <1>8, <2>1 DEF InsertPlain, row
<1>9. CASE AddToColumn(w)
  <2>1. C' = C - 1
    BY <1>1, <1>9, Leaves DEF AddToColumn, Goto
  <2>2. B' = B + 1
    BY <1>1, <1>9, Arrives DEF AddToColumn, Goto
  <2> QED
    BY <1>1, <1>4, <1>5, <1>9, <2>1, <2>2 DEF AddToColumn
<1>10. CASE TooLate(w)
  <2>1. C' = C - 1
    BY <1>1, <1>10, Leaves DEF TooLate, Goto
  <2>2. B' = B
    BY <1>1, <1>10, Elsewhere DEF TooLate, Goto
  <2> QED
    BY <1>1, <1>4, <1>5, <1>10, <2>1, <2>2 DEF TooLate, row
<1>11. CASE AddToBreakdown(w)
  <2>1. C' = C
    BY <1>1, <1>11, Elsewhere DEF AddToBreakdown, Goto
  <2>2. B' = B - 1
    BY <1>1, <1>11, Leaves DEF AddToBreakdown, Goto
  <2> QED
    BY <1>1, <1>4, <1>5, <1>11, <2>1, <2>2 DEF AddToBreakdown
<1>12. CASE SetLastAt(w)
  <2>1. C' = C /\ B' = B
    BY <1>1, <1>12, Elsewhere DEF SetLastAt, Goto
  <2> QED
    BY <1>1, <1>4, <1>5, <1>12, <2>1 DEF SetLastAt
<1>13. CASE HandlerFails(w)
  <2>1. pc[w] = "column" => C' = C - 1 /\ B' = B
    BY <1>1, <1>13, Leaves, Elsewhere DEF HandlerFails, Goto
  <2>2. pc[w] # "column" => C' = C
    BY <1>1, <1>13, Elsewhere DEF HandlerFails, Goto
  <2>3. pc[w] # "breakdown" => B' = B
    BY <1>1, <1>13, Elsewhere DEF HandlerFails, Goto
  <2>4. /\ events' = events /\ column' = column /\ breakdown' = breakdown /\ torn' = torn
        /\ missed' = IF pc[w] = "column" THEN missed + 1 ELSE missed
        /\ ~ skewed' => ~ skewed /\ pc[w] # "breakdown"
    BY <1>13 DEF HandlerFails, row
  <2>5. C' + missed' = C + missed
    BY <1>1, <1>4, <2>1, <2>2, <2>4
  <2>6. C' \in Int
    BY <1>1, <1>4, <2>1, <2>2
  <2> QED
    BY <1>1, <1>4, <1>5, <2>3, <2>4, <2>5, <2>6
<1> QED
  BY <1>7, <1>8, <1>9, <1>10, <1>11, <1>12, <1>13 DEF Handle

\* A handler's step touches the reconciliation, and a step that stores anything of
\* an event comes after the event.
LEMMA HandlerRepair ==
  ASSUME Inv, NEW w \in Workers, InsertEvent(w) \/ InsertPlain(w) \/ Handle(w) \/ HandlerFails(w)
  PROVE  RepairInv'
<1>1. TypeOK /\ TypeOK' /\ RepairInv
  BY HandlerTypes DEF Inv
<1>2. Touch
  BY DEF InsertEvent, InsertPlain, Handle, AddToColumn, TooLate, AddToBreakdown, SetLastAt, HandlerFails
<1>3. rec'.at = rec.at /\ rec'.sum = rec.sum /\ (rec.at # "idle" => rec'.touched)
  BY <1>1, <1>2, Touched
<1>4. rec.sum \in Nat /\ events \in Nat
  BY <1>1 DEF TypeOK, Recs
<1>5. events' = events \/ events' = events + 1
  BY DEF InsertEvent, InsertPlain, Handle, AddToColumn, TooLate, AddToBreakdown, SetLastAt, HandlerFails, row
<1>6. alive' = alive /\ finalized' = finalized
  BY DEF InsertEvent, InsertPlain, Handle, AddToColumn, TooLate, AddToBreakdown, SetLastAt, HandlerFails, row
<1>7. ASSUME events' = 0
      PROVE  breakdown' = 0 /\ \A v \in Workers : pc'[v] \in {"idle", "last"}
  <2>1. events = 0 /\ ~ InsertEvent(w)
    BY <1>4, <1>5, <1>7 DEF InsertEvent
  <2>2. breakdown = 0 /\ \A v \in Workers : pc[v] \in {"idle", "last"}
    BY <1>1, <2>1 DEF RepairInv
  <2>3. CASE InsertPlain(w)
    BY <1>1, <2>2, <2>3 DEF InsertPlain, row, TypeOK
  <2>4. CASE SetLastAt(w)
    BY <1>1, <2>2, <2>4 DEF SetLastAt, Goto, TypeOK
  <2>5. CASE HandlerFails(w)
    BY <1>1, <2>2, <2>5 DEF HandlerFails, Goto, row, TypeOK
  <2>6. ~ AddToColumn(w) /\ ~ TooLate(w) /\ ~ AddToBreakdown(w)
    BY <2>2 DEF AddToColumn, TooLate, AddToBreakdown
  <2> QED
    BY <2>1, <2>3, <2>4, <2>5, <2>6 DEF Handle
<1>8. rec'.at # "idle" => rec'.sum <= events'
  BY <1>1, <1>3, <1>4, <1>5 DEF RepairInv
<1> QED
  BY <1>1, <1>3, <1>6, <1>7, <1>8 DEF RepairInv

-----------------------------------------------------------------------------
(* What leaves the handlers where they are.                                *)

LEMMA Idlers ==
  ASSUME TypeOK, InFlight = {}
  PROVE  Cardinality(At("column")) = 0 /\ Cardinality(At("breakdown")) = 0
<1>1. \A w \in Workers : pc[w] # "column" /\ pc[w] # "breakdown"
  BY DEF InFlight
<1> QED
  BY <1>1, NobodyThere

\* The numbers of the invariants, as the cases below need them.
LEMMA Accounts ==
  ASSUME Inv
  PROVE  /\ TypeOK /\ RepairInv
         /\ rec.sum \in Nat /\ rec.newest \in Nat /\ rec.touched \in BOOLEAN
         /\ Cardinality(At("column")) \in Nat /\ Cardinality(At("breakdown")) \in Nat
         /\ ~ torn => events = column + Cardinality(At("column")) + missed
         /\ ~ skewed /\ rec.at # "breakdown" => column = breakdown + Cardinality(At("breakdown"))
  BY Counted DEF Inv, ColumnAccounted, BreakdownAccounted, At, TypeOK, Recs

LEMMA LifeInv ==
  ASSUME Inv, InsertOther \/ Die \/ Finalize
  PROVE  Inv'
<1>1. /\ TypeOK /\ RepairInv
  BY Accounts
<1>2. Times \subseteq Nat /\ \A t \in Nat : Later(newest, t) \in Nat
  BY <1>1, StatsAssumption, LaterTime DEF Times, TypeOK
<1>3. TypeOK'
  BY <1>1, <1>2 DEF InsertOther, Die, Finalize, TypeOK, row, work
<1>4. /\ UNCHANGED <<column, breakdown, events, pc, rec, missed, torn, skewed>>
      /\ finalized' => ~ alive'
  BY <1>1 DEF InsertOther, Die, Finalize, row, work, RepairInv
<1>5. ColumnAccounted' /\ BreakdownAccounted'
  BY <1>4 DEF Inv, ColumnAccounted, BreakdownAccounted
<1>6. RepairInv'
  BY <1>1, <1>4 DEF RepairInv, InFlight
<1> QED
  BY <1>3, <1>5, <1>6 DEF Inv

\* The steps of the reconciliation.  The last two conjuncts of RepairInv are about
\* what it does not change, but for the breakdown.
LEMMA ReconcileTypes ==
  ASSUME Inv, Reconcile \/ ReconcileFails
  PROVE  TypeOK'
<1>1. TypeOK /\ rec.sum \in Nat /\ rec.newest \in Nat
  BY Accounts
<1>2. Resting \in Recs
  BY DEF Resting, Recs
<1>3. lastAt \in Nat /\ Later(lastAt, rec.newest) \in Nat
  BY <1>1, LaterTime DEF TypeOK
<1> USE DEF Rest, work, TypeOK
<1>4. CASE ReadEvents
  <2>1. rec' \in Recs
    BY <1>1, <1>4 DEF ReadEvents, Recs
  <2> QED
    BY <1>1, <1>4, <2>1 DEF ReadEvents
<1>5. CASE RowAgrees
  <2>1. missed' \in Nat /\ torn' \in BOOLEAN
    <3>1. CASE rec.touched
      BY <1>1, <1>5, <3>1 DEF RowAgrees
    <3>2. CASE ~ rec.touched
      <4>1. missed' = 0 /\ torn' = FALSE
        BY <1>5, <3>2, Zenon DEF RowAgrees
      <4> QED
        BY <4>1
    <3> QED
      BY <3>1, <3>2
  <2> QED
    BY <1>1, <1>2, <1>5, <2>1 DEF RowAgrees, Finish
<1>6. CASE RowDrifted
  <2>1. rec' \in Recs
    BY <1>1, <1>6 DEF RowDrifted, Recs
  <2> QED
    BY <1>1, <1>6, <2>1 DEF RowDrifted
<1>7. CASE RepairColumn
  <2>1. rec' \in Recs
    BY <1>1, <1>7 DEF RepairColumn, Recs
  <2>2. missed' \in Nat /\ torn' \in BOOLEAN
    <3>1. CASE rec.touched
      BY <1>1, <1>7, <3>1 DEF RepairColumn
    <3>2. CASE ~ rec.touched
      <4>1. missed' = 0 /\ torn' = FALSE
        BY <1>7, <3>2, Zenon DEF RepairColumn
      <4> QED
        BY <4>1
    <3> QED
      BY <3>1, <3>2
  <2> QED
    BY <1>1, <1>3, <1>7, <2>1, <2>2 DEF RepairColumn, Repaired
<1>8. CASE RepairBreakdown
  BY <1>1, <1>2, <1>8, Accounts DEF RepairBreakdown, RepairedBreakdown, Finish
<1>9. CASE ReconcileFails
  BY <1>1, <1>2, <1>9, StatsAssumption DEF ReconcileFails, Finish, Fault, row
<1> QED
  BY <1>4, <1>5, <1>6, <1>7, <1>8, <1>9 DEF Reconcile

LEMMA ReconcileInv ==
  ASSUME Inv, Reconcile \/ ReconcileFails
  PROVE  Inv'
<1> DEFINE C == Cardinality(At("column"))
           B == Cardinality(At("breakdown"))
<1>1. TypeOK'
  BY ReconcileTypes
<1>2. /\ UNCHANGED <<alive, finalized, events, pc>>
      /\ C' = C /\ B' = B /\ (InFlight' = InFlight)
  BY DEF Reconcile, ReadEvents, RowAgrees, RowDrifted, RepairColumn, RepairBreakdown, ReconcileFails,
         Rest, row, work, At, InFlight
<1>3. /\ TypeOK /\ rec.sum \in Nat /\ rec.touched \in BOOLEAN /\ C \in Nat /\ B \in Nat
      /\ ~ torn => events = column + C + missed
      /\ ~ skewed /\ rec.at # "breakdown" => column = breakdown + B
  BY Accounts
<1>4. /\ rec.at # "idle" => rec.sum <= events
      /\ rec.at # "idle" /\ ~ rec.touched => rec.sum = events /\ InFlight = {}
      /\ rec.at = "breakdown" /\ ~ rec.touched => column = rec.sum
      /\ events = 0 => breakdown = 0
  BY DEF Inv, RepairInv
<1>5. InFlight = {} => C = 0 /\ B = 0
  BY <1>3, Idlers
<1>6. (finalized' => ~ alive') /\ (events' = 0 => \A w \in Workers : pc'[w] \in {"idle", "last"})
  BY <1>2 DEF Inv, RepairInv
<1>7. SUFFICES /\ ~ torn' => events = column' + C + missed'
               /\ ~ skewed' /\ rec'.at # "breakdown" => column' = breakdown' + B
               /\ rec'.at # "idle" => rec'.sum <= events
               /\ rec'.at # "idle" /\ ~ rec'.touched => rec'.sum = events /\ InFlight = {}
               /\ rec'.at = "breakdown" /\ ~ rec'.touched => column' = rec'.sum
               /\ events = 0 => breakdown' = 0
  BY <1>1, <1>2, <1>6 DEF Inv, ColumnAccounted, BreakdownAccounted, RepairInv, At
<1> HIDE DEF C, B
<1>8. CASE ReadEvents
  <2>1. /\ rec'.at = "row" /\ rec'.sum = events /\ (~ rec'.touched => InFlight = {})
        /\ rec.at = "idle"
        /\ UNCHANGED <<column, breakdown, missed, torn, skewed>>
    BY <1>8 DEF ReadEvents
  <2>2. events \in Nat
    BY <1>3 DEF TypeOK
  <2> QED
    BY <1>3, <1>4, <2>1, <2>2
<1>9. CASE RowAgrees
  <2>1. /\ rec'.at = "idle" /\ rec.at = "row" /\ UNCHANGED <<column, breakdown, skewed>>
        /\ column = rec.sum
    BY <1>9 DEF RowAgrees, Finish, Resting, Drifted
  <2>2. ~ torn' => events = column' + C + missed'
    <3>1. CASE rec.touched
      BY <1>3, <1>9, <2>1, <3>1 DEF RowAgrees
    <3>2. CASE ~ rec.touched
      <4>1. missed' = 0
        BY <1>9, <3>2, Zenon DEF RowAgrees
      <4> QED
        BY <1>3, <1>4, <1>5, <2>1, <3>2, <4>1 DEF TypeOK
    <3> QED
      BY <3>1, <3>2
  <2> QED
    BY <1>3, <1>4, <2>1, <2>2
<1>10. CASE RowDrifted
  <2>1. /\ rec'.at = "column" /\ rec'.sum = rec.sum /\ rec'.touched = rec.touched
        /\ rec.at = "row"
        /\ UNCHANGED <<column, breakdown, missed, torn, skewed>>
    BY <1>3, <1>10 DEF RowDrifted, TypeOK, Recs
  <2> QED
    BY <1>3, <1>4, <2>1
<1>11. CASE RepairColumn
  <2>1. /\ rec'.at = "breakdown" /\ rec'.sum = rec.sum /\ rec'.touched = rec.touched
        /\ rec.at = "column" /\ column' = rec.sum
        /\ UNCHANGED <<breakdown, skewed>>
    BY <1>3, <1>11 DEF RepairColumn, Repaired, TypeOK, Recs
  <2>2. ~ torn' => ~ rec.touched /\ missed' = 0
    <3>1. CASE rec.touched
      <4>1. torn' = TRUE
        BY <1>11, <3>1, Zenon DEF RepairColumn
      <4> QED
        BY <4>1
    <3>2. CASE ~ rec.touched
      <4>1. missed' = 0
        BY <1>11, <3>2, Zenon DEF RepairColumn
      <4> QED
        BY <3>2, <4>1
    <3> QED
      BY <3>1, <3>2
  <2> QED
    BY <1>3, <1>4, <1>5, <2>1, <2>2
<1>12. CASE RepairBreakdown
  <2>1. /\ rec'.at = "idle" /\ rec.at = "breakdown" /\ skewed' = rec.touched
        /\ UNCHANGED <<column, missed, torn>>
        /\ breakdown' = IF rec.sum = 0 THEN breakdown ELSE rec.sum
    BY <1>12 DEF RepairBreakdown, RepairedBreakdown, Finish, Resting
  <2>2. events = 0 => breakdown' = 0
    BY <1>3, <1>4, <2>1
  <2>3. ~ rec.touched => column = breakdown' + B
    BY <1>3, <1>4, <1>5, <2>1
  <2> QED
    BY <1>3, <2>1, <2>2, <2>3
<1>13. CASE ReconcileFails
  <2>1. /\ rec'.at = "idle" /\ UNCHANGED <<column, breakdown, missed, torn>>
        /\ ~ skewed' => ~ skewed /\ rec.at # "breakdown"
    BY <1>13 DEF ReconcileFails, Finish, Resting, row
  <2> QED
    BY <1>3, <1>4, <2>1
<1> QED
  BY <1>8, <1>9, <1>10, <1>11, <1>12, <1>13 DEF Reconcile

\* A restart drops what the handlers were in the middle of.
LEMMA RestartInv ==
  ASSUME Inv, Restart
  PROVE  Inv'
<1> DEFINE C == Cardinality(At("column"))
           B == Cardinality(At("breakdown"))
<1>1. TypeOK /\ C \in Nat /\ B \in Nat
  BY Accounts
<1>2. /\ UNCHANGED <<alive, finalized, column, breakdown, events, torn>>
      /\ missed' = missed + C
      /\ rec' = Resting
      /\ pc' = [w \in Workers |-> "idle"]
  BY DEF Restart, row, At
<1>3. TypeOK'
  <2>1. rec' \in Recs
    BY <1>2 DEF Resting, Recs
  <2>2. missed' \in Nat
    BY <1>1, <1>2 DEF TypeOK
  <2>3. skewed' \in BOOLEAN
    BY DEF Restart
  <2> QED
    BY <1>1, <2>1, <2>2, <2>3, StatsAssumption DEF Restart, Fault, row, TypeOK
<1>4. C' = 0 /\ B' = 0
  <2>1. At("column")' = {} /\ At("breakdown")' = {}
    BY <1>2 DEF At
  <2> QED
    BY <2>1, FS_EmptySet
<1>5. ColumnAccounted'
  BY <1>1, <1>2, <1>4, Accounts DEF ColumnAccounted, At, TypeOK
<1>6. BreakdownAccounted'
  <2>1. SUFFICES ASSUME ~ skewed' PROVE column = breakdown
    BY <1>1, <1>2, <1>4 DEF BreakdownAccounted, At, TypeOK
  <2>2. ~ skewed /\ rec.at # "breakdown" /\ \A w \in Workers : pc[w] # "breakdown"
    BY <2>1 DEF Restart
  <2>3. B = 0
    BY <1>1, <2>2, NobodyThere
  <2> QED
    BY <1>1, <2>2, <2>3, Accounts DEF TypeOK
<1>7. RepairInv'
  BY <1>2 DEF Inv, RepairInv, Resting
<1> QED
  BY <1>3, <1>5, <1>6, <1>7 DEF Inv

-----------------------------------------------------------------------------
(* The theorems.                                                           *)

LEMMA StepInv == Inv /\ [Next]_vars => Inv'
<1> SUFFICES ASSUME Inv, [Next]_vars PROVE Inv'
  OBVIOUS
<1>1. ASSUME NEW w \in Workers, InsertEvent(w) \/ InsertPlain(w) \/ Handle(w) \/ HandlerFails(w)
      PROVE  Inv'
  BY <1>1, HandlerTypes, HandlerCounts, HandlerRepair DEF Inv
<1>2. CASE UNCHANGED vars
  BY <1>2 DEF vars, row, work, Inv, TypeOK, ColumnAccounted, BreakdownAccounted, RepairInv, InFlight
<1> QED
  BY <1>1, <1>2, LifeInv, ReconcileInv, RestartInv DEF Next

THEOREM Invariance == Spec => []Inv
  BY InitInv, StepInv, PTL DEF Spec

\* Every reachable state of a character's statistics is well typed.
THEOREM TypeCorrect == Spec => []TypeOK
  BY Invariance, PTL DEF Inv

\* The columns are what the stored events add up to, less what is on its way, late or
\* cut off, unless the last repair met events being stored (applyCharacterStatDelta,
\* reconcileCharacterStats).
THEOREM ColumnSum == Spec => []ColumnAccounted
  BY Invariance, PTL DEF Inv

\* Columns and breakdown agree up to what is on its way, unless a failure or a repair
\* in the middle of an event separated them.
THEOREM BreakdownSum == Spec => []BreakdownAccounted
  BY Invariance, PTL DEF Inv

\* What an interrupted reconciliation holds: the strengthening the other theorems
\* rest on.
THEOREM RepairMeaning == Spec => []RepairInv
  BY Invariance, PTL DEF Inv

\* Once stats_finalized is set only a repair changes the columns, and it is set for
\* dead characters only (finalizeDeadCharacters, finalizeStaleCharacters).
THEOREM FinalStays == Spec => FinalIsFinal
<1>1. ASSUME Inv, [Next]_vars, finalized
      PROVE  finalized' /\ ~ alive' /\ (column' # column => rec.at = "column")
  <2>1. ~ alive
    BY <1>1 DEF Inv, RepairInv
  <2>2. ASSUME NEW w \in Workers, InsertEvent(w) \/ InsertPlain(w) \/ Handle(w) \/ HandlerFails(w)
        PROVE  UNCHANGED <<alive, finalized, column>>
    <3>1. ~ AddToColumn(w)
      BY <1>1 DEF AddToColumn, Final
    <3> QED
      BY <2>2, <3>1 DEF InsertEvent, InsertPlain, Handle, TooLate, AddToBreakdown, SetLastAt, HandlerFails, row
  <2>3. CASE InsertOther \/ ReadEvents \/ RowAgrees \/ RowDrifted \/ RepairBreakdown \/ ReconcileFails \/ Restart
    <3>1. UNCHANGED <<alive, finalized, column>>
      BY <2>3 DEF InsertOther, ReadEvents, RowAgrees, RowDrifted, RepairBreakdown, ReconcileFails, Restart, Rest, row
    <3> QED
      BY <1>1, <2>1, <3>1
  <2>4. CASE RepairColumn
    BY <1>1, <2>1, <2>4 DEF RepairColumn, Rest
  <2>5. ~ Die /\ ~ Finalize
    BY <1>1, <2>1 DEF Die, Finalize
  <2>6. CASE UNCHANGED vars
    BY <1>1, <2>1, <2>6 DEF vars, row
  <2> QED
    BY <1>1, <2>1, <2>2, <2>3, <2>4, <2>5, <2>6 DEF Next, Reconcile
<1>2. Inv /\ [Next]_vars => [finalized => finalized' /\ ~ alive' /\ (column' # column => rec.at = "column")]_vars
  BY <1>1
<1> QED
  BY <1>2, Invariance, PTL DEF Spec, FinalIsFinal

LEMMA LaterIs ==
  ASSUME NEW t \in Nat, NEW u \in Nat
  PROVE  /\ t <= Later(t, u) /\ u <= Later(t, u)
         /\ \A n \in Nat : t <= n /\ u <= n => Later(t, u) <= n
  BY DEF Later

\* A handler's time is that of an event it has stored, and the row's is a handler's or
\* one that was read.
LEMMA LastAtStep == TypeOK /\ TypeOK' /\ LastAtReal /\ [Next]_vars => LastAtReal'
<1> SUFFICES ASSUME TypeOK, TypeOK', LastAtReal, [Next]_vars PROVE LastAtReal'
  OBVIOUS
<1>0. /\ lastAt \in Nat /\ newest \in Nat /\ rec.newest \in Nat /\ time \in [Workers -> Nat]
      /\ newest' \in Nat /\ Times \subseteq Nat
      /\ lastAt <= newest /\ rec.newest <= newest /\ \A w \in Workers : time[w] <= newest
  BY StatsAssumption DEF TypeOK, Recs, LastAtReal, Times
<1>1. ASSUME NEW w \in Workers, Touch PROVE rec'.newest = rec.newest
  BY <1>1 DEF Touch, TypeOK, Recs
<1>2. ASSUME NEW w \in Workers, InsertEvent(w) \/ InsertPlain(w) PROVE LastAtReal'
  <2>1. PICK t \in Times : newest' = Later(newest, t) /\ time' = [time EXCEPT ![w] = t]
    BY <1>2 DEF InsertEvent, InsertPlain
  <2>2. newest <= newest' /\ t <= newest' /\ t \in Nat
    BY <1>0, <2>1, LaterIs
  <2>3. lastAt' = lastAt /\ rec'.newest = rec.newest
    BY <1>1, <1>2 DEF InsertEvent, InsertPlain, row
  <2>4. ASSUME NEW v \in Workers PROVE time'[v] <= newest'
    <3>1. time'[v] = t \/ time'[v] = time[v]
      BY <1>0, <2>1
    <3>2. time[v] \in Nat /\ time[v] <= newest
      BY <1>0
    <3> QED
      BY <1>0, <2>2, <3>1, <3>2
  <2> QED
    BY <1>0, <2>2, <2>3, <2>4 DEF LastAtReal
<1>3. ASSUME NEW w \in Workers, Handle(w) \/ HandlerFails(w) PROVE LastAtReal'
  <2>1. newest' = newest /\ Touch /\ \E p : Goto(w, p)
    BY <1>3 DEF Handle, AddToColumn, TooLate, AddToBreakdown, SetLastAt, HandlerFails
  <2>2. lastAt' = lastAt \/ lastAt' = Later(lastAt, time[w])
    BY <1>3 DEF Handle, AddToColumn, TooLate, AddToBreakdown, SetLastAt, HandlerFails, row
  <2>3. time[w] \in Nat /\ time[w] <= newest
    BY <1>0
  <2>4. lastAt' <= newest
    BY <1>0, <2>2, <2>3, LaterIs
  <2>5. \A v \in Workers : time'[v] = 0 \/ time'[v] = time[v]
    BY <1>0, <2>1 DEF Goto
  <2>6. \A v \in Workers : time'[v] <= newest
    BY <1>0, <2>5
  <2> QED
    BY <1>0, <1>1, <2>1, <2>4, <2>6 DEF LastAtReal
<1>4. CASE InsertOther
  <2>1. PICK t \in Times : newest' = Later(newest, t)
    BY <1>4 DEF InsertOther
  <2>2. newest <= newest'
    BY <1>0, <2>1, LaterIs
  <2>3. UNCHANGED <<lastAt, rec, time>>
    BY <1>4 DEF InsertOther, row, work
  <2>4. \A v \in Workers : time[v] \in Nat /\ time[v] <= newest
    BY <1>0
  <2> QED
    BY <1>0, <2>2, <2>3, <2>4 DEF LastAtReal
<1>5. CASE ReadEvents
  BY <1>0, <1>5 DEF ReadEvents, Rest, work, LastAtReal
<1>6. CASE RepairColumn
  <2>1. lastAt' = Later(lastAt, rec.newest) /\ newest' = newest /\ time' = time /\ rec'.newest = rec.newest
    BY <1>6 DEF RepairColumn, Rest, work, TypeOK, Recs
  <2>2. lastAt' <= newest
    BY <1>0, <2>1, LaterIs
  <2> QED
    BY <1>0, <2>1, <2>2 DEF LastAtReal
<1>7. CASE RowDrifted
  <2>1. UNCHANGED <<lastAt, newest, time>> /\ rec'.newest = rec.newest
    BY <1>7 DEF RowDrifted, Rest, work, TypeOK, Recs
  <2> QED
    BY <1>0, <2>1 DEF LastAtReal
<1>8. CASE RowAgrees \/ RepairBreakdown \/ ReconcileFails
  <2>1. UNCHANGED <<lastAt, newest, time>> /\ rec' = Resting
    BY <1>8 DEF RowAgrees, RepairBreakdown, ReconcileFails, Finish, Rest, row, work
  <2> QED
    BY <1>0, <2>1 DEF LastAtReal, Resting
<1>9. CASE Restart
  <2>1. lastAt' = lastAt /\ newest' = newest /\ time' = [w \in Workers |-> 0] /\ rec' = Resting
    BY <1>9 DEF Restart, row
  <2> QED
    BY <1>0, <2>1 DEF LastAtReal, Resting
<1>10. CASE Die \/ Finalize \/ UNCHANGED vars
  BY <1>0, <1>10 DEF Die, Finalize, vars, row, work, LastAtReal
<1> QED
  BY <1>2, <1>3, <1>4, <1>5, <1>6, <1>7, <1>8, <1>9, <1>10 DEF Next, Reconcile

\* The time of the last event in a row is never ahead of the events themselves, so
\* that the drift a repair looks for is one it can mend (reconcileCharacterStats).
THEOREM LastEventIsReal == Spec => []LastAtReal
<1>1. Init => LastAtReal
  BY DEF Init, LastAtReal, Resting
<1> QED
  BY <1>1, LastAtStep, TypeCorrect, PTL DEF Spec
=============================================================================
