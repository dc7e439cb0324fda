--------------------------- MODULE LogTailProofs ---------------------------
(***************************************************************************)
(* The invariants of LogTail hold for any number of files, lines and       *)
(* faults.  They are inductive only together with what the locals of an    *)
(* interrupted poll mean (PollInv).                                        *)
(***************************************************************************)
EXTENDS LogTail, TLAPS

Inv == TypeOK /\ NothingPassedOver /\ RepeatsAreFaults /\ InOrder /\ PollInv

LEMMA InitInv == Init => Inv
  BY LogBounds, TailAssumption DEF Files, Positions, Init, LogsInit, Inv, TypeOK, LogsTypeOK, NothingPassedOver, RepeatsAreFaults,
         InOrder, PollInv, VisitInv, FileInv, EarlierInv, BudgetInv, Unread, Visiting, Settled

-----------------------------------------------------------------------------
(* Where the poll is at, and what a step can change.                       *)

LEMMA Place ==
  ASSUME Inv
  PROVE  /\ at # "idle" => cur \in Files /\ cur <= newest /\ newest <= opened /\ newest \in Files
         /\ Visiting => next \in 1..(MaxLines + 1) /\ next > offset[cur]
         /\ at = "events" /\ next <= last => next \in Positions
  BY LogBounds DEF Inv, TypeOK, LogsTypeOK, PollInv, VisitInv, Visiting, Files, Positions

LEMMA NextPlace ==
  ASSUME Inv, NextFile, at # "idle"
  PROVE  /\ \/ at' = "idle" /\ cur' = 0
            \/ at' = "file" /\ cur' = cur + 1 /\ cur < newest
         /\ cur' \in 0..MaxFiles
<1>1. cur \in Files /\ newest \in Files /\ cur <= newest
  BY Place
<1>2. CASE cur = newest
  <2>1. at' = "idle" /\ cur' = 0
    BY <1>2 DEF NextFile
  <2> QED
    BY <2>1, LogBounds
<1>3. CASE cur # newest
  BY <1>1, <1>3, LogBounds DEF NextFile, Files
<1> QED
  BY <1>2, <1>3

\* The logs only grow, and only the newest file does.
LEMMA LogsGrow ==
  ASSUME Inv, [Next]_vars
  PROVE  /\ opened' >= opened
         /\ \A f \in Files : /\ lines'[f] >= lines[f]
                             /\ f # opened => lines'[f] = lines[f] /\ tail'[f] = tail[f]
<1> USE LogBounds DEF Inv, TypeOK, LogsTypeOK, logs, Files
<1>1. CASE GameStep
  <2>1. CASE NewSession
    BY <2>1 DEF NewSession
  <2>2. ASSUME NEW f \in Files, WriteText(f)
        PROVE  opened' = opened /\ lines' = lines /\ f = opened /\ tail' = [tail EXCEPT ![f] = 1]
    BY <2>2 DEF WriteText
  <2>3. ASSUME NEW f \in Files, WriteNewline(f)
        PROVE  /\ opened' = opened /\ f = opened
               /\ lines' = [lines EXCEPT ![f] = lines[f] + 1] /\ tail' = [tail EXCEPT ![f] = 0]
    BY <2>3 DEF WriteNewline
  <2> QED
    BY <1>1, <2>1, <2>2, <2>3 DEF GameStep, GameWrites
<1>2. CASE UNCHANGED logs
  BY <1>2
<1> QED
  BY <1>1, <1>2 DEF Next, PollStep, ListFiles, SkipDone, CaughtUp, Grown, ReadLines, SkipMalformed,
     HandleEvent, Checkpoint, Unreadable, StatementFails, Restart, vars

\* A handler touches one line.
LEMMA Handled ==
  ASSUME Inv, HandleEvent
  PROVE  /\ rows' \in [Files -> [Positions -> Nat]]
         /\ rows'[cur][next] > 0 /\ rows'[cur][next] <= rows[cur][next] + 1
         /\ \A f \in Files : \A i \in Positions : f # cur \/ i # next => rows'[f][i] = rows[f][i]
<1>1. cur \in Files /\ next \in Positions /\ rows \in [Files -> [Positions -> Nat]]
  BY Place DEF HandleEvent, Inv, TypeOK
<1> DEFINE n == IF kind = "control" THEN 1 ELSE rows[cur][next] + 1
<1>2. n \in Nat /\ n > 0 /\ n <= rows[cur][next] + 1
  BY <1>1
<1>3. rows' = [rows EXCEPT ![cur] = [rows[cur] EXCEPT ![next] = n]]
  BY DEF HandleEvent
<1> HIDE DEF n
<1> QED
  BY <1>1, <1>2, <1>3

LEMMA Failed ==
  ASSUME Inv, StatementFails
  PROVE  /\ failed' \in [Files -> SUBSET Positions]
         /\ next \in failed'[cur]
         /\ \A f \in Files : failed[f] \subseteq failed'[f]
<1>1. cur \in Files /\ next \in Positions /\ failed \in [Files -> SUBSET Positions]
  BY Place DEF StatementFails, Inv, TypeOK
<1>2. failed' = [failed EXCEPT ![cur] = failed[cur] \cup {next}]
  BY DEF StatementFails
<1> QED
  BY <1>1, <1>2

\* A settled line stays settled.
LEMMA SettledStays ==
  ASSUME Inv, [Next]_vars
  PROVE  /\ kind' = kind
         /\ \A f \in Files : \A i \in Positions : Settled(f, i) => Settled(f, i)'
<1>1. CASE HandleEvent
  <2>1. kind' = kind /\ failed' = failed
    BY <1>1 DEF HandleEvent
  <2>2. \A f \in Files : \A i \in Positions : rows[f][i] > 0 => rows'[f][i] > 0
    BY <1>1, Handled
  <2> QED
    BY <2>1, <2>2 DEF Settled
<1>2. CASE StatementFails
  BY <1>2, Failed DEF StatementFails, Settled
<1>3. CASE UNCHANGED <<kind, rows, failed>>
  BY <1>3 DEF Settled
<1> QED
  BY <1>1, <1>2, <1>3 DEF Next, PollStep, ListFiles, SkipDone, CaughtUp, Grown, ReadLines, SkipMalformed,
     Checkpoint, Unreadable, Restart, GameStep, vars, db

-----------------------------------------------------------------------------

LEMMA TypeStep == Inv /\ [Next]_vars => TypeOK'
<1> SUFFICES ASSUME Inv, [Next]_vars PROVE TypeOK'
  OBVIOUS
<1>0. TypeOK /\ VisitInv
  BY DEF Inv, PollInv
<1> USE <1>0, LogBounds DEF TypeOK, LogsTypeOK, logs, db, poll, faults
<1>1. CASE GameStep
  <2>1. LogsTypeOK'
    <3>1. CASE NewSession
      BY <3>1 DEF NewSession
    <3>2. ASSUME NEW f \in Files, WriteText(f) PROVE LogsTypeOK'
      BY <3>2 DEF WriteText
    <3>3. ASSUME NEW f \in Files, WriteNewline(f) PROVE LogsTypeOK'
      <4>1. lines[f] + 1 \in 0..MaxLines
        BY <3>3 DEF WriteNewline
      <4> QED
        BY <3>3, <4>1 DEF WriteNewline
    <3> QED
      BY <1>1, <3>1, <3>2, <3>3 DEF GameStep, GameWrites
  <2> QED
    BY <1>1, <2>1 DEF GameStep
<1>2. CASE ListFiles
  <2>1. cur' \in 0..MaxFiles /\ newest' \in 0..MaxFiles
    BY <1>2 DEF ListFiles, FirstFile
  <2> QED
    BY <1>2, <2>1 DEF ListFiles
<1>3. CASE SkipDone
  BY <1>3, NextPlace DEF SkipDone
<1>4. CASE CaughtUp
  BY <1>4, NextPlace, Place DEF CaughtUp, Finished
<1>5. CASE Grown
  <2>1. size' \in Nat
    BY <1>5, Place DEF Grown, Size
  <2> QED
    BY <1>5, <2>1 DEF Grown
<1>6. CASE ReadLines
  BY <1>6, Place DEF ReadLines, FirstNew, LastComplete
<1>7. CASE SkipMalformed
  BY <1>7, Place DEF SkipMalformed
<1>8. CASE HandleEvent
  <2>1. next' \in 0..(MaxLines + 1)
    BY <1>8, Place DEF HandleEvent
  <2> QED
    BY <1>8, <2>1, Handled DEF HandleEvent
<1>9. CASE Checkpoint
  <2>1. offset' \in [Files -> 0..MaxLines]
    BY <1>9, Place DEF Checkpoint, VisitInv, Visiting
  <2>2. done' \subseteq Files
    BY <1>9, Place DEF Checkpoint, Finished
  <2>3. slips' \in Nat
    BY <1>9 DEF Checkpoint
  <2>4. at' \in {"idle", "file"} /\ cur' \in 0..MaxFiles
    BY <1>9, NextPlace DEF Checkpoint
  <2> QED
    BY <1>9, <2>1, <2>2, <2>3, <2>4 DEF Checkpoint
<1>10. CASE Unreadable
  BY <1>10, NextPlace DEF Unreadable
<1>11. CASE StatementFails
  <2>1. next' \in 0..(MaxLines + 1) /\ at' \in {"events", "stopped"}
    BY <1>11, Place DEF StatementFails
  <2> QED
    BY <1>11, <2>1, Failed DEF StatementFails
<1>12. CASE Restart
  BY <1>12 DEF Restart
<1>13. CASE UNCHANGED vars
  BY <1>13 DEF vars
<1> QED
  BY <1>1, <1>2, <1>3, <1>4, <1>5, <1>6, <1>7, <1>8, <1>9, <1>10, <1>11, <1>12, <1>13
     DEF Next, PollStep

-----------------------------------------------------------------------------

LEMMA FileStep == Inv /\ [Next]_vars => FileInv'
<1> SUFFICES ASSUME Inv, [Next]_vars,
                    NEW f \in Files
             PROVE  /\ offset'[f] <= lines'[f]
                    /\ lines'[f] + tail'[f] > 0 => f <= opened'
  BY DEF FileInv
<1>1. /\ offset[f] <= lines[f] /\ (lines[f] + tail[f] > 0 => f <= opened)
      /\ offset[f] \in Nat /\ lines[f] \in Nat /\ tail[f] \in Nat /\ f \in Nat /\ opened \in Nat
  <2>1. f \in Nat
    BY LogBounds DEF Files
  <2>2. TypeOK /\ FileInv
    BY DEF Inv, PollInv
  <2>3. offset[f] \in 0..MaxLines /\ lines[f] \in 0..MaxLines /\ tail[f] \in {0, 1} /\ opened \in 0..MaxFiles
    BY <2>2 DEF TypeOK, LogsTypeOK
  <2> QED
    BY <2>1, <2>2, <2>3, LogBounds DEF FileInv
<1>2. /\ lines'[f] \in Nat /\ tail'[f] \in Nat /\ opened' \in Nat /\ offset'[f] \in Nat
      /\ lines'[f] >= lines[f] /\ opened' >= opened
  <2>1. TypeOK'
    BY TypeStep
  <2> QED
    BY <2>1, LogsGrow DEF TypeOK, LogsTypeOK
<1>3. CASE GameStep
  <2>1. offset' = offset
    BY <1>3 DEF GameStep, db
  <2>2. CASE NewSession
    BY <1>1, <1>2, <2>1, <2>2 DEF NewSession
  <2>3. ASSUME NEW g \in Files, WriteText(g) \/ WriteNewline(g) PROVE f = g => f <= opened'
    BY <1>1, <1>2, <2>3 DEF WriteText, WriteNewline
  <2>4. ASSUME NEW g \in Files, WriteText(g) \/ WriteNewline(g), f # g
        PROVE  lines'[f] = lines[f] /\ tail'[f] = tail[f]
    BY <2>4 DEF WriteText, WriteNewline, Inv, TypeOK, LogsTypeOK
  <2> QED
    BY <1>1, <1>2, <1>3, <2>1, <2>2, <2>3, <2>4 DEF GameStep, GameWrites
<1>4. CASE Checkpoint
  <2>1. UNCHANGED logs /\ cur \in Files
    BY <1>4, Place DEF Checkpoint
  <2>2. offset'[f] = offset[f] \/ (f = cur /\ offset'[f] = next - 1)
    BY <1>4, <2>1 DEF Checkpoint, Inv, TypeOK
  <2>3. next - 1 <= lines[cur]
    BY <1>4, <2>1 DEF Checkpoint, Inv, PollInv, VisitInv, Visiting, TypeOK, LogsTypeOK
  <2> QED
    BY <1>1, <2>1, <2>2, <2>3 DEF logs
<1>5. CASE UNCHANGED <<logs, offset>>
  BY <1>1, <1>5 DEF logs
<1> QED
  BY <1>3, <1>4, <1>5 DEF Next, PollStep, ListFiles, SkipDone, CaughtUp, Grown, ReadLines, SkipMalformed,
     HandleEvent, Unreadable, StatementFails, Restart, vars, db

\* What the poll knows of the file it is at.
LEMMA Visit ==
  ASSUME Inv, Visiting
  PROVE  /\ cur \in Files /\ next \in 1..(MaxLines + 1) /\ last \in 0..MaxLines
         /\ offset[cur] \in Nat /\ lines[cur] \in 0..MaxLines
         /\ next >= offset[cur] + 1 /\ next <= last + 1 /\ last <= lines[cur]
         /\ cur # newest => last = lines[cur]
         /\ \A i \in 1..(next - 1) : Settled(cur, i)
         /\ cur \notin done
         /\ at = "stopped" => kind = "control" /\ outages > 0
<1>1. cur \in Files
  BY Place DEF Visiting
<1> QED
  BY <1>1, LogBounds DEF Inv, PollInv, VisitInv, Visiting, TypeOK, LogsTypeOK

\* Settled lines below a bound stay settled.
LEMMA PrefixStays ==
  ASSUME Inv, [Next]_vars, NEW f \in Files, NEW n \in 0..MaxLines,
         \A i \in 1..n : Settled(f, i)
  PROVE  \A i \in 1..n : Settled(f, i)'
BY SettledStays, LogBounds DEF Positions

\* Where a step that visits the lines of file f leaves VisitInv.
LEMMA VisitAt ==
  ASSUME NEW f \in Files, NEW n \in Nat,
         cur' = f, next' = n,
         f \in 1..newest', newest' <= opened', f \notin done',
         n \in (offset'[f] + 1)..(last' + 1), last' <= lines'[f],
         f # newest' => last' = lines'[f],
         \A i \in 1..(n - 1) : Settled(f, i)',
         at' = "stopped" => kind' = "control" /\ outages' > 0
  PROVE  VisitInv'
BY DEF VisitInv, Visiting

LEMMA VisitStep == Inv /\ [Next]_vars => VisitInv'
<1> SUFFICES ASSUME Inv, [Next]_vars PROVE VisitInv'
  OBVIOUS
<1>0. TypeOK /\ VisitInv /\ TypeOK'
  BY TypeStep DEF Inv, PollInv
<1>s. kind' = kind /\ opened' >= opened /\ opened \in Nat /\ opened' \in Nat /\ newest \in Nat
  BY <1>0, SettledStays, LogsGrow DEF TypeOK, LogsTypeOK
<1>c. PICK f, n : f = cur /\ n = next
  OBVIOUS
<1>1. ASSUME UNCHANGED <<poll, done, offset, outages>> PROVE VisitInv'
  <2>1. UNCHANGED <<at, cur, newest, next, last, done, offset, outages>>
    BY <1>1 DEF poll
  <2>2. at # "idle" => cur \in 1..newest /\ newest <= opened'
    BY <1>0, <1>s DEF VisitInv
  <2>3. CASE Visiting
    <3>1. f \in Files /\ f <= newest /\ newest <= opened /\ f \in Nat /\ n - 1 \in 0..MaxLines /\ n \in Nat
      BY <1>c, <2>3, Place, LogBounds DEF Visiting, Files
    <3>2. lines'[f] >= lines[f] /\ lines'[f] \in Nat /\ (f # newest => lines'[f] = lines[f])
      BY <1>0, <1>s, <3>1, LogsGrow DEF TypeOK, LogsTypeOK
    <3>3. \A i \in 1..(n - 1) : Settled(f, i)'
      BY <1>c, <2>3, <3>1, Visit, PrefixStays
    <3>4. /\ n \in (offset[f] + 1)..(last + 1) /\ last <= lines'[f] /\ (f # newest => last = lines'[f])
          /\ f \notin done
          /\ at = "stopped" => kind = "control" /\ outages > 0
      BY <1>c, <2>3, <3>1, <3>2, Visit
    <3>5. f \in 1..newest /\ newest <= opened' /\ at # "idle"
      BY <1>c, <2>2, <2>3 DEF Visiting
    <3>6. cur' = f /\ next' = n /\ f \in 1..newest' /\ newest' <= opened' /\ f \notin done'
      BY <1>c, <2>1, <3>4, <3>5
    <3>7. n \in (offset'[f] + 1)..(last' + 1) /\ last' <= lines'[f] /\ (f # newest' => last' = lines'[f])
      BY <2>1, <3>4
    <3>8. at' = "stopped" => kind' = "control" /\ outages' > 0
      BY <1>s, <2>1, <3>4
    <3> QED
      BY <3>1, <3>3, <3>6, <3>7, <3>8, VisitAt
  <2>4. CASE ~ Visiting
    <3>1. at' \notin {"events", "stopped"}
      BY <2>1, <2>4 DEF Visiting
    <3>2. at' \notin {"idle", "file"} => cur' \notin done'
      BY <1>0, <2>1 DEF VisitInv
    <3> QED
      BY <2>1, <2>2, <3>1, <3>2 DEF VisitInv, Visiting
  <2> QED
    BY <2>3, <2>4
<1>2. CASE ListFiles
  <2>1. at' = "file" /\ cur' = 1 /\ newest' = opened /\ opened' = opened /\ opened > 0
    BY <1>2 DEF ListFiles, FirstFile, logs
  <2> QED
    BY <1>s, <2>1 DEF VisitInv, Visiting
<1>3. ASSUME NextFile, at # "idle", UNCHANGED <<logs, newest>> PROVE VisitInv'
  <2>1. at' \in {"idle", "file"} /\ (at' # "idle" => cur' \in 1..newest /\ newest <= opened)
    BY <1>3, NextPlace, Place, LogBounds DEF Files
  <2> QED
    BY <1>3, <2>1 DEF VisitInv, Visiting, logs
<1>4. CASE Grown
  <2>1. at' = "read" /\ UNCHANGED <<logs, cur, newest, done>> /\ cur \notin done /\ at = "file"
    BY <1>4 DEF Grown
  <2> QED
    BY <1>0, <2>1 DEF VisitInv, Visiting, logs
<1>5. CASE ReadLines
  <2>1. /\ f \in Files /\ offset[f] \in 0..MaxLines /\ offset[f] <= lines[f] /\ lines[f] \in 0..MaxLines
        /\ f \in 1..newest /\ newest <= opened /\ f \notin done
    BY <1>0, <1>5, <1>c, Place DEF ReadLines, Inv, PollInv, FileInv, VisitInv, TypeOK, LogsTypeOK
  <2>2. /\ next' = offset[f] + 1 /\ last' = lines[f] /\ at' = "events"
        /\ UNCHANGED <<logs, offset, cur, newest, done>>
    BY <1>5, <1>c DEF ReadLines, FirstNew, LastComplete, db
  <2>3. \A i \in 1..offset[f] : Settled(f, i)
    BY <2>1 DEF Inv, NothingPassedOver
  <2>4. \A i \in 1..offset[f] : Settled(f, i)'
    BY <2>1, <2>3, PrefixStays
  <2>5. PICK k \in Nat : k = offset[f] + 1
    BY <2>1
  <2>6. k \in (offset[f] + 1)..(lines[f] + 1) /\ k - 1 = offset[f]
    BY <2>1, <2>5
  <2>7. \A i \in 1..(k - 1) : Settled(f, i)'
    BY <2>4, <2>6
  <2> QED
    BY <1>c, <2>1, <2>2, <2>5, <2>6, <2>7, VisitAt DEF logs
<1>6. ASSUME at = "events", next <= last, next' = next + 1, Settled(f, n)',
             UNCHANGED <<at, logs, offset, cur, newest, last, done>>
      PROVE  VisitInv'
  <2>1. /\ f \in Files /\ n \in Nat /\ last \in Nat /\ n - 1 \in 0..MaxLines /\ n <= last
        /\ offset[f] \in Nat /\ n >= offset[f] + 1
    BY <1>6, <1>c, Place, Visit, LogBounds DEF Visiting
  <2>2. \A i \in 1..(n - 1) : Settled(f, i)'
    BY <1>6, <1>c, <2>1, Visit, PrefixStays DEF Visiting
  <2>3. \A i \in 1..(n + 1 - 1) : Settled(f, i)'
    <3> SUFFICES ASSUME NEW i \in 1..(n + 1 - 1) PROVE Settled(f, i)'
      OBVIOUS
    <3>1. i = n \/ i \in 1..(n - 1)
      BY <2>1
    <3>2. CASE i = n
      BY <1>6, <3>2
    <3> QED
      BY <2>2, <3>1, <3>2
  <2>4. n + 1 \in (offset[f] + 1)..(last + 1) /\ n + 1 \in Nat
    BY <2>1
  <2>5. /\ last <= lines[f] /\ (f # newest => last = lines[f])
        /\ f \in 1..newest /\ newest <= opened /\ f \notin done
    BY <1>0, <1>6, <1>c DEF VisitInv, Visiting
  <2>6. at' # "stopped" /\ next' = n + 1 /\ cur' = f /\ UNCHANGED <<opened, lines, offset, newest, last, done>>
    BY <1>6, <1>c DEF logs
  <2> QED
    BY <2>1, <2>3, <2>4, <2>5, <2>6, VisitAt
<1>7. CASE SkipMalformed
  <2>1. n \in Malformed[f]
    BY <1>7, <1>c DEF SkipMalformed
  <2>2. Settled(f, n)'
    BY <2>1 DEF Settled
  <2> QED
    BY <1>6, <1>7, <2>2 DEF SkipMalformed, db
<1>8. CASE HandleEvent
  <2>1. rows'[f][n] > 0
    BY <1>8, <1>c, Handled
  <2>2. Settled(f, n)'
    BY <2>1 DEF Settled
  <2> QED
    BY <1>6, <1>8, <2>2 DEF HandleEvent
<1>9. CASE StatementFails
  <2>1. CASE GoesOn
    <3>1. kind' = "telemetry" /\ n \in failed'[f]
      BY <1>9, <1>s, <1>c, <2>1, Failed DEF GoesOn
    <3>2. Settled(f, n)'
      BY <3>1 DEF Settled
    <3>3. /\ at = "events" /\ next <= last /\ next' = next + 1
          /\ UNCHANGED <<at, logs, offset, cur, newest, last, done>>
      BY <1>9, <2>1 DEF StatementFails
    <3> QED
      BY <1>6, <3>2, <3>3
  <2>2. CASE ~ GoesOn
    <3>1. /\ at = "events" /\ at' = "stopped" /\ outages' = outages + 1
          /\ UNCHANGED <<logs, offset, cur, newest, next, last, done>>
      BY <1>9, <2>2 DEF StatementFails
    <3>2. f \in Files /\ n \in Nat /\ n - 1 \in 0..MaxLines
      BY <1>c, <3>1, Place, LogBounds DEF Visiting
    <3>3. \A i \in 1..(n - 1) : Settled(f, i)'
      BY <1>c, <3>1, <3>2, Visit, PrefixStays DEF Visiting
    <3>4. kind' = "control" /\ outages' > 0
      BY <1>0, <1>s, <2>2, <3>1 DEF GoesOn, TypeOK
    <3>5. /\ n \in (offset[f] + 1)..(last + 1) /\ last <= lines[f]
          /\ (f # newest => last = lines[f])
          /\ f \in 1..newest /\ newest <= opened /\ f \notin done
      BY <1>0, <1>c, <3>1 DEF VisitInv, Visiting
    <3> QED
      BY <1>c, <3>1, <3>2, <3>3, <3>4, <3>5, VisitAt DEF logs
  <2> QED
    BY <2>1, <2>2
<1>10. CASE Restart
  BY <1>10 DEF Restart, VisitInv, Visiting
<1> QED
  BY <1>1, <1>2, <1>3, <1>4, <1>5, <1>7, <1>8, <1>9, <1>10 DEF Next, PollStep, GameStep, SkipDone,
     CaughtUp, Checkpoint, Unreadable, vars, db, faults

-----------------------------------------------------------------------------
(* Nothing is passed over.                                                 *)

\* A file the poll leaves behind, other than the newest, holds nothing that
\* is not settled, unless it could not be read or a line stopped it.
LEMMA LeftBehind ==
  ASSUME Inv, SkipDone \/ CaughtUp \/ (Checkpoint /\ at = "events"), cur # newest
  PROVE  cur \in Files /\ cur < opened /\ \A i \in 1..lines[cur] : Settled(cur, i)
<1>1. /\ at # "idle" /\ cur \in Files /\ cur < opened
      /\ lines[cur] \in Nat /\ tail[cur] \in Nat /\ offset[cur] \in Nat
  <2>1. at # "idle"
    BY DEF SkipDone, CaughtUp, Checkpoint
  <2>2. cur \in Files /\ cur <= newest /\ newest <= opened /\ newest \in Files
    BY <2>1, Place
  <2>3. cur < opened
    BY <2>2, LogBounds DEF Files, Inv, TypeOK, LogsTypeOK
  <2> QED
    BY <2>1, <2>2, <2>3 DEF Inv, TypeOK, LogsTypeOK
<1>2. \A i \in 1..offset[cur] : Settled(cur, i)
  BY <1>1 DEF Inv, NothingPassedOver
<1>3. CASE SkipDone
  BY <1>1, <1>3 DEF SkipDone, Inv, NothingPassedOver
<1>4. CASE CaughtUp
  <2>1. lines[cur] <= offset[cur]
    BY <1>1, <1>4 DEF CaughtUp, Size
  <2> QED
    BY <1>1, <1>2, <2>1
<1>5. CASE Checkpoint /\ at = "events"
  <2>1. Visiting /\ next > last
    BY <1>5 DEF Checkpoint, Visiting
  <2>2. last = lines[cur] /\ next = last + 1
    BY <2>1, Visit
  <2> QED
    BY <1>1, <2>1, <2>2, Visit
<1> QED
  BY <1>3, <1>4, <1>5

\* A checkpoint moves behind lines that are settled.
LEMMA OffsetStep ==
  ASSUME Inv, [Next]_vars, NEW f \in Files
  PROVE  \/ offset'[f] = offset[f]
         \/ Checkpoint /\ Visiting /\ f = cur /\ offset'[f] = next - 1
<1>1. offset \in [Files -> 0..MaxLines]
  BY DEF Inv, TypeOK
<1>2. CASE Checkpoint
  BY <1>1, <1>2 DEF Checkpoint, Visiting
<1>3. CASE UNCHANGED offset
  BY <1>3
<1> QED
  BY <1>2, <1>3 DEF Next, PollStep, GameStep, ListFiles, SkipDone, CaughtUp, Grown, ReadLines, SkipMalformed,
     HandleEvent, Unreadable, StatementFails, Restart, vars, db

\* Only a file that was left behind is finished.
LEMMA DoneStep ==
  ASSUME Inv, [Next]_vars, NEW f \in done'
  PROVE  \/ f \in done
         \/ (CaughtUp \/ (Checkpoint /\ at = "events")) /\ f = cur /\ cur # newest
<1>1. CASE CaughtUp
  BY <1>1 DEF CaughtUp, Finished
<1>2. CASE Checkpoint
  BY <1>2 DEF Checkpoint, Finished
<1>3. CASE done' \subseteq done
  BY <1>3
<1> QED
  BY <1>1, <1>2, <1>3 DEF Next, PollStep, GameStep, ListFiles, SkipDone, Grown, ReadLines, SkipMalformed,
     HandleEvent, Unreadable, StatementFails, Restart, vars

LEMMA PassedStep == Inv /\ [Next]_vars => NothingPassedOver'
<1> SUFFICES ASSUME Inv, [Next]_vars PROVE NothingPassedOver'
  OBVIOUS
<1>0. TypeOK /\ NothingPassedOver
  BY DEF Inv
<1>1. ASSUME NEW f \in Files PROVE \A i \in 1..offset'[f] : Settled(f, i)'
  <2>1. CASE offset'[f] = offset[f]
    <3>1. offset[f] \in 0..MaxLines /\ \A i \in 1..offset[f] : Settled(f, i)
      BY <1>0 DEF TypeOK, NothingPassedOver
    <3> QED
      BY <2>1, <3>1, PrefixStays
  <2>2. CASE Visiting /\ f = cur /\ offset'[f] = next - 1
    <3>1. PICK n \in 0..MaxLines : n = next - 1
      BY <2>2, Visit, LogBounds
    <3>2. \A i \in 1..n : Settled(f, i)
      BY <2>2, <3>1, Visit
    <3>3. \A i \in 1..n : Settled(f, i)'
      BY <3>2, PrefixStays
    <3> QED
      BY <2>2, <3>1, <3>3
  <2> QED
    BY <2>1, <2>2, OffsetStep
<1>2. ASSUME NEW f \in done' PROVE f < opened' /\ \A i \in 1..lines'[f] : Settled(f, i)'
  <2>1. f \in Files /\ f < opened /\ \A i \in 1..lines[f] : Settled(f, i)
    <3>1. CASE f \in done
      BY <1>0, <3>1 DEF TypeOK, NothingPassedOver
    <3>2. CASE (CaughtUp \/ (Checkpoint /\ at = "events")) /\ f = cur /\ cur # newest
      BY <3>2, LeftBehind
    <3> QED
      BY <3>1, <3>2, DoneStep
  <2>2. /\ opened' >= opened /\ f # opened /\ lines'[f] = lines[f] /\ lines[f] \in 0..MaxLines
        /\ f \in Nat /\ opened \in Nat /\ opened' \in Nat
    <3>1. f \in Nat /\ opened \in Nat /\ opened' \in Nat
      BY <1>0, <2>1, TypeStep, LogBounds DEF TypeOK, LogsTypeOK, Files
    <3>2. f # opened
      BY <2>1, <3>1
    <3> QED
      BY <1>0, <2>1, <3>1, <3>2, LogsGrow DEF TypeOK, LogsTypeOK
  <2>3. \A i \in 1..lines[f] : Settled(f, i)'
    BY <2>1, <2>2, PrefixStays
  <2> QED
    BY <2>1, <2>2, <2>3
<1> QED
  BY <1>1, <1>2 DEF NothingPassedOver

-----------------------------------------------------------------------------
(* Repeats have a reason.                                                  *)

\* Without a new reason a line that was settled for good is not read again.
LEMMA UnreadStep ==
  ASSUME Inv, [Next]_vars, ~ Restart, slips' = slips,
         NEW f \in Files, NEW i \in Positions, Unread(f, i)'
  PROVE  Unread(f, i)
<1>0. TypeOK
  BY DEF Inv
<1>1. CASE UNCHANGED <<at, cur, next, offset, done>>
  BY <1>1 DEF Unread, Visiting
<1>2. CASE ~ Visiting /\ done \subseteq done' /\ offset' = offset
  BY <1>2 DEF Unread, Visiting
<1>3. ASSUME at = "events", next' \in {next, next + 1}, at' \in {"events", "stopped"},
             UNCHANGED <<cur, offset, done>>
      PROVE  Unread(f, i)
  <2>1. f = cur => i >= next'
    BY <1>3 DEF Unread, Visiting
  <2>2. f = cur => i >= next
    BY <1>0, <1>3, <2>1 DEF TypeOK, Positions
  <2> QED
    BY <1>3, <2>2 DEF Unread, Visiting
<1>4. CASE Checkpoint
  <2>1. Visiting /\ done \subseteq done' /\ offset' = [offset EXCEPT ![cur] = next - 1]
    BY <1>0, <1>4 DEF Checkpoint, Visiting, TypeOK
  <2>2. f \notin done /\ i > offset'[f]
    BY <2>1 DEF Unread
  <2>3. CASE f = cur
    <3>1. i > next - 1 /\ next > offset[cur] /\ next \in Nat /\ offset[cur] \in Nat /\ i \in Nat
      BY <1>0, <2>1, <2>2, <2>3, Visit, LogBounds DEF TypeOK, Positions
    <3> QED
      BY <2>2, <2>3, <3>1 DEF Unread
  <2>4. CASE f # cur
    BY <1>0, <2>1, <2>2, <2>4 DEF Unread, TypeOK
  <2> QED
    BY <2>3, <2>4
<1>5. CASE StatementFails
  <2>1. next' \in {next, next + 1} /\ at' \in {"events", "stopped"}
    BY <1>5 DEF StatementFails
  <2> QED
    BY <1>3, <1>5, <2>1 DEF StatementFails
<1>6. CASE SkipMalformed \/ HandleEvent
  BY <1>3, <1>6 DEF SkipMalformed, HandleEvent, db
<1> QED
  BY <1>1, <1>2, <1>4, <1>5, <1>6 DEF Next, PollStep, GameStep, ListFiles, SkipDone, CaughtUp, Grown, ReadLines,
     Unreadable, vars, db, poll, Visiting

LEMMA BudgetStep == Inv /\ [Next]_vars => RepeatsAreFaults' /\ BudgetInv'
<1> SUFFICES ASSUME Inv, [Next]_vars, NEW f \in Files, NEW i \in Positions
             PROVE  /\ rows'[f][i] <= 1 + crashes' + slips'
                    /\ Unread(f, i)' => rows'[f][i] <= crashes' + slips'
  BY DEF RepeatsAreFaults, BudgetInv
<1>1. /\ rows[f][i] <= 1 + crashes + slips /\ (Unread(f, i) => rows[f][i] <= crashes + slips)
      /\ rows[f][i] \in Nat /\ crashes \in Nat /\ slips \in Nat
  BY DEF Inv, TypeOK, RepeatsAreFaults, PollInv, BudgetInv
<1>2. CASE HandleEvent
  <2>1. /\ UNCHANGED <<crashes, slips, cur, at>> /\ next' = next + 1 /\ at = "events" /\ Visiting
    BY <1>2 DEF HandleEvent, faults, Visiting
  <2>2. CASE f = cur /\ i = next
    <3>1. Unread(f, i)
      BY <2>1, <2>2, Visit DEF Unread, Positions
    <3>2. rows'[f][i] <= rows[f][i] + 1 /\ rows'[f][i] \in Nat
      BY <1>2, <2>2, Handled
    <3>3. ~ Unread(f, i)'
      BY <2>1, <2>2 DEF Unread, Visiting, Positions
    <3> QED
      BY <1>1, <2>1, <3>1, <3>2, <3>3
  <2>3. CASE f # cur \/ i # next
    <3>1. rows'[f][i] = rows[f][i]
      BY <1>2, <2>3, Handled
    <3>2. ~ Restart
      BY <2>1, <1>1 DEF Restart
    <3> QED
      BY <1>1, <2>1, <3>1, <3>2, UnreadStep
  <2> QED
    BY <2>2, <2>3
<1>3. CASE rows' = rows /\ crashes' = crashes /\ slips' = slips
  <2>1. ~ Restart
    BY <1>1, <1>3 DEF Restart
  <2> QED
    BY <1>1, <1>3, <2>1, UnreadStep
<1>4. ASSUME rows' = rows,
             (crashes' = crashes + 1 /\ slips' = slips) \/ (crashes' = crashes /\ slips' = slips + 1)
      PROVE  rows'[f][i] <= crashes' + slips' /\ rows'[f][i] <= 1 + crashes' + slips'
  <2>1. rows[f][i] <= 1 + crashes + slips /\ rows[f][i] \in Nat /\ crashes \in Nat /\ slips \in Nat
    BY <1>1
  <2>2. rows[f][i] <= crashes' + slips' /\ rows[f][i] <= 1 + crashes' + slips'
    BY <1>4, <2>1
  <2> QED
    BY <1>4, <2>2
<1>5. CASE Checkpoint
  <2>1. rows' = rows /\ crashes' = crashes /\ (slips' = slips \/ slips' = slips + 1)
    BY <1>5 DEF Checkpoint
  <2> QED
    BY <1>3, <1>4, <2>1
<1>6. CASE Restart
  BY <1>4, <1>6 DEF Restart, db
<1> QED
  BY <1>2, <1>3, <1>5, <1>6 DEF Next, PollStep, GameStep, ListFiles, SkipDone, CaughtUp, Grown, ReadLines,
     SkipMalformed, Unreadable, StatementFails, vars, db, faults

-----------------------------------------------------------------------------
(* Order.                                                                  *)

\* No file was skipped or stopped.
Undisturbed == skips = 0 /\ (kind = "control" => outages = 0)

LEMMA UndisturbedStep ==
  ASSUME Inv, [Next]_vars, Undisturbed'
  PROVE  Undisturbed /\ ~ Unreadable
<1>1. skips \in Nat /\ outages \in Nat /\ kind' = kind
  BY SettledStays DEF Inv, TypeOK
<1>2. CASE Unreadable
  BY <1>1, <1>2 DEF Unreadable, Undisturbed
<1>3. CASE StatementFails
  BY <1>1, <1>3 DEF StatementFails, Undisturbed, Unreadable
<1>4. CASE UNCHANGED <<skips, outages>>
  BY <1>1, <1>4 DEF Undisturbed, Unreadable
<1> QED
  BY <1>2, <1>3, <1>4 DEF Next, PollStep, GameStep, ListFiles, SkipDone, CaughtUp, Grown, ReadLines,
     SkipMalformed, HandleEvent, Checkpoint, Restart, vars, faults

\* The lines of a file that is not the newest stay what they are.
LEMMA OldFileStays ==
  ASSUME Inv, [Next]_vars, NEW f \in Files, f # opened,
         \A i \in 1..lines[f] : Settled(f, i)
  PROVE  \A i \in 1..lines'[f] : Settled(f, i)'
<1>1. lines'[f] = lines[f] /\ lines[f] \in 0..MaxLines
  BY LogsGrow DEF Inv, TypeOK, LogsTypeOK
<1>2. \A i \in 1..lines[f] : Settled(f, i)'
  BY <1>1, PrefixStays
<1> QED
  BY <1>1, <1>2

LEMMA EarlierStep == Inv /\ [Next]_vars => EarlierInv'
<1> SUFFICES ASSUME Inv, [Next]_vars, Undisturbed', at' # "idle", NEW f \in Files, f < cur'
             PROVE  \A i \in 1..lines'[f] : Settled(f, i)'
  BY DEF EarlierInv, Undisturbed
<1>1. Undisturbed /\ ~ Unreadable
  BY UndisturbedStep
<1>2. opened \in Nat /\ f \in Nat /\ (at # "idle" => cur \in Nat /\ cur <= opened /\ newest \in Nat)
  BY Place, LogBounds DEF Inv, TypeOK, LogsTypeOK, Files
<1>3. ASSUME at # "idle", f < cur PROVE \A i \in 1..lines'[f] : Settled(f, i)'
  <2>1. \A i \in 1..lines[f] : Settled(f, i)
    BY <1>1, <1>3 DEF Inv, PollInv, EarlierInv, Undisturbed
  <2>2. f # opened
    BY <1>2, <1>3
  <2> QED
    BY <2>1, <2>2, OldFileStays
<1>4. CASE ListFiles
  BY <1>2, <1>4 DEF ListFiles, FirstFile, Files
<1>5. CASE SkipDone \/ CaughtUp \/ Checkpoint
  <2>1. NextFile /\ at # "idle"
    BY <1>5 DEF SkipDone, CaughtUp, Checkpoint
  <2>2. cur' = cur + 1 /\ cur < newest
    BY <2>1, NextPlace
  <2>3. CASE f < cur
    BY <1>3, <2>1, <2>3
  <2>4. CASE f = cur
    <3>1. ~ (Checkpoint /\ at = "stopped")
      BY <1>1, Visit DEF Visiting, Undisturbed, Inv, TypeOK
    <3>2. SkipDone \/ CaughtUp \/ (Checkpoint /\ at = "events")
      BY <1>5, <3>1 DEF Checkpoint
    <3>3. cur # newest
      BY <1>2, <2>1, <2>2
    <3>4. f < opened /\ \A i \in 1..lines[f] : Settled(f, i)
      BY <2>4, <3>2, <3>3, LeftBehind
    <3> QED
      BY <1>2, <3>4, OldFileStays
  <2> QED
    BY <1>2, <2>1, <2>2, <2>3, <2>4
<1>6. CASE Restart
  BY <1>6 DEF Restart
<1>7. CASE at # "idle" /\ cur' = cur
  BY <1>3, <1>7
<1>8. CASE UNCHANGED <<at, cur>>
  BY <1>3, <1>8
<1> QED
  BY <1>1, <1>4, <1>5, <1>6, <1>7, <1>8 DEF Next, PollStep, GameStep, Grown, ReadLines, SkipMalformed, HandleEvent,
     StatementFails, vars, poll

\* A row that is new is that of the line being handled.
LEMMA NewRow ==
  ASSUME Inv, [Next]_vars, NEW f \in Files, NEW i \in Positions, rows'[f][i] > 0
  PROVE  rows[f][i] > 0 \/ (HandleEvent /\ f = cur /\ i = next)
<1>1. CASE HandleEvent
  BY <1>1, Handled
<1>2. CASE rows' = rows
  BY <1>2
<1> QED
  BY <1>1, <1>2 DEF Next, PollStep, GameStep, ListFiles, SkipDone, CaughtUp, Grown, ReadLines, SkipMalformed,
     Checkpoint, Unreadable, StatementFails, Restart, vars, db

LEMMA OrderStep == Inv /\ [Next]_vars => InOrder'
<1> SUFFICES ASSUME Inv, [Next]_vars PROVE InOrder'
  OBVIOUS
<1>0. TypeOK /\ InOrder
  BY DEF Inv
<1>1. ASSUME NEW f \in Files, NEW i \in Positions, rows'[f][i] > 0
      PROVE  i <= lines'[f] /\ \A k \in 1..i : Settled(f, k)'
  <2>1. i <= lines[f] /\ \A k \in 1..i : Settled(f, k) \/ k = i
    <3>1. CASE rows[f][i] > 0
      BY <1>0, <3>1 DEF InOrder
    <3>2. CASE HandleEvent /\ f = cur /\ i = next
      <4>1. Visiting /\ next <= last
        BY <3>2 DEF HandleEvent, Visiting
      <4> QED
        BY <3>2, <4>1, Visit
    <3> QED
      BY <1>1, <3>1, <3>2, NewRow
  <2>2. i <= lines'[f]
    <3>1. lines'[f] >= lines[f] /\ lines[f] \in Nat /\ i \in Nat
      BY <1>0, LogsGrow, LogBounds DEF TypeOK, LogsTypeOK, Positions
    <3>2. lines'[f] \in Nat
      BY TypeStep DEF TypeOK, LogsTypeOK
    <3> QED
      BY <2>1, <3>1, <3>2
  <2>3. Settled(f, i)'
    BY <1>1 DEF Settled
  <2>4. \A k \in 1..i : k \in Positions
    BY LogBounds DEF Positions
  <2>5. \A k \in 1..i : Settled(f, k) => Settled(f, k)'
    BY <2>4, SettledStays
  <2>6. ASSUME NEW k \in 1..i PROVE Settled(f, k)'
    <3>1. CASE k = i
      BY <2>3, <3>1
    <3>2. CASE Settled(f, k)
      BY <2>5, <3>2
    <3> QED
      BY <2>1, <3>1, <3>2
  <2> QED
    BY <2>2, <2>6
<1>2. ASSUME Undisturbed', NEW f \in Files, NEW g \in Files, f < g,
             NEW i \in Positions, rows'[g][i] > 0
      PROVE  \A k \in 1..lines'[f] : Settled(f, k)'
  <2>1. Undisturbed
    BY <1>2, UndisturbedStep
  <2>2. f # opened /\ \A k \in 1..lines[f] : Settled(f, k)
    <3>1. CASE rows[g][i] > 0
      <4>1. \A k \in 1..lines[f] : Settled(f, k)
        BY <1>0, <1>2, <2>1, <3>1 DEF InOrder, Undisturbed
      <4>2. i <= lines[g] /\ lines[g] \in Nat /\ tail[g] \in Nat
        BY <1>0, <3>1 DEF InOrder, TypeOK, LogsTypeOK
      <4>3. g <= opened
        BY <4>2 DEF Inv, PollInv, FileInv, Positions
      <4> QED
        BY <1>0, <1>2, <4>1, <4>3, LogBounds DEF Files, TypeOK, LogsTypeOK
    <3>2. CASE HandleEvent /\ g = cur
      <4>1. at # "idle"
        BY <3>2 DEF HandleEvent
      <4>2. \A k \in 1..lines[f] : Settled(f, k)
        BY <1>2, <2>1, <3>2, <4>1 DEF Inv, PollInv, EarlierInv, Undisturbed
      <4>3. g <= newest /\ newest <= opened /\ newest \in Files
        BY <3>2, <4>1, Place
      <4> QED
        BY <1>0, <1>2, <4>2, <4>3, LogBounds DEF Files, TypeOK, LogsTypeOK
    <3> QED
      BY <1>2, <3>1, <3>2, NewRow
  <2> QED
    BY <2>2, OldFileStays
<1> QED
  BY <1>1, <1>2 DEF InOrder, Undisturbed

-----------------------------------------------------------------------------
(* The theorems.                                                           *)

LEMMA Inductive == Inv /\ [Next]_vars => Inv'
BY TypeStep, PassedStep, BudgetStep, OrderStep, VisitStep, FileStep, EarlierStep DEF Inv, PollInv

LEMMA Invariance == Spec => []Inv
BY InitInv, Inductive, PTL DEF Spec

\* Every reachable state of a tail pipeline is well typed.
THEOREM TypeCorrect == Spec => []TypeOK
<1>1. Inv => TypeOK
  BY DEF Inv
<1> QED
  BY <1>1, Invariance, PTL

\* No line is passed over: what is behind a checkpoint (setFileOffset) or in a
\* file the process has finished with (done) is settled, whatever the game
\* writes meanwhile and wherever the poll is interrupted.
THEOREM NoneSkipped == Spec => []NothingPassedOver
<1>1. Inv => NothingPassedOver
  BY DEF Inv
<1> QED
  BY <1>1, Invariance, PTL

\* A line is stored at most once more than the process died or a checkpoint
\* was not stored.
THEOREM Repeats == Spec => []RepeatsAreFaults
<1>1. Inv => RepeatsAreFaults
  BY DEF Inv
<1> QED
  BY <1>1, Invariance, PTL

\* Lines are settled in the order the game wrote them, in a file always and
\* across files unless one could not be read or was stopped.
THEOREM Order == Spec => []InOrder
<1>1. Inv => InOrder
  BY DEF Inv
<1> QED
  BY <1>1, Invariance, PTL

\* What the locals of pollOnce mean at any point of a poll.
THEOREM PollMeaning == Spec => []PollInv
<1>1. Inv => PollInv
  BY DEF Inv
<1> QED
  BY <1>1, Invariance, PTL

-----------------------------------------------------------------------------
(* The cursor.                                                             *)

\* Outside a visit what was read is what the checkpoints say; a visit is ahead of
\* one of them.
LEMMA ReadIs ==
  ASSUME Inv
  PROVE  /\ offset \in [Files -> Nat] /\ \A f \in Files : offset[f] <= ReadSoFar[f]
         /\ ~ Visiting => ReadSoFar = offset
         /\ Visiting => /\ cur \in Files /\ next \in Nat /\ next - 1 \in Nat /\ offset[cur] <= next - 1
                        /\ ReadSoFar = [offset EXCEPT ![cur] = next - 1]
<1>1. offset \in [Files -> Nat]
  BY LogBounds DEF Inv, TypeOK
<1>2. Visiting => cur \in Files /\ next \in Nat /\ next - 1 \in Nat /\ offset[cur] <= next - 1
  BY <1>1, Place, LogBounds DEF Visiting
<1>3. ~ Visiting => ReadSoFar = offset
  BY <1>1 DEF ReadSoFar
<1>4. Visiting => ReadSoFar = [offset EXCEPT ![cur] = next - 1]
  BY <1>1, <1>2 DEF ReadSoFar
<1>5. \A f \in Files : offset[f] <= ReadSoFar[f]
  BY <1>1, <1>2 DEF ReadSoFar
<1> QED
  BY <1>1, <1>2, <1>3, <1>4, <1>5

LEMMA CursorStep == Inv /\ [Next]_vars => [Cursor!Next]_(Cursor!vars)
<1> SUFFICES ASSUME Inv, [Next]_vars PROVE [Cursor!Next]_(Cursor!vars)
  OBVIOUS
<1> USE DEF Cursor!vars, Cursor!Next
<1>0. TypeOK /\ offset \in [Files -> Nat] /\ next \in Nat
  BY LogBounds DEF Inv, TypeOK
<1>1. CASE UNCHANGED offset /\ ~ Visiting /\ ~ Visiting'
  BY <1>1 DEF ReadSoFar
<1>2. CASE UNCHANGED <<offset, at, cur, next>>
  BY <1>2 DEF ReadSoFar, Visiting
<1>3. CASE ReadLines
  <2>1. offset' = offset /\ cur' = cur /\ ~ Visiting /\ next' - 1 = offset[cur]
    BY <1>0, <1>3, Place DEF ReadLines, Visiting, db, FirstNew
  <2> QED
    BY <2>1 DEF ReadSoFar
<1>4. ASSUME at = "events", next' = next + 1, at' = at, UNCHANGED <<offset, cur>>
      PROVE  Cursor!Advance(cur) /\ cur \in Files
  <2>1. Visiting /\ Visiting'
    BY <1>4 DEF Visiting
  <2>2. cur \in Files /\ ReadSoFar = [offset EXCEPT ![cur] = next - 1]
    BY <2>1, ReadIs
  <2>3. next' - 1 = next /\ next - 1 + 1 = next
    BY <1>0, <1>4
  <2>4. ReadSoFar' = [offset EXCEPT ![cur] = next]
    <3>1. ReadSoFar' = [f \in Files |-> IF f = cur THEN next ELSE offset[f]]
      BY <1>4, <2>1, <2>3 DEF ReadSoFar
    <3> QED
      BY <1>0, <2>2, <3>1
  <2>5. ReadSoFar' = [ReadSoFar EXCEPT ![cur] = @ + 1]
    BY <1>0, <2>2, <2>3, <2>4
  <2> QED
    BY <1>4, <2>2, <2>5 DEF Cursor!Advance
<1>5. CASE SkipMalformed \/ HandleEvent
  BY <1>4, <1>5 DEF SkipMalformed, HandleEvent, db
<1>6. CASE StatementFails
  <2>1. CASE GoesOn
    BY <1>4, <1>6, <2>1 DEF StatementFails
  <2>2. CASE ~ GoesOn
    BY <1>6, <2>2 DEF StatementFails, ReadSoFar, Visiting
  <2> QED
    BY <2>1, <2>2
<1>7. ASSUME Visiting, ~ Visiting', offset' = offset
      PROVE  Cursor!GoBack(cur) /\ cur \in Files
  <2>1. /\ cur \in Files /\ ReadSoFar = [offset EXCEPT ![cur] = next - 1]
        /\ offset[cur] \in Nat /\ next - 1 \in Nat /\ offset[cur] <= next - 1
    BY <1>0, <1>7, ReadIs
  <2>2. ReadSoFar' = offset
    BY <1>0, <1>7 DEF ReadSoFar
  <2>3. offset[cur] \in offset[cur]..ReadSoFar[cur]
    BY <1>0, <2>1
  <2>4. ReadSoFar' = [ReadSoFar EXCEPT ![cur] = offset[cur]]
    BY <1>0, <2>1, <2>2
  <2>5. offset' = [offset EXCEPT ![cur] = offset[cur]]
    BY <1>0, <1>7
  <2> QED
    BY <2>1, <2>3, <2>4, <2>5 DEF Cursor!GoBack
<1>8. CASE Checkpoint
  <2>1. Visiting /\ ~ Visiting'
    <3>1. at \in {"events", "stopped"} /\ NextFile
      BY <1>8 DEF Checkpoint
    <3> QED
      BY <3>1 DEF NextFile, Visiting
  <2>2. CASE offset' = offset
    BY <1>7, <2>1, <2>2
  <2>3. CASE offset' = [offset EXCEPT ![cur] = next - 1]
    <3>1. /\ cur \in Files /\ ReadSoFar = [offset EXCEPT ![cur] = next - 1]
          /\ offset[cur] \in Nat /\ next - 1 \in Nat /\ offset[cur] <= next - 1
      BY <1>0, <2>1, ReadIs
    <3>2. ReadSoFar' = offset'
      BY <1>0, <2>1, <2>3 DEF ReadSoFar
    <3>3. next - 1 \in offset[cur]..ReadSoFar[cur]
      BY <1>0, <3>1
    <3>4. Cursor!Store(cur)
      BY <2>3, <3>1, <3>2, <3>3 DEF Cursor!Store
    <3> QED
      BY <3>1, <3>4
  <2> QED
    BY <1>8, <2>2, <2>3 DEF Checkpoint
<1>9. CASE Restart
  <2>1. ~ Visiting' /\ offset' = offset
    BY <1>9 DEF Restart, Visiting, db
  <2> QED
    BY <1>1, <1>7, <2>1
<1>10. CASE ListFiles \/ SkipDone \/ CaughtUp \/ Grown \/ Unreadable
  <2>1. offset' = offset /\ ~ Visiting /\ ~ Visiting'
    BY <1>10 DEF ListFiles, SkipDone, CaughtUp, Grown, Unreadable, NextFile, Visiting, db
  <2> QED
    BY <1>1, <2>1
<1> QED
  BY <1>2, <1>3, <1>5, <1>6, <1>8, <1>9, <1>10 DEF Next, PollStep, GameStep, vars, db, poll

\* A poll follows every file with a cursor, for any number of files, lines and
\* faults: a checkpoint (setFileOffset overwrites it) never goes back and never
\* gets ahead of the lines that were handled.
THEOREM OneCursor == Spec => FollowsCursor
<1>1. Init => Cursor!Init
  BY DEF Init, Cursor!Init, ReadSoFar, Visiting
<1> QED
  BY <1>1, CursorStep, Invariance, PTL DEF Spec, FollowsCursor, Cursor!Spec
=============================================================================
