------------------------------ MODULE LogTail ------------------------------
(***************************************************************************)
(* How the exporter follows the logs of the game: four pipelines with the  *)
(* same loop, each over its own kind of file, with a checkpoint per file   *)
(* in the processed_files table.  They share nothing but the database, so  *)
(* that one of them is modelled, of either discipline:                     *)
(*                                                                         *)
(* "telemetry"  PerkLog.txt, connections.txt and ExporterLog.txt           *)
(*              (pollOnce, pollConnectionsOnce, pollExporterOnce).  The    *)
(*              handler has no result: when its INSERT fails this is       *)
(*              logged, and the loop goes on to the next line.             *)
(* "control"    ThoseWhoRemainLog.txt (pollTWROnce).  The handler tells    *)
(*              whether the line was committed; the first one that was not *)
(*              ends the file, which is read from there at the next poll.  *)
(*              Handling a line twice has no effect.                       *)
(*                                                                         *)
(* An operator A_B is a faulty variant of A, kept to show that the runs    *)
(* tell the two apart; no specification uses it.                           *)
(***************************************************************************)
EXTENDS GameLogs

CONSTANTS
  Malformed,   \* file -> lines that do not parse
  MaxFaults    \* bound on everything that goes wrong in a behaviour

ASSUME TailAssumption == Malformed \in [Files -> SUBSET Positions] /\ MaxFaults \in Nat

VARIABLES
  kind,      \* discipline of the pipeline
  offset,    \* processed_files: lines of the file behind its checkpoint
  rows,      \* how often the database holds what each line says
  failed,    \* history: lines whose statement has failed at some time
  at,        \* statement of the poll
  cur,       \* file it is at
  newest,    \* last file of its listing
  size,      \* size of that file when it was looked at
  next,      \* next line to hand to the handler
  last,      \* last line read
  done,      \* files the process has fully read, never to look at again
  crashes, slips, skips, outages
             \* times the process died, a checkpoint was not stored, a file
             \* could not be read, a handler's statement failed

db == <<offset, rows, failed>>
poll == <<at, cur, newest, size, next, last>>
faults == <<crashes, slips, skips, outages>>
vars == <<kind, logs, db, poll, done, faults>>

TypeOK ==
  /\ LogsTypeOK
  /\ kind \in {"telemetry", "control"}
  /\ offset \in [Files -> 0..MaxLines]
  /\ rows \in [Files -> [Positions -> Nat]]
  /\ failed \in [Files -> SUBSET Positions]
  /\ at \in {"idle", "file", "read", "events", "stopped"}
  /\ cur \in 0..MaxFiles /\ newest \in 0..MaxFiles
  /\ size \in Nat /\ next \in 0..(MaxLines + 1) /\ last \in 0..MaxLines
  /\ done \subseteq Files
  /\ crashes \in Nat /\ slips \in Nat /\ skips \in Nat /\ outages \in Nat

Init ==
  /\ LogsInit
  /\ kind \in {"telemetry", "control"}
  /\ offset = [f \in Files |-> 0]
  /\ rows = [f \in Files |-> [i \in Positions |-> 0]]
  /\ failed = [f \in Files |-> {}]
  /\ at = "idle" /\ cur = 0 /\ newest = 0 /\ size = 0 /\ next = 0 /\ last = 0
  /\ done = {}
  /\ crashes = 0 /\ slips = 0 /\ skips = 0 /\ outages = 0

Affordable == crashes + slips + skips + outages < MaxFaults

-----------------------------------------------------------------------------

\* The game goes on writing at any time.
GameStep == GameWrites /\ UNCHANGED <<kind, db, poll, done, faults>>

\* The poll lists the files and visits them, oldest first.
FirstFile_Newest == opened
FirstFile == 1

ListFiles ==
  /\ at = "idle" /\ opened > 0
  /\ newest' = opened /\ cur' = FirstFile
  /\ at' = "file"
  /\ UNCHANGED <<kind, logs, db, size, next, last, done, faults>>

\* The rest of the loop's body is left out: on to the next file.
NextFile_OneMore ==
  IF cur > newest THEN at' = "idle" /\ cur' = 0 ELSE at' = "file" /\ cur' = cur + 1
NextFile ==
  IF cur = newest THEN at' = "idle" /\ cur' = 0 ELSE at' = "file" /\ cur' = cur + 1

\* A file that is finished is not even looked at.
SkipDone ==
  /\ at = "file" /\ cur \in done
  /\ NextFile
  /\ UNCHANGED <<kind, logs, db, newest, size, next, last, done, faults>>

\* Only the newest file of the listing can still grow.
Finished_AnyFile(f) == {f}
Finished(f) == {f} \ {newest}

\* os.Stat and getFileOffset: nothing new in the file ...
CaughtUp ==
  /\ at = "file" /\ cur \notin done /\ Size(cur) <= 2 * offset[cur]
  /\ done' = done \cup Finished(cur)
  /\ NextFile
  /\ UNCHANGED <<kind, logs, db, newest, size, next, last, faults>>

\* ... or something is, and its size is remembered.
Grown ==
  /\ at = "file" /\ cur \notin done /\ Size(cur) > 2 * offset[cur]
  /\ size' = Size(cur)
  /\ at' = "read"
  /\ UNCHANGED <<kind, logs, db, cur, newest, next, last, done, faults>>

\* readNewLines: from the checkpoint to the last complete line, which may
\* have been written after the size was taken.
FirstNew_Inclusive == IF offset[cur] = 0 THEN 1 ELSE offset[cur]
FirstNew == offset[cur] + 1
LastComplete == lines[cur]

ReadLines ==
  /\ at = "read"
  /\ next' = FirstNew /\ last' = LastComplete
  /\ at' = "events"
  /\ UNCHANGED <<kind, logs, db, cur, newest, size, done, faults>>

\* A file that cannot be looked at or read is left for the next poll (it may
\* just be moved to the archive), and the loop goes on with the one after it.
Unreadable ==
  /\ at \in {"file", "read"} /\ cur \notin done /\ Affordable
  /\ skips' = skips + 1
  /\ NextFile
  /\ UNCHANGED <<kind, logs, db, newest, size, next, last, done, crashes, slips, outages>>

\* A line that does not parse has no event.
SkipMalformed ==
  /\ at = "events" /\ next <= last /\ next \in Malformed[cur]
  /\ next' = next + 1
  /\ UNCHANGED <<kind, logs, db, at, cur, newest, size, last, done, faults>>

\* One statement (or transaction) stores the event: an INSERT of a new row for
\* telemetry, one that leaves an existing row alone for control lines.
HandleEvent ==
  /\ at = "events" /\ next <= last /\ next \notin Malformed[cur]
  /\ rows' = [rows EXCEPT ![cur][next] = IF kind = "control" THEN 1 ELSE @ + 1]
  /\ next' = next + 1
  /\ UNCHANGED <<kind, logs, offset, failed, at, cur, newest, size, last, done, faults>>

\* When it fails, telemetry goes on to the next line and control stops here.
GoesOn_Always == TRUE
GoesOn == kind = "telemetry"

StatementFails ==
  /\ at = "events" /\ next <= last /\ next \notin Malformed[cur] /\ Affordable
  /\ outages' = outages + 1
  /\ failed' = [failed EXCEPT ![cur] = @ \cup {next}]
  /\ IF GoesOn THEN next' = next + 1 /\ at' = at ELSE next' = next /\ at' = "stopped"
  /\ UNCHANGED <<kind, logs, offset, rows, cur, newest, size, last, done, crashes, slips, skips>>

\* setFileOffset, behind the last line that was handled.  It may fail; the
\* file is done all the same, unless a line stopped it.
Checkpoint ==
  /\ (at = "events" /\ next > last) \/ at = "stopped"
  /\ \/ offset' = [offset EXCEPT ![cur] = next - 1] /\ UNCHANGED slips
     \/ Affordable /\ slips' = slips + 1 /\ UNCHANGED offset
  /\ done' = done \cup (IF at = "events" /\ 2 * last >= size THEN Finished(cur) ELSE {})
  /\ NextFile
  /\ UNCHANGED <<kind, logs, rows, failed, newest, size, next, last, crashes, skips, outages>>

\* The process dies, or its context is cancelled between two events, and comes
\* back with the database only.
Restart ==
  /\ Affordable
  /\ crashes' = crashes + 1
  /\ at' = "idle" /\ cur' = 0 /\ newest' = 0 /\ size' = 0 /\ next' = 0 /\ last' = 0
  /\ done' = {}
  /\ UNCHANGED <<kind, logs, db, slips, skips, outages>>

PollStep ==
  \/ ListFiles \/ SkipDone \/ CaughtUp \/ Grown
  \/ ReadLines \/ SkipMalformed \/ HandleEvent \/ Checkpoint

Next == GameStep \/ PollStep \/ Unreadable \/ StatementFails \/ Restart

Spec == Init /\ [][Next]_vars

\* The ticker keeps firing; faults are bounded.
FairSpec == Spec /\ WF_vars(PollStep)

-----------------------------------------------------------------------------
(* Safety.                                                                 *)

\* Nothing remains to be done for a line: telemetry has been given its chance,
\* a control line is in the database.
Settled(f, i) ==
  i \in Malformed[f] \/ rows[f][i] > 0 \/ (kind = "telemetry" /\ i \in failed[f])

\* Every line behind a checkpoint is settled, and so is every line of a file
\* the process will not look at again: whatever is being written, moved or
\* interrupted, no line is passed over, and no control line is lost to a
\* database outage (pollTWROnce: "NOT past the failed one").
NothingPassedOver ==
  /\ \A f \in Files : \A i \in 1..offset[f] : Settled(f, i)
  /\ \A f \in done : f < opened /\ \A i \in 1..lines[f] : Settled(f, i)

\* A line is stored again only after the process died or a checkpoint was not
\* stored, and once for each time.
RepeatsAreFaults == \A f \in Files : \A i \in Positions : rows[f][i] <= 1 + crashes + slips

\* Lines are settled in the order they were written: inside a file always,
\* from one file to the next if no file was skipped or stopped.  So a death in
\* the last session is stored before the character created in this one.
InOrder ==
  /\ \A f \in Files : \A i \in Positions : rows[f][i] > 0 =>
       i <= lines[f] /\ \A k \in 1..i : Settled(f, k)
  /\ skips = 0 /\ (kind = "control" => outages = 0) =>
       \A f, g \in Files : f < g /\ (\E i \in Positions : rows[g][i] > 0) =>
         \A k \in 1..lines[f] : Settled(f, k)

-----------------------------------------------------------------------------
(* What the locals of a poll mean: the strengthening that makes the safety *)
(* invariants inductive.                                                   *)

Visiting == at \in {"events", "stopped"}

\* The poll is at a file of its listing that is not done; what it has read is
\* in the file, and the lines before the next one are settled.
VisitInv ==
  /\ at # "idle" => cur \in 1..newest /\ newest <= opened
  /\ at \notin {"idle", "file"} => cur \notin done
  /\ Visiting => /\ next \in (offset[cur] + 1)..(last + 1) /\ last <= lines[cur]
                 /\ cur # newest => last = lines[cur]
                 /\ \A i \in 1..(next - 1) : Settled(cur, i)
  /\ at = "stopped" => kind = "control" /\ outages > 0

\* A checkpoint is inside its file, and a file that does not exist is empty.
FileInv ==
  \A f \in Files : offset[f] <= lines[f] /\ (lines[f] + tail[f] > 0 => f <= opened)

\* The files before the current one hold nothing that is not settled.
EarlierInv ==
  skips = 0 /\ (kind = "control" => outages = 0) /\ at # "idle" =>
    \A f \in Files : f < cur => \A i \in 1..lines[f] : Settled(f, i)

\* A line that will be read once more has not been stored more often than
\* there were reasons to.
Unread(f, i) ==
  /\ f \notin done
  /\ i > offset[f]
  /\ Visiting /\ f = cur => i >= next

BudgetInv == \A f \in Files : \A i \in Positions :
  Unread(f, i) => rows[f][i] <= crashes + slips

\* What a poll that is interrupted anywhere may rely on when it starts again.
PollInv == VisitInv /\ FileInv /\ EarlierInv /\ BudgetInv

-----------------------------------------------------------------------------
(* Refinement.                                                             *)

\* Lines of a file that have been read: those behind its checkpoint, and during a
\* visit those that were handled.
ReadSoFar == [f \in Files |-> IF Visiting /\ f = cur THEN next - 1 ELSE offset[f]]

Cursor == INSTANCE TailCursor WITH Logs <- Files, read <- ReadSoFar, checkpoint <- offset

\* Each file is followed with one cursor: its checkpoint never goes back and never
\* gets ahead of what was handled, whatever fails in whichever statement of the
\* poll, although setFileOffset stores any number it is given.
FollowsCursor == Cursor!Spec

-----------------------------------------------------------------------------
(* Liveness.                                                               *)

\* Every complete line of every session is settled in the end, however the
\* exporter was interrupted, and also when its session ended long ago.
EveryLineSettled ==
  \A f \in Files : \A i \in Positions : (lines[f] >= i) ~> Settled(f, i)
=============================================================================
