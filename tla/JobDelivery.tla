---------------------------- MODULE JobDelivery ----------------------------
(***************************************************************************)
(* How a quest job travels from the database to the game world and its     *)
(* result back: the dispatcher goroutine (questdispatch.go), the dispatch  *)
(* directory it shares with the game server, the Lua poller                *)
(* (QuestEngine.lua) with its ledger of seen jobs, the pending actions     *)
(* that wait for their target to be loaded (PendingActions.lua), and the   *)
(* receipts the exporter reads back from the game's log (twrlog.go).       *)
(*                                                                         *)
(* The exporter, the game server and the players who load chunks are       *)
(* separate actors.  The exporter can fail or crash between any two        *)
(* statements; the game can be restarted cleanly, or crash and come back   *)
(* with the world and the Lua state of its last save.                      *)
(*                                                                         *)
(* An operator A_B is a faulty variant of A, kept to show that the runs    *)
(* tell the two apart; no specification uses it.                           *)
(***************************************************************************)
EXTENDS Naturals

CONSTANTS
  Jobs,          \* the twr_jobs rows
  Rejected,      \* jobs whose file fails the poller's validation
  MaxFaults      \* bound on everything that goes wrong in a behaviour: failed
                 \* statements and writes, exporter crashes, lost log lines,
                 \* restarts and crashes of the game server

ASSUME JobsAssumption ==
  Rejected \subseteq Jobs /\ MaxFaults \in Nat

Valid == Jobs \ Rejected

VARIABLES
  status,      \* twr_jobs.status, "none" before the row exists
  attempt,     \* result of the job's twr_job_attempts row
  at,          \* statement of qdTick the dispatcher is at
  work,        \* jobs its current loop still has to handle
  inbox,       \* jobs with a file inbox/job-<id>.txt
  manifest,    \* jobs listed in manifest.txt
  polled,      \* jobs the Lua poll in progress still has to process
  seen,        \* the ledger twr_quest_job_seen
  pending,     \* number of pending actions of each job
  loaded,      \* valid jobs whose target square is loaded
  swept,       \* has the boot sweep run?
  effect,      \* number of times the job's change is present in the world
  saved,       \* [seen, pending, effect] of the last save
  log,         \* lines of ThoseWhoRemainLog not yet passed by the checkpoint
  happened,    \* history: jobs whose change was made at some time
  faults,      \* failures of the exporter and clean restarts of the game so far
  lost,        \* callbacks some of whose log lines could not be written so far
  crashes      \* crashes of the game so far

db == <<status, attempt>>
dispatcher == <<at, work>>
files == <<inbox, manifest>>
lua == <<polled, seen, pending, loaded, swept>>
world == <<effect, happened, saved>>
budget == <<faults, lost, crashes>>
vars == <<db, dispatcher, files, lua, world, log, budget>>

Results == {"applied", "final_error"}
Line == [job : Jobs, result : Results \cup {"accepted"}]
Statuses == {"none", "QUEUED", "DISPATCHED", "WAITING_WORLD", "APPLIED"}

TypeOK ==
  /\ status \in [Jobs -> Statuses]
  /\ attempt \in [Jobs -> {"none"} \cup Results]
  /\ at \in {"idle", "renewing", "writing", "publish"}
  /\ work \subseteq Jobs /\ inbox \subseteq Jobs /\ manifest \subseteq Jobs
  /\ polled \subseteq Jobs /\ seen \subseteq Jobs
  /\ pending \in [Jobs -> Nat]
  /\ loaded \subseteq Valid /\ swept \in BOOLEAN
  /\ effect \in [Jobs -> Nat] /\ happened \subseteq Jobs
  /\ saved \in [seen : SUBSET Jobs, pending : [Jobs -> Nat], effect : [Jobs -> Nat]]
  /\ log \subseteq Line
  /\ faults \in Nat /\ lost \in Nat /\ crashes \in Nat

\* One more thing may go wrong.
Affordable == faults + lost + crashes < MaxFaults

Init ==
  /\ status = [j \in Jobs |-> "none"]
  /\ attempt = [j \in Jobs |-> "none"]
  /\ at = "idle" /\ work = {} /\ inbox = {} /\ manifest = {}
  /\ polled = {} /\ seen = {} /\ pending = [j \in Jobs |-> 0]
  /\ loaded \in SUBSET Valid /\ swept = FALSE
  /\ effect = [j \in Jobs |-> 0] /\ happened = {}
  /\ saved = [seen |-> {}, pending |-> pending, effect |-> effect]
  /\ log = {} /\ faults = 0 /\ lost = 0 /\ crashes = 0

-----------------------------------------------------------------------------
(* The quest engine's side of the rows.                                    *)

\* qeTriggerStep creates a batch of QUEUED rows.
CreateJobs(S) ==
  /\ S # {} /\ \A j \in S : status[j] = "none"
  /\ status' = [j \in Jobs |-> IF j \in S THEN "QUEUED" ELSE status[j]]
  /\ UNCHANGED <<attempt, dispatcher, files, lua, world, log, budget>>

\* qeReconcileAppliedJobs: its attempt row makes a job APPLIED, from
\* whatever status it is in.
ProvenJobs_AnyResult == {j \in Jobs : attempt[j] # "none" /\ status[j] # "APPLIED"}
ProvenJobs == {j \in Jobs : attempt[j] = "applied" /\ status[j] # "APPLIED"}

Reconcile ==
  /\ ProvenJobs # {}
  /\ status' = [j \in Jobs |-> IF j \in ProvenJobs THEN "APPLIED" ELSE status[j]]
  /\ UNCHANGED <<attempt, dispatcher, files, lua, world, log, budget>>

-----------------------------------------------------------------------------
(* The dispatcher: qdTick.                                                 *)

Dispatched == {j \in Jobs : status[j] = "DISPATCHED"}

\* qdWriteJobFile: the file of j appears by a rename, whole or not at all; a
\* second write replaces it by an equal one.
InboxWith(j) == inbox \cup {j}

\* qdRedispatchStaleLeases: the jobs whose lease has expired are selected.
\* Time is not modelled: dispatched_at may be old enough for any of them.
SelectStale(expired) ==
  /\ at = "idle" /\ expired \subseteq Dispatched
  /\ work' = expired
  /\ at' = "renewing"
  /\ UNCHANGED <<db, files, lua, world, log, budget>>

\* Each is written again and, if still DISPATCHED, gets a new lease.
Renew(j) ==
  /\ at = "renewing" /\ j \in work
  /\ inbox' = InboxWith(j)
  /\ work' = work \ {j}
  /\ UNCHANGED <<db, at, manifest, lua, world, log, budget>>

\* qdDispatchQueuedJobs: all QUEUED rows are claimed in one transaction, and
\* the files are written after it has committed.
Claim ==
  /\ at = "renewing" /\ work = {}
  /\ LET queued == {j \in Jobs : status[j] = "QUEUED"}
     IN  /\ work' = queued
         /\ status' = [j \in Jobs |-> IF j \in queued THEN "DISPATCHED" ELSE status[j]]
  /\ at' = "writing"
  /\ UNCHANGED <<attempt, files, lua, world, log, budget>>

WriteJobFile(j) ==
  /\ at = "writing" /\ j \in work
  /\ inbox' = InboxWith(j)
  /\ work' = work \ {j}
  /\ UNCHANGED <<db, at, manifest, lua, world, log, budget>>

\* A write that fails is logged; the job waits for its lease to expire.
WriteFails(j) ==
  /\ at \in {"renewing", "writing"} /\ j \in work /\ Affordable
  /\ faults' = faults + 1
  /\ work' = work \ {j}
  /\ UNCHANGED <<db, at, files, lua, world, log, lost, crashes>>

\* qdPublishManifest: the rows are read, then the file is replaced.
ListDispatched ==
  /\ at = "writing" /\ work = {}
  /\ work' = Dispatched
  /\ at' = "publish"
  /\ UNCHANGED <<db, files, lua, world, log, budget>>

Publish ==
  /\ at = "publish"
  /\ manifest' = work
  /\ work' = {} /\ at' = "idle"
  /\ UNCHANGED <<db, inbox, lua, world, log, budget>>

\* A failed statement ends the tick, a crash the process; the rows stay as
\* they are and the next tick starts over.  A lease that was being renewed may
\* have had its file written.
TickAborted ==
  /\ at # "idle" /\ Affordable
  /\ faults' = faults + 1
  /\ at' = "idle" /\ work' = {}
  /\ inbox' \in {inbox} \cup {InboxWith(j) : j \in IF at = "renewing" THEN work ELSE {}}
  /\ UNCHANGED <<db, manifest, lua, world, log, lost, crashes>>

-----------------------------------------------------------------------------
(* The game server: TWR.QuestEngine and TWR.PendingActions.  Lua callbacks  *)
(* run one after the other, so nothing else of the game happens while a    *)
(* poll has jobs left (Quiet), except that the process may die.            *)

Quiet == polled = {}

\* TWR.Emit.jobResult for a set of lines: writeLog may fail for some, which
\* is printed and otherwise ignored.  A line equal to one that is still to be
\* read adds nothing, since both handlers of the exporter are idempotent.
Emit(lines) ==
  \E failed \in SUBSET lines :
    /\ failed # {} => Affordable
    /\ lost' = IF failed = {} THEN lost ELSE lost + 1
    /\ log' = log \cup (lines \ failed)

\* resolvePendingObject for every pending action of the jobs of S: the
\* resolver changes the world or gives a final error, the outcome is emitted
\* together with the lines `more`, and the pending action is removed.
\* `waiting` is the number of pending actions before.
Resolve(S, waiting, more) ==
  \E outcome \in [S -> Results] :
    LET done == {j \in S : outcome[j] = "applied"}
    IN  /\ effect' = [j \in Jobs |-> IF j \in done THEN effect[j] + waiting[j] ELSE effect[j]]
        /\ happened' = happened \cup done
        /\ pending' = [j \in Jobs |-> IF j \in S THEN 0 ELSE waiting[j]]
        /\ Emit({[job |-> j, result |-> outcome[j]] : j \in S} \cup more)

Accepted(j) == [job |-> j, result |-> "accepted"]

\* pollDispatch reads the manifest ...
Poll ==
  /\ Quiet /\ manifest # {}
  /\ polled' = manifest
  /\ UNCHANGED <<db, dispatcher, files, seen, pending, loaded, swept, world, log, budget>>

\* ... and processes its jobs.  A file that is missing or rejected is skipped.
SkipFile(j) ==
  /\ j \in polled /\ j \notin inbox \cap Valid
  /\ polled' = polled \ {j}
  /\ UNCHANGED <<db, dispatcher, files, seen, pending, loaded, swept, world, log, budget>>

\* jobAlreadySeen looks into the ledger, which nothing is removed from.
AlreadySeen(j) == j \in seen

\* A job in the ledger only has its receipt emitted again.
RepeatedReceipt_None(j) == {}
RepeatedReceipt(j) == {Accepted(j)}

RepeatReceipt(j) ==
  /\ j \in polled /\ j \in inbox \cap Valid /\ AlreadySeen(j)
  /\ polled' = polled \ {j}
  /\ Emit(RepeatedReceipt(j))
  /\ UNCHANGED <<db, dispatcher, files, seen, pending, loaded, swept, world, faults, crashes>>

\* The resolution inside request(), for a target that is loaded already.
Immediate(j) == {j} \cap loaded

\* A new one becomes a pending action, which is resolved on the spot if the
\* target square is loaded; then it enters the ledger and is acknowledged.
RequestAction(j) ==
  /\ j \in polled /\ j \in inbox \cap Valid /\ ~ AlreadySeen(j)
  /\ polled' = polled \ {j}
  /\ seen' = seen \cup {j}
  /\ Resolve(Immediate(j), [pending EXCEPT ![j] = @ + 1], {Accepted(j)})
  /\ UNCHANGED <<db, dispatcher, files, loaded, swept, saved, faults, crashes>>

\* OnChunkLoaded: only the transition to loaded resolves what is pending.
TargetLoaded(j) ==
  /\ Quiet /\ j \notin loaded
  /\ loaded' = loaded \cup {j}
  /\ Resolve({k \in {j} : pending[k] > 0}, pending, {})
  /\ UNCHANGED <<db, dispatcher, files, polled, seen, swept, saved, faults, crashes>>

TargetUnloaded(j) ==
  /\ Quiet /\ j \in loaded
  /\ loaded' = loaded \ {j}
  /\ UNCHANGED <<db, dispatcher, files, polled, seen, pending, swept, world, log, budget>>

\* sweepPendingOnBoot: once after boot, for targets that were loaded before
\* the system could hear of it.
SweepOnBoot ==
  /\ Quiet /\ ~ swept
  /\ swept' = TRUE
  /\ Resolve({j \in loaded : pending[j] > 0}, pending, {})
  /\ UNCHANGED <<db, dispatcher, files, polled, seen, loaded, saved, faults, crashes>>

\* What outlives the process: the two global object systems and the map.
OnDisk_NoActions == [seen |-> seen, pending |-> [j \in Jobs |-> 0], effect |-> effect]
OnDisk == [seen |-> seen, pending |-> pending, effect |-> effect]

\* The game saves its global objects and its map together.  A save that no
\* crash can follow any more is left out.
Save ==
  /\ Quiet /\ Affordable
  /\ saved' = OnDisk
  /\ UNCHANGED <<db, dispatcher, files, lua, effect, happened, log, budget>>

\* The server comes up with the state `from`; some targets are resident
\* before Lua listens.
Boot(from) ==
  /\ polled' = {} /\ swept' = FALSE /\ loaded' \in SUBSET Valid
  /\ seen' = from.seen /\ pending' = from.pending /\ effect' = from.effect
  /\ saved' = from
  /\ UNCHANGED <<db, dispatcher, files, happened, log, lost>>

GameRestart ==
  /\ Quiet /\ Affordable
  /\ faults' = faults + 1
  /\ Boot(OnDisk)
  /\ UNCHANGED crashes

GameCrash ==
  /\ Affordable
  /\ crashes' = crashes + 1
  /\ Boot(saved)
  /\ UNCHANGED faults

-----------------------------------------------------------------------------
(* The exporter reads the log: pollTWROnce, one line at a time.  The line  *)
(* is read again if the process dies before its checkpoint is stored.  The *)
(* order of the lines is left open: the handlers do not depend on it.      *)

Read(l) ==
  /\ l \in log
  /\ \/ log' = log \ {l} /\ UNCHANGED budget
     \/ log' = log /\ Affordable /\ faults' = faults + 1 /\ UNCHANGED <<lost, crashes>>

AcceptedStatus_Result == "accepted"
AcceptedStatus == "WAITING_WORLD"

\* handleTWRJobAccepted.
ReadAccepted(l) ==
  /\ Read(l) /\ l.result = "accepted"
  /\ status' = IF status[l.job] = "DISPATCHED" THEN [status EXCEPT ![l.job] = AcceptedStatus]
                                               ELSE status
  /\ UNCHANGED <<attempt, dispatcher, files, lua, world>>

\* handleTWRJobResult: ON CONFLICT DO NOTHING keeps the first row.
ReadResult(l) ==
  /\ Read(l) /\ l.result # "accepted"
  /\ attempt' = IF attempt[l.job] = "none" THEN [attempt EXCEPT ![l.job] = l.result] ELSE attempt
  /\ UNCHANGED <<status, dispatcher, files, lua, world>>

-----------------------------------------------------------------------------

DispatchStep ==
  \/ \E expired \in SUBSET Jobs : SelectStale(expired)
  \/ Claim \/ ListDispatched \/ Publish
  \/ \E j \in Jobs : Renew(j) \/ WriteJobFile(j)

PollStep == Poll \/ \E j \in Jobs : SkipFile(j) \/ RepeatReceipt(j) \/ RequestAction(j)

ReadStep == \E l \in log : (ReadAccepted(l) \/ ReadResult(l))

Next ==
  \/ \E S \in SUBSET Jobs : CreateJobs(S)
  \/ Reconcile
  \/ DispatchStep
  \/ \E j \in Jobs : WriteFails(j)
  \/ TickAborted
  \/ PollStep
  \/ \E j \in Valid : TargetLoaded(j) \/ TargetUnloaded(j)
  \/ SweepOnBoot \/ Save \/ GameRestart \/ GameCrash
  \/ ReadStep

Spec == Init /\ [][Next]_vars

\* The tickers keep firing, minutes keep passing in the game, and the lease of
\* a job that stays DISPATCHED expires again and again.  What the game does
\* between two polls it does in the end, although every poll holds it up.
Fairness ==
  /\ WF_vars(DispatchStep)
  /\ \A j \in Valid : /\ SF_vars(\E expired \in SUBSET Jobs : j \in expired /\ SelectStale(expired))
  /\ WF_vars(PollStep)
  /\ SF_vars(SweepOnBoot)
  /\ \A l \in {m \in Line : m.job \in Valid} : WF_vars(ReadAccepted(l) \/ ReadResult(l))
  /\ WF_vars(Reconcile)

\* Players come to every target that is not loaded; once there they may stay
\* for ever.
Visits == \A j \in Valid : SF_vars(TargetLoaded(j))

FairSpec == Spec /\ Fairness /\ Visits

-----------------------------------------------------------------------------
(* Safety.                                                                 *)

ResultLine(j, r) == [job |-> j, result |-> r]
Known(j) == status[j] \notin {"none", "QUEUED"}

\* One of three things is true of a job: it was never requested, one action is
\* pending for it, or it was resolved, once.
OnceInv(j, ledger, waiting, present) ==
  /\ j \notin ledger => waiting = 0 /\ present = 0
  /\ waiting + present <= 1
  /\ present = 1 => j \in happened

\* The ledger, the pending actions and the world agree on that, in the running
\* game and in its last save, so that neither a repeated delivery nor a reload
\* of the save applies a job twice (QuestEngine.lua: 38 duplicate spawns).
WorldOnce ==
  \A j \in Jobs : /\ OnceInv(j, seen, pending[j], effect[j])
                  /\ OnceInv(j, saved.seen, saved.pending[j], saved.effect[j])
                  /\ saved.effect[j] <= effect[j]

\* No job gets ahead of the database: what the dispatch directory, the game
\* server or the log knows of, the database has dispatched ...
DispatchedFirst ==
  /\ \A j \in work \cup inbox \cup manifest \cup polled \cup seen \cup saved.seen : Known(j)
  /\ \A j \in Jobs : attempt[j] # "none" => Known(j)
  /\ \A l \in log : Known(l.job)

\* ... and what the log or the database calls applied, the world has seen.
AppliedHappened ==
  /\ \A l \in log : l.result = "applied" => l.job \in happened
  /\ \A j \in Jobs : attempt[j] = "applied" => j \in happened
  /\ \A j \in Jobs : status[j] = "APPLIED" => attempt[j] = "applied"

\* The three together, which need one another to be inductive.
DeliveryInv == WorldOnce /\ DispatchedFirst /\ AppliedHappened

\* A job the database no longer announces is in somebody's hands: an action
\* is pending for it, or its outcome is in the log or in the database; and
\* what is APPLIED is in the world.
Held(j) ==
  \/ pending[j] > 0 \/ attempt[j] # "none"
  \/ \E r \in Results : ResultLine(j, r) \in log

\* No job has fallen out of everybody's hands.
InHands ==
  /\ \A j \in Jobs : status[j] = "WAITING_WORLD" => Held(j)
  /\ \A j \in Jobs : status[j] = "APPLIED" => effect[j] = 1

\* Why that is so: the ledger only holds jobs that are in somebody's hands, a
\* receipt only speaks of jobs in the ledger, and no change is undone.
HoldInv == lost = 0 /\ crashes = 0 =>
  /\ \A j \in seen : Held(j)
  /\ \A j \in Jobs : status[j] = "WAITING_WORLD" => j \in seen
  /\ \A l \in log : l.result = "accepted" => l.job \in seen
  /\ \A j \in happened : effect[j] = 1

\* Clean restarts, failed writes and crashes of the exporter lose no job, as
\* long as the game does not crash and no log line is lost.
NoJobLost == lost = 0 /\ crashes = 0 => InHands

\* A job whose file the poller refuses (processJobFile) gets no further than
\* DISPATCHED: nothing is done for it, no line of the log speaks of it, and so
\* its step never completes, however often its lease is renewed.
RejectedUntouched ==
  /\ \A j \in Rejected : /\ j \notin seen \cup saved.seen \cup happened
                         /\ attempt[j] = "none" /\ status[j] \notin {"WAITING_WORLD", "APPLIED"}
  /\ \A l \in log : l.job \notin Rejected

\* The transport implements the abstract lifecycle: at most one effect per
\* job, none before its dispatch, APPLIED only after it; a receipt is no result,
\* and the first result is kept (handleTWRJobResult, runTWRLogPipeline).
Lifecycle == INSTANCE JobLifecycle WITH Jobs <- Jobs, status <- status, attempt <- attempt,
                                        effect <- effect, happened <- happened
ImplementsLifecycle == Lifecycle!Spec

-----------------------------------------------------------------------------
(* Liveness.                                                               *)

\* Whatever is lost, repeated, restarted or crashed on the way: a valid job is
\* accepted in the end (the lease and the repeated receipt see to it).
Delivered ==
  \A j \in Valid : status[j] = "QUEUED" ~> status[j] \in {"WAITING_WORLD", "APPLIED"}

\* ... and if no line is lost and the game does not crash, it gets a result.
Resolved ==
  \A j \in Valid : status[j] = "QUEUED" ~> (attempt[j] \in Results \/ lost > 0 \/ crashes > 0)

\* Both: a job of the queue comes to an end, also next to one that is rejected.
EveryJobEnds == Delivered /\ Resolved
=============================================================================
