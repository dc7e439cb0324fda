----------------------------- MODULE QuestSystem -----------------------------
(***************************************************************************)
(* The quest engine and the transport of its jobs, put together: the two   *)
(* meet in the rows of twr_jobs and twr_job_attempts and in nothing else.  *)
(* What QuestEngine leaves to its Env actions is done here by the          *)
(* dispatcher, the game server and the reader of its log; what JobDelivery *)
(* leaves to CreateJobs and Reconcile is done by the engine.               *)
(*                                                                         *)
(* Engine, dispatcher and log reader are goroutines of one process, so     *)
(* that they stop together.  The instance is of the module that holds the  *)
(* transport's theorems, which the proofs about the whole make use of.     *)
(***************************************************************************)
EXTENDS QuestEngine

CONSTANT Rejected   \* jobs whose file fails the poller's validation

\* The transport's own variables; `statement` and `failures` are its `at` and
\* `faults`.
VARIABLES
  statement, work, inbox, manifest, polled, seen, pending, loaded, swept,
  effect, saved, log, happened, failures, lost, crashes

Transport == INSTANCE JobDeliveryProofs WITH at <- statement, faults <- failures

transportVars == <<statement, work, inbox, manifest, polled, seen, pending, loaded, swept,
                   effect, saved, log, happened, failures, lost, crashes>>
engineVars == <<step, trig, armedAt, quest, signals, cursor, local, faults>>
systemVars == <<vars, transportVars>>

SystemTypeOK == TypeOK /\ Transport!TypeOK

SystemInit == Init /\ Transport!Init

-----------------------------------------------------------------------------

\* A statement of the engine.
EngineMoves ==
  /\ EngineStep \/ Error \/ \E g \in Signal : PollSignal(g)
  /\ UNCHANGED transportVars

\* The other two goroutines of the exporter, which are there while it runs ...
ExporterMoves ==
  /\ phase # "down"
  /\ \/ Transport!DispatchStep \/ Transport!ReadStep \/ Transport!TickAborted
     \/ \E j \in Jobs : Transport!WriteFails(j)
  /\ UNCHANGED engineVars

\* ... and the game server and its players, who are always there.
GameMoves ==
  /\ \/ Transport!PollStep \/ Transport!SweepOnBoot
     \/ \E j \in Transport!Valid : Transport!TargetLoaded(j) \/ Transport!TargetUnloaded(j)
     \/ Transport!Save \/ Transport!GameRestart \/ Transport!GameCrash
  /\ UNCHANGED engineVars

\* The exporter stops: the tick of the engine and that of the dispatcher end
\* where they are.
ExporterStops ==
  /\ Crash
  /\ \/ Transport!TickAborted
     \/ statement = "idle" /\ UNCHANGED transportVars

SystemNext == EngineMoves \/ ExporterMoves \/ GameMoves \/ ExporterStops

SystemSpec == SystemInit /\ [][SystemNext]_systemVars

-----------------------------------------------------------------------------

\* What neither part can say alone.  A step is completed only when each of its
\* jobs has changed the world, and none of them was one that the game refuses;
\* the changes are still there, once each, unless the game crashed or a line of
\* its log was lost.  A quest is completed only when a last step of it is
\* (all_actions; pending-job-durability: a step waits for what the world says).
QuestInWorld ==
  /\ \A j \in Jobs : step[StepOf[j]] = "completed" =>
       /\ j \in happened /\ j \notin Rejected
       /\ lost = 0 /\ crashes = 0 => effect[j] = 1
  /\ \A q \in Quests : quest[q] = "completed" =>
       \E s \in Steps : QuestOf[s] = q /\ step[s] = "completed" /\ \A t \in Steps : <<s, t>> \notin Edges

\* The other way round: the world never changes ahead of the quest.  A change
\* was made for a step that has triggered, on account of a stored signal that
\* justifies it or as an activation step; and unless it is one of those, all
\* the changes of a step before it had been made by then.  This holds across
\* crashes of the game as well, although they undo changes.
WorldInOrder ==
  \A j \in happened :
    LET s == StepOf[j]
    IN  /\ step[s] \in {"resolving", "completed"}
        /\ TriggerType[s] # Activation =>
             /\ trig[s] \in 1..Len(signals) /\ Matches(s, signals[trig[s]])
             /\ \E p \in Predecessors(s) : JobsOf(p) \subseteq happened \ Rejected

\* The engine sees of the transport only what its Env actions allow, and the
\* transport of the engine only CreateJobs and Reconcile: the theorems about
\* either part hold in the whole.
PartsKept == Spec /\ Transport!Spec
=============================================================================
