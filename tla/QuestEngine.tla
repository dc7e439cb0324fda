---------------------------- MODULE QuestEngine ----------------------------
(***************************************************************************)
(* The Go quest engine (questengine.go): one goroutine that, every tick,   *)
(* makes signals of what the players did, arms and triggers the            *)
(* campaign-activation steps, matches new twr_signals rows against armed   *)
(* steps, and turns proven jobs into completed steps.                      *)
(*                                                                         *)
(* Every action is one SQL statement or one transaction of that goroutine, *)
(* so that a crash, a cancelled context or a database error can fall       *)
(* between any two of them.  A read that only this goroutine could         *)
(* invalidate is part of the action that uses it.  What the other          *)
(* goroutines do to the rows the engine reads (the dispatch and the        *)
(* acceptance of a job, the attempt row of a result) is stated by the Env  *)
(* actions; JobDelivery models the code behind them.                       *)
(*                                                                         *)
(* An operator A_B is a faulty variant of A, kept to show that the runs    *)
(* tell the two apart; no specification uses it.                           *)
(***************************************************************************)
EXTENDS Integers, Sequences, FiniteSets

CONSTANTS
  Steps,        \* step instances
  Quests,       \* quest instances
  Jobs,         \* the rows twr_jobs can hold: one per (step, action definition)
  Players,      \* steam ids
  World,        \* the scope of a world quest, and the steam id of nobody
  SignalTypes,  \* trigger types a signal can have
  Payloads,     \* what a signal's payload can say
  QuestOf,      \* step -> quest
  TriggerType,  \* step -> signal type, or "campaign_activation"
  Edges,        \* pairs <<from, to>> of the success edges
  StepOf,       \* job -> step
  ScopeRef,     \* quest -> the player it is scoped to, or World
  Conditions,   \* step -> set of [accepts, known, negate]
  MaxSignals,   \* bound on the signals of a behaviour
  MaxFaults     \* bound on crashes plus database errors of a behaviour

Activation == "campaign_activation"
JobsOf(s) == {j \in Jobs : StepOf[j] = s}
Successors_Reversed(s) == {t \in Steps : <<t, s>> \in Edges}
Successors(s) == {t \in Steps : <<s, t>> \in Edges}
Predecessors(s) == {p \in Steps : <<p, s>> \in Edges}
Signal == [type : SignalTypes, steam : Players \cup {World}, payload : Payloads]
Condition == [accepts : SUBSET Payloads, known : BOOLEAN, negate : BOOLEAN]

ASSUME ConstantTypes ==
  /\ QuestOf \in [Steps -> Quests]
  /\ TriggerType \in [Steps -> SignalTypes \cup {Activation}]
  /\ Edges \subseteq Steps \X Steps
  /\ StepOf \in [Jobs -> Steps]
  /\ ScopeRef \in [Quests -> Players \cup {World}]
  /\ Conditions \in [Steps -> SUBSET Condition]
  /\ MaxSignals \in Nat /\ MaxFaults \in Nat

\* An activation trigger is not a signal type, nobody is not a player, and an
\* edge stays inside one quest definition.
ASSUME ConstantShape ==
  /\ Activation \notin SignalTypes
  /\ World \notin Players
  /\ \A e \in Edges : QuestOf[e[1]] = QuestOf[e[2]]

VARIABLES
  step,       \* twr_step_instances.state
  trig,       \* twr_step_instances.trigger_signal_id, 0 for NULL
  armedAt,    \* twr_step_instances.armed_at, as the number of signals then
  quest,      \* twr_quest_instances.state
  status,     \* twr_jobs.status, "none" before the row exists
  attempt,    \* result of the job's twr_job_attempts row, "none" without one
  signals,    \* twr_signals in id order
  cursor,     \* twr_signal_cursors.last_id of source "evaluator"
  phase,      \* the function of qeTick being run, "idle" or "down"
  at,         \* the statement it is at
  todo,       \* steps its loop still has to visit
  cur,        \* the step being triggered or advanced, a set of at most one
  adv,        \* successors qeAdvanceAfterCompletion still has to arm
  sig,        \* signal being evaluated
  last,       \* last signal of the batch
  faults      \* crashes and errors so far

db == <<step, trig, armedAt, quest, status, attempt, signals, cursor>>
local == <<phase, at, todo, cur, adv, sig, last>>
vars == <<db, local, faults>>

TypeOK ==
  /\ step \in [Steps -> {"locked", "armed", "resolving", "completed"}]
  /\ trig \in [Steps -> Nat]
  /\ armedAt \in [Steps -> Nat]
  /\ quest \in [Quests -> {"active", "completed"}]
  /\ status \in [Jobs -> {"none", "QUEUED", "DISPATCHED", "WAITING_WORLD", "APPLIED"}]
  /\ attempt \in [Jobs -> {"none", "applied", "final_error"}]
  /\ signals \in Seq(Signal)
  /\ cursor \in Nat
  /\ phase \in {"down", "idle", "poll", "arm", "eval", "recon"}
  /\ at \in {"query", "loop", "trigger", "signal", "advance", "arming"}
  /\ todo \subseteq Steps /\ cur \subseteq Steps /\ adv \subseteq Steps
  /\ sig \in Nat /\ last \in Nat /\ faults \in Nat

Init ==
  /\ step = [s \in Steps |-> "locked"]
  /\ trig = [s \in Steps |-> 0]
  /\ armedAt = [s \in Steps |-> 0]
  /\ quest = [q \in Quests |-> "active"]
  /\ status = [j \in Jobs |-> "none"]
  /\ attempt = [j \in Jobs |-> "none"]
  /\ signals = <<>> /\ cursor = 0
  /\ phase = "recon" /\ at = "query"
  /\ todo = {} /\ cur = {} /\ adv = {} /\ sig = 0 /\ last = 0 /\ faults = 0

-----------------------------------------------------------------------------
(* Control of a tick.                                                      *)

Goto(p, l) == phase' = p /\ at' = l
NextPhase(p) == CASE p = "poll" -> "arm" [] p = "arm" -> "eval" [] p = "eval" -> "recon"
                  [] OTHER -> "idle"

\* A function of the tick returns: the next one starts with no locals.
Return ==
  /\ Goto(NextPhase(phase), "query")
  /\ todo' = {} /\ cur' = {} /\ adv' = {} /\ sig' = 0 /\ last' = 0

Tick ==
  /\ phase = "idle"
  /\ Goto("poll", "query")
  /\ UNCHANGED <<db, todo, cur, adv, sig, last, faults>>

\* A statement fails: the error goes up to qeTick, which logs it and calls
\* the next function.
Error ==
  /\ phase \in {"poll", "arm", "eval", "recon"} /\ faults < MaxFaults
  /\ faults' = faults + 1
  /\ Return
  /\ UNCHANGED db

\* The process dies (or its context is cancelled): only the rows survive.
Crash ==
  /\ phase # "down" /\ faults < MaxFaults
  /\ faults' = faults + 1
  /\ Goto("down", "query")
  /\ todo' = {} /\ cur' = {} /\ adv' = {} /\ sig' = 0 /\ last' = 0
  /\ UNCHANGED db

\* runQuestEnginePipeline: one reconciliation before the first tick.
Restart ==
  /\ phase = "down"
  /\ Goto("recon", "query")
  /\ UNCHANGED <<db, todo, cur, adv, sig, last, faults>>

-----------------------------------------------------------------------------
(* qePollSleepSignals and qePollMediaPlaybackSignals, in one phase: what    *)
(* the players did meanwhile is left open, and the dedupe key of a signal  *)
(* makes one signal of each event, however often the poll is interrupted.  *)

PollSignal(g) ==
  /\ phase = "poll"
  /\ Len(signals) < MaxSignals
  /\ signals' = Append(signals, g)
  /\ UNCHANGED <<step, trig, armedAt, quest, status, attempt, cursor, local, faults>>

PollDone ==
  /\ phase = "poll"
  /\ Return
  /\ UNCHANGED <<db, faults>>

-----------------------------------------------------------------------------
(* Triggering a step and advancing the graph.                              *)

\* The rows after the transaction has inserted the batch of step s.
WithBatch_OtherStatus(s) ==
  [j \in Jobs |-> IF StepOf[j] = s /\ status[j] = "none" THEN "PENDING" ELSE status[j]]
WithBatch_OneJob(s) == [status EXCEPT ![CHOOSE j \in JobsOf(s) : TRUE] = "QUEUED"]
WithBatch(s) ==
  [j \in Jobs |-> IF StepOf[j] = s /\ status[j] = "none" THEN "QUEUED" ELSE status[j]]

\* qeTriggerStep's transaction for step s and signal i (0: none); `rest` is
\* what the caller's loop has left.  A step that is no longer armed is left
\* alone; one without actions completes and is advanced after the commit; the
\* others get their whole batch of QUEUED jobs.
TriggerStep(s, i, rest) ==
  /\ todo' = rest
  /\ IF step[s] # "armed"
       THEN /\ UNCHANGED <<step, trig, status>>
            /\ at' = "loop" /\ cur' = {}
       ELSE /\ trig' = [trig EXCEPT ![s] = i]
            /\ IF JobsOf(s) = {}
                 THEN /\ step' = [step EXCEPT ![s] = "completed"]
                      /\ at' = "advance" /\ cur' = {s}
                      /\ UNCHANGED status
                 ELSE /\ step' = [step EXCEPT ![s] = "resolving"]
                      /\ status' = WithBatch(s)
                      /\ at' = "loop" /\ cur' = {}
  /\ UNCHANGED <<armedAt, quest, attempt, signals, cursor, phase, adv, sig, last, faults>>

\* qeAdvanceAfterCompletion: the last step of a quest completes the quest,
\* any other one has its successors armed, one UPDATE each.
Advance(s) ==
  /\ at = "advance" /\ s \in cur
  /\ cur' = {}
  /\ IF Successors(s) = {}
       THEN quest' = [quest EXCEPT ![QuestOf[s]] = "completed"] /\ at' = "loop" /\ UNCHANGED adv
       ELSE adv' = Successors(s) /\ at' = "arming" /\ UNCHANGED quest
  /\ UNCHANGED <<step, trig, armedAt, status, attempt, signals, cursor, phase, todo, sig, last, faults>>

ArmSuccessor(t) ==
  /\ at = "arming" /\ t \in adv
  /\ adv' = adv \ {t}
  /\ at' = IF adv = {t} THEN "loop" ELSE "arming"
  /\ IF step[t] = "locked"
       THEN /\ step' = [step EXCEPT ![t] = "armed"]
            /\ armedAt' = [armedAt EXCEPT ![t] = Len(signals)]
       ELSE UNCHANGED <<step, armedAt>>
  /\ UNCHANGED <<trig, quest, status, attempt, signals, cursor, phase, todo, cur, sig, last, faults>>

-----------------------------------------------------------------------------
(* qeArmCampaignActivationSteps.                                           *)

ActivationSteps_AnyTrigger ==
  {s \in Steps : step[s] \in {"locked", "armed"} /\ quest[QuestOf[s]] = "active"}
ActivationSteps ==
  {s \in Steps : /\ step[s] \in {"locked", "armed"}
                 /\ TriggerType[s] = Activation
                 /\ quest[QuestOf[s]] = "active"}

ArmQuery ==
  /\ phase = "arm" /\ at = "query"
  /\ todo' = ActivationSteps
  /\ at' = "loop"
  /\ UNCHANGED <<db, phase, cur, adv, sig, last, faults>>

ArmLocked(s) ==
  /\ phase = "arm" /\ at = "loop" /\ s \in todo /\ step[s] = "locked"
  /\ step' = [step EXCEPT ![s] = "armed"]
  /\ armedAt' = [armedAt EXCEPT ![s] = Len(signals)]
  /\ todo' = todo \ {s} /\ cur' = {s} /\ at' = "trigger"
  /\ UNCHANGED <<trig, quest, status, attempt, signals, cursor, phase, adv, sig, last, faults>>

TriggerActivated(s) ==
  /\ phase = "arm"
  /\ \/ at = "trigger" /\ s \in cur
     \/ at = "loop" /\ s \in todo /\ step[s] # "locked"
  /\ TriggerStep(s, 0, todo \ {s})

ArmDone ==
  /\ phase = "arm" /\ at = "loop" /\ todo = {}
  /\ Return
  /\ UNCHANGED <<db, faults>>

-----------------------------------------------------------------------------
(* qeEvaluateArmedSteps and qeEvaluateOneSignal.                           *)

\* An unrecognized condition type evaluates to false before the negation.
ConditionPasses(c, p) == (c.known /\ p \in c.accepts) # c.negate
ConditionsPass(s, p) == \A c \in Conditions[s] : ConditionPasses(c, p)

InScope(s, g) == ScopeRef[QuestOf[s]] \in {World, g.steam}

Matches(s, g) ==
  TriggerType[s] = g.type /\ InScope(s, g) /\ ConditionsPass(s, g.payload)

FirstUnread == cursor + 1

EvalQuery_CursorFirst ==
  /\ phase = "eval" /\ at = "query"
  /\ last' = Len(signals) /\ sig' = FirstUnread
  /\ cursor' = Len(signals)
  /\ at' = "signal"
  /\ UNCHANGED <<step, trig, armedAt, quest, status, attempt, signals, phase, todo, cur, adv, faults>>
EvalQuery ==
  /\ phase = "eval" /\ at = "query"
  /\ last' = Len(signals)
  /\ sig' = FirstUnread
  /\ at' = "signal"
  /\ UNCHANGED <<db, phase, todo, cur, adv, faults>>

\* The candidates are read before any of them is triggered.
Candidates_AnyScope(g) ==
  {s \in Steps : step[s] = "armed" /\ TriggerType[s] = g.type /\ ConditionsPass(s, g.payload)}
Candidates(g) == {s \in Steps : step[s] = "armed" /\ Matches(s, g)}

NextSignal ==
  /\ phase = "eval" /\ at = "signal" /\ sig <= last
  /\ todo' = Candidates(signals[sig])
  /\ at' = "loop"
  /\ UNCHANGED <<db, phase, cur, adv, sig, last, faults>>

TriggerMatched(s) ==
  /\ phase = "eval" /\ at = "loop" /\ s \in todo
  /\ TriggerStep(s, sig, todo \ {s})

SignalDone ==
  /\ phase = "eval" /\ at = "loop" /\ todo = {}
  /\ sig' = sig + 1 /\ at' = "signal"
  /\ UNCHANGED <<db, phase, todo, cur, adv, last, faults>>

\* The cursor moves once, after the whole batch.
SetCursor ==
  /\ phase = "eval" /\ at = "signal" /\ sig > last
  /\ cursor' = last
  /\ Return
  /\ UNCHANGED <<step, trig, armedAt, quest, status, attempt, signals, faults>>

-----------------------------------------------------------------------------
(* qeReconcileAppliedJobs and qeMaybeCompleteStep.                         *)

ProvenJobs == {j \in Jobs : attempt[j] = "applied" /\ status[j] \notin {"none", "APPLIED"}}

\* One UPDATE ... RETURNING: the steps of the jobs it changed are all the
\* function will look at.
ReconcileApplied ==
  /\ phase = "recon" /\ at = "query"
  /\ status' = [j \in Jobs |-> IF j \in ProvenJobs THEN "APPLIED" ELSE status[j]]
  /\ todo' = {StepOf[j] : j \in ProvenJobs}
  /\ at' = "loop"
  /\ UNCHANGED <<step, trig, armedAt, quest, attempt, signals, cursor, phase, cur, adv, sig, last, faults>>

\* all_actions: the batch exists and every job of it is APPLIED.
BatchApplied_AnyAction(s) == \E j \in JobsOf(s) : status[j] = "APPLIED"
BatchApplied(s) ==
  /\ \E j \in JobsOf(s) : status[j] # "none"
  /\ \A j \in JobsOf(s) : status[j] \in {"none", "APPLIED"}

MaybeComplete(s) ==
  /\ phase = "recon" /\ at = "loop" /\ s \in todo
  /\ todo' = todo \ {s}
  /\ IF step[s] = "resolving" /\ BatchApplied(s)
       THEN step' = [step EXCEPT ![s] = "completed"] /\ at' = "advance" /\ cur' = {s}
       ELSE UNCHANGED <<step, at, cur>>
  /\ UNCHANGED <<trig, armedAt, quest, status, attempt, signals, cursor, phase, adv, sig, last, faults>>

ReconcileDone ==
  /\ phase = "recon" /\ at = "loop" /\ todo = {}
  /\ Return
  /\ UNCHANGED <<db, faults>>

-----------------------------------------------------------------------------
(* The other goroutines, as far as the engine's rows show them.            *)

\* qdDispatchQueuedJobs claims every QUEUED job in one transaction.
EnvDispatch ==
  /\ \E j \in Jobs : status[j] = "QUEUED"
  /\ status' = [j \in Jobs |-> IF status[j] = "QUEUED" THEN "DISPATCHED" ELSE status[j]]
  /\ UNCHANGED <<step, trig, armedAt, quest, attempt, signals, cursor, local, faults>>

\* handleTWRJobAccepted.
EnvAccept(j) ==
  /\ status[j] = "DISPATCHED"
  /\ status' = [status EXCEPT ![j] = "WAITING_WORLD"]
  /\ UNCHANGED <<step, trig, armedAt, quest, attempt, signals, cursor, local, faults>>

\* handleTWRJobResult: the first result of a job is the one that is kept.
EnvAttempt(j, r) ==
  /\ status[j] \notin {"none", "QUEUED"} /\ attempt[j] = "none"
  /\ attempt' = [attempt EXCEPT ![j] = r]
  /\ UNCHANGED <<step, trig, armedAt, quest, status, signals, cursor, local, faults>>

-----------------------------------------------------------------------------

EngineStep ==
  \/ Tick \/ Restart \/ PollDone
  \/ ArmQuery \/ ArmDone
  \/ EvalQuery \/ NextSignal \/ SignalDone \/ SetCursor
  \/ ReconcileApplied \/ ReconcileDone
  \/ \E s \in Steps : \/ ArmLocked(s) \/ TriggerActivated(s)
                      \/ TriggerMatched(s) \/ MaybeComplete(s)
                      \/ Advance(s) \/ ArmSuccessor(s)

EnvStep ==
  \/ EnvDispatch
  \/ \E j \in Jobs : EnvAccept(j) \/ \E r \in {"applied", "final_error"} : EnvAttempt(j, r)

Next ==
  \/ EngineStep \/ Error \/ Crash \/ EnvStep
  \/ \E g \in Signal : PollSignal(g)

Spec == Init /\ [][Next]_vars

\* The ticker keeps firing and the process is restarted after a crash; the
\* faults are bounded, so from some point on every statement succeeds.
FairSpec == Spec /\ WF_vars(EngineStep)

-----------------------------------------------------------------------------
(* Safety.                                                                 *)

\* A step's jobs are created together by the transaction that leaves it
\* resolving, and only by it: no committed state shows part of a batch, a
\* batch of a step that has not triggered, or a resolving step without one.
\* (questengine.go: "must never create a second batch of jobs for the same
\* step_instance".)
BatchWithStep ==
  \A j \in Jobs : status[j] # "none" <=> step[StepOf[j]] \in {"resolving", "completed"}

\* A completed step has every job APPLIED, and every APPLIED job has the
\* attempt row that proves the world was changed (completion_policy
\* all_actions).
CompletedIsProven ==
  /\ \A j \in Jobs : step[StepOf[j]] = "completed" => status[j] = "APPLIED"
  /\ \A j \in Jobs : status[j] = "APPLIED" => attempt[j] = "applied"

\* Steps are unlocked in the order of the graph: one that is not an
\* activation step leaves "locked" only after a predecessor completed, at
\* whatever statement the engine was stopped.
UnlockedByPredecessor ==
  \A s \in Steps : step[s] # "locked" /\ TriggerType[s] # Activation =>
    \E p \in Predecessors(s) : step[p] = "completed"

\* A step that has left "armed" was either an activation step or triggered by
\* a stored signal of its trigger type, from a player its quest is scoped to,
\* that passes its conditions: no player's signal moves another player's
\* quest (qeEvaluateOneSignal, CGPT-G1-03).
TriggerJustified ==
  \A s \in Steps : step[s] \in {"resolving", "completed"} =>
    IF TriggerType[s] = Activation THEN trig[s] = 0
    ELSE trig[s] \in 1..Len(signals) /\ Matches(s, signals[trig[s]])

\* The evaluator cursor never passes a signal that a still armed step was
\* already waiting for when it arrived: wherever a batch is interrupted, the
\* signal is read again (qeEvaluateArmedSteps sets the cursor last).
NoSignalMissed ==
  \A s \in Steps : step[s] = "armed" =>
    \A i \in (armedAt[s] + 1)..cursor : ~ Matches(s, signals[i])

\* A quest is completed by a last step of its graph and by nothing else
\* (qeAdvanceAfterCompletion): no interrupted loop ends it early.
QuestEnded ==
  \A q \in Quests : quest[q] = "completed" =>
    \E s \in Steps : QuestOf[s] = q /\ step[s] = "completed" /\ Successors(s) = {}

\* Nothing but a fault strands a quest.  While no statement has failed, a
\* resolving step whose jobs are all APPLIED is still ahead of the reconcile
\* loop that made them so, and a completed step has ended its quest or
\* unlocked its successors, or is just about to: the two places a step is
\* looked at only once (qeMaybeCompleteStep, qeAdvanceAfterCompletion).
Unreconciled(s) == step[s] = "resolving" /\ \A j \in JobsOf(s) : status[j] = "APPLIED"
Advanced(s) ==
  IF Successors(s) = {} THEN quest[QuestOf[s]] = "completed"
  ELSE \A t \in Successors(s) : step[t] # "locked" \/ (at = "arming" /\ t \in adv)
NothingStranded == faults = 0 =>
  /\ \A s \in Steps : Unreconciled(s) => phase = "recon" /\ s \in todo
  /\ \A s \in Steps : step[s] = "completed" => Advanced(s) \/ (at = "advance" /\ s \in cur)

Rank(x) == CASE x = "locked" -> 0 [] x = "armed" -> 1 [] x = "resolving" -> 2 [] x = "completed" -> 3
JobRank(x) == CASE x = "none" -> 0 [] x = "QUEUED" -> 1 [] x = "DISPATCHED" -> 2
                [] x = "WAITING_WORLD" -> 3 [] x = "APPLIED" -> 4

\* Nothing the engine or the receipts do moves a step, a job, a quest or the
\* cursor backwards, and a trigger once recorded is never rewritten.
OnlyForward ==
  /\ \A s \in Steps : Rank(step'[s]) >= Rank(step[s])
  /\ \A s \in Steps : step[s] \in {"resolving", "completed"} => trig'[s] = trig[s]
  /\ \A j \in Jobs : JobRank(status'[j]) >= JobRank(status[j])
  /\ \A q \in Quests : quest[q] = "completed" => quest'[q] = "completed"
  /\ cursor' >= cursor
NeverBackwards == [][OnlyForward]_vars

-----------------------------------------------------------------------------
(* What the locals of a tick mean: the strengthening that makes the safety *)
(* invariants inductive.                                                   *)

InEval == phase = "eval" /\ at # "query"
Evaluating == phase = "eval" /\ at \in {"loop", "advance", "arming"}

\* What a loop still has to visit was selected for the right reason, and
\* still qualifies although other goroutines have moved on since the query:
\* activation steps while arming, matches of the current signal while
\* evaluating, completed steps and their successors while advancing.
LoopInv ==
  /\ phase \in {"idle", "down", "poll"} => at = "query"
  /\ at = "query" => todo = {}
  /\ phase = "arm" => \A s \in todo : TriggerType[s] = Activation
  /\ at = "trigger" => phase = "arm" /\ \A s \in cur : TriggerType[s] = Activation
  /\ at = "advance" => \A s \in cur : step[s] = "completed"
  /\ at = "arming" => \A t \in adv : \E p \in Predecessors(t) : step[p] = "completed"
  /\ at = "signal" => phase = "eval"
  /\ Evaluating => sig <= last /\ \A s \in todo : Matches(s, signals[sig])

\* Every signal before the one being evaluated is behind each step that was
\* already armed when it arrived, and the current one is behind it or still
\* to be tried on it.
EvalInv ==
  /\ cursor <= Len(signals)
  /\ \A s \in Steps : armedAt[s] <= Len(signals)
  /\ InEval => /\ sig \in 1..(last + 1) /\ last <= Len(signals)
               /\ \A s \in Steps : step[s] = "armed" =>
                    \A i \in (armedAt[s] + 1)..(sig - 1) : ~ Matches(s, signals[i])
  /\ Evaluating => \A s \in Steps :
       step[s] = "armed" /\ armedAt[s] < sig /\ Matches(s, signals[sig]) => s \in todo

\* Both halves hold wherever the tick is stopped, and a tick that starts again
\* starts without any leftover of the one before (qeTick's locals).
TickInv == LoopInv /\ EvalInv

-----------------------------------------------------------------------------
(* Liveness.                                                               *)

AllApplied(s) == JobsOf(s) # {} /\ \A j \in JobsOf(s) : attempt[j] = "applied"

\* An activation step always ends up triggered, wherever the engine was
\* stopped (CGPT-G1-02: "a stranded armed step just gets retriggered on the
\* next tick until it succeeds") ...
ActivationTriggers ==
  \A s \in Steps : TriggerType[s] = Activation => <>(step[s] \in {"resolving", "completed"} \/ quest[QuestOf[s]] = "completed")

\* ... and a signal that arrives while a step it matches is armed triggers the
\* step, through crashes and errors too.
SignalTriggers ==
  \A s \in Steps :
    (step[s] = "armed" /\ \E i \in (armedAt[s] + 1)..Len(signals) : Matches(s, signals[i]))
      ~> step[s] \in {"resolving", "completed"}

\* A step whose jobs have all been proven applied completes.
ProvenStepCompletes ==
  \A s \in Steps : (step[s] = "resolving" /\ AllApplied(s)) ~> (step[s] = "completed")

\* The same for an engine that nothing interrupts, whatever order the proofs
\* arrive in ...
UndisturbedStepCompletes ==
  \A s \in Steps : (step[s] = "resolving" /\ AllApplied(s)) ~> (step[s] = "completed" \/ faults > 0)

\* ... and a completed step unlocks its successors, or ends its quest.
CompletionAdvances ==
  \A s \in Steps : (step[s] = "completed") ~>
    \/ faults > 0
    \/ IF \A t \in Steps : <<s, t>> \notin Edges THEN quest[QuestOf[s]] = "completed"
       ELSE \A t \in Steps : <<s, t>> \in Edges => step[t] # "locked"

\* All four: no step waits for ever for a trigger that has happened, whatever
\* interrupts the engine, and what is proven moves its quest on unless
\* something does.
QuestGoesOn ==
  ActivationTriggers /\ SignalTriggers /\ UndisturbedStepCompletes /\ CompletionAdvances
=============================================================================
