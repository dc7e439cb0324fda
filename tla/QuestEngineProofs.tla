-------------------------- MODULE QuestEngineProofs --------------------------
(***************************************************************************)
(* The engine's safety, for every quest graph, every set of players and    *)
(* any number of crashes and database errors; and, at the end, the safety  *)
(* of the engine and the transport together.                               *)
(***************************************************************************)
EXTENDS QuestSystem, TLAPS

-----------------------------------------------------------------------------
(* Type correctness.                                                       *)

\* The engine starts with a reconciliation on well-typed rows.
LEMMA TypeInit == Init => TypeOK
BY ConstantTypes DEF Init, TypeOK

\* qeTriggerStep leaves well-typed rows, whoever calls it.
LEMMA TriggerStepType ==
  ASSUME TypeOK, NEW s \in Steps, NEW i \in Nat, NEW rest \in SUBSET Steps,
         TriggerStep(s, i, rest)
  PROVE  TypeOK'
<1> USE DEF TypeOK
<1>1. CASE step[s] # "armed"
  BY <1>1 DEF TriggerStep, WithBatch
<1>2. CASE step[s] = "armed" /\ JobsOf(s) = {}
  <2>1. step' \in [Steps -> {"locked", "armed", "resolving", "completed"}]
    BY <1>2 DEF TriggerStep, WithBatch
  <2>2. trig' \in [Steps -> Nat]
    BY <1>2 DEF TriggerStep, WithBatch
  <2>3. at' = "advance" /\ cur' = {s} /\ todo' = rest /\ UNCHANGED status
    BY <1>2 DEF TriggerStep, WithBatch
  <2>4. QED
    BY <1>2, <2>1, <2>2, <2>3 DEF TriggerStep, WithBatch
<1>3. CASE step[s] = "armed" /\ JobsOf(s) # {}
  <2>1. status' \in [Jobs -> {"none", "QUEUED", "DISPATCHED", "WAITING_WORLD", "APPLIED"}]
    BY <1>3 DEF TriggerStep, WithBatch
  <2>2. step' \in [Steps -> {"locked", "armed", "resolving", "completed"}]
    BY <1>3 DEF TriggerStep, WithBatch
  <2>3. QED
    BY <1>3, <2>1, <2>2 DEF TriggerStep, WithBatch
<1>4. QED
  BY <1>1, <1>2, <1>3

\* Every state of the engine is well typed.
LEMMA TypeNext == TypeOK /\ [Next]_vars => TypeOK'
<1> SUFFICES ASSUME TypeOK, [Next]_vars PROVE TypeOK'
  OBVIOUS
<1> USE ConstantTypes DEF TypeOK
<1>1. CASE Tick
  BY <1>1 DEF Tick, Goto, db
<1>2. CASE Restart
  BY <1>2 DEF Restart, Goto, db
<1>3. CASE ArmQuery
  BY <1>3 DEF ArmQuery, db, ActivationSteps
<1>4. CASE ArmDone \/ PollDone
  BY <1>4 DEF ArmDone, PollDone, Return, Goto, NextPhase, db
<1>5. CASE EvalQuery
  BY <1>5 DEF EvalQuery, db, FirstUnread
<1>6. CASE NextSignal
  BY <1>6 DEF NextSignal, db, Candidates
<1>7. CASE SignalDone
  BY <1>7 DEF SignalDone, db
<1>8. CASE SetCursor
  <2>1. phase' = "recon" /\ at' = "query"
    BY <1>8 DEF SetCursor, Return, Goto, NextPhase
  <2>2. QED
    BY <1>8, <2>1 DEF SetCursor, Return
<1>9. CASE ReconcileApplied
  <2>1. status' \in [Jobs -> {"none", "QUEUED", "DISPATCHED", "WAITING_WORLD", "APPLIED"}]
    BY <1>9 DEF ReconcileApplied, ProvenJobs
  <2>2. todo' \subseteq Steps
    BY <1>9 DEF ReconcileApplied, ProvenJobs
  <2>3. QED
    BY <1>9, <2>1, <2>2 DEF ReconcileApplied, ProvenJobs
<1>10. CASE ReconcileDone
  BY <1>10 DEF ReconcileDone, Return, Goto, NextPhase, db
<1>11. ASSUME NEW s \in Steps, ArmLocked(s) PROVE TypeOK'
  BY <1>11 DEF ArmLocked
<1>12. ASSUME NEW s \in Steps, TriggerActivated(s) PROVE TypeOK'
  BY <1>12, TriggerStepType DEF TriggerActivated
<1>13. ASSUME NEW s \in Steps, TriggerMatched(s) PROVE TypeOK'
  BY <1>13, TriggerStepType DEF TriggerMatched
<1>14. ASSUME NEW s \in Steps, MaybeComplete(s) PROVE TypeOK'
  <2>1. \/ step' = [step EXCEPT ![s] = "completed"] /\ at' = "advance" /\ cur' = {s}
        \/ UNCHANGED <<step, at, cur>>
    BY <1>14, Zenon DEF MaybeComplete, BatchApplied
  <2>2. /\ todo' = todo \ {s}
        /\ UNCHANGED <<trig, armedAt, quest, status, attempt, signals, cursor,
                       phase, adv, sig, last, faults>>
    BY <1>14 DEF MaybeComplete, BatchApplied
  <2>3. QED
    BY <2>1, <2>2
<1>15. ASSUME NEW s \in Steps, Advance(s) PROVE TypeOK'
  BY <1>15 DEF Advance, Successors
<1>16. ASSUME NEW s \in Steps, ArmSuccessor(s) PROVE TypeOK'
  <2>1. step' \in [Steps -> {"locked", "armed", "resolving", "completed"}]
    BY <1>16 DEF ArmSuccessor
  <2>2. armedAt' \in [Steps -> Nat]
    BY <1>16 DEF ArmSuccessor
  <2>3. at' \in {"loop", "arming"}
    BY <1>16 DEF ArmSuccessor
  <2>4. QED
    BY <1>16, <2>1, <2>2, <2>3 DEF ArmSuccessor
<1>17. CASE Error
  BY <1>17 DEF Error, Return, Goto, NextPhase, db
<1>18. CASE Crash
  BY <1>18 DEF Crash, Goto, db
<1>19. ASSUME NEW g \in Signal, PollSignal(g) PROVE TypeOK'
  BY <1>19 DEF PollSignal, local
<1>20. CASE EnvDispatch
  BY <1>20 DEF EnvDispatch, local
<1>21. ASSUME NEW j \in Jobs, EnvAccept(j) PROVE TypeOK'
  BY <1>21 DEF EnvAccept, local
<1>22. ASSUME NEW j \in Jobs, NEW r \in {"applied", "final_error"}, EnvAttempt(j, r)
       PROVE  TypeOK'
  BY <1>22 DEF EnvAttempt, local
<1>23. CASE UNCHANGED vars
  BY <1>23 DEF vars, db, local
<1>24. QED
  BY <1>1, <1>2, <1>3, <1>4, <1>5, <1>6, <1>7, <1>8, <1>9, <1>10, <1>11, <1>12,
     <1>13, <1>14, <1>15, <1>16, <1>17, <1>18, <1>19, <1>20, <1>21, <1>22, <1>23
  DEF Next, EngineStep, EnvStep

\* The rows and locals keep the values their declarations name.
THEOREM TypeCorrect == Spec => []TypeOK
<1>1. Init => TypeOK
  BY TypeInit
<1>2. TypeOK /\ [Next]_vars => TypeOK'
  BY TypeNext
<1>3. QED
  BY <1>1, <1>2, PTL DEF Spec

-----------------------------------------------------------------------------
(* What the actions with a conditional effect do, one alternative each.    *)

\* qeTriggerStep: nothing, or the step completes, or its batch is created.
LEMMA TriggerStepEffect ==
  ASSUME NEW s \in Steps, NEW i, NEW rest, TriggerStep(s, i, rest)
  PROVE  /\ todo' = rest
         /\ UNCHANGED <<armedAt, quest, attempt, signals, cursor, phase, adv, sig, last, faults>>
         /\ \/ step[s] # "armed" /\ UNCHANGED <<step, trig, status>> /\ at' = "loop" /\ cur' = {}
            \/ /\ step[s] = "armed" /\ JobsOf(s) = {}
               /\ step' = [step EXCEPT ![s] = "completed"]
               /\ trig' = [trig EXCEPT ![s] = i]
               /\ UNCHANGED status
               /\ at' = "advance" /\ cur' = {s}
            \/ /\ step[s] = "armed" /\ JobsOf(s) # {}
               /\ step' = [step EXCEPT ![s] = "resolving"]
               /\ trig' = [trig EXCEPT ![s] = i]
               /\ status' = [j \in Jobs |-> IF StepOf[j] = s /\ status[j] = "none"
                                              THEN "QUEUED" ELSE status[j]]
               /\ at' = "loop" /\ cur' = {}
BY Zenon DEF TriggerStep, WithBatch

\* qeMaybeCompleteStep: the step completes when every job row is APPLIED.
LEMMA MaybeCompleteEffect ==
  ASSUME NEW s \in Steps, MaybeComplete(s)
  PROVE  /\ phase = "recon" /\ at = "loop" /\ todo' = todo \ {s}
         /\ UNCHANGED <<trig, armedAt, quest, status, attempt, signals, cursor,
                        phase, adv, sig, last, faults>>
         /\ \/ /\ step[s] = "resolving"
               /\ \A j \in JobsOf(s) : status[j] \in {"none", "APPLIED"}
               /\ step' = [step EXCEPT ![s] = "completed"] /\ at' = "advance" /\ cur' = {s}
            \/ UNCHANGED <<step, at, cur>>
BY Zenon DEF MaybeComplete, BatchApplied

\* One UPDATE of qeAdvanceAfterCompletion: a locked successor is armed.
LEMMA ArmSuccessorEffect ==
  ASSUME NEW t \in Steps, ArmSuccessor(t)
  PROVE  /\ at = "arming" /\ t \in adv /\ adv' = adv \ {t}
         /\ at' \in {"loop", "arming"}
         /\ UNCHANGED <<trig, quest, status, attempt, signals, cursor,
                        phase, todo, cur, sig, last, faults>>
         /\ \/ /\ step[t] = "locked" /\ step' = [step EXCEPT ![t] = "armed"]
               /\ armedAt' = [armedAt EXCEPT ![t] = Len(signals)]
            \/ UNCHANGED <<step, armedAt>>
BY Zenon DEF ArmSuccessor

\* Only these actions touch the state of a step or of a job.
LEMMA StepFrame ==
  ASSUME [Next]_vars
  PROVE  \/ UNCHANGED <<step, status>>
         \/ ReconcileApplied \/ EnvDispatch
         \/ \E j \in Jobs : EnvAccept(j)
         \/ \E s \in Steps : \/ ArmLocked(s) \/ TriggerActivated(s) \/ TriggerMatched(s)
                             \/ MaybeComplete(s) \/ ArmSuccessor(s)
<1>1. CASE UNCHANGED vars
  BY <1>1 DEF vars, db
<1>2. CASE Error \/ Crash
  BY <1>2 DEF Error, Crash, db
<1>3. CASE EnvStep \/ \E g \in Signal : PollSignal(g)
  BY <1>3 DEF EnvStep, PollSignal, EnvAttempt
<1>4. CASE Tick \/ Restart \/ PollDone \/ ArmQuery \/ ArmDone \/ EvalQuery \/ NextSignal
  BY <1>4 DEF Tick, Restart, PollDone, ArmQuery, ArmDone, EvalQuery, NextSignal, db, ActivationSteps, Candidates, FirstUnread
<1>5. CASE SignalDone \/ SetCursor \/ ReconcileDone \/ \E s \in Steps : Advance(s)
  BY <1>5 DEF SignalDone, SetCursor, ReconcileDone, Advance, db
<1>6. QED
  BY <1>1, <1>2, <1>3, <1>4, <1>5 DEF Next, EngineStep

-----------------------------------------------------------------------------
(* Batches and proof of completion.                                        *)

\* The jobs of a step exist exactly from its trigger on.
LEMMA BatchNext ==
  ASSUME TypeOK, BatchWithStep, [Next]_vars
  PROVE  BatchWithStep'
<1> DEFINE P(j) == status[j] # "none" <=> step[StepOf[j]] \in {"resolving", "completed"}
<1>0. SUFFICES ASSUME NEW j \in Jobs
               PROVE  P(j)'
  BY DEF BatchWithStep
<1>a. /\ StepOf[j] \in Steps /\ P(j)
      /\ step \in [Steps -> {"locked", "armed", "resolving", "completed"}]
      /\ status \in [Jobs -> {"none", "QUEUED", "DISPATCHED", "WAITING_WORLD", "APPLIED"}]
  BY ConstantTypes DEF TypeOK, BatchWithStep
<1>1. CASE UNCHANGED <<step, status>>
  BY <1>a, <1>1
<1>2. CASE ReconcileApplied
  BY <1>a, <1>2 DEF ReconcileApplied, ProvenJobs
<1>3. CASE EnvDispatch
  BY <1>a, <1>3 DEF EnvDispatch
<1>4. CASE \E k \in Jobs : EnvAccept(k)
  BY <1>a, <1>4 DEF EnvAccept
<1>5. ASSUME NEW s \in Steps, ArmLocked(s) PROVE P(j)'
  BY <1>a, <1>5 DEF ArmLocked
<1>6. ASSUME NEW s \in Steps, NEW i, NEW rest, TriggerStep(s, i, rest) PROVE P(j)'
  <2>1. CASE UNCHANGED <<step, status>>
    BY <1>a, <2>1
  <2>2. CASE /\ step[s] = "armed" /\ JobsOf(s) = {}
             /\ step' = [step EXCEPT ![s] = "completed"] /\ UNCHANGED status
    BY <1>a, <2>2 DEF JobsOf
  <2>3. CASE /\ step[s] = "armed" /\ step' = [step EXCEPT ![s] = "resolving"]
             /\ status' = [k \in Jobs |-> IF StepOf[k] = s /\ status[k] = "none"
                                            THEN "QUEUED" ELSE status[k]]
    BY <1>a, <2>3
  <2>4. QED
    BY <1>6, <2>1, <2>2, <2>3, TriggerStepEffect
<1>7. ASSUME NEW s \in Steps, MaybeComplete(s) PROVE P(j)'
  <2>1. CASE step[s] = "resolving" /\ step' = [step EXCEPT ![s] = "completed"] /\ UNCHANGED status
    BY <1>a, <2>1
  <2>2. QED
    BY <1>a, <1>7, <2>1, MaybeCompleteEffect
<1>8. ASSUME NEW s \in Steps, ArmSuccessor(s) PROVE P(j)'
  <2>1. CASE step[s] = "locked" /\ step' = [step EXCEPT ![s] = "armed"] /\ UNCHANGED status
    BY <1>a, <2>1
  <2>2. QED
    BY <1>a, <1>8, <2>1, ArmSuccessorEffect
<1>9. QED
  BY <1>1, <1>2, <1>3, <1>4, <1>5, <1>6, <1>7, <1>8, StepFrame DEF TriggerActivated, TriggerMatched

\* A completed step has only APPLIED jobs, an APPLIED job its attempt row.
LEMMA ProvenNext ==
  ASSUME TypeOK, BatchWithStep, CompletedIsProven, [Next]_vars
  PROVE  CompletedIsProven'
<1> USE ConstantTypes DEF TypeOK
<1>1. \A j \in Jobs : attempt[j] = "applied" => attempt'[j] = "applied"
  <2>1. CASE UNCHANGED attempt
    BY <2>1
  <2>2. CASE \E j \in Jobs, r \in {"applied", "final_error"} : EnvAttempt(j, r)
    BY <2>2 DEF EnvAttempt
  <2>3. UNCHANGED attempt \/ \E j \in Jobs, r \in {"applied", "final_error"} : EnvAttempt(j, r)
    <3>1. CASE UNCHANGED <<step, status>> /\ ~ EnvStep
      BY <3>1 DEF Next, EngineStep, vars, db, Error, Crash, Tick, Restart, PollDone, PollSignal, ArmQuery, ArmDone, EvalQuery,
        ActivationSteps, FirstUnread,
        NextSignal, SignalDone, SetCursor, ReconcileApplied, ReconcileDone, ArmLocked, TriggerActivated,
        TriggerMatched, TriggerStep, MaybeComplete, Advance, ArmSuccessor
    <3>2. CASE EnvStep
      BY <3>2 DEF EnvStep, EnvDispatch, EnvAccept
    <3>3. QED
      BY <3>1, <3>2, StepFrame DEF ReconcileApplied, EnvDispatch, EnvAccept, ArmLocked, TriggerActivated, ProvenJobs,
        TriggerMatched, TriggerStep, MaybeComplete, ArmSuccessor
  <2>4. QED
    BY <2>1, <2>2, <2>3
<1> DEFINE P(j) == /\ step[StepOf[j]] = "completed" => status[j] = "APPLIED"
                   /\ status[j] = "APPLIED" => attempt[j] = "applied"
<1>2. SUFFICES ASSUME NEW j \in Jobs PROVE P(j)'
  BY DEF CompletedIsProven
<1>3. /\ StepOf[j] \in Steps /\ P(j)
      /\ status[j] # "none" <=> step[StepOf[j]] \in {"resolving", "completed"}
  BY DEF CompletedIsProven, BatchWithStep
<1>4. CASE UNCHANGED <<step, status>>
  BY <1>1, <1>3, <1>4
<1>5. CASE ReconcileApplied
  BY <1>3, <1>5 DEF ReconcileApplied, ProvenJobs
<1>6. CASE EnvDispatch
  BY <1>3, <1>6 DEF EnvDispatch
<1>7. CASE \E k \in Jobs : EnvAccept(k)
  BY <1>3, <1>7 DEF EnvAccept
<1>8. CASE \E s \in Steps : ArmLocked(s)
  BY <1>3, <1>8 DEF ArmLocked
<1>9. ASSUME NEW s \in Steps, NEW i, NEW rest, TriggerStep(s, i, rest) PROVE P(j)'
  <2>1. CASE UNCHANGED <<step, status>>
    BY <1>1, <1>3, <2>1
  <2>2. CASE /\ step[s] = "armed" /\ JobsOf(s) = {}
             /\ step' = [step EXCEPT ![s] = "completed"] /\ UNCHANGED status
    BY <1>1, <1>3, <2>2 DEF JobsOf
  <2>3. CASE /\ step[s] = "armed" /\ step' = [step EXCEPT ![s] = "resolving"]
             /\ status' = [k \in Jobs |-> IF StepOf[k] = s /\ status[k] = "none"
                                            THEN "QUEUED" ELSE status[k]]
    BY <1>1, <1>3, <2>3
  <2>4. QED
    BY <1>9, <2>1, <2>2, <2>3, TriggerStepEffect
<1>10. ASSUME NEW s \in Steps, MaybeComplete(s) PROVE P(j)'
  <2>1. CASE /\ step[s] = "resolving" /\ \A k \in JobsOf(s) : status[k] \in {"none", "APPLIED"}
             /\ step' = [step EXCEPT ![s] = "completed"] /\ UNCHANGED status
    BY <1>1, <1>3, <2>1 DEF JobsOf
  <2>2. QED
    BY <1>1, <1>3, <1>10, <2>1, MaybeCompleteEffect
<1>11. ASSUME NEW s \in Steps, ArmSuccessor(s) PROVE P(j)'
  <2>1. CASE step[s] = "locked" /\ step' = [step EXCEPT ![s] = "armed"] /\ UNCHANGED status
    BY <1>1, <1>3, <2>1
  <2>2. QED
    BY <1>1, <1>3, <1>11, <2>1, ArmSuccessorEffect
<1>12. QED
  BY <1>4, <1>5, <1>6, <1>7, <1>8, <1>9, <1>10, <1>11, StepFrame DEF TriggerActivated, TriggerMatched

\* A step never completes before the world is known to have changed for every
\* one of its jobs, and its batch is created once and as a whole.
THEOREM Completion == Spec => [](BatchWithStep /\ CompletedIsProven)
<1>1. Init => BatchWithStep /\ CompletedIsProven
  BY ConstantTypes DEF Init, BatchWithStep, CompletedIsProven
<1>2. TypeOK /\ BatchWithStep /\ CompletedIsProven /\ [Next]_vars
        => (BatchWithStep /\ CompletedIsProven)'
  BY BatchNext, ProvenNext
<1>3. QED
  BY <1>1, <1>2, TypeCorrect, PTL DEF Spec

\* Jobs exist exactly for the steps that have been triggered, whole batches at
\* a time, wherever qeTriggerStep was stopped.
THEOREM WholeBatches == Spec => []BatchWithStep
BY Completion, PTL

-----------------------------------------------------------------------------
(* Order of the graph, justification of triggers, and no missed signal.    *)

\* The five actions that return to the control loop, a crash, and the ticks
\* between them all leave the engine at the query of a function, with an
\* empty loop and the rows as they were (but for the cursor).
LEMMA AtRest ==
  ASSUME \/ Tick \/ Restart \/ Error \/ Crash \/ ArmDone \/ ReconcileDone \/ PollDone \/ SetCursor,
         TypeOK, LoopInv
  PROVE  /\ at' = "query" /\ todo' = {}
         /\ UNCHANGED <<step, trig, armedAt, quest, status, attempt, signals>>
         /\ UNCHANGED cursor \/ SetCursor
BY Zenon DEF Tick, Restart, Error, Crash, ArmDone, ReconcileDone, PollDone, SetCursor, Return, Goto, db, TypeOK, LoopInv

\* A stored signal does not change, and a new one comes after it.
LEMMA SignalsAppend ==
  ASSUME TypeOK, NEW g \in Signal, PollSignal(g)
  PROVE  /\ Len(signals') = Len(signals) + 1
         /\ \A i \in 1..Len(signals) : signals'[i] = signals[i]
         /\ UNCHANGED <<step, trig, armedAt, quest, status, attempt, cursor>>
         /\ UNCHANGED local
BY DEF PollSignal, TypeOK

\* What a loop has selected still qualifies after a step of anyone.
LEMMA LoopNext ==
  ASSUME TypeOK, LoopInv, EvalInv, [Next]_vars
  PROVE  LoopInv'
<1>1. CASE Tick \/ Restart \/ Error \/ Crash \/ ArmDone \/ ReconcileDone \/ PollDone \/ SetCursor
  BY <1>1, AtRest DEF LoopInv, Evaluating
<1>2. CASE ArmQuery
  BY <1>2 DEF ArmQuery, LoopInv, Evaluating, ActivationSteps
<1>3. CASE EvalQuery
  BY <1>3 DEF EvalQuery, LoopInv, Evaluating, FirstUnread
<1>4. CASE NextSignal
  BY <1>4 DEF NextSignal, LoopInv, Evaluating, db, Candidates
<1>5. CASE SignalDone
  BY <1>5 DEF SignalDone, LoopInv, Evaluating
<1>6. CASE ReconcileApplied
  BY <1>6 DEF ReconcileApplied, LoopInv, Evaluating, ProvenJobs
<1>7. ASSUME NEW s \in Steps, ArmLocked(s) PROVE LoopInv'
  BY <1>7 DEF ArmLocked, LoopInv, Evaluating
<1>8. ASSUME NEW s \in Steps, TriggerActivated(s) PROVE LoopInv'
  <2>1. phase = "arm" /\ TriggerStep(s, 0, todo \ {s})
    BY <1>8 DEF TriggerActivated
  <2>2. /\ phase' = "arm" /\ todo' = todo \ {s} /\ UNCHANGED <<adv, sig, last, signals>>
        /\ \/ at' = "loop"
           \/ at' = "advance" /\ cur' = {s} /\ step' = [step EXCEPT ![s] = "completed"]
    BY <2>1, TriggerStepEffect
  <2>3. QED
    BY <2>1, <2>2 DEF LoopInv, Evaluating, TypeOK
<1>9. ASSUME NEW s \in Steps, TriggerMatched(s) PROVE LoopInv'
  <2>1. phase = "eval" /\ at = "loop" /\ TriggerStep(s, sig, todo \ {s})
    BY <1>9 DEF TriggerMatched
  <2>2. /\ phase' = "eval" /\ todo' = todo \ {s} /\ UNCHANGED <<adv, sig, last, signals>>
        /\ \/ at' = "loop"
           \/ at' = "advance" /\ cur' = {s} /\ step' = [step EXCEPT ![s] = "completed"]
    BY <2>1, TriggerStepEffect
  <2>3. QED
    BY <2>1, <2>2 DEF LoopInv, Evaluating, TypeOK
<1>10. ASSUME NEW s \in Steps, MaybeComplete(s) PROVE LoopInv'
  <2>1. /\ phase' = "recon" /\ phase = "recon" /\ at = "loop" /\ todo' = todo \ {s}
        /\ \/ at' = "advance" /\ cur' = {s} /\ step' = [step EXCEPT ![s] = "completed"]
           \/ at' = "loop"
    BY <1>10, MaybeCompleteEffect
  <2>2. QED
    BY <2>1 DEF LoopInv, Evaluating, TypeOK
<1>11. ASSUME NEW s \in Steps, Advance(s) PROVE LoopInv'
  BY <1>11 DEF Advance, LoopInv, Evaluating, TypeOK, Successors, Predecessors
<1>12. ASSUME NEW s \in Steps, ArmSuccessor(s) PROVE LoopInv'
  <2>1. \A t \in Steps : step[t] = "completed" => step'[t] = "completed"
    BY <1>12, ArmSuccessorEffect DEF TypeOK
  <2>2. /\ at = "arming" /\ adv' \subseteq adv /\ at' \in {"loop", "arming"}
        /\ UNCHANGED <<phase, todo, cur, sig, last, signals>>
    BY <1>12, ArmSuccessorEffect
  <2>3. QED
    BY <2>1, <2>2 DEF LoopInv, Evaluating, TypeOK, Predecessors
<1>13. ASSUME NEW g \in Signal, PollSignal(g) PROVE LoopInv'
  <2>1. Evaluating => sig \in 1..Len(signals)
    BY DEF Evaluating, InEval, EvalInv, LoopInv, TypeOK
  <2>2. QED
    BY <2>1, <1>13, SignalsAppend DEF LoopInv, Evaluating, local
<1>14. CASE \/ EnvDispatch \/ UNCHANGED vars
            \/ \E j \in Jobs : EnvAccept(j) \/ \E r \in {"applied", "final_error"} : EnvAttempt(j, r)
  BY <1>14 DEF EnvDispatch, EnvAccept, EnvAttempt, vars, db, local, LoopInv, Evaluating
<1>15. QED
  BY <1>1, <1>2, <1>3, <1>4, <1>5, <1>6, <1>7, <1>8, <1>9, <1>10, <1>11, <1>12, <1>13, <1>14
  DEF Next, EngineStep, EnvStep

\* A step that is armed after a step of the engine was armed before with the
\* same time stamp, or carries the number of signals stored now.
LEMMA ArmedFrame ==
  ASSUME TypeOK, NEW s \in Steps, step'[s] = "armed",
         \/ \E t \in Steps : \/ ArmLocked(t) \/ ArmSuccessor(t) \/ MaybeComplete(t)
                             \/ \E i, rest : TriggerStep(t, i, rest)
  PROVE  \/ step[s] = "armed" /\ armedAt'[s] = armedAt[s]
         \/ armedAt'[s] = Len(signals)
<1>1. CASE \E t \in Steps : ArmLocked(t)
  BY <1>1 DEF ArmLocked, TypeOK
<1>2. CASE \E t \in Steps : ArmSuccessor(t)
  BY <1>2, ArmSuccessorEffect DEF TypeOK
<1>3. CASE \E t \in Steps : MaybeComplete(t)
  BY <1>3, MaybeCompleteEffect DEF TypeOK
<1>4. CASE \E i, rest : \E t \in Steps : TriggerStep(t, i, rest)
  BY <1>4, TriggerStepEffect DEF TypeOK
<1>5. QED
  BY <1>1, <1>2, <1>3, <1>4

\* Time stamps never run ahead of the signals.
LEMMA ArmedAtNext ==
  ASSUME TypeOK, LoopInv, EvalInv, [Next]_vars
  PROVE  \A s \in Steps : armedAt'[s] <= Len(signals')
<1> SUFFICES ASSUME NEW s \in Steps PROVE armedAt'[s] <= Len(signals')
  OBVIOUS
<1>a. armedAt[s] <= Len(signals) /\ armedAt \in [Steps -> Nat] /\ Len(signals) \in Nat
  BY DEF EvalInv, TypeOK
<1>1. CASE UNCHANGED <<armedAt, signals>>
  BY <1>1, <1>a
<1>2. CASE \E t \in Steps : ArmLocked(t)
  BY <1>2, <1>a DEF ArmLocked
<1>3. CASE \E t \in Steps : ArmSuccessor(t)
  BY <1>3, <1>a, ArmSuccessorEffect
<1>4. CASE \E g \in Signal : PollSignal(g)
  BY <1>4, <1>a, SignalsAppend
<1>5. \/ UNCHANGED <<armedAt, signals>>
      \/ \E t \in Steps : ArmLocked(t) \/ ArmSuccessor(t)
      \/ \E g \in Signal : PollSignal(g)
  <2>1. CASE Tick \/ Restart \/ Error \/ Crash \/ ArmDone \/ ReconcileDone \/ PollDone \/ SetCursor
    BY <2>1, AtRest
  <2>2. CASE ArmQuery \/ EvalQuery \/ NextSignal \/ SignalDone \/ ReconcileApplied
    BY <2>2 DEF ArmQuery, EvalQuery, NextSignal, SignalDone, ReconcileApplied, db, ActivationSteps, Candidates, FirstUnread, ProvenJobs
  <2>3. CASE \E t \in Steps : TriggerActivated(t) \/ TriggerMatched(t) \/ MaybeComplete(t) \/ Advance(t)
    BY <2>3 DEF TriggerActivated, TriggerMatched, TriggerStep, MaybeComplete, Advance, WithBatch, BatchApplied
  <2>4. CASE UNCHANGED vars \/ EnvDispatch
            \/ \E j \in Jobs : EnvAccept(j) \/ \E r \in {"applied", "final_error"} : EnvAttempt(j, r)
    BY <2>4 DEF vars, db, EnvDispatch, EnvAccept, EnvAttempt
  <2>5. QED
    BY <2>1, <2>2, <2>3, <2>4 DEF Next, EngineStep, EnvStep
<1>6. QED
  BY <1>1, <1>2, <1>3, <1>4, <1>5

\* The evaluator's bookkeeping, and with it that no signal is missed.
LEMMA EvalNext ==
  ASSUME TypeOK, LoopInv, EvalInv, NoSignalMissed, [Next]_vars
  PROVE  EvalInv' /\ NoSignalMissed'
<1>a. /\ cursor \in Nat /\ sig \in Nat /\ last \in Nat /\ Len(signals) \in Nat
      /\ armedAt \in [Steps -> Nat]
  BY DEF TypeOK
<1>b. \A s \in Steps : armedAt'[s] <= Len(signals')
  BY ArmedAtNext
<1>1. CASE Tick \/ Restart \/ Error \/ Crash \/ ArmDone \/ ReconcileDone \/ PollDone
  <2>1. at' = "query" /\ UNCHANGED <<step, armedAt, signals, cursor>>
    BY <1>1, AtRest DEF Tick, Restart, Error, Crash, ArmDone, ReconcileDone, PollDone, db
  <2>2. QED
    BY <2>1, <1>b DEF EvalInv, InEval, Evaluating, NoSignalMissed
<1>2. CASE SetCursor
  <2>1. /\ InEval /\ sig > last /\ cursor' = last /\ at' = "query"
        /\ UNCHANGED <<step, armedAt, signals>>
    BY <1>2, AtRest DEF SetCursor, InEval
  <2>2. /\ last <= Len(signals)
        /\ \A s \in Steps : step[s] = "armed" =>
             \A i \in (armedAt[s] + 1)..(sig - 1) : ~ Matches(s, signals[i])
    BY <2>1 DEF EvalInv
  <2>3. NoSignalMissed'
    BY <2>1, <2>2, <1>a DEF NoSignalMissed
  <2>4. QED
    BY <2>1, <2>2, <2>3, <1>b DEF EvalInv, InEval, Evaluating
<1>3. CASE ArmQuery \/ ReconcileApplied
  BY <1>3, <1>b DEF ArmQuery, ReconcileApplied, db, EvalInv, InEval, Evaluating, NoSignalMissed, ActivationSteps, ProvenJobs
<1>4. CASE EvalQuery
  BY <1>4, <1>a, <1>b DEF EvalQuery, db, EvalInv, InEval, Evaluating, NoSignalMissed, FirstUnread
<1>5. CASE NextSignal
  BY <1>5, <1>a, <1>b DEF NextSignal, db, EvalInv, InEval, Evaluating, NoSignalMissed, Candidates
<1>6. CASE SignalDone
  <2>1. /\ InEval /\ Evaluating /\ todo = {} /\ sig' = sig + 1 /\ at' = "signal"
        /\ UNCHANGED <<step, armedAt, signals, cursor, phase, last>>
    BY <1>6 DEF SignalDone, db, InEval, Evaluating
  <2>2. sig <= last
    BY <2>1 DEF LoopInv
  <2>3. \A s \in Steps : step[s] = "armed" =>
          \A i \in (armedAt[s] + 1)..sig : ~ Matches(s, signals[i])
    BY <2>1, <1>a DEF EvalInv
  <2>4. QED
    BY <2>1, <2>2, <2>3, <1>a, <1>b DEF EvalInv, InEval, Evaluating, NoSignalMissed
<1>7. ASSUME NEW s \in Steps, ArmLocked(s) PROVE EvalInv' /\ NoSignalMissed'
  <2>1. phase' = "arm" /\ UNCHANGED <<signals, cursor>>
    BY <1>7 DEF ArmLocked
  <2>2. NoSignalMissed'
    BY <1>7, <2>1, <1>a, ArmedFrame DEF NoSignalMissed, EvalInv
  <2>3. QED
    BY <2>1, <2>2, <1>b DEF EvalInv, InEval, Evaluating
<1>8. ASSUME NEW s \in Steps, TriggerActivated(s) PROVE EvalInv' /\ NoSignalMissed'
  <2>1. phase = "arm" /\ TriggerStep(s, 0, todo \ {s})
    BY <1>8 DEF TriggerActivated
  <2>2. phase' = "arm" /\ UNCHANGED <<signals, cursor, armedAt>>
    BY <2>1, TriggerStepEffect
  <2>3. NoSignalMissed'
    BY <2>1, <2>2, <1>a, ArmedFrame DEF NoSignalMissed, EvalInv
  <2>4. QED
    BY <2>2, <2>3, <1>b DEF EvalInv, InEval, Evaluating
<1>9. ASSUME NEW s \in Steps, TriggerMatched(s) PROVE EvalInv' /\ NoSignalMissed'
  <2>1. phase = "eval" /\ at = "loop" /\ TriggerStep(s, sig, todo \ {s})
    BY <1>9 DEF TriggerMatched
  <2>2. /\ phase' = "eval" /\ at' \in {"loop", "advance"} /\ todo' = todo \ {s}
        /\ UNCHANGED <<signals, cursor, armedAt, sig, last>>
    BY <2>1, TriggerStepEffect
  <2>3. \A t \in Steps : step'[t] = "armed" => step[t] = "armed" /\ t # s
    BY <2>1, TriggerStepEffect DEF TypeOK
  <2>4. InEval /\ Evaluating
    BY <2>1 DEF InEval, Evaluating
  <2>5. QED
    BY <2>2, <2>3, <2>4, <1>a, <1>b DEF EvalInv, InEval, Evaluating, NoSignalMissed
<1>10. ASSUME NEW s \in Steps, MaybeComplete(s) PROVE EvalInv' /\ NoSignalMissed'
  <2>1. phase' = "recon" /\ UNCHANGED <<signals, cursor, armedAt>>
    BY <1>10, MaybeCompleteEffect
  <2>2. \A t \in Steps : step'[t] = "armed" => step[t] = "armed"
    BY <1>10, MaybeCompleteEffect DEF TypeOK
  <2>3. QED
    BY <2>1, <2>2, <1>b DEF EvalInv, InEval, Evaluating, NoSignalMissed
<1>11. ASSUME NEW s \in Steps, Advance(s) PROVE EvalInv' /\ NoSignalMissed'
  <2>1. /\ at = "advance" /\ at' \in {"loop", "arming"}
        /\ UNCHANGED <<step, armedAt, signals, cursor, phase, todo, sig, last>>
    BY <1>11 DEF Advance
  <2>2. QED
    BY <2>1, <1>b DEF EvalInv, InEval, Evaluating, NoSignalMissed
<1>12. ASSUME NEW s \in Steps, ArmSuccessor(s) PROVE EvalInv' /\ NoSignalMissed'
  <2>1. /\ at = "arming" /\ at' \in {"loop", "arming"}
        /\ UNCHANGED <<signals, cursor, phase, todo, sig, last>>
    BY <1>12, ArmSuccessorEffect
  <2>2. \A t \in Steps : step'[t] = "armed" =>
          \/ step[t] = "armed" /\ armedAt'[t] = armedAt[t]
          \/ armedAt'[t] = Len(signals)
    BY <1>12, ArmedFrame
  <2>3. InEval' => InEval /\ Evaluating /\ sig <= last /\ last <= Len(signals)
    BY <2>1 DEF InEval, Evaluating, LoopInv, EvalInv
  <2>4. QED
    BY <2>1, <2>2, <2>3, <1>a, <1>b DEF EvalInv, InEval, Evaluating, NoSignalMissed
<1>13. ASSUME NEW g \in Signal, PollSignal(g) PROVE EvalInv' /\ NoSignalMissed'
  <2>1. phase' = "poll"
    BY <1>13 DEF PollSignal, local
  <2>2. /\ Len(signals') = Len(signals) + 1 /\ UNCHANGED <<step, armedAt, cursor>>
        /\ \A i \in 1..Len(signals) : signals'[i] = signals[i]
    BY <1>13, SignalsAppend
  <2>3. /\ cursor <= Len(signals) /\ cursor \in Nat /\ Len(signals) \in Nat
        /\ \A s \in Steps : armedAt[s] <= Len(signals) /\ armedAt[s] \in Nat
    BY <1>a DEF EvalInv
  <2>4. NoSignalMissed'
    BY <2>2, <2>3 DEF NoSignalMissed, Matches, ConditionsPass, InScope
  <2>5. cursor' <= Len(signals') /\ \A s \in Steps : armedAt'[s] <= Len(signals')
    BY <2>2, <2>3
  <2>6. QED
    BY <2>1, <2>4, <2>5 DEF EvalInv, InEval, Evaluating
<1>14. CASE \/ EnvDispatch \/ UNCHANGED vars
            \/ \E j \in Jobs : EnvAccept(j) \/ \E r \in {"applied", "final_error"} : EnvAttempt(j, r)
  BY <1>14, <1>b DEF EnvDispatch, EnvAccept, EnvAttempt, vars, db, local, EvalInv, InEval, Evaluating, NoSignalMissed
<1>15. QED
  BY <1>1, <1>2, <1>3, <1>4, <1>5, <1>6, <1>7, <1>8, <1>9, <1>10, <1>11, <1>12, <1>13, <1>14
  DEF Next, EngineStep, EnvStep

\* Steps leave "locked" in the order of the graph.
LEMMA UnlockNext ==
  ASSUME TypeOK, LoopInv, UnlockedByPredecessor, [Next]_vars
  PROVE  UnlockedByPredecessor'
<1>1. \A t \in Steps : step[t] = "completed" => step'[t] = "completed"
  <2>1. CASE UNCHANGED <<step, status>>
    BY <2>1
  <2>2. CASE ReconcileApplied \/ EnvDispatch \/ \E j \in Jobs : EnvAccept(j)
    BY <2>2 DEF ReconcileApplied, EnvDispatch, EnvAccept, ProvenJobs
  <2>3. CASE \E s \in Steps : ArmLocked(s)
    BY <2>3 DEF ArmLocked, TypeOK
  <2>4. CASE \E i, rest : \E s \in Steps : TriggerStep(s, i, rest)
    BY <2>4, TriggerStepEffect DEF TypeOK
  <2>5. CASE \E s \in Steps : MaybeComplete(s)
    BY <2>5, MaybeCompleteEffect DEF TypeOK
  <2>6. CASE \E s \in Steps : ArmSuccessor(s)
    BY <2>6, ArmSuccessorEffect DEF TypeOK
  <2>7. QED
    BY <2>1, <2>2, <2>3, <2>4, <2>5, <2>6, StepFrame DEF TriggerActivated, TriggerMatched
<1>2. \A t \in Steps : step[t] = "locked" /\ step'[t] # "locked" =>
        \/ TriggerType[t] = Activation
        \/ \E p \in Predecessors(t) : step[p] = "completed"
  <2>1. CASE UNCHANGED <<step, status>>
    BY <2>1
  <2>2. CASE ReconcileApplied \/ EnvDispatch \/ \E j \in Jobs : EnvAccept(j)
    BY <2>2 DEF ReconcileApplied, EnvDispatch, EnvAccept, ProvenJobs
  <2>3. CASE \E s \in Steps : ArmLocked(s)
    BY <2>3 DEF ArmLocked, TypeOK, LoopInv
  <2>4. CASE \E i, rest : \E s \in Steps : TriggerStep(s, i, rest)
    BY <2>4, TriggerStepEffect DEF TypeOK
  <2>5. CASE \E s \in Steps : MaybeComplete(s)
    BY <2>5, MaybeCompleteEffect DEF TypeOK
  <2>6. CASE \E s \in Steps : ArmSuccessor(s)
    BY <2>6, ArmSuccessorEffect DEF TypeOK, LoopInv
  <2>7. QED
    BY <2>1, <2>2, <2>3, <2>4, <2>5, <2>6, StepFrame DEF TriggerActivated, TriggerMatched
<1>3. QED
  BY <1>1, <1>2 DEF UnlockedByPredecessor, Predecessors

\* What was recorded as the cause of a trigger is one that justifies it.
LEMMA JustifiedNext ==
  ASSUME TypeOK, LoopInv, EvalInv, TriggerJustified, [Next]_vars
  PROVE  TriggerJustified'
<1> DEFINE Ok(s, i) == IF TriggerType[s] = Activation THEN i = 0
                       ELSE i \in 1..Len(signals) /\ Matches(s, signals[i])
           Fired(s) == step[s] \in {"resolving", "completed"}
<1>1. \A s \in Steps, i \in Nat : Ok(s, i) => Ok(s, i)'
  <2>1. CASE \E g \in Signal : PollSignal(g)
    BY <2>1, SignalsAppend DEF TypeOK
  <2>2. UNCHANGED signals \/ \E g \in Signal : PollSignal(g)
    <3>1. CASE Tick \/ Restart \/ Error \/ Crash \/ ArmDone \/ ReconcileDone \/ PollDone \/ SetCursor
      BY <3>1, AtRest
    <3>2. CASE ArmQuery \/ EvalQuery \/ NextSignal \/ SignalDone \/ ReconcileApplied
      BY <3>2 DEF ArmQuery, EvalQuery, NextSignal, SignalDone, ReconcileApplied, db, ActivationSteps, Candidates, FirstUnread, ProvenJobs
    <3>3. CASE \E t \in Steps : \/ TriggerActivated(t) \/ TriggerMatched(t) \/ MaybeComplete(t)
                                \/ Advance(t) \/ ArmLocked(t) \/ ArmSuccessor(t)
      BY <3>3 DEF TriggerActivated, TriggerMatched, TriggerStep, MaybeComplete, Advance, ArmLocked, ArmSuccessor, WithBatch, BatchApplied
    <3>4. CASE UNCHANGED vars \/ EnvDispatch
              \/ \E j \in Jobs : EnvAccept(j) \/ \E r \in {"applied", "final_error"} : EnvAttempt(j, r)
      BY <3>4 DEF vars, db, EnvDispatch, EnvAccept, EnvAttempt
    <3>5. QED
      BY <3>1, <3>2, <3>3, <3>4 DEF Next, EngineStep, EnvStep
  <2>3. QED
    BY <2>1, <2>2
<1>2. \A s \in Steps : \/ Fired(s)' => Fired(s) /\ trig'[s] = trig[s]
                       \/ Ok(s, trig'[s])
  <2>1. CASE \E t \in Steps : TriggerActivated(t)
    <3>1. PICK t \in Steps : TriggerActivated(t)
      BY <2>1
    <3>2. TriggerType[t] = Activation /\ TriggerStep(t, 0, todo \ {t})
      BY <3>1 DEF TriggerActivated, LoopInv
    <3>3. \/ UNCHANGED <<step, trig>>
          \/ \E x \in {"completed", "resolving"} :
               step' = [step EXCEPT ![t] = x] /\ trig' = [trig EXCEPT ![t] = 0]
      BY <3>2, TriggerStepEffect
    <3>4. QED
      BY <3>2, <3>3 DEF TypeOK
  <2>2. CASE \E t \in Steps : TriggerMatched(t)
    <3>1. PICK t \in Steps : TriggerMatched(t)
      BY <2>2
    <3>2. Evaluating /\ t \in todo /\ TriggerStep(t, sig, todo \ {t})
      BY <3>1 DEF TriggerMatched, Evaluating
    <3>3. sig \in 1..Len(signals) /\ Matches(t, signals[sig])
      BY <3>2 DEF LoopInv, EvalInv, InEval, Evaluating, TypeOK
    <3>4. TriggerType[t] # Activation
      <4>1. signals[sig] \in Signal
        BY <3>3 DEF TypeOK
      <4>2. QED
        BY <4>1, <3>3, ConstantShape DEF Matches, Signal
    <3>5. \/ UNCHANGED <<step, trig>>
          \/ \E x \in {"completed", "resolving"} :
               step' = [step EXCEPT ![t] = x] /\ trig' = [trig EXCEPT ![t] = sig]
      BY <3>2, TriggerStepEffect
    <3>6. QED
      BY <3>3, <3>4, <3>5 DEF TypeOK
  <2>3. CASE \E t \in Steps : MaybeComplete(t)
    BY <2>3, MaybeCompleteEffect DEF TypeOK
  <2>4. CASE \E t \in Steps : ArmSuccessor(t)
    BY <2>4, ArmSuccessorEffect DEF TypeOK
  <2>5. CASE \E t \in Steps : ArmLocked(t)
    BY <2>5 DEF ArmLocked, TypeOK
  <2>6. CASE UNCHANGED <<step, trig>>
    BY <2>6
  <2>7. \/ UNCHANGED <<step, trig>>
        \/ \E t \in Steps : \/ ArmLocked(t) \/ TriggerActivated(t) \/ TriggerMatched(t)
                            \/ MaybeComplete(t) \/ ArmSuccessor(t)
    <3>1. CASE Tick \/ Restart \/ Error \/ Crash \/ ArmDone \/ ReconcileDone \/ PollDone \/ SetCursor
      BY <3>1, AtRest
    <3>2. CASE ArmQuery \/ EvalQuery \/ NextSignal \/ SignalDone \/ ReconcileApplied
      BY <3>2 DEF ArmQuery, EvalQuery, NextSignal, SignalDone, ReconcileApplied, db, ActivationSteps, Candidates, FirstUnread, ProvenJobs
    <3>3. CASE UNCHANGED vars \/ EnvStep \/ \E g \in Signal : PollSignal(g)
      BY <3>3 DEF vars, db, EnvStep, PollSignal, EnvDispatch, EnvAccept, EnvAttempt
    <3>4. CASE \E t \in Steps : Advance(t)
      BY <3>4 DEF Advance
    <3>5. QED
      BY <3>1, <3>2, <3>3, <3>4 DEF Next, EngineStep
  <2>8. QED
    BY <2>1, <2>2, <2>3, <2>4, <2>5, <2>6, <2>7
<1>3. QED
  <2>1. SUFFICES ASSUME NEW s \in Steps, Fired(s)' PROVE Ok(s, trig[s])'
    BY DEF TriggerJustified
  <2>2. Ok(s, trig'[s])
    BY <1>2, <2>1 DEF TriggerJustified
  <2>3. trig'[s] \in Nat
    BY TypeNext DEF TypeOK
  <2>4. QED
    BY <1>1, <2>2, <2>3

\* The inductive invariant: LoopInv and EvalInv say what the locals of an
\* interrupted tick mean, the other conjuncts need them.
EngineInv ==
  TypeOK /\ LoopInv /\ EvalInv /\ NoSignalMissed /\ UnlockedByPredecessor /\ TriggerJustified

\* The inductive invariant holds in every state.
LEMMA EngineInvariant == Spec => []EngineInv
<1>1. Init => EngineInv
  BY TypeInit DEF Init, EngineInv, LoopInv, EvalInv, InEval, Evaluating, NoSignalMissed,
     UnlockedByPredecessor, TriggerJustified
<1>2. EngineInv /\ [Next]_vars => EngineInv'
  BY TypeNext, LoopNext, EvalNext, UnlockNext, JustifiedNext DEF EngineInv
<1>3. QED
  BY <1>1, <1>2, PTL DEF Spec

\* Whatever crashes or fails, and whenever: a step is unlocked only after a
\* step before it completed.
THEOREM GraphOrder == Spec => []UnlockedByPredecessor
BY EngineInvariant, PTL DEF EngineInv

\* A trigger always has its justification in the stored signals: type, scope
\* and conditions.
THEOREM Justification == Spec => []TriggerJustified
BY EngineInvariant, PTL DEF EngineInv

\* No signal that an armed step was waiting for is ever consumed without it.
THEOREM NoMissedSignal == Spec => []NoSignalMissed
BY EngineInvariant, PTL DEF EngineInv

\* The locals of a tick mean what their statement says, wherever the tick or
\* the process was stopped before.
THEOREM TickMeaning == Spec => []TickInv
BY EngineInvariant, PTL DEF EngineInv, TickInv

-----------------------------------------------------------------------------
(* Nothing moves backwards.                                                *)

\* Only these actions touch a quest, the cursor or the attempt rows.
LEMMA RowFrame ==
  ASSUME [Next]_vars
  PROVE  /\ UNCHANGED quest \/ \E s \in Steps : Advance(s)
         /\ UNCHANGED cursor \/ SetCursor
         /\ UNCHANGED <<step, trig>> \/ \E s \in Steps :
              \/ ArmLocked(s) \/ TriggerActivated(s) \/ TriggerMatched(s)
              \/ MaybeComplete(s) \/ ArmSuccessor(s)
<1>1. CASE UNCHANGED vars \/ EnvStep \/ \E g \in Signal : PollSignal(g)
  BY <1>1 DEF vars, db, EnvStep, PollSignal, EnvDispatch, EnvAccept, EnvAttempt
<1>2. CASE Error \/ Crash \/ Tick \/ Restart \/ PollDone \/ ArmQuery \/ ArmDone \/ EvalQuery \/ NextSignal
  BY <1>2 DEF Error, Crash, Tick, Restart, PollDone, ArmQuery, ArmDone, EvalQuery, NextSignal, db, ActivationSteps, Candidates, FirstUnread
<1>3. CASE SignalDone \/ SetCursor \/ ReconcileApplied \/ ReconcileDone \/ \E s \in Steps : Advance(s)
  BY <1>3 DEF SignalDone, SetCursor, ReconcileApplied, ReconcileDone, Advance, db, ProvenJobs
<1>4. CASE \E s \in Steps : \/ ArmLocked(s) \/ TriggerActivated(s) \/ TriggerMatched(s)
                            \/ MaybeComplete(s) \/ ArmSuccessor(s)
  BY <1>4 DEF ArmLocked, TriggerActivated, TriggerMatched, TriggerStep, MaybeComplete, ArmSuccessor, WithBatch, BatchApplied
<1>5. QED
  BY <1>1, <1>2, <1>3, <1>4 DEF Next, EngineStep

\* A step only goes from locked to armed, on to resolving and completed; its
\* trigger is recorded with the step that leaves "armed".
LEMMA StepsForward ==
  ASSUME TypeOK, [Next]_vars, NEW s \in Steps
  PROVE  /\ Rank(step'[s]) >= Rank(step[s])
         /\ step[s] \in {"resolving", "completed"} => trig'[s] = trig[s]
         /\ step[s] = "completed" => step'[s] = "completed"
         /\ step[s] # "locked" => step'[s] # "locked"
<1> USE DEF TypeOK, Rank
<1>1. CASE UNCHANGED <<step, trig>>
  BY <1>1
<1>2. CASE \E t \in Steps : ArmLocked(t)
  BY <1>2 DEF ArmLocked
<1>3. CASE \E i, rest : \E t \in Steps : TriggerStep(t, i, rest)
  BY <1>3, TriggerStepEffect
<1>4. CASE \E t \in Steps : MaybeComplete(t)
  BY <1>4, MaybeCompleteEffect
<1>5. CASE \E t \in Steps : ArmSuccessor(t)
  BY <1>5, ArmSuccessorEffect
<1>6. QED
  BY <1>1, <1>2, <1>3, <1>4, <1>5, RowFrame DEF TriggerActivated, TriggerMatched

\* A job row is created QUEUED and goes on from there.
LEMMA JobsForward ==
  ASSUME TypeOK, [Next]_vars, NEW j \in Jobs
  PROVE  JobRank(status'[j]) >= JobRank(status[j])
<1> USE DEF TypeOK, JobRank
<1>1. CASE UNCHANGED status
  BY <1>1
<1>2. CASE ReconcileApplied
  BY <1>2 DEF ReconcileApplied, ProvenJobs
<1>3. CASE EnvDispatch \/ \E k \in Jobs : EnvAccept(k)
  BY <1>3 DEF EnvDispatch, EnvAccept
<1>4. CASE \E i, rest : \E t \in Steps : TriggerStep(t, i, rest)
  BY <1>4, TriggerStepEffect
<1>5. CASE \E t \in Steps : ArmLocked(t) \/ MaybeComplete(t) \/ ArmSuccessor(t)
  BY <1>5, MaybeCompleteEffect, ArmSuccessorEffect DEF ArmLocked
<1>6. QED
  BY <1>1, <1>2, <1>3, <1>4, <1>5, StepFrame DEF TriggerActivated, TriggerMatched

\* The batch that is being evaluated was read after the cursor, so that
\* storing its last id moves the cursor on.
BatchAfterCursor == InEval => cursor <= last

\* The batch and the cursor only change in the evaluator.
LEMMA BatchAfterCursorNext ==
  ASSUME TypeOK, LoopInv, EvalInv, BatchAfterCursor, [Next]_vars
  PROVE  BatchAfterCursor'
<1> USE DEF BatchAfterCursor, InEval
<1>1. CASE Tick \/ Restart \/ Error \/ Crash \/ ArmDone \/ ReconcileDone \/ PollDone \/ SetCursor
  BY <1>1, AtRest
<1>2. CASE EvalQuery
  BY <1>2 DEF EvalQuery, db, EvalInv
<1>3. CASE ArmQuery \/ NextSignal \/ SignalDone \/ ReconcileApplied
  BY <1>3 DEF ArmQuery, NextSignal, SignalDone, ReconcileApplied, db
<1>4. CASE \E t \in Steps : ArmLocked(t) \/ TriggerActivated(t) \/ MaybeComplete(t)
  <2>1. phase' \in {"arm", "recon"}
    BY <1>4, MaybeCompleteEffect, TriggerStepEffect DEF ArmLocked, TriggerActivated
  <2>2. QED
    BY <2>1
<1>5. CASE \E t \in Steps : TriggerMatched(t)
  BY <1>5, TriggerStepEffect DEF TriggerMatched
<1>6. CASE \E t \in Steps : Advance(t) \/ ArmSuccessor(t)
  BY <1>6, ArmSuccessorEffect DEF Advance
<1>7. CASE EnvStep \/ UNCHANGED vars \/ \E g \in Signal : PollSignal(g)
  BY <1>7 DEF EnvStep, EnvDispatch, EnvAccept, EnvAttempt, PollSignal, vars, db, local
<1>8. QED
  BY <1>1, <1>2, <1>3, <1>4, <1>5, <1>6, <1>7 DEF Next, EngineStep

\* The engine's bookkeeping with the order of batch and cursor.
LEMMA OrderedInvariant == Spec => [](EngineInv /\ BatchAfterCursor)
<1>1. Init => BatchAfterCursor
  BY DEF Init, BatchAfterCursor, InEval
<1>2. EngineInv /\ BatchAfterCursor /\ [Next]_vars => BatchAfterCursor'
  BY BatchAfterCursorNext DEF EngineInv
<1>3. QED
  BY <1>1, <1>2, EngineInvariant, PTL DEF Spec

\* No step, job, quest or cursor ever goes back and no trigger is recorded
\* twice, whatever is interrupted and started again.
THEOREM Monotonic == Spec => NeverBackwards
<1>1. EngineInv /\ BatchAfterCursor /\ [Next]_vars => OnlyForward
  <2> SUFFICES ASSUME EngineInv, BatchAfterCursor, [Next]_vars PROVE OnlyForward
    OBVIOUS
  <2>1. TypeOK /\ LoopInv
    BY DEF EngineInv
  <2>2. \A q \in Quests : quest[q] = "completed" => quest'[q] = "completed"
    BY <2>1, RowFrame DEF Advance, TypeOK
  <2>3. cursor' >= cursor
    <3>1. CASE SetCursor
      BY <2>1, <3>1 DEF SetCursor, BatchAfterCursor, InEval, TypeOK
    <3>2. CASE UNCHANGED cursor
      BY <2>1, <3>2 DEF TypeOK
    <3>3. QED
      BY <3>1, <3>2, RowFrame
  <2>4. QED
    BY <2>1, <2>2, <2>3, StepsForward, JobsForward DEF OnlyForward
<1>2. QED
  BY <1>1, OrderedInvariant, PTL DEF Spec, NeverBackwards

-----------------------------------------------------------------------------
(* What ends a quest, and what can strand one.                             *)

\* Only the advance of a completed last step completes a quest.
LEMMA QuestEndedNext ==
  ASSUME TypeOK, LoopInv, QuestEnded, [Next]_vars
  PROVE  QuestEnded'
<1>0. \A s \in Steps : step[s] = "completed" => step'[s] = "completed"
  BY StepsForward
<1>1. CASE \E s \in Steps : Advance(s)
  <2>1. PICK s \in Steps : Advance(s)
    BY <1>1
  <2>2. step[s] = "completed"
    BY <2>1 DEF Advance, LoopInv
  <2>3. CASE Successors(s) = {}
    <3>1. \A q \in Quests : quest'[q] = "completed" => quest[q] = "completed" \/ q = QuestOf[s]
      BY <2>1, <2>3 DEF Advance, TypeOK
    <3>2. QED
      BY <1>0, <2>2, <2>3, <3>1 DEF QuestEnded, Successors
  <2>4. CASE Successors(s) # {}
    BY <1>0, <2>1, <2>4 DEF Advance, QuestEnded, Successors
  <2>5. QED
    BY <2>3, <2>4
<1>2. CASE UNCHANGED quest
  BY <1>0, <1>2 DEF QuestEnded, Successors
<1>3. QED
  BY <1>1, <1>2, RowFrame

\* A completed quest has a completed last step.
THEOREM QuestEnd == Spec => []QuestEnded
<1>1. Init => QuestEnded
  BY DEF Init, QuestEnded
<1>2. EngineInv /\ QuestEnded /\ [Next]_vars => QuestEnded'
  BY QuestEndedNext DEF EngineInv
<1>3. QED
  BY <1>1, <1>2, EngineInvariant, PTL DEF Spec

\* What NothingStranded needs to be inductive: a resolving step has a batch,
\* and only one step is advanced at a time.
OneAtATime ==
  /\ \A s \in Steps : step[s] = "resolving" => JobsOf(s) # {}
  /\ at = "advance" => \A s, t \in cur : s = t

\* A step starts resolving with its batch, and `cur` is set to one step.
LEMMA OneAtATimeNext ==
  ASSUME TypeOK, LoopInv, OneAtATime, [Next]_vars
  PROVE  OneAtATime'
<1> USE DEF OneAtATime
<1>1. CASE UNCHANGED <<step, at, cur>>
  BY <1>1
<1>2. CASE at' \in {"query", "loop", "signal"} /\ UNCHANGED step
  BY <1>2
<1>3. CASE \E t \in Steps : ArmLocked(t)
  BY <1>3 DEF ArmLocked, TypeOK
<1>4. CASE \E i, rest : \E t \in Steps : TriggerStep(t, i, rest)
  BY <1>4, TriggerStepEffect DEF TypeOK
<1>5. CASE \E t \in Steps : MaybeComplete(t)
  <2>1. PICK t \in Steps : MaybeComplete(t)
    BY <1>5
  <2>2. CASE step' = [step EXCEPT ![t] = "completed"] /\ cur' = {t}
    BY <2>2 DEF TypeOK
  <2>3. QED
    BY <1>1, <2>1, <2>2, MaybeCompleteEffect
<1>6. CASE \E t \in Steps : ArmSuccessor(t)
  BY <1>6, ArmSuccessorEffect DEF TypeOK
<1>7. CASE \E t \in Steps : Advance(t)
  BY <1>7 DEF Advance
<1>8. CASE Tick \/ Restart \/ Error \/ Crash \/ ArmDone \/ ReconcileDone \/ PollDone \/ SetCursor
  BY <1>2, <1>8, AtRest
<1>9. CASE ArmQuery \/ EvalQuery \/ NextSignal \/ SignalDone \/ ReconcileApplied
  BY <1>2, <1>9 DEF ArmQuery, EvalQuery, NextSignal, SignalDone, ReconcileApplied, db
<1>10. CASE UNCHANGED vars \/ EnvStep \/ \E g \in Signal : PollSignal(g)
  BY <1>1, <1>10 DEF vars, db, local, EnvStep, PollSignal, EnvDispatch, EnvAccept, EnvAttempt
<1>11. QED
  BY <1>3, <1>4, <1>5, <1>6, <1>7, <1>8, <1>9, <1>10
     DEF Next, EngineStep, TriggerActivated, TriggerMatched

\* Faults are counted: a state without any has had none before.
LEMMA FaultsCounted ==
  ASSUME TypeOK, [Next]_vars, faults' = 0
  PROVE  faults = 0 /\ ~ Error /\ ~ Crash
<1>1. ~ Error /\ ~ Crash
  BY DEF Error, Crash, TypeOK
<1>2. CASE UNCHANGED vars \/ EnvStep \/ \E g \in Signal : PollSignal(g)
  BY <1>1, <1>2 DEF vars, EnvStep, PollSignal, EnvDispatch, EnvAccept, EnvAttempt
<1>3. CASE Tick \/ Restart \/ PollDone \/ ArmQuery \/ ArmDone \/ EvalQuery \/ NextSignal
  BY <1>1, <1>3 DEF Tick, Restart, PollDone, ArmQuery, ArmDone, EvalQuery, NextSignal
<1>4. CASE SignalDone \/ SetCursor \/ ReconcileApplied \/ ReconcileDone \/ \E s \in Steps : Advance(s)
  BY <1>1, <1>4 DEF SignalDone, SetCursor, ReconcileApplied, ReconcileDone, Advance
<1>5. CASE \E s \in Steps : \/ ArmLocked(s) \/ TriggerActivated(s) \/ TriggerMatched(s)
                            \/ MaybeComplete(s) \/ ArmSuccessor(s)
  BY <1>1, <1>5 DEF ArmLocked, TriggerActivated, TriggerMatched, TriggerStep, MaybeComplete, ArmSuccessor
<1>6. QED
  BY <1>1, <1>2, <1>3, <1>4, <1>5 DEF Next, EngineStep

\* The steps whose last job a reconciliation makes APPLIED are in its loop,
\* which leaves none of them behind.
LEMMA ReconciledNext ==
  ASSUME TypeOK, LoopInv, BatchWithStep, OneAtATime, [Next]_vars, ~ Error, ~ Crash,
         \A s \in Steps : Unreconciled(s) => phase = "recon" /\ s \in todo,
         NEW s \in Steps, Unreconciled(s)'
  PROVE  phase' = "recon" /\ s \in todo'
<1> USE DEF Unreconciled, JobsOf
<1>0. /\ step \in [Steps -> {"locked", "armed", "resolving", "completed"}]
      /\ status \in [Jobs -> {"none", "QUEUED", "DISPATCHED", "WAITING_WORLD", "APPLIED"}]
  BY DEF TypeOK
<1>1. CASE /\ UNCHANGED <<step, phase, todo>>
           /\ \A j \in Jobs : status'[j] = "APPLIED" => status[j] = "APPLIED"
  BY <1>1
<1>2. CASE Tick \/ Restart \/ PollDone \/ ArmDone \/ ReconcileDone \/ SetCursor
  <2>1. phase = "recon" => todo = {}
    BY <1>2 DEF Tick, Restart, PollDone, ArmDone, ReconcileDone, SetCursor
  <2>2. QED
    BY <1>2, <2>1, AtRest
<1>3. CASE ArmQuery \/ EvalQuery \/ NextSignal \/ SignalDone
  BY <1>3 DEF ArmQuery, EvalQuery, NextSignal, SignalDone, db
<1>4. CASE ReconcileApplied
  <2>1. /\ phase' = "recon" /\ todo = {} /\ UNCHANGED step
        /\ todo' = {StepOf[j] : j \in ProvenJobs}
        /\ \A j \in Jobs : status'[j] = "APPLIED" => status[j] = "APPLIED" \/ j \in ProvenJobs
    BY <1>4 DEF ReconcileApplied, LoopInv
  <2>2. PICK j \in Jobs : StepOf[j] = s /\ status[j] # "APPLIED"
    BY <2>1
  <2>3. j \in ProvenJobs
    BY <2>1, <2>2
  <2>4. QED
    BY <2>1, <2>2, <2>3
<1>5. ASSUME NEW t \in Steps, ArmLocked(t) PROVE FALSE
  BY <1>0, <1>5 DEF ArmLocked
<1>6. ASSUME NEW t \in Steps, NEW i, NEW rest, TriggerStep(t, i, rest), phase # "recon" PROVE FALSE
  <2>1. CASE UNCHANGED <<step, status>>
    BY <1>6, <2>1
  <2>2. CASE step' = [step EXCEPT ![t] = "completed"] /\ UNCHANGED status
    BY <1>0, <1>6, <2>2
  <2>3. CASE /\ step[t] = "armed" /\ JobsOf(t) # {} /\ step' = [step EXCEPT ![t] = "resolving"]
             /\ status' = [j \in Jobs |-> IF StepOf[j] = t /\ status[j] = "none"
                                            THEN "QUEUED" ELSE status[j]]
    <3>1. CASE s = t
      <4>1. PICK j \in Jobs : StepOf[j] = t
        BY <2>3
      <4>2. status[j] = "none"
        BY <2>3, <4>1 DEF BatchWithStep
      <4>3. status'[j] = "QUEUED"
        BY <2>3, <4>1, <4>2
      <4>4. QED
        BY <3>1, <4>1, <4>3
    <3>2. CASE s # t
      BY <1>0, <1>6, <2>3, <3>2
    <3>3. QED
      BY <3>1, <3>2
  <2>4. QED
    BY <1>6, <2>1, <2>2, <2>3, TriggerStepEffect
<1>7. ASSUME NEW t \in Steps, MaybeComplete(t) PROVE phase' = "recon" /\ s \in todo'
  <2>1. /\ phase' = "recon" /\ phase = "recon" /\ todo' = todo \ {t} /\ UNCHANGED status
    BY <1>7, MaybeCompleteEffect
  <2>2. CASE step[t] = "resolving" /\ BatchApplied(t)
    <3>1. step' = [step EXCEPT ![t] = "completed"]
      BY <1>7, <2>2, Zenon DEF MaybeComplete
    <3>2. QED
      BY <1>0, <2>1, <3>1
  <2>3. CASE ~ (step[t] = "resolving" /\ BatchApplied(t))
    <3>1. UNCHANGED step
      BY <1>7, <2>3, Zenon DEF MaybeComplete
    <3>2. s # t
      BY <2>1, <2>3, <3>1 DEF BatchApplied, OneAtATime
    <3>3. QED
      BY <2>1, <3>1, <3>2
  <2>4. QED
    BY <2>2, <2>3
<1>8. ASSUME NEW t \in Steps, ArmSuccessor(t) PROVE phase' = "recon" /\ s \in todo'
  BY <1>0, <1>8, ArmSuccessorEffect
<1>9. CASE UNCHANGED vars \/ EnvStep \/ (\E g \in Signal : PollSignal(g)) \/ \E t \in Steps : Advance(t)
  BY <1>0, <1>1, <1>9 DEF vars, db, local, EnvStep, PollSignal, EnvDispatch, EnvAccept, EnvAttempt, Advance
<1>10. QED
  BY <1>2, <1>3, <1>4, <1>5, <1>6, <1>7, <1>8, <1>9
     DEF Next, EngineStep, TriggerActivated, TriggerMatched

\* A completed step is advanced before anything else is looked at.
LEMMA AdvancedNext ==
  ASSUME TypeOK, LoopInv, OneAtATime, [Next]_vars, ~ Error, ~ Crash,
         \A s \in Steps : step[s] = "completed" => Advanced(s) \/ (at = "advance" /\ s \in cur),
         NEW s \in Steps, step'[s] = "completed"
  PROVE  Advanced(s)' \/ (at' = "advance" /\ s \in cur')
<1> USE DEF Advanced, Successors
<1>0. /\ \A t \in Steps : step[t] # "locked" => step'[t] # "locked"
      /\ QuestOf[s] \in Quests
  BY StepsForward, ConstantTypes
<1>a. quest[QuestOf[s]] = "completed" => quest'[QuestOf[s]] = "completed"
  BY <1>0, RowFrame DEF Advance, TypeOK
<1>1. CASE step[s] = "completed" /\ at \notin {"advance", "arming"}
  BY <1>0, <1>a, <1>1
<1>2. CASE step[s] # "completed"
  <2>1. \/ \E t \in Steps : \E i, rest : TriggerStep(t, i, rest)
        \/ \E t \in Steps : ArmLocked(t) \/ MaybeComplete(t) \/ ArmSuccessor(t)
    BY <1>2, RowFrame DEF TriggerActivated, TriggerMatched
  <2>2. CASE \E t \in Steps : ArmLocked(t) \/ ArmSuccessor(t)
    BY <1>2, <2>2, ArmSuccessorEffect DEF ArmLocked, TypeOK
  <2>3. CASE \E t \in Steps : \E i, rest : TriggerStep(t, i, rest)
    BY <1>2, <2>3, TriggerStepEffect DEF TypeOK
  <2>4. CASE \E t \in Steps : MaybeComplete(t)
    BY <1>2, <2>4, MaybeCompleteEffect DEF TypeOK
  <2>5. QED
    BY <2>1, <2>2, <2>3, <2>4
<1>3. CASE UNCHANGED <<step, quest, at, cur, adv>>
  BY <1>3
<1>4. CASE \E t \in Steps : Advance(t)
  <2>1. PICK t \in Steps : Advance(t)
    BY <1>4
  <2>2. at = "advance" /\ t \in cur /\ UNCHANGED step /\ \A u \in cur : u = t
    BY <2>1 DEF Advance, OneAtATime
  <2>3. CASE s = t
    BY <1>0, <2>1, <2>3 DEF Advance, TypeOK
  <2>4. CASE s # t
    BY <1>0, <1>a, <2>2, <2>4
  <2>5. QED
    BY <2>3, <2>4
<1>5. CASE \E t \in Steps : ArmSuccessor(t)
  <2>1. PICK t \in Steps : ArmSuccessor(t)
    BY <1>5
  <2>2. /\ at = "arming" /\ adv' = adv \ {t} /\ UNCHANGED quest
        /\ step[s] = "completed" /\ step'[t] # "locked"
    BY <2>1 DEF ArmSuccessor, TypeOK
  <2>3. at' = IF adv = {t} THEN "loop" ELSE "arming"
    BY <2>1 DEF ArmSuccessor
  <2>4. CASE Successors(s) = {}
    BY <2>2, <2>4
  <2>5. ASSUME NEW u \in Successors(s), u # t
        PROVE  step'[u] # "locked" \/ (at' = "arming" /\ u \in adv')
    <3>1. step[u] # "locked" \/ u \in adv
      BY <2>2, <2>5
    <3>2. QED
      BY <1>0, <2>2, <2>3, <2>5, <3>1
  <2>6. QED
    BY <2>2, <2>4, <2>5
<1>6. QED
  <2>1. CASE \/ Tick \/ Restart \/ PollDone \/ ArmQuery \/ ArmDone \/ EvalQuery \/ NextSignal
             \/ SignalDone \/ SetCursor \/ ReconcileApplied \/ ReconcileDone
             \/ \E g \in Signal : PollSignal(g)
    <3>1. at \notin {"advance", "arming"}
      BY <2>1 DEF LoopInv, Tick, Restart, PollDone, PollSignal, ArmQuery, ArmDone, EvalQuery,
         NextSignal, SignalDone, SetCursor, ReconcileApplied, ReconcileDone
    <3>2. QED
      BY <1>1, <1>2, <3>1
  <2>2. CASE \E t \in Steps : ArmLocked(t) \/ TriggerActivated(t) \/ TriggerMatched(t) \/ MaybeComplete(t)
    <3>1. at \notin {"advance", "arming"}
      BY <2>2, MaybeCompleteEffect DEF ArmLocked, TriggerActivated, TriggerMatched
    <3>2. QED
      BY <1>1, <1>2, <3>1
  <2>3. CASE UNCHANGED vars \/ EnvStep
    BY <1>3, <2>3 DEF vars, db, local, EnvStep, EnvDispatch, EnvAccept, EnvAttempt
  <2>4. QED
    BY <1>4, <1>5, <2>1, <2>2, <2>3 DEF Next, EngineStep

\* An engine whose statements all succeed leaves no quest behind: the
\* strandings the stranding run shows are the work of faults alone.
THEOREM OnlyFaultsStrand == Spec => []NothingStranded
<1> DEFINE I == EngineInv /\ BatchWithStep /\ OneAtATime /\ NothingStranded
<1>1. Init => OneAtATime /\ NothingStranded
  BY DEF Init, OneAtATime, NothingStranded, Unreconciled
<1>2. I /\ BatchWithStep' /\ [Next]_vars => OneAtATime' /\ NothingStranded'
  <2> SUFFICES ASSUME I, [Next]_vars PROVE OneAtATime' /\ NothingStranded'
    OBVIOUS
  <2>1. OneAtATime'
    BY OneAtATimeNext DEF EngineInv
  <2>2. ASSUME faults' = 0
        PROVE  /\ \A s \in Steps : Unreconciled(s)' => phase' = "recon" /\ s \in todo'
               /\ \A s \in Steps : step'[s] = "completed" => Advanced(s)' \/ (at' = "advance" /\ s \in cur')
    <3>1. faults = 0 /\ ~ Error /\ ~ Crash
      BY <2>2, FaultsCounted DEF EngineInv
    <3>2. /\ \A s \in Steps : Unreconciled(s) => phase = "recon" /\ s \in todo
          /\ \A s \in Steps : step[s] = "completed" => Advanced(s) \/ (at = "advance" /\ s \in cur)
      BY <3>1 DEF NothingStranded
    <3>3. QED
      BY <3>1, <3>2, ReconciledNext, AdvancedNext DEF EngineInv
  <2>3. QED
    BY <2>1, <2>2 DEF NothingStranded
<1>3. QED
  BY <1>1, <1>2, EngineInvariant, WholeBatches, PTL DEF Spec

-----------------------------------------------------------------------------
(* The engine and the transport together: each step of the whole is one of *)
(* either part, as that part knows it.                                     *)

\* What the two parts know of their common rows, and what the proofs of each
\* need of the other.
SystemInv == TypeOK /\ BatchWithStep /\ Transport!TypeOK /\ Transport!DeliveryInv

\* A statement of the engine creates a batch, reconciles, or leaves the rows
\* of the jobs alone.
LEMMA EngineOnRows ==
  ASSUME EngineStep \/ Error \/ \E g \in Signal : PollSignal(g)
  PROVE  /\ UNCHANGED attempt
         /\ \/ UNCHANGED status
            \/ ReconcileApplied
            \/ \E s \in Steps : step[s] = "armed" /\ JobsOf(s) # {} /\ status' = WithBatch(s)
<1>1. CASE Tick \/ Restart \/ PollDone \/ ArmQuery \/ ArmDone \/ EvalQuery \/ NextSignal \/ Error
  BY <1>1 DEF Tick, Restart, PollDone, ArmQuery, ArmDone, EvalQuery, NextSignal, Error, db, ActivationSteps, Candidates, FirstUnread
<1>2. CASE SignalDone \/ SetCursor \/ ReconcileDone \/ \E s \in Steps : Advance(s) \/ ArmLocked(s) \/ ArmSuccessor(s)
  BY <1>2 DEF SignalDone, SetCursor, ReconcileDone, Advance, ArmLocked, ArmSuccessor, db
<1>3. CASE ReconcileApplied
  BY <1>3 DEF ReconcileApplied
<1>4. CASE \E s \in Steps : MaybeComplete(s)
  BY <1>4, MaybeCompleteEffect
<1>5. CASE \E i, rest : \E s \in Steps : TriggerStep(s, i, rest)
  BY <1>5, TriggerStepEffect DEF WithBatch
<1>6. CASE \E g \in Signal : PollSignal(g)
  BY <1>6 DEF PollSignal
<1>7. QED
  BY <1>1, <1>2, <1>3, <1>4, <1>5, <1>6 DEF EngineStep, TriggerActivated, TriggerMatched

\* To the transport, the engine creates a batch whose rows were not there, or
\* reconciles exactly the jobs the transport has proven.
LEMMA EngineSeen ==
  ASSUME SystemInv, EngineMoves
  PROVE  [Transport!Next]_Transport!vars
<1> USE DEF Transport!vars, Transport!db, Transport!dispatcher, Transport!files, Transport!lua,
            Transport!world, Transport!budget, transportVars
<1>0. /\ UNCHANGED transportVars /\ UNCHANGED attempt
      /\ \/ UNCHANGED status
         \/ ReconcileApplied
         \/ \E s \in Steps : step[s] = "armed" /\ JobsOf(s) # {} /\ status' = WithBatch(s)
  BY EngineOnRows DEF EngineMoves
<1>a. status \in [Jobs -> {"none", "QUEUED", "DISPATCHED", "WAITING_WORLD", "APPLIED"}]
  BY DEF SystemInv, TypeOK
<1>1. CASE UNCHANGED status
  BY <1>0, <1>1
<1>2. CASE ReconcileApplied
  <2>1. Transport!ProvenJobs = ProvenJobs
    BY DEF SystemInv, Transport!DeliveryInv, Transport!DispatchedFirst, Transport!Known,
       Transport!ProvenJobs, ProvenJobs
  <2>2. status' = [j \in Jobs |-> IF j \in Transport!ProvenJobs THEN "APPLIED" ELSE status[j]]
    BY <1>2, <2>1 DEF ReconcileApplied
  <2>3. CASE Transport!ProvenJobs # {}
    BY <1>0, <2>2, <2>3 DEF Transport!Reconcile, Transport!Next
  <2>4. CASE Transport!ProvenJobs = {}
    <3>1. status' = status
      BY <1>a, <2>2, <2>4
    <3>2. QED
      BY <1>1, <3>1
  <2>5. QED
    BY <2>3, <2>4
<1>3. ASSUME NEW s \in Steps, step[s] = "armed", JobsOf(s) # {}, status' = WithBatch(s)
      PROVE  Transport!Next
  <2>1. \A j \in JobsOf(s) : status[j] = "none"
    BY <1>3 DEF SystemInv, BatchWithStep, JobsOf
  <2>2. status' = [j \in Jobs |-> IF j \in JobsOf(s) THEN "QUEUED" ELSE status[j]]
    BY <1>3, <2>1 DEF WithBatch, JobsOf
  <2>3. Transport!CreateJobs(JobsOf(s)) /\ JobsOf(s) \in SUBSET Jobs
    BY <1>0, <1>3, <2>1, <2>2 DEF Transport!CreateJobs, JobsOf
  <2>4. QED
    BY <2>3 DEF Transport!Next
<1>4. QED
  BY <1>0, <1>1, <1>2, <1>3

\* A step of the transport that is not the engine's is, to the engine, a
\* dispatch, an acceptance, a first result, or nothing.
LEMMA TransportSeen ==
  ASSUME Transport!JobsAssumption, SystemInv, Transport!Next, UNCHANGED engineVars,
         UNCHANGED status \/ Transport!Claim \/ \E l \in log : Transport!ReadAccepted(l)
  PROVE  [Next]_vars
<1> USE DEF engineVars, vars, db
<1>a. /\ status \in [Jobs -> {"none", "QUEUED", "DISPATCHED", "WAITING_WORLD", "APPLIED"}]
      /\ attempt \in [Jobs -> {"none", "applied", "final_error"}]
      /\ log \subseteq Transport!Line
  BY DEF SystemInv, TypeOK, Transport!TypeOK
<1>1. CASE UNCHANGED <<status, attempt>>
  BY <1>1
<1>2. CASE Transport!Claim
  <2>1. /\ UNCHANGED attempt
        /\ status' = [j \in Jobs |-> IF status[j] = "QUEUED" THEN "DISPATCHED" ELSE status[j]]
    BY <1>2 DEF Transport!Claim
  <2>2. CASE \E j \in Jobs : status[j] = "QUEUED"
    BY <2>1, <2>2 DEF EnvDispatch, EnvStep, Next
  <2>3. CASE ~ \E j \in Jobs : status[j] = "QUEUED"
    <3>1. status' = status
      BY <1>a, <2>1, <2>3
    <3>2. QED
      BY <1>1, <2>1, <3>1
  <2>4. QED
    BY <2>2, <2>3
<1>3. ASSUME NEW l \in log, Transport!ReadAccepted(l)
      PROVE  [Next]_vars
  <2>1. UNCHANGED attempt /\ l.job \in Jobs
    BY <1>a, <1>3 DEF Transport!ReadAccepted, Transport!Line
  <2>2. CASE status[l.job] = "DISPATCHED"
    BY <1>3, <2>1, <2>2 DEF Transport!ReadAccepted, Transport!AcceptedStatus, EnvAccept, EnvStep, Next
  <2>3. CASE status[l.job] # "DISPATCHED"
    BY <1>1, <1>3, <2>1, <2>3 DEF Transport!ReadAccepted
  <2>4. QED
    BY <2>2, <2>3
<1>4. ASSUME NEW l \in log, Transport!ReadResult(l)
      PROVE  [Next]_vars
  <2>1. /\ UNCHANGED status /\ l.job \in Jobs /\ l.result \in {"applied", "final_error"}
        /\ status[l.job] \notin {"none", "QUEUED"}
    BY <1>a, <1>4 DEF Transport!ReadResult, Transport!Line, Transport!Results, SystemInv,
       Transport!DeliveryInv, Transport!DispatchedFirst, Transport!Known
  <2>2. CASE attempt[l.job] = "none"
    BY <1>4, <2>1, <2>2 DEF Transport!ReadResult, EnvAttempt, EnvStep, Next
  <2>3. CASE attempt[l.job] # "none"
    BY <1>1, <1>4, <2>1, <2>3 DEF Transport!ReadResult
  <2>4. QED
    BY <2>2, <2>3
<1>5. UNCHANGED attempt \/ \E l \in log : Transport!ReadResult(l)
  BY Transport!AttemptSteps
<1>6. QED
  BY <1>1, <1>2, <1>3, <1>4, <1>5

\* The other goroutines of the exporter and the game, to the transport and to
\* the engine.
LEMMA OthersSeen ==
  ASSUME Transport!JobsAssumption, SystemInv, ExporterMoves \/ GameMoves
  PROVE  [Next]_vars /\ Transport!Next
<1>1. Transport!Next /\ UNCHANGED engineVars
  BY DEF ExporterMoves, GameMoves, Transport!Next
<1>2. \/ UNCHANGED status \/ Transport!Claim \/ \E l \in log : Transport!ReadAccepted(l)
      \/ (\E S \in SUBSET Jobs : Transport!CreateJobs(S)) \/ Transport!Reconcile
  BY <1>1, Transport!RowSteps
<1>3. UNCHANGED status \/ Transport!Claim \/ \E l \in log : Transport!ReadAccepted(l)
  <2> USE DEF Transport!db
  <2>1. CASE Transport!DispatchStep
    BY <2>1 DEF Transport!DispatchStep, Transport!SelectStale, Transport!ListDispatched,
       Transport!Publish, Transport!Renew, Transport!WriteJobFile
  <2>2. CASE Transport!ReadStep
    BY <2>2 DEF Transport!ReadStep, Transport!ReadResult
  <2>3. CASE Transport!TickAborted \/ \E j \in Jobs : Transport!WriteFails(j)
    BY <2>3 DEF Transport!TickAborted, Transport!WriteFails
  <2>4. CASE Transport!PollStep
    BY <2>4 DEF Transport!PollStep, Transport!Poll, Transport!SkipFile, Transport!RepeatReceipt,
       Transport!RequestAction
  <2>5. CASE Transport!SweepOnBoot \/ \E j \in Transport!Valid : Transport!TargetLoaded(j) \/ Transport!TargetUnloaded(j)
    BY <2>5 DEF Transport!SweepOnBoot, Transport!TargetLoaded, Transport!TargetUnloaded
  <2>6. CASE Transport!Save \/ Transport!GameRestart \/ Transport!GameCrash
    BY <2>6 DEF Transport!Save, Transport!GameRestart, Transport!GameCrash, Transport!Boot
  <2>7. QED
    BY <2>1, <2>2, <2>3, <2>4, <2>5, <2>6 DEF ExporterMoves, GameMoves
<1>4. QED
  BY <1>1, <1>3, TransportSeen

\* A stop of the exporter is a crash of the engine, and to the transport an
\* aborted tick or nothing.
LEMMA StopSeen ==
  ASSUME ExporterStops
  PROVE  Next /\ [Transport!Next]_Transport!vars
BY DEF ExporterStops, Crash, Next, Transport!Next, Transport!vars, Transport!db, Transport!dispatcher,
   Transport!files, Transport!lua, Transport!world, Transport!budget, transportVars, db

\* Every step of the whole is a step of both parts.
LEMMA BothSides ==
  ASSUME Transport!JobsAssumption, SystemInv, [SystemNext]_systemVars
  PROVE  [Next]_vars /\ [Transport!Next]_Transport!vars
<1>1. CASE EngineMoves
  <2>1. Next
    BY <1>1 DEF EngineMoves, Next
  <2>2. QED
    BY <1>1, <2>1, EngineSeen
<1>2. CASE ExporterMoves \/ GameMoves
  BY <1>2, OthersSeen
<1>3. CASE ExporterStops
  BY <1>3, StopSeen
<1>4. CASE UNCHANGED systemVars
  BY <1>4 DEF systemVars, transportVars, vars, db, Transport!vars, Transport!db, Transport!dispatcher,
     Transport!files, Transport!lua, Transport!world, Transport!budget
<1>5. QED
  BY <1>1, <1>2, <1>3, <1>4 DEF SystemNext

\* Neither part disturbs what the other relies on.
LEMMA SystemInvariant ==
  ASSUME Transport!JobsAssumption
  PROVE  SystemSpec => []SystemInv
<1>1. SystemInit => SystemInv
  <2>1. Init => BatchWithStep
    BY ConstantTypes DEF Init, BatchWithStep
  <2>2. QED
    BY <2>1, TypeInit, Transport!TypeInit, Transport!DeliveryInit DEF SystemInit, SystemInv
<1>2. SystemInv /\ [SystemNext]_systemVars => SystemInv'
  <2> SUFFICES ASSUME SystemInv, [SystemNext]_systemVars PROVE SystemInv'
    OBVIOUS
  <2>1. [Next]_vars /\ [Transport!Next]_Transport!vars
    BY BothSides
  <2>2. TypeOK' /\ BatchWithStep'
    BY <2>1, TypeNext, BatchNext DEF SystemInv
  <2>3. Transport!TypeOK' /\ Transport!DeliveryInv'
    BY <2>1, Transport!TypeNext, Transport!DeliveryNext DEF SystemInv
  <2>4. QED
    BY <2>2, <2>3 DEF SystemInv
<1>3. QED
  BY <1>1, <1>2, PTL DEF SystemSpec

\* Put together, the engine is still the engine of QuestEngine and the
\* transport that of JobDelivery: what is proved of either holds in the whole.
THEOREM Composition ==
  ASSUME Rejected \subseteq Jobs
  PROVE  SystemSpec => PartsKept
<1>0. Transport!JobsAssumption
  BY ConstantTypes DEF Transport!JobsAssumption
<1>1. SystemInit => Init /\ Transport!Init
  BY DEF SystemInit
<1>2. SystemInv /\ [SystemNext]_systemVars => [Next]_vars /\ [Transport!Next]_Transport!vars
  BY <1>0, BothSides
<1>3. SystemSpec => []SystemInv
  BY <1>0, SystemInvariant
<1>4. QED
  BY <1>1, <1>2, <1>3, PTL DEF SystemSpec, PartsKept, Spec, Transport!Spec

\* A step is completed only on account of changes that are in the world, none
\* of them of a refused job, and a quest only by a last step: the promise no
\* part of the system can make alone.
THEOREM EndToEnd ==
  ASSUME Rejected \subseteq Jobs
  PROVE  SystemSpec => []QuestInWorld
<1>0. Transport!JobsAssumption
  BY ConstantTypes DEF Transport!JobsAssumption
<1>1. SystemSpec => Spec /\ Transport!Spec
  BY Composition DEF PartsKept
<1>2. Transport!Spec => []Transport!DeliveryInv /\ []Transport!NoJobLost /\ []Transport!RejectedUntouched
  BY <1>0, Transport!Delivery, Transport!NoneLost, Transport!RejectedNeverApplied
<1>3. /\ CompletedIsProven /\ QuestEnded
      /\ Transport!DeliveryInv /\ Transport!NoJobLost /\ Transport!RejectedUntouched
      => QuestInWorld
  <2> SUFFICES ASSUME CompletedIsProven, QuestEnded,
                      Transport!DeliveryInv, Transport!NoJobLost, Transport!RejectedUntouched
               PROVE  QuestInWorld
    OBVIOUS
  <2>1. ASSUME NEW j \in Jobs, step[StepOf[j]] = "completed"
        PROVE  /\ j \in happened /\ j \notin Rejected
               /\ lost = 0 /\ crashes = 0 => effect[j] = 1
    <3>1. status[j] = "APPLIED" /\ attempt[j] = "applied"
      BY <2>1 DEF CompletedIsProven
    <3>2. j \in happened
      BY <3>1 DEF Transport!DeliveryInv, Transport!AppliedHappened
    <3>3. j \notin Rejected
      BY <3>2 DEF Transport!RejectedUntouched
    <3>4. lost = 0 /\ crashes = 0 => effect[j] = 1
      BY <3>1 DEF Transport!NoJobLost, Transport!InHands
    <3>5. QED
      BY <3>2, <3>3, <3>4
  <2>2. QED
    BY <2>1 DEF QuestInWorld, QuestEnded, Successors
<1>4. QED
  BY <1>1, <1>2, <1>3, Completion, QuestEnd, PTL

\* No change comes before the trigger that calls for it, and none before the
\* changes of the step it follows.
THEOREM CauseBeforeChange ==
  ASSUME Rejected \subseteq Jobs
  PROVE  SystemSpec => []WorldInOrder
<1> DEFINE Dispatched == \A j \in happened : Transport!Known(j)
<1>0. Transport!JobsAssumption
  BY ConstantTypes DEF Transport!JobsAssumption
<1>1. SystemSpec => Spec /\ Transport!Spec
  BY Composition DEF PartsKept
<1>2. Transport!Spec => []Transport!TypeOK /\ []Dispatched
  BY <1>0, Transport!TypeCorrect, Transport!HappenedKnown
<1>3. Transport!TypeOK /\ Dispatched /\ BatchWithStep /\ UnlockedByPredecessor /\ TriggerJustified
      /\ QuestInWorld => WorldInOrder
  <2> SUFFICES ASSUME Transport!TypeOK, Dispatched, BatchWithStep, UnlockedByPredecessor,
                      TriggerJustified, QuestInWorld, NEW j \in happened
               PROVE  /\ step[StepOf[j]] \in {"resolving", "completed"}
                      /\ TriggerType[StepOf[j]] # Activation =>
                           /\ trig[StepOf[j]] \in 1..Len(signals)
                           /\ Matches(StepOf[j], signals[trig[StepOf[j]]])
                           /\ \E p \in Predecessors(StepOf[j]) : JobsOf(p) \subseteq happened \ Rejected
    BY DEF WorldInOrder
  <2>1. j \in Jobs /\ StepOf[j] \in Steps
    BY ConstantTypes DEF Transport!TypeOK
  <2>2. step[StepOf[j]] \in {"resolving", "completed"}
    BY <2>1 DEF BatchWithStep, Transport!Known
  <2>3. ASSUME TriggerType[StepOf[j]] # Activation
        PROVE  /\ trig[StepOf[j]] \in 1..Len(signals)
               /\ Matches(StepOf[j], signals[trig[StepOf[j]]])
    BY <2>1, <2>2, <2>3 DEF TriggerJustified
  <2>4. ASSUME TriggerType[StepOf[j]] # Activation
        PROVE  \E p \in Predecessors(StepOf[j]) : JobsOf(p) \subseteq happened \ Rejected
    <3>1. PICK p \in Predecessors(StepOf[j]) : step[p] = "completed"
      BY <2>1, <2>2, <2>4 DEF UnlockedByPredecessor
    <3>2. \A k \in JobsOf(p) : k \in happened /\ k \notin Rejected
      BY <3>1 DEF QuestInWorld, JobsOf
    <3>3. QED
      BY <3>2
  <2>5. QED
    BY <2>2, <2>3, <2>4
<1>4. QED
  BY <1>1, <1>2, <1>3, EndToEnd, WholeBatches, GraphOrder, Justification, PTL
=============================================================================
