------------------------- MODULE JobDeliveryProofs -------------------------
(***************************************************************************)
(* The transport's safety for every set of jobs and any number of          *)
(* failures, restarts and crashes on either side.                          *)
(***************************************************************************)
EXTENDS JobDelivery, TLAPS

-----------------------------------------------------------------------------
(* What the operators shared by several game callbacks do.                 *)

\* Emit: the log only grows, by given lines, and by all of them if nothing was
\* lost.
LEMMA EmitEffect ==
  ASSUME NEW lines, Emit(lines), lost \in Nat
  PROVE  /\ log \subseteq log' /\ log' \subseteq log \cup lines
         /\ lost' \in Nat
         /\ lost' = 0 => lost = 0 /\ log' = log \cup lines
<1>1. PICK failed \in SUBSET lines :
        /\ lost' = IF failed = {} THEN lost ELSE lost + 1
        /\ log' = log \cup (lines \ failed)
  BY DEF Emit
<1>2. CASE failed = {}
  BY <1>1, <1>2
<1>3. CASE failed # {}
  <2>1. lost' = lost + 1
    BY <1>1, <1>3
  <2>2. lost' # 0 /\ lost' \in Nat
    BY <2>1
  <2>3. QED
    BY <1>1, <2>2
<1>4. QED
  BY <1>2, <1>3

\* The pending actions of S are gone, those of `done` changed the world, and
\* if nothing was lost each left the line of its outcome.
Outcome(S, waiting, more, done) ==
  /\ effect' = [j \in Jobs |-> IF j \in done THEN effect[j] + waiting[j] ELSE effect[j]]
  /\ happened' = happened \cup done
  /\ pending' = [j \in Jobs |-> IF j \in S THEN 0 ELSE waiting[j]]
  /\ log \subseteq log'
  /\ \A l \in log' : \/ l \in log \/ l \in more
                     \/ /\ l \in Line /\ l.job \in S /\ l.result \in Results
                        /\ l.result = "applied" => l.job \in done
  /\ lost' \in Nat
  /\ lost' = 0 => /\ lost = 0
                  /\ \A j \in S : \E r \in Results : ResultLine(j, r) \in log'

\* Resolve has such an outcome.
LEMMA ResolveEffect ==
  ASSUME NEW S \in SUBSET Jobs, NEW waiting, NEW more, Resolve(S, waiting, more), lost \in Nat
  PROVE  \E done \in SUBSET S : Outcome(S, waiting, more, done)
<1>1. PICK outcome \in [S -> Results] :
        LET done == {j \in S : outcome[j] = "applied"}
        IN  /\ effect' = [j \in Jobs |-> IF j \in done THEN effect[j] + waiting[j] ELSE effect[j]]
            /\ happened' = happened \cup done
            /\ pending' = [j \in Jobs |-> IF j \in S THEN 0 ELSE waiting[j]]
            /\ Emit({[job |-> j, result |-> outcome[j]] : j \in S} \cup more)
  BY Zenon DEF Resolve
<1> DEFINE done == {j \in S : outcome[j] = "applied"}
           lines == {[job |-> j, result |-> outcome[j]] : j \in S}
<1>2. /\ log \subseteq log' /\ log' \subseteq log \cup (lines \cup more)
      /\ lost' \in Nat
      /\ lost' = 0 => lost = 0 /\ log' = log \cup (lines \cup more)
  BY <1>1, EmitEffect
<1>3. \A l \in lines : l \in Line /\ l.job \in S /\ l.result \in Results
                       /\ (l.result = "applied" => l.job \in done)
  BY DEF Line
<1>4. \A j \in S : outcome[j] \in Results /\ ResultLine(j, outcome[j]) \in lines
  BY DEF ResultLine
<1>5. WITNESS done \in SUBSET S
<1>6. QED
  BY <1>1, <1>2, <1>3, <1>4 DEF Outcome

-----------------------------------------------------------------------------
(* Type correctness.                                                       *)

\* The transport starts with well-typed rows, files and ledgers.
LEMMA TypeInit == Init => TypeOK
<1> SUFFICES ASSUME Init PROVE TypeOK
  OBVIOUS
<1>1. /\ saved = [seen |-> {}, pending |-> pending, effect |-> effect]
      /\ pending \in [Jobs -> Nat] /\ effect \in [Jobs -> Nat]
  BY DEF Init
<1>2. saved \in [seen : SUBSET Jobs, pending : [Jobs -> Nat], effect : [Jobs -> Nat]]
  BY <1>1
<1>3. QED
  BY <1>1, <1>2 DEF Init, TypeOK, Statuses

\* A resolution leaves everything it changes well typed.
LEMMA ResolveType ==
  ASSUME TypeOK, NEW S \in SUBSET Jobs, NEW waiting \in [Jobs -> Nat], NEW more \in SUBSET Line,
         Resolve(S, waiting, more)
  PROVE  /\ effect' \in [Jobs -> Nat] /\ pending' \in [Jobs -> Nat]
         /\ happened' \subseteq Jobs /\ log' \subseteq Line /\ lost' \in Nat
<1>1. lost \in Nat /\ effect \in [Jobs -> Nat] /\ happened \subseteq Jobs /\ log \subseteq Line
  BY DEF TypeOK
<1>2. PICK done \in SUBSET S : Outcome(S, waiting, more, done)
  BY <1>1, ResolveEffect
<1>3. QED
  BY <1>1, <1>2 DEF Outcome

\* Every step of every actor keeps them so.
LEMMA TypeNext == TypeOK /\ [Next]_vars => TypeOK'
<1> SUFFICES ASSUME TypeOK, [Next]_vars PROVE TypeOK'
  OBVIOUS
<1>0. pending \in [Jobs -> Nat] /\ {} \in SUBSET Line
  BY DEF TypeOK
<1> USE DEF TypeOK
<1>1. CASE \E S \in SUBSET Jobs : CreateJobs(S)
  BY <1>1 DEF CreateJobs, Statuses, dispatcher, files, lua, world, budget
<1>2. CASE Reconcile
  BY <1>2 DEF Reconcile, Statuses, dispatcher, files, lua, world, budget
<1>3. CASE \E expired \in SUBSET Jobs : SelectStale(expired)
  BY <1>3 DEF SelectStale, db, files, lua, world, budget
<1>4. CASE Claim
  BY <1>4 DEF Claim, Statuses, files, lua, world, budget
<1>5. CASE ListDispatched
  BY <1>5 DEF ListDispatched, Dispatched, db, files, lua, world, budget
<1>6. CASE Publish
  BY <1>6 DEF Publish, db, lua, world, budget
<1>7. CASE \E j \in Jobs : Renew(j) \/ WriteJobFile(j)
  BY <1>7 DEF Renew, WriteJobFile, InboxWith, db, lua, world, budget
<1>8. CASE \E j \in Jobs : WriteFails(j)
  BY <1>8 DEF WriteFails, db, files, lua, world
<1>9. CASE TickAborted
  BY <1>9 DEF TickAborted, InboxWith, db, lua, world
<1>10. CASE Poll
  BY <1>10 DEF Poll, db, dispatcher, files, world, budget
<1>11. CASE \E j \in Jobs : SkipFile(j)
  BY <1>11 DEF SkipFile, db, dispatcher, files, world, budget
<1>12. CASE \E j \in Jobs : RepeatReceipt(j)
  <2>1. PICK j \in Jobs : RepeatReceipt(j)
    BY <1>12
  <2>2. RepeatedReceipt(j) \subseteq Line
    BY DEF RepeatedReceipt, Accepted, Line
  <2>3. log' \subseteq Line /\ lost' \in Nat
    BY <2>1, <2>2, EmitEffect DEF RepeatReceipt
  <2>4. QED
    BY <2>1, <2>3 DEF RepeatReceipt, db, dispatcher, files, world
<1>13. CASE \E j \in Jobs : RequestAction(j)
  <2>1. PICK j \in Jobs : RequestAction(j)
    BY <1>13
  <2>2. Immediate(j) \in SUBSET Jobs /\ [pending EXCEPT ![j] = @ + 1] \in [Jobs -> Nat]
        /\ {Accepted(j)} \in SUBSET Line
    BY DEF Immediate, Accepted, Line
  <2>3. /\ effect' \in [Jobs -> Nat] /\ pending' \in [Jobs -> Nat]
        /\ happened' \subseteq Jobs /\ log' \subseteq Line /\ lost' \in Nat
    BY <2>1, <2>2, ResolveType DEF RequestAction
  <2>4. QED
    BY <2>1, <2>3 DEF RequestAction, db, dispatcher, files
<1>14. CASE \E j \in Valid : TargetLoaded(j)
  <2>1. PICK j \in Valid : TargetLoaded(j)
    BY <1>14
  <2>2. PICK S \in SUBSET Jobs : Resolve(S, pending, {})
    <3>1. {k \in {j} : pending[k] > 0} \in SUBSET Jobs
      BY DEF Valid
    <3>2. QED
      BY <2>1, <3>1 DEF TargetLoaded
  <2>3. /\ effect' \in [Jobs -> Nat] /\ pending' \in [Jobs -> Nat]
        /\ happened' \subseteq Jobs /\ log' \subseteq Line /\ lost' \in Nat
    BY <2>2, <1>0, ResolveType
  <2>4. QED
    BY <2>1, <2>3 DEF TargetLoaded, db, dispatcher, files
<1>15. CASE \E j \in Valid : TargetUnloaded(j)
  BY <1>15 DEF TargetUnloaded, db, dispatcher, files, world, budget
<1>16. CASE SweepOnBoot
  <2>1. PICK S \in SUBSET Jobs : Resolve(S, pending, {})
    <3>1. {j \in loaded : pending[j] > 0} \in SUBSET Jobs
      BY DEF Valid
    <3>2. QED
      BY <1>16, <3>1 DEF SweepOnBoot
  <2>2. /\ effect' \in [Jobs -> Nat] /\ pending' \in [Jobs -> Nat]
        /\ happened' \subseteq Jobs /\ log' \subseteq Line /\ lost' \in Nat
    BY <2>1, <1>0, ResolveType
  <2>3. QED
    BY <1>16, <2>2 DEF SweepOnBoot, db, dispatcher, files
<1>17. CASE Save
  BY <1>17 DEF Save, OnDisk, db, dispatcher, files, lua, budget
<1>18. CASE GameRestart \/ GameCrash
  <2> DEFINE Snapshot == [seen : SUBSET Jobs, pending : [Jobs -> Nat], effect : [Jobs -> Nat]]
  <2>1. OnDisk \in Snapshot /\ saved \in Snapshot
    BY DEF OnDisk
  <2>2. PICK from \in Snapshot : Boot(from)
    BY <1>18, <2>1 DEF GameRestart, GameCrash
  <2>3. faults' \in Nat /\ crashes' \in Nat
    BY <1>18 DEF GameRestart, GameCrash
  <2>4. QED
    BY <2>2, <2>3 DEF Boot, db, dispatcher, files
<1>19. CASE \E l \in log : ReadAccepted(l)
  BY <1>19 DEF ReadAccepted, Read, AcceptedStatus, Statuses, Line, dispatcher, files, lua, world, budget
<1>20. CASE \E l \in log : ReadResult(l)
  BY <1>20 DEF ReadResult, Read, Results, Line, dispatcher, files, lua, world, budget
<1>21. CASE UNCHANGED vars
  BY <1>21 DEF vars, db, dispatcher, files, lua, world, budget
<1>22. QED
  BY <1>1, <1>2, <1>3, <1>4, <1>5, <1>6, <1>7, <1>8, <1>9, <1>10, <1>11, <1>12, <1>13, <1>14,
     <1>15, <1>16, <1>17, <1>18, <1>19, <1>20, <1>21 DEF Next, DispatchStep, PollStep, ReadStep

\* The rows, files, ledgers and lines keep the values their declarations name.
THEOREM TypeCorrect == Spec => []TypeOK
<1>1. Init => TypeOK
  BY TypeInit
<1>2. TypeOK /\ [Next]_vars => TypeOK'
  BY TypeNext
<1>3. QED
  BY <1>1, <1>2, PTL DEF Spec

-----------------------------------------------------------------------------
(* The game callbacks that can change the world, in one form.              *)

\* A step that resolves the jobs of S: each had one pending action, a job that
\* is new to the ledger came from the poll, and the other lines are receipts
\* of jobs in the ledger.
Resolving(S, waiting, more, done) ==
  /\ Outcome(S, waiting, more, done)
  /\ \A k \in Jobs : /\ waiting[k] \in Nat /\ waiting[k] + effect[k] <= 1
                     /\ k \notin seen' => waiting[k] = 0 /\ effect[k] = 0
                     /\ k \in seen' => waiting[k] = 1 \/ (k \in seen /\ waiting[k] = pending[k])
  /\ \A k \in S : waiting[k] = 1 /\ k \in seen'
  /\ \A l \in more : l.result = "accepted" /\ l.job \in seen'
  /\ seen \subseteq seen' /\ seen' \subseteq seen \cup polled /\ polled' \subseteq polled
  /\ UNCHANGED <<db, dispatcher, files, saved, crashes>>

\* request(), OnChunkLoaded and the boot sweep are such steps.
LEMMA ResolvingStep ==
  ASSUME TypeOK, WorldOnce,
         (\E j \in Jobs : RequestAction(j)) \/ (\E j \in Valid : TargetLoaded(j)) \/ SweepOnBoot
  PROVE  \E waiting, more : \E S \in SUBSET Jobs :
           \E done \in SUBSET S : Resolving(S, waiting, more, done)
<1>0. /\ lost \in Nat /\ pending \in [Jobs -> Nat] /\ effect \in [Jobs -> Nat]
      /\ seen \subseteq Jobs /\ polled \subseteq Jobs
      /\ \A k \in Jobs : /\ pending[k] \in Nat /\ effect[k] \in Nat
                         /\ pending[k] + effect[k] <= 1
                         /\ k \notin seen => pending[k] = 0 /\ effect[k] = 0
  BY DEF TypeOK, WorldOnce, OnceInv
<1>1. CASE \E j \in Jobs : RequestAction(j)
  <2>1. PICK j \in Jobs : RequestAction(j)
    BY <1>1
  <2> DEFINE waiting == [pending EXCEPT ![j] = @ + 1]
  <2>2. /\ j \in polled /\ j \notin seen /\ seen' = seen \cup {j} /\ polled' = polled \ {j}
        /\ Resolve(Immediate(j), waiting, {Accepted(j)})
        /\ UNCHANGED <<db, dispatcher, files, saved, crashes>>
    BY <2>1 DEF RequestAction, AlreadySeen
  <2>3. Immediate(j) \in SUBSET Jobs /\ Immediate(j) \subseteq {j}
    BY DEF Immediate
  <2>4. PICK done \in SUBSET Immediate(j) : Outcome(Immediate(j), waiting, {Accepted(j)}, done)
    BY <1>0, <2>2, <2>3, ResolveEffect
  <2>5. /\ waiting[j] = 1 /\ \A k \in Jobs : k # j => waiting[k] = pending[k]
        /\ \A k \in Jobs : waiting[k] \in Nat
    <3>1. waiting[j] = pending[j] + 1 /\ pending[j] = 0
      BY <1>0, <2>2
    <3>2. \A k \in Jobs : k # j => waiting[k] = pending[k]
      BY <1>0
    <3>3. QED
      BY <1>0, <3>1, <3>2
  <2>6. \A k \in Jobs : /\ waiting[k] + effect[k] <= 1
                        /\ k \notin seen' => waiting[k] = 0 /\ effect[k] = 0
                        /\ k \in seen' => waiting[k] = 1 \/ (k \in seen /\ waiting[k] = pending[k])
    BY <1>0, <2>2, <2>5
  <2>7. \A l \in {Accepted(j)} : l.result = "accepted" /\ l.job \in seen'
    BY <2>2 DEF Accepted
  <2>8. Resolving(Immediate(j), waiting, {Accepted(j)}, done)
    BY <2>2, <2>3, <2>4, <2>5, <2>6, <2>7 DEF Resolving
  <2>9. QED
    BY <2>3, <2>8
<1>2. ASSUME NEW S \in SUBSET Jobs, \A k \in S : pending[k] > 0, Resolve(S, pending, {}),
             UNCHANGED <<seen, polled, db, dispatcher, files, saved, crashes>>
      PROVE  \E done \in SUBSET S : Resolving(S, pending, {}, done)
  <2>1. PICK done \in SUBSET S : Outcome(S, pending, {}, done)
    BY <1>0, <1>2, ResolveEffect
  <2>2. ASSUME NEW k \in S PROVE pending[k] = 1 /\ k \in seen
    <3>1. k \in Jobs /\ pending[k] > 0
      BY <1>2
    <3>2. QED
      BY <1>0, <3>1
  <2>3. Resolving(S, pending, {}, done)
    BY <1>0, <1>2, <2>1, <2>2 DEF Resolving
  <2>4. QED
    BY <2>3
<1>3. CASE \E j \in Valid : TargetLoaded(j)
  <2>1. PICK j \in Valid : TargetLoaded(j)
    BY <1>3
  <2>2. {k \in {j} : pending[k] > 0} \in SUBSET Jobs
    BY DEF Valid
  <2>3. QED
    BY <1>2, <2>1, <2>2 DEF TargetLoaded
<1>4. CASE SweepOnBoot
  <2>1. {j \in loaded : pending[j] > 0} \in SUBSET Jobs
    BY DEF TypeOK, Valid
  <2>2. QED
    BY <1>2, <1>4, <2>1 DEF SweepOnBoot
<1>5. QED
  BY <1>1, <1>3, <1>4

\* Such a step changes the world once for each job of `done`, which it had not
\* been changed for.
LEMMA ResolvingWorld ==
  ASSUME TypeOK, NEW S \in SUBSET Jobs, NEW waiting, NEW more, NEW done \in SUBSET S,
         Resolving(S, waiting, more, done)
  PROVE  /\ \A k \in done : effect[k] = 0
         /\ effect' = [k \in Jobs |-> IF k \in done THEN 1 ELSE effect[k]]
         /\ happened' = happened \cup done
         /\ \A k \in Jobs : pending'[k] = IF k \in S THEN 0 ELSE waiting[k]
<1>0. Outcome(S, waiting, more, done)
  BY DEF Resolving
<1>1. /\ effect' = [j \in Jobs |-> IF j \in done THEN effect[j] + waiting[j] ELSE effect[j]]
      /\ happened' = happened \cup done
      /\ pending' = [j \in Jobs |-> IF j \in S THEN 0 ELSE waiting[j]]
      /\ \A k \in Jobs : waiting[k] + effect[k] <= 1
      /\ \A k \in S : waiting[k] = 1
  <2>1. \A k \in Jobs : waiting[k] + effect[k] <= 1
    BY DEF Resolving
  <2>2. \A k \in S : waiting[k] = 1
    BY DEF Resolving
  <2>3. QED
    BY <1>0, <2>1, <2>2 DEF Outcome
<1>2. \A k \in done : waiting[k] = 1 /\ effect[k] = 0
  BY <1>1 DEF TypeOK
<1>3. QED
  BY <1>1, <1>2

-----------------------------------------------------------------------------
(* Exactly once.                                                           *)

\* The steps that are none of the game's callbacks leave its state alone.
LEMMA OtherSteps ==
  ASSUME [Next]_vars
  PROVE  \/ (\E j \in Jobs : RequestAction(j)) \/ (\E j \in Valid : TargetLoaded(j)) \/ SweepOnBoot
         \/ Save \/ GameRestart \/ GameCrash
         \/ UNCHANGED <<seen, pending, effect, happened, saved>>
<1> USE DEF files, lua, world
<1>1. CASE \E S \in SUBSET Jobs : CreateJobs(S)
  BY <1>1 DEF CreateJobs
<1>2. CASE Reconcile
  BY <1>2 DEF Reconcile
<1>3. CASE DispatchStep
  BY <1>3 DEF DispatchStep, SelectStale, Claim, ListDispatched, Publish, Renew, WriteJobFile
<1>4. CASE (\E j \in Jobs : WriteFails(j)) \/ TickAborted
  BY <1>4 DEF WriteFails, TickAborted
<1>5. CASE PollStep
  BY <1>5 DEF PollStep, Poll, SkipFile, RepeatReceipt
<1>6. CASE \E j \in Valid : TargetLoaded(j) \/ TargetUnloaded(j)
  BY <1>6 DEF TargetUnloaded
<1>7. CASE ReadStep
  BY <1>7 DEF ReadStep, ReadAccepted, ReadResult
<1>8. CASE UNCHANGED vars
  BY <1>8 DEF vars
<1>9. QED
  BY <1>1, <1>2, <1>3, <1>4, <1>5, <1>6, <1>7, <1>8 DEF Next

\* Never requested, pending or resolved once: in the game and in its save.
LEMMA WorldOnceNext ==
  ASSUME TypeOK, WorldOnce, [Next]_vars
  PROVE  WorldOnce'
<1>0. \A k \in Jobs : /\ effect[k] \in Nat /\ pending[k] \in Nat
                      /\ saved.effect[k] \in Nat /\ saved.pending[k] \in Nat
  BY DEF TypeOK
<1>1. CASE \/ \E j \in Jobs : RequestAction(j)
           \/ \E j \in Valid : TargetLoaded(j)
           \/ SweepOnBoot
  <2>0. PICK waiting, more : \E S \in SUBSET Jobs :
                  \E done \in SUBSET S : Resolving(S, waiting, more, done)
    BY <1>1, ResolvingStep
  <2>1. PICK S \in SUBSET Jobs : \E done \in SUBSET S : Resolving(S, waiting, more, done)
    BY <2>0
  <2>2. PICK done \in SUBSET S : Resolving(S, waiting, more, done)
    BY <2>1
  <2>3. /\ \A k \in done : effect[k] = 0
        /\ effect' = [k \in Jobs |-> IF k \in done THEN 1 ELSE effect[k]]
        /\ happened' = happened \cup done
        /\ \A k \in Jobs : pending'[k] = IF k \in S THEN 0 ELSE waiting[k]
    BY <2>2, ResolvingWorld
  <2>4. \A k \in Jobs : /\ waiting[k] \in Nat /\ waiting[k] + effect[k] <= 1
                        /\ k \notin seen' => waiting[k] = 0 /\ effect[k] = 0
    BY <2>2 DEF Resolving
  <2>5. saved' = saved /\ (\A k \in S : k \in seen')
    BY <2>2 DEF Resolving
  <2>6. ASSUME NEW k \in Jobs
        PROVE  /\ k \notin seen' => pending'[k] = 0 /\ effect'[k] = 0
               /\ pending'[k] + effect'[k] <= 1
               /\ effect'[k] = 1 => k \in happened'
               /\ saved.effect[k] <= effect'[k]
    <3>1. k \in done => k \in S
      OBVIOUS
    <3>2. /\ effect[k] = 1 => k \in happened
          /\ saved.effect[k] <= effect[k] /\ saved.effect[k] \in Nat
          /\ effect[k] \in Nat /\ waiting[k] \in Nat
      BY <1>0, <2>4 DEF WorldOnce, OnceInv
    <3>3. CASE k \in done
      <4>1. effect'[k] = 1 /\ pending'[k] = 0 /\ effect[k] = 0 /\ k \in seen' /\ k \in happened'
        BY <2>3, <2>5, <3>1, <3>3
      <4>2. QED
        BY <3>2, <4>1
    <3>4. CASE k \notin done
      <4>1. effect'[k] = effect[k] /\ (effect[k] = 1 => k \in happened')
        BY <2>3, <3>2, <3>4
      <4>2. pending'[k] = IF k \in S THEN 0 ELSE waiting[k]
        BY <2>3
      <4>3. QED
        BY <2>4, <3>2, <4>1, <4>2
    <3>5. QED
      BY <3>3, <3>4
  <2>7. \A k \in Jobs : OnceInv(k, saved.seen, saved.pending[k], saved.effect[k])'
    BY <2>3, <2>5 DEF WorldOnce, OnceInv
  <2>8. QED
    BY <2>5, <2>6, <2>7 DEF WorldOnce, OnceInv
<1>2. CASE Save
  BY <1>0, <1>2 DEF Save, OnDisk, WorldOnce, OnceInv, lua
<1>3. CASE GameRestart
  BY <1>0, <1>3 DEF GameRestart, Boot, OnDisk, WorldOnce, OnceInv
<1>4. CASE GameCrash
  BY <1>0, <1>4 DEF GameCrash, Boot, WorldOnce, OnceInv
<1>5. CASE UNCHANGED <<seen, pending, effect, happened, saved>>
  BY <1>5 DEF WorldOnce, OnceInv
<1>6. QED
  BY <1>1, <1>2, <1>3, <1>4, <1>5, OtherSteps

-----------------------------------------------------------------------------
(* The database is always first to know, and last to call a job applied.   *)

\* Four kinds of step change the status of a job.
LEMMA RowSteps ==
  ASSUME [Next]_vars
  PROVE  \/ UNCHANGED status \/ (\E S \in SUBSET Jobs : CreateJobs(S)) \/ Reconcile \/ Claim
         \/ \E l \in log : ReadAccepted(l)
<1> USE DEF db
<1>1. CASE DispatchStep
  BY <1>1 DEF DispatchStep, SelectStale, ListDispatched, Publish, Renew, WriteJobFile
<1>2. CASE (\E j \in Jobs : WriteFails(j)) \/ TickAborted
  BY <1>2 DEF WriteFails, TickAborted
<1>3. CASE PollStep
  BY <1>3 DEF PollStep, Poll, SkipFile, RepeatReceipt, RequestAction
<1>4. CASE \E j \in Valid : TargetLoaded(j) \/ TargetUnloaded(j)
  BY <1>4 DEF TargetLoaded, TargetUnloaded
<1>5. CASE SweepOnBoot \/ Save \/ GameRestart \/ GameCrash
  BY <1>5 DEF SweepOnBoot, Save, GameRestart, GameCrash, Boot
<1>6. CASE ReadStep
  BY <1>6 DEF ReadStep, ReadResult
<1>7. CASE UNCHANGED vars
  BY <1>7 DEF vars
<1>8. QED
  BY <1>1, <1>2, <1>3, <1>4, <1>5, <1>6, <1>7 DEF Next

\* A dispatched job stays dispatched.
LEMMA KnownNext ==
  ASSUME TypeOK, AppliedHappened, [Next]_vars
  PROVE  \A j \in Jobs : Known(j) => Known(j)'
<1> USE DEF Known
<1>1. CASE \E S \in SUBSET Jobs : CreateJobs(S)
  BY <1>1 DEF CreateJobs, TypeOK
<1>2. CASE Reconcile
  BY <1>2 DEF Reconcile, TypeOK
<1>3. CASE Claim
  BY <1>3 DEF Claim, TypeOK
<1>4. CASE \E l \in log : ReadAccepted(l)
  BY <1>4 DEF ReadAccepted, AcceptedStatus, TypeOK, Line
<1>5. CASE UNCHANGED status
  BY <1>5
<1>6. QED
  BY <1>1, <1>2, <1>3, <1>4, <1>5, RowSteps

\* Nothing outside the database knows a job before it is dispatched, and
\* nothing calls it applied before the world has changed.
LEMMA DatabaseNext ==
  ASSUME TypeOK, WorldOnce, DispatchedFirst, AppliedHappened, [Next]_vars
  PROVE  DispatchedFirst' /\ AppliedHappened'
<1> DEFINE Places == work \cup inbox \cup manifest \cup polled \cup seen \cup saved.seen
<1>0. \A j \in Jobs : Known(j) => Known(j)'
  BY KnownNext
<1>a. /\ \A j \in Places : j \in Jobs /\ Known(j)
      /\ \A j \in Jobs : attempt[j] # "none" => Known(j)
      /\ \A l \in log : l.job \in Jobs /\ Known(l.job) /\ (l.result = "applied" => l.job \in happened)
      /\ \A j \in Jobs : /\ attempt[j] = "applied" => j \in happened
                         /\ status[j] = "APPLIED" => attempt[j] = "applied"
  BY DEF TypeOK, Line, DispatchedFirst, AppliedHappened
<1>b. SUFFICES /\ \A j \in Places' : j \in Jobs /\ Known(j)'
               /\ \A j \in Jobs : attempt'[j] # "none" => Known(j)'
               /\ \A l \in log' : Known(l.job)' /\ (l.result = "applied" => l.job \in happened')
               /\ \A j \in Jobs : /\ attempt'[j] = "applied" => j \in happened'
                                  /\ status'[j] = "APPLIED" => attempt'[j] = "applied"
  BY DEF DispatchedFirst, AppliedHappened
<1>1. CASE \/ \E j \in Jobs : RequestAction(j)
           \/ \E j \in Valid : TargetLoaded(j)
           \/ SweepOnBoot
  <2>0. PICK waiting, more : \E S \in SUBSET Jobs :
                  \E done \in SUBSET S : Resolving(S, waiting, more, done)
    BY <1>1, ResolvingStep
  <2>1. PICK S \in SUBSET Jobs : \E done \in SUBSET S : Resolving(S, waiting, more, done)
    BY <2>0
  <2>2. PICK done \in SUBSET S : Resolving(S, waiting, more, done)
    BY <2>1
  <2>3. /\ \A l \in log' : \/ l \in log \/ l \in more
                           \/ l.job \in S /\ (l.result = "applied" => l.job \in done)
        /\ happened' = happened \cup done
    BY <2>2 DEF Resolving, Outcome
  <2>4. /\ \A k \in S : k \in seen'
        /\ \A l \in more : l.result = "accepted" /\ l.job \in seen'
        /\ seen \subseteq seen' /\ seen' \subseteq seen \cup polled /\ polled' \subseteq polled
        /\ UNCHANGED <<status, attempt, work, inbox, manifest, saved>>
    BY <2>2 DEF Resolving, db, dispatcher, files
  <2>5. \A j \in Places' : j \in Places
    BY <2>4
  <2>6. \A j \in seen' : Known(j)'
    BY <1>0, <1>a, <2>4
  <2>7. \A l \in log' : Known(l.job)' /\ (l.result = "applied" => l.job \in happened')
    BY <1>0, <1>a, <2>3, <2>4, <2>6
  <2>8. QED
    BY <1>0, <1>a, <2>3, <2>4, <2>5, <2>7
<1>2. CASE Save \/ GameRestart \/ GameCrash
  <2>1. /\ seen' \cup saved'.seen \subseteq seen \cup saved.seen /\ polled' \subseteq polled
        /\ UNCHANGED <<status, attempt, work, inbox, manifest, log, happened>>
    BY <1>2 DEF Save, GameRestart, GameCrash, Boot, OnDisk, db, dispatcher, files, lua
  <2>2. QED
    BY <1>0, <1>a, <2>1
<1>3. CASE \E j \in Jobs : Renew(j) \/ WriteJobFile(j) \/ WriteFails(j)
  <2>1. /\ work' \cup inbox' \subseteq work \cup inbox
        /\ UNCHANGED <<status, attempt, manifest, polled, seen, saved, log, happened>>
    BY <1>3 DEF SelectStale, Renew, WriteJobFile, InboxWith, WriteFails, db, files, lua, world
  <2>2. QED
    BY <1>0, <1>a, <2>1
<1>4. CASE (\E expired \in SUBSET Jobs : SelectStale(expired)) \/ ListDispatched
  <2>1. /\ work' \subseteq Dispatched
        /\ UNCHANGED <<status, attempt, inbox, manifest, polled, seen, saved, log, happened>>
    BY <1>4 DEF SelectStale, ListDispatched, db, files, lua, world
  <2>2. QED
    BY <1>0, <1>a, <2>1 DEF Dispatched, Known
<1>5. CASE Claim
  <2>1. /\ work' = {j \in Jobs : status[j] = "QUEUED"}
        /\ status' = [j \in Jobs |-> IF status[j] = "QUEUED" THEN "DISPATCHED" ELSE status[j]]
        /\ UNCHANGED <<attempt, inbox, manifest, polled, seen, saved, log, happened>>
    BY <1>5 DEF Claim, files, lua, world
  <2>2. \A j \in work' : Known(j)'
    BY <2>1 DEF Known
  <2>3. \A j \in Jobs : status'[j] = "APPLIED" => status[j] = "APPLIED"
    BY <2>1
  <2>4. QED
    BY <1>0, <1>a, <2>1, <2>2, <2>3
<1>6. CASE Publish \/ TickAborted
  <2>1. /\ work' = {} /\ inbox' \cup manifest' \subseteq work \cup inbox \cup manifest
        /\ UNCHANGED <<status, attempt, polled, seen, saved, log, happened>>
    BY <1>6 DEF Publish, TickAborted, InboxWith, db, lua, world
  <2>2. QED
    BY <1>0, <1>a, <2>1
<1>7. CASE Poll \/ (\E j \in Jobs : SkipFile(j)) \/ (\E j \in Valid : TargetUnloaded(j))
  <2>1. /\ polled' \subseteq polled \cup manifest
        /\ UNCHANGED <<status, attempt, work, inbox, manifest, seen, saved, log, happened>>
    BY <1>7 DEF Poll, SkipFile, TargetUnloaded, db, dispatcher, files, world
  <2>2. QED
    BY <1>0, <1>a, <2>1
<1>8. CASE \E j \in Jobs : RepeatReceipt(j)
  <2>1. PICK j \in Jobs : RepeatReceipt(j)
    BY <1>8
  <2>2. /\ j \in polled /\ polled' \subseteq polled /\ Emit({Accepted(j)})
        /\ UNCHANGED <<status, attempt, work, inbox, manifest, seen, saved, happened>>
    BY <2>1 DEF RepeatReceipt, RepeatedReceipt, db, dispatcher, files, world
  <2>3. log' \subseteq log \cup {Accepted(j)}
    BY <2>2, EmitEffect DEF TypeOK
  <2>4. \A l \in log' : Known(l.job)' /\ (l.result = "applied" => l.job \in happened)
    BY <1>0, <1>a, <2>2, <2>3 DEF Accepted
  <2>5. QED
    BY <1>0, <1>a, <2>2, <2>4
<1>9. CASE \E S \in SUBSET Jobs : CreateJobs(S)
  <2>1. /\ \A j \in Jobs : status'[j] = "APPLIED" => status[j] = "APPLIED"
        /\ UNCHANGED <<attempt, work, inbox, manifest, polled, seen, saved, log, happened>>
    BY <1>9 DEF CreateJobs, dispatcher, files, lua, world
  <2>2. QED
    BY <1>0, <1>a, <2>1
<1>10. CASE Reconcile
  <2>1. /\ \A j \in Jobs : status'[j] = "APPLIED" => status[j] = "APPLIED" \/ attempt[j] = "applied"
        /\ UNCHANGED <<attempt, work, inbox, manifest, polled, seen, saved, log, happened>>
    BY <1>10 DEF Reconcile, ProvenJobs, dispatcher, files, lua, world
  <2>2. QED
    BY <1>0, <1>a, <2>1
<1>11. CASE \E l \in log : ReadAccepted(l)
  <2>1. /\ \A j \in Jobs : status'[j] = "APPLIED" => status[j] = "APPLIED"
        /\ log' \subseteq log
        /\ UNCHANGED <<attempt, work, inbox, manifest, polled, seen, saved, happened>>
    BY <1>11 DEF ReadAccepted, Read, AcceptedStatus, TypeOK, dispatcher, files, lua, world
  <2>2. QED
    BY <1>0, <1>a, <2>1
<1>12. CASE \E l \in log : ReadResult(l)
  <2>1. PICK l \in log : ReadResult(l)
    BY <1>12
  <2>2. /\ log' \subseteq log
        /\ UNCHANGED <<status, work, inbox, manifest, polled, seen, saved, happened>>
    BY <2>1 DEF ReadResult, Read, dispatcher, files, lua, world
  <2>3. \A j \in Jobs : attempt'[j] = attempt[j] \/ (j = l.job /\ attempt'[j] = l.result /\ attempt[j] = "none")
    BY <2>1 DEF ReadResult, TypeOK
  <2>4. ASSUME NEW j \in Jobs
        PROVE  /\ attempt'[j] # "none" => Known(j)'
               /\ attempt'[j] = "applied" => j \in happened'
               /\ status'[j] = "APPLIED" => attempt'[j] = "applied"
    <3>1. CASE attempt'[j] = attempt[j]
      BY <1>0, <1>a, <2>2, <3>1
    <3>2. CASE j = l.job /\ attempt'[j] = l.result /\ attempt[j] = "none"
      BY <1>0, <1>a, <2>2, <3>2
    <3>3. QED
      BY <2>3, <3>1, <3>2
  <2>5. \A k \in log' : Known(k.job)' /\ (k.result = "applied" => k.job \in happened')
    BY <1>0, <1>a, <2>2
  <2>6. \A j \in Places' : j \in Jobs /\ Known(j)'
    BY <1>0, <1>a, <2>2
  <2>7. QED
    BY <2>4, <2>5, <2>6
<1>13. CASE UNCHANGED vars
  BY <1>0, <1>a, <1>13 DEF vars, db, dispatcher, files, lua, world
<1>14. QED
  BY <1>1, <1>2, <1>3, <1>4, <1>5, <1>6, <1>7, <1>8, <1>9, <1>10, <1>11, <1>12, <1>13
     DEF Next, DispatchStep, PollStep, ReadStep

\* Nothing is known or changed before the first job.
LEMMA DeliveryInit == Init => DeliveryInv
<1> SUFFICES ASSUME Init PROVE DeliveryInv
  OBVIOUS
<1>1. WorldOnce
  <2>1. \A j \in Jobs : pending[j] = 0 /\ effect[j] = 0
    BY DEF Init
  <2>2. saved.pending = pending /\ saved.effect = effect
    BY DEF Init
  <2>3. \A j \in Jobs : saved.pending[j] = 0 /\ saved.effect[j] = 0
    BY <2>1, <2>2
  <2>4. SUFFICES ASSUME NEW j \in Jobs
                  PROVE  /\ OnceInv(j, seen, pending[j], effect[j])
                         /\ OnceInv(j, saved.seen, saved.pending[j], saved.effect[j])
                         /\ saved.effect[j] <= effect[j]
    BY DEF WorldOnce
  <2>5. pending[j] = 0 /\ effect[j] = 0 /\ saved.pending[j] = 0 /\ saved.effect[j] = 0
    BY <2>1, <2>3
  <2>6. OnceInv(j, seen, 0, 0) /\ OnceInv(j, saved.seen, 0, 0)
    BY DEF OnceInv
  <2>7. QED
    BY <2>5, <2>6
<1>2. DispatchedFirst /\ AppliedHappened
  BY DEF Init, DispatchedFirst, AppliedHappened
<1>3. QED
  BY <1>1, <1>2 DEF DeliveryInv

\* The parts of DeliveryInv are inductive together.
LEMMA DeliveryNext == TypeOK /\ DeliveryInv /\ [Next]_vars => DeliveryInv'
  BY WorldOnceNext, DatabaseNext DEF DeliveryInv

\* At most one change per job, and the database first and last to know: for
\* all crashes, restarts, lost and repeated lines.
THEOREM Delivery == Spec => []DeliveryInv
<1>1. Init => TypeOK /\ DeliveryInv
  BY TypeInit, DeliveryInit
<1>2. TypeOK /\ DeliveryInv /\ [Next]_vars => (TypeOK /\ DeliveryInv)'
  BY TypeNext, DeliveryNext
<1>3. QED
  BY <1>1, <1>2, PTL DEF Spec

-----------------------------------------------------------------------------
(* No job is lost while the game does not crash and the log is complete.   *)

\* HoldInv, without its condition.
Holding ==
  /\ \A j \in seen : Held(j)
  /\ \A j \in Jobs : status[j] = "WAITING_WORLD" => j \in seen
  /\ \A l \in log : l.result = "accepted" => l.job \in seen
  /\ \A j \in happened : effect[j] = 1

\* Such a behaviour has had no crash or lost line before either, and reads of
\* the log, polls, resolutions and clean restarts keep what is held.
LEMMA HoldNext ==
  ASSUME TypeOK, DeliveryInv, HoldInv, [Next]_vars
  PROVE  HoldInv'
<1> SUFFICES ASSUME lost' = 0, crashes' = 0 PROVE Holding'
  BY DEF HoldInv, Holding, Held
<1> USE DEF Held
<1>1. CASE \/ \E j \in Jobs : RequestAction(j)
           \/ \E j \in Valid : TargetLoaded(j)
           \/ SweepOnBoot
  <2>0. PICK waiting, more : \E S \in SUBSET Jobs :
                  \E done \in SUBSET S : Resolving(S, waiting, more, done)
    BY <1>1, ResolvingStep DEF DeliveryInv
  <2>1. PICK S \in SUBSET Jobs : \E done \in SUBSET S : Resolving(S, waiting, more, done)
    BY <2>0
  <2>2. PICK done \in SUBSET S : Resolving(S, waiting, more, done)
    BY <2>1
  <2>3. /\ \A k \in done : effect[k] = 0
        /\ effect' = [k \in Jobs |-> IF k \in done THEN 1 ELSE effect[k]]
        /\ happened' = happened \cup done
        /\ \A k \in Jobs : pending'[k] = IF k \in S THEN 0 ELSE waiting[k]
    BY <2>2, ResolvingWorld
  <2>4. /\ \A k \in Jobs : k \in seen' => waiting[k] = 1 \/ (k \in seen /\ waiting[k] = pending[k])
        /\ \A l \in more : l.result = "accepted" /\ l.job \in seen'
        /\ seen \subseteq seen' /\ UNCHANGED <<status, attempt, crashes>>
    BY <2>2 DEF Resolving, db
  <2>5. /\ \A l \in log' : l \in log \/ l \in more \/ l.result \in Results
        /\ log \subseteq log' /\ lost = 0
        /\ \A j \in S : \E r \in Results : ResultLine(j, r) \in log'
    BY <2>2 DEF Resolving, Outcome
  <2>6. Holding
    BY <2>4, <2>5 DEF HoldInv, Holding
  <2>7. \A j \in seen' : Held(j)'
    <3> SUFFICES ASSUME NEW j \in seen' PROVE Held(j)'
      OBVIOUS
    <3>1. j \in Jobs
      BY TypeNext DEF TypeOK
    <3>2. CASE j \in S
      BY <2>5, <3>2
    <3>3. CASE j \notin S
      BY <2>3, <2>4, <2>5, <2>6, <3>1, <3>3 DEF Holding
    <3>4. QED
      BY <3>2, <3>3
  <2>8. \A l \in log' : l.result = "accepted" => l.job \in seen'
    BY <2>4, <2>5, <2>6 DEF Holding, Results
  <2>9. \A j \in happened' : effect'[j] = 1
    BY <2>3, <2>6 DEF Holding, TypeOK
  <2>10. QED
    BY <2>4, <2>6, <2>7, <2>8, <2>9 DEF Holding
<1>2. CASE Save \/ GameRestart
  <2>1. /\ UNCHANGED <<status, attempt, seen, pending, log, happened, effect, lost, crashes>>
    BY <1>2 DEF Save, GameRestart, Boot, OnDisk, db, lua, budget
  <2>2. QED
    BY <2>1 DEF HoldInv, Holding
<1>3. CASE GameCrash
  BY <1>3 DEF GameCrash, TypeOK
<1>4. CASE \E l \in log : ReadAccepted(l)
  <2>1. PICK l \in log : ReadAccepted(l)
    BY <1>4
  <2>2. /\ l.result = "accepted" /\ log' \subseteq log /\ log \ {l} \subseteq log' /\ lost = 0 /\ crashes = 0
        /\ UNCHANGED <<attempt, seen, pending, happened, effect>>
    BY <2>1 DEF ReadAccepted, Read, files, lua, world, budget
  <2>3. \A j \in Jobs : status'[j] = "WAITING_WORLD" => status[j] = "WAITING_WORLD" \/ j = l.job
    BY <2>1 DEF ReadAccepted, TypeOK
  <2>4. Holding
    BY <2>2 DEF HoldInv, Holding
  <2>5. \A j \in Jobs, r \in Results : ResultLine(j, r) \in log => ResultLine(j, r) \in log'
    BY <2>2 DEF ResultLine, Results
  <2>6. \A j \in seen' : Held(j)'
    BY <2>2, <2>4, <2>5 DEF Holding, TypeOK
  <2>7. QED
    BY <2>2, <2>3, <2>4, <2>6 DEF Holding
<1>5. CASE \E l \in log : ReadResult(l)
  <2>1. PICK l \in log : ReadResult(l)
    BY <1>5
  <2>2. /\ l \in Line /\ l.result \in Results
        /\ log' \subseteq log /\ log \ {l} \subseteq log' /\ lost = 0 /\ crashes = 0
        /\ UNCHANGED <<status, seen, pending, happened, effect>>
    BY <2>1 DEF ReadResult, Read, TypeOK, Line, dispatcher, files, lua, world, budget
  <2>3. /\ attempt'[l.job] # "none"
        /\ \A j \in Jobs : attempt[j] # "none" => attempt'[j] # "none"
    BY <2>1, <2>2 DEF ReadResult, TypeOK, Line, Results
  <2>4. Holding
    BY <2>2 DEF HoldInv, Holding
  <2>5. \A j \in Jobs, r \in Results :
          ResultLine(j, r) \in log => ResultLine(j, r) \in log' \/ j = l.job
    BY <2>2 DEF ResultLine
  <2>6. \A j \in seen' : Held(j)'
    BY <2>2, <2>3, <2>4, <2>5 DEF Holding, TypeOK
  <2>7. QED
    BY <2>2, <2>4, <2>6 DEF Holding
<1>6. CASE \E j \in Jobs : RepeatReceipt(j)
  <2>1. PICK j \in Jobs : RepeatReceipt(j)
    BY <1>6
  <2>2. /\ j \in seen /\ Emit({Accepted(j)})
        /\ UNCHANGED <<status, attempt, seen, pending, happened, effect, crashes>>
    BY <2>1 DEF RepeatReceipt, RepeatedReceipt, AlreadySeen, db, dispatcher, files, world
  <2>3. log \subseteq log' /\ log' \subseteq log \cup {Accepted(j)} /\ lost = 0
    BY <2>2, EmitEffect DEF TypeOK
  <2>4. Holding
    BY <2>2, <2>3 DEF HoldInv, Holding
  <2>5. \A k \in seen' : Held(k)'
    BY <2>2, <2>3, <2>4 DEF Holding
  <2>6. \A l \in log' : l.result = "accepted" => l.job \in seen'
    BY <2>2, <2>3, <2>4 DEF Holding, Accepted
  <2>7. QED
    BY <2>2, <2>4, <2>5, <2>6 DEF Holding
<1>7. CASE /\ UNCHANGED <<attempt, seen, pending, log, happened, effect, lost, crashes>>
           /\ \A j \in Jobs : status'[j] = "WAITING_WORLD" => status[j] = "WAITING_WORLD"
  BY <1>7 DEF HoldInv, Holding
<1>8. QED
  <2> USE DEF lua, world, budget
  <2>1. CASE (\E S \in SUBSET Jobs : CreateJobs(S)) \/ Reconcile \/ Claim
    BY <1>7, <2>1 DEF CreateJobs, Reconcile, Claim, TypeOK
  <2>2. CASE DispatchStep /\ ~ Claim
    BY <1>7, <2>2 DEF DispatchStep, SelectStale, ListDispatched, Publish, Renew, WriteJobFile, db
  <2>3. CASE (\E j \in Jobs : WriteFails(j)) \/ TickAborted
    BY <1>7, <2>3 DEF WriteFails, TickAborted, db
  <2>4. CASE Poll \/ (\E j \in Jobs : SkipFile(j)) \/ (\E j \in Valid : TargetUnloaded(j))
    BY <1>7, <2>4 DEF Poll, SkipFile, TargetUnloaded, db
  <2>5. CASE UNCHANGED vars
    BY <1>7, <2>5 DEF vars, db
  <2>6. QED
    BY <1>1, <1>2, <1>3, <1>4, <1>5, <1>6, <2>1, <2>2, <2>3, <2>4, <2>5
       DEF Next, PollStep, ReadStep

\* Clean restarts, failed writes and exporter crashes, in any number and
\* order, lose no job: as long as the game does not crash and no line is lost.
THEOREM NoneLost == Spec => []NoJobLost
<1>1. Init => TypeOK /\ DeliveryInv /\ HoldInv
  <2>1. Init => HoldInv
    BY DEF Init, HoldInv
  <2>2. QED
    BY <2>1, TypeInit, DeliveryInit
<1>2. TypeOK /\ DeliveryInv /\ HoldInv /\ [Next]_vars => (TypeOK /\ DeliveryInv /\ HoldInv)'
  BY TypeNext, DeliveryNext, HoldNext
<1>3. TypeOK /\ DeliveryInv /\ HoldInv => NoJobLost
  BY DEF TypeOK, DeliveryInv, AppliedHappened, HoldInv, NoJobLost, InHands, Held
<1>4. QED
  BY <1>1, <1>2, <1>3, PTL DEF Spec

-----------------------------------------------------------------------------
(* Results, and the jobs that never get one.                               *)

\* Only a result that is read changes the attempt row of a job.
LEMMA AttemptSteps ==
  ASSUME [Next]_vars
  PROVE  UNCHANGED attempt \/ \E l \in log : ReadResult(l)
<1> USE DEF db
<1>1. CASE (\E S \in SUBSET Jobs : CreateJobs(S)) \/ Reconcile
  BY <1>1 DEF CreateJobs, Reconcile
<1>2. CASE DispatchStep
  BY <1>2 DEF DispatchStep, SelectStale, Claim, ListDispatched, Publish, Renew, WriteJobFile
<1>3. CASE (\E j \in Jobs : WriteFails(j)) \/ TickAborted
  BY <1>3 DEF WriteFails, TickAborted
<1>4. CASE PollStep
  BY <1>4 DEF PollStep, Poll, SkipFile, RepeatReceipt, RequestAction
<1>5. CASE \E j \in Valid : TargetLoaded(j) \/ TargetUnloaded(j)
  BY <1>5 DEF TargetLoaded, TargetUnloaded
<1>6. CASE SweepOnBoot \/ Save \/ GameRestart \/ GameCrash
  BY <1>6 DEF SweepOnBoot, Save, GameRestart, GameCrash, Boot
<1>7. CASE ReadStep
  BY <1>7 DEF ReadStep, ReadAccepted
<1>8. CASE UNCHANGED vars
  BY <1>8 DEF vars
<1>9. QED
  BY <1>1, <1>2, <1>3, <1>4, <1>5, <1>6, <1>7, <1>8 DEF Next

\* What is resolved is in the ledger, where only valid jobs get in, and every
\* line is of a job that is in the ledger.
LEMMA RejectedNext ==
  ASSUME TypeOK, DeliveryInv, RejectedUntouched, [Next]_vars
  PROVE  RejectedUntouched'
<1> USE DEF RejectedUntouched
<1>0. Rejected \subseteq Jobs
  BY JobsAssumption
<1>1. CASE \/ \E j \in Jobs : RequestAction(j)
           \/ \E j \in Valid : TargetLoaded(j)
           \/ SweepOnBoot
  <2>0. PICK waiting, more : \E S \in SUBSET Jobs :
                  \E done \in SUBSET S : Resolving(S, waiting, more, done)
    BY <1>1, ResolvingStep DEF DeliveryInv
  <2>1. PICK S \in SUBSET Jobs : \E done \in SUBSET S : Resolving(S, waiting, more, done)
    BY <2>0
  <2>2. PICK done \in SUBSET S : Resolving(S, waiting, more, done)
    BY <2>1
  <2>3. \A j \in seen' : j \in seen \/ j \in Valid
    BY <1>1 DEF RequestAction, TargetLoaded, SweepOnBoot
  <2>4. /\ happened' = happened \cup done
        /\ \A l \in log' : l \in log \/ l \in more \/ l.job \in S
    BY <2>2 DEF Resolving, Outcome
  <2>5. /\ \A k \in S : k \in seen'
        /\ \A l \in more : l.job \in seen'
        /\ UNCHANGED <<status, attempt, saved>>
    BY <2>2 DEF Resolving, db
  <2>6. QED
    BY <2>3, <2>4, <2>5 DEF Valid
<1>2. CASE Save \/ GameRestart \/ GameCrash
  BY <1>2 DEF Save, GameRestart, GameCrash, Boot, OnDisk, db, lua
<1>3. CASE \E j \in Jobs : RepeatReceipt(j)
  <2>1. PICK j \in Jobs : RepeatReceipt(j)
    BY <1>3
  <2>2. /\ j \in seen /\ Emit({Accepted(j)})
        /\ UNCHANGED <<status, attempt, seen, happened, saved>>
    BY <2>1 DEF RepeatReceipt, RepeatedReceipt, AlreadySeen, db, world
  <2>3. log' \subseteq log \cup {Accepted(j)}
    BY <2>2, EmitEffect DEF TypeOK
  <2>4. QED
    BY <2>2, <2>3 DEF Accepted
<1>4. CASE \E l \in log : ReadAccepted(l)
  <2>1. PICK l \in log : ReadAccepted(l)
    BY <1>4
  <2>2. /\ log' \subseteq log /\ UNCHANGED <<attempt, seen, happened, saved>>
        /\ \A j \in Jobs : j # l.job => status'[j] = status[j]
    BY <2>1 DEF ReadAccepted, Read, TypeOK, lua, world
  <2>3. QED
    BY <1>0, <2>2
<1>5. CASE \E l \in log : ReadResult(l)
  <2>1. PICK l \in log : ReadResult(l)
    BY <1>5
  <2>2. /\ log' \subseteq log /\ UNCHANGED <<status, seen, happened, saved>>
        /\ \A j \in Jobs : j # l.job => attempt'[j] = attempt[j]
    BY <2>1 DEF ReadResult, Read, TypeOK, lua, world
  <2>3. QED
    BY <1>0, <2>2
<1>6. CASE (\E S \in SUBSET Jobs : CreateJobs(S)) \/ Claim
  <2>1. /\ UNCHANGED <<attempt, seen, happened, saved, log>>
        /\ \A j \in Jobs : status'[j] \in {status[j], "QUEUED", "DISPATCHED"}
    BY <1>6 DEF CreateJobs, Claim, lua, world
  <2>2. QED
    BY <1>0, <2>1
<1>7. CASE Reconcile
  <2>1. /\ UNCHANGED <<attempt, seen, happened, saved, log>>
        /\ \A j \in Jobs : status'[j] = status[j] \/ attempt[j] = "applied"
    BY <1>7 DEF Reconcile, ProvenJobs, lua, world
  <2>2. QED
    BY <1>0, <2>1
<1>8. CASE UNCHANGED <<status, attempt, seen, happened, saved, log>>
  BY <1>8
<1>9. QED
  <2> USE DEF db, lua, world
  <2>1. CASE DispatchStep /\ ~ Claim
    BY <1>8, <2>1 DEF DispatchStep, SelectStale, ListDispatched, Publish, Renew, WriteJobFile
  <2>2. CASE (\E j \in Jobs : WriteFails(j)) \/ TickAborted
    BY <1>8, <2>2 DEF WriteFails, TickAborted
  <2>3. CASE Poll \/ (\E j \in Jobs : SkipFile(j)) \/ (\E j \in Valid : TargetUnloaded(j))
    BY <1>8, <2>3 DEF Poll, SkipFile, TargetUnloaded
  <2>4. CASE UNCHANGED vars
    BY <1>8, <2>4 DEF vars
  <2>5. QED
    BY <1>1, <1>2, <1>3, <1>4, <1>5, <1>6, <1>7, <2>1, <2>2, <2>3, <2>4
       DEF Next, PollStep, ReadStep

\* A job the poller refuses never changes the world and never looks as if it
\* had, whatever is retried, restarted or read twice.
THEOREM RejectedNeverApplied == Spec => []RejectedUntouched
<1>1. Init => TypeOK /\ DeliveryInv /\ RejectedUntouched
  <2>1. Init => RejectedUntouched
    BY JobsAssumption DEF Init, RejectedUntouched
  <2>2. QED
    BY <2>1, TypeInit, DeliveryInit
<1>2. TypeOK /\ DeliveryInv /\ RejectedUntouched /\ [Next]_vars
        => (TypeOK /\ DeliveryInv /\ RejectedUntouched)'
  BY TypeNext, DeliveryNext, RejectedNext
<1>3. QED
  BY <1>1, <1>2, PTL DEF Spec

\* A change is made for a job that is in the ledger, hence dispatched.
LEMMA HappenedKnown == Spec => [](\A j \in happened : Known(j))
<1> DEFINE I == \A j \in happened : Known(j)
<1>1. Init => I
  BY DEF Init
<1>2. TypeOK /\ DeliveryInv /\ I /\ [Next]_vars => I'
  <2> SUFFICES ASSUME TypeOK, DeliveryInv, I, [Next]_vars PROVE I'
    OBVIOUS
  <2>0. \A j \in Jobs : Known(j) => Known(j)'
    BY KnownNext DEF DeliveryInv
  <2>1. CASE \/ \E j \in Jobs : RequestAction(j)
             \/ \E j \in Valid : TargetLoaded(j)
             \/ SweepOnBoot
    <3>0. PICK waiting, more : \E S \in SUBSET Jobs :
                    \E done \in SUBSET S : Resolving(S, waiting, more, done)
      BY <2>1, ResolvingStep DEF DeliveryInv
    <3>1. PICK S \in SUBSET Jobs : \E done \in SUBSET S : Resolving(S, waiting, more, done)
      BY <3>0
    <3>2. PICK done \in SUBSET S : Resolving(S, waiting, more, done)
      BY <3>1
    <3>3. happened' = happened \cup done /\ \A k \in done : k \in seen \cup polled
      BY <3>2 DEF Resolving, Outcome
    <3>4. \A k \in done : Known(k)
      BY <3>3 DEF DeliveryInv, DispatchedFirst
    <3>5. QED
      BY <2>0, <3>3, <3>4 DEF TypeOK
  <2>2. CASE UNCHANGED happened
    BY <2>0, <2>2 DEF TypeOK
  <2>3. QED
    BY <2>1, <2>2, OtherSteps DEF Save, GameRestart, GameCrash, Boot
<1>3. QED
  BY <1>1, <1>2, TypeCorrect, Delivery, PTL DEF Spec

-----------------------------------------------------------------------------
(* The transport implements the lifecycle.                                 *)

\* Every step of the transport is a step of the lifecycle or changes nothing
\* the lifecycle speaks of.
LEMMA LifecycleNext ==
  ASSUME TypeOK, DeliveryInv, [Next]_vars
  PROVE  [Lifecycle!Next]_Lifecycle!vars
<1> USE DEF Lifecycle!vars, Lifecycle!Next
<1>0. /\ WorldOnce /\ effect \in [Jobs -> Nat] /\ saved.effect \in [Jobs -> Nat]
      /\ status \in [Jobs -> Statuses]
  BY DEF DeliveryInv, TypeOK
<1>1. CASE \E S \in SUBSET Jobs : CreateJobs(S)
  BY <1>1 DEF CreateJobs, Lifecycle!Create, Lifecycle!Move, world
<1>2. CASE Reconcile
  <2>1. ProvenJobs \in SUBSET Jobs /\ \A j \in ProvenJobs : attempt[j] = "applied"
    BY DEF ProvenJobs
  <2>2. \A j \in ProvenJobs : status[j] \in {"DISPATCHED", "WAITING_WORLD"}
    BY <1>0 DEF ProvenJobs, DeliveryInv, DispatchedFirst, Known, Statuses
  <2>3. Lifecycle!Confirm(ProvenJobs)
    BY <1>2, <2>1, <2>2 DEF Reconcile, Lifecycle!Confirm, Lifecycle!Move, world
  <2>4. QED
    BY <2>1, <2>3
<1>3. CASE Claim
  <2> DEFINE queued == {j \in Jobs : status[j] = "QUEUED"}
  <2>1. queued \in SUBSET Jobs /\ Lifecycle!Dispatch(queued)
    BY <1>3 DEF Claim, Lifecycle!Dispatch, Lifecycle!Move, world
  <2>2. QED
    BY <2>1
<1>4. CASE \E l \in log : ReadAccepted(l)
  <2>1. PICK l \in log : ReadAccepted(l)
    BY <1>4
  <2>2. l.job \in Jobs /\ {l.job} \in SUBSET Jobs
    BY DEF TypeOK, Line
  <2>3. UNCHANGED <<attempt, effect, happened>>
    BY <2>1 DEF ReadAccepted, world
  <2>4. CASE status[l.job] = "DISPATCHED"
    <3>1. status' = [j \in Jobs |-> IF j \in {l.job} THEN "WAITING_WORLD" ELSE status[j]]
      BY <1>0, <2>1, <2>2, <2>4 DEF ReadAccepted, AcceptedStatus
    <3>2. Lifecycle!Accept({l.job})
      BY <2>3, <2>4, <3>1 DEF Lifecycle!Accept, Lifecycle!Move
    <3>3. QED
      BY <2>2, <3>2
  <2>5. CASE status[l.job] # "DISPATCHED"
    BY <2>1, <2>3, <2>5 DEF ReadAccepted
  <2>6. QED
    BY <2>4, <2>5
<1>5. CASE \/ \E j \in Jobs : RequestAction(j)
           \/ \E j \in Valid : TargetLoaded(j)
           \/ SweepOnBoot
  <2>0. PICK waiting, more : \E S \in SUBSET Jobs :
                  \E done \in SUBSET S : Resolving(S, waiting, more, done)
    BY <1>0, <1>5, ResolvingStep
  <2>1. PICK S \in SUBSET Jobs : \E done \in SUBSET S : Resolving(S, waiting, more, done)
    BY <2>0
  <2>2. PICK done \in SUBSET S : Resolving(S, waiting, more, done)
    BY <2>1
  <2>3. /\ \A k \in done : effect[k] = 0
        /\ effect' = [k \in Jobs |-> IF k \in done THEN 1 ELSE effect[k]]
        /\ happened' = happened \cup done
    BY <2>2, ResolvingWorld
  <2>4. UNCHANGED <<status, attempt>> /\ \A k \in done : Known(k)
    <3>1. done \subseteq seen \cup polled
      BY <2>2 DEF Resolving
    <3>2. QED
      BY <2>2, <3>1 DEF Resolving, db, DeliveryInv, DispatchedFirst
  <2>5. done \in SUBSET Jobs /\ Lifecycle!Apply(done)
    BY <2>3, <2>4 DEF Lifecycle!Apply, Known
  <2>6. QED
    BY <2>5
<1>6. CASE GameCrash
  <2> DEFINE undone == {j \in Jobs : saved.effect[j] = 0}
  <2>1. effect' = saved.effect /\ UNCHANGED <<status, attempt, happened>>
    BY <1>6 DEF GameCrash, Boot, db
  <2>2. ASSUME NEW j \in Jobs
        PROVE  saved.effect[j] = IF j \in undone THEN 0 ELSE effect[j]
    <3>1. /\ saved.effect[j] \in Nat /\ effect[j] \in Nat /\ pending[j] \in Nat
          /\ saved.effect[j] <= effect[j] /\ pending[j] + effect[j] <= 1
      BY <1>0 DEF TypeOK, WorldOnce, OnceInv
    <3>2. QED
      BY <3>1
  <2>3. undone \in SUBSET Jobs /\ Lifecycle!Forget(undone)
    BY <1>0, <2>1, <2>2 DEF Lifecycle!Forget
  <2>4. QED
    BY <2>3
<1>7. CASE \E l \in log : ReadResult(l)
  <2>1. PICK l \in log : ReadResult(l)
    BY <1>7
  <2>2. l.job \in Jobs /\ l.result \in Lifecycle!Results
    BY <2>1 DEF TypeOK, Line, Results, Lifecycle!Results, ReadResult
  <2>3. UNCHANGED <<status, effect, happened>>
    BY <2>1 DEF ReadResult, world
  <2>4. CASE attempt[l.job] = "none"
    <3>1. Known(l.job) /\ (l.result = "applied" => l.job \in happened)
      BY <2>1 DEF DeliveryInv, DispatchedFirst, AppliedHappened
    <3>2. Lifecycle!Settle(l.job, l.result)
      BY <2>1, <2>3, <2>4, <3>1 DEF ReadResult, Known, Lifecycle!Settle
    <3>3. QED
      BY <2>2, <3>2
  <2>5. CASE attempt[l.job] # "none"
    BY <2>1, <2>3, <2>5 DEF ReadResult
  <2>6. QED
    BY <2>4, <2>5
<1>8. CASE UNCHANGED <<status, attempt>> /\ (Save \/ GameRestart \/ UNCHANGED <<effect, happened>>)
  BY <1>8 DEF Save, GameRestart, Boot, OnDisk
<1>9. QED
  <2>1. CASE /\ UNCHANGED attempt
             /\ Save \/ GameRestart \/ UNCHANGED <<seen, pending, effect, happened, saved>>
    BY <1>1, <1>2, <1>3, <1>4, <1>8, <2>1, RowSteps
  <2>2. QED
    BY <1>5, <1>6, <1>7, <2>1, OtherSteps, AttemptSteps

\* The transport, with everything that fails, repeats and restarts in it, is
\* an implementation of JobLifecycle.
THEOREM Implementation == Spec => ImplementsLifecycle
<1>1. Init => Lifecycle!Init
  BY DEF Init, Lifecycle!Init
<1>2. TypeOK /\ DeliveryInv /\ [Next]_vars => [Lifecycle!Next]_Lifecycle!vars
  BY LifecycleNext
<1>3. QED
  BY <1>1, <1>2, TypeCorrect, Delivery, PTL DEF Spec, ImplementsLifecycle, Lifecycle!Spec
=============================================================================
