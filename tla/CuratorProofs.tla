---------------------------- MODULE CuratorProofs ----------------------------
(***************************************************************************)
(* The safety invariants of Curator hold for any providers, credentials,   *)
(* tables, users, questions, cooldowns, and any number of edits, refreshes *)
(* and failures.                                                           *)
(***************************************************************************)
EXTENDS Curator, TLAPS

\* A request that is on the way was sent to a provider of the list taken, and
\* the refresh handles rows that are there.
Work ==
  /\ \A q \in Calls : asking[q] =>
       at[q] \in 1..Len(Providers) /\ list[q][Provider(q)] # Off /\ result[q] = "none"
  /\ \A p \in todo : readRows[p] # Off

\* Unless a result came late, what is booked under a name is about the
\* configuration its health belongs to, and it is left alone for a reason.
Booked ==
  \A p \in Names : ~ late[p] =>
    /\ blame[p] \subseteq {health[p].fingerprint}
    /\ Suppressed(p) => blame[p] = {health[p].fingerprint}

\* The refresh has brought the health of the rows it has handled up to date;
\* once it has come to its end, that of the whole list.
Handled(S) == \A p \in S : readRows[p] # Off => health[p].fingerprint = readRows[p]
Refreshed ==
  /\ phase = "rows" => Handled(Names \ todo)
  /\ phase = "idle" /\ ~ partial => Handled(Names) /\ providers = NewList

\* A question is in the pool only after it was granted the language model, and
\* no grant is later than the times the limiter remembers.
Granted ==
  /\ \A q \in Questions : state[q] \in {"new", "limiter"} => grants[q] = 0 /\ at[q] = 0
  /\ \A q \in Questions : at[q] # 0 => state[q] \in {"semantic", "chat"}
  /\ \A q \in Questions : state[q] \in {"semantic", "chat"} => grants[q] # 0
  /\ \A q \in Questions : grants[q] # 0 =>
       grants[q] <= spent.global /\ grants[q] <= spent.user[Asker[q]]
  /\ spent.global <= clock /\ \A u \in Users : spent.user[u] <= clock

PoolSound == TypeOK /\ Work
Sound == CuratorTypeOK /\ Work

-----------------------------------------------------------------------------
(* The types.                                                              *)

\* Every provider has a position.
LEMMA Positions ==
  /\ Len(Providers) \in Nat
  /\ \A i \in 1..Len(Providers) : Providers[i] \in Names
BY PoolAssumption DEF Names

\* What resolveProvider and the refresh make of a row.
LEMMA ResolvedRow ==
  ASSUME NEW c \in Configs \cup {Off}
  PROVE  Resolved(c) \in Configs \cup {Off} /\ (Resolved(c) # Off => Resolved(c) = c)
BY DEF Resolved

LEMMA RefreshedType ==
  ASSUME TypeOK, NEW p \in Names
  PROVE  RefreshedHealth(p, readRows[p]) \in Healths
<1>1. readRows[p] \in Configs \cup {Off} /\ health[p] \in Healths /\ 0 \in 0..MaxTime
  BY PoolAssumption DEF TypeOK
<1> QED
  BY <1>1 DEF RefreshedHealth, Healths, Healthy, Fingerprint

LEMMA InitTypes == CuratorInit => Sound
<1> SUFFICES ASSUME CuratorInit PROVE Sound
  OBVIOUS
<1>1. table \in [Names -> Configs \cup {Off}]
  BY OffAssumption DEF CuratorInit, Init
<1>2. Healthy(Off) \in Healths
  BY PoolAssumption DEF Healthy, Healths
<1>3. TypeOK
  <2>1. providers \in [Names -> Configs \cup {Off}] /\ health \in [Names -> Healths]
    BY <1>2 DEF CuratorInit, Init
  <2>2. 0 \in 0..MaxTime /\ 1 \in 1..MaxTime /\ 0 \in 0..(Len(Providers) + 1)
    BY PoolAssumption, Positions
  <2> QED
    BY <1>1, <2>1, <2>2 DEF CuratorInit, Init, TypeOK
<1>4. replied \in Times /\ spent \in Times
  BY CuratorAssumption DEF CuratorInit, Times, Never, Paces
<1>5. CuratorTypeOK
  BY <1>3, <1>4, PoolAssumption DEF CuratorInit, CuratorTypeOK
<1> QED
  BY <1>5 DEF Sound, Work, CuratorInit, Init

\* The operator, the clock and the refresh.
LEMMA RefreshTypes ==
  ASSUME PoolSound,
         \/ \E p \in Names, c \in Rows : Edit(p, c)
         \/ RefreshStep \/ RefreshFails \/ Tick
  PROVE  PoolSound'
<1> USE DEF PoolSound
<1>1. CASE \E p \in Names, c \in Rows : Edit(p, c)
  BY <1>1, OffAssumption DEF Edit, TypeOK, Work, refresh, call, history, Provider
<1>2. CASE ReadTable
  BY <1>2 DEF ReadTable, TypeOK, Work, call, history, bounds, Provider
<1>3. ASSUME NEW i \in 1..Len(Providers), HandleRow(i)
      PROVE  PoolSound'
  <2> DEFINE p == Providers[i]
             c == readRows[p]
             h == RefreshedHealth(p, c)
  <2>1. p \in Names /\ h \in Healths
    BY Positions, RefreshedType
  <2>2. h.misconfigured /\ h # health[p] => c \in Configs
    <3>1. c \in Configs \cup {Off}
      BY <2>1 DEF TypeOK
    <3> QED
      BY <1>3, <3>1 DEF HandleRow, Work
  <2> QED
    BY <1>3, <2>1, <2>2 DEF HandleRow, TypeOK, Work, call, bounds, Provider
<1>4. CASE Swap
  <2>1. NewList \in [Names -> Configs \cup {Off}]
    BY ResolvedRow DEF NewList, TypeOK
  <2> QED
    BY <1>4, <2>1 DEF Swap, TypeOK, Work, call, bounds, Provider
<1>5. CASE RefreshFails
  BY <1>5 DEF RefreshFails, TypeOK, Work, call, bounds, Provider
<1>6. CASE Tick
  BY <1>6, PoolAssumption DEF Tick, TypeOK, Work, call, refresh, history, Provider
<1> QED
  BY <1>1, <1>2, <1>3, <1>4, <1>5, <1>6 DEF RefreshStep

\* One question in the pool.
LEMMA CallTypes ==
  ASSUME PoolSound, NEW q \in Calls, CallStep(q) \/ Expire(q)
  PROVE  PoolSound'
<1> USE DEF PoolSound
<1>1. CASE Skip(q)
  BY <1>1, Positions DEF Skip, Running, TypeOK, Work, refresh, history, bounds, Provider
<1>2. CASE Ask(q)
  BY <1>2, Positions DEF Ask, Running, Usable, TypeOK, Work, refresh, history, bounds, Provider
<1>3. CASE Succeed(q)
  <2>1. Provider(q) \in Names
    BY <1>3, Positions DEF Succeed, Work, Provider
  <2>2. Cleared(Provider(q)) \in [Names -> Healths]
    <3>1. health[Provider(q)] \in Healths /\ 0 \in 0..MaxTime
      BY <2>1, PoolAssumption DEF TypeOK
    <3>2. [health[Provider(q)] EXCEPT !.until = 0] \in Healths
      BY <3>1 DEF Healths
    <3>3. Cleared(Provider(q)) = [health EXCEPT ![Provider(q)] = [health[Provider(q)] EXCEPT !.until = 0]]
      BY <2>1 DEF Cleared, TypeOK
    <3> QED
      BY <2>1, <3>2, <3>3 DEF TypeOK
  <2>3. TypeOK'
    BY <1>3, <2>1, <2>2 DEF Succeed, TypeOK, refresh, bounds
  <2>4. Work'
    <3>1. UNCHANGED <<at, list, todo, readRows>>
      BY <1>3 DEF Succeed, refresh
    <3>2. ASSUME NEW r \in Calls, asking'[r]
          PROVE  r # q /\ asking[r] /\ result'[r] = result[r]
      BY <1>3, <3>2 DEF Succeed, TypeOK
    <3> QED
      BY <3>1, <3>2 DEF Work, Provider
  <2> QED
    BY <2>3, <2>4
<1>4. ASSUME NEW kind \in Kinds \cup {"auth"}, Fail(q, kind)
      PROVE  PoolSound'
  <2>1. /\ Provider(q) \in Names /\ at[q] \in 1..Len(Providers)
        /\ list[q][Provider(q)] \in Configs
    BY <1>4, Positions DEF Fail, Work, Provider, TypeOK
  <2>2. ASSUME kind \in Kinds
        PROVE  Until(kind) \in 0..MaxTime
    BY <2>2, PoolAssumption DEF Until, TypeOK
  <2>3. Failed(Provider(q), kind) \in [Names -> Healths]
    <3>1. CASE kind = "auth"
      BY <2>1, <3>1 DEF Failed, TypeOK, Healths
    <3>2. CASE kind # "auth"
      <4> DEFINE p == Provider(q)
                 u == IF health[p].until < Until(kind) THEN Until(kind) ELSE health[p].until
      <4>1. health[p] \in Healths /\ u \in 0..MaxTime
        BY <2>1, <2>2, <3>2 DEF TypeOK, Healths
      <4>2. Failed(p, kind) = [health EXCEPT ![p] = [health[p] EXCEPT !.until = u]]
        BY <2>1, <3>2 DEF Failed, TypeOK
      <4>3. [health[p] EXCEPT !.until = u] \in Healths
        BY <4>1 DEF Healths
      <4> HIDE DEF u
      <4> QED
        BY <2>1, <4>2, <4>3 DEF TypeOK
    <3> QED
      BY <3>1, <3>2
  <2>4. TypeOK'
    <3>1. late' \in [Names -> BOOLEAN]
      BY <1>4, <2>1 DEF Fail, TypeOK
    <3>2. blame' \in [Names -> SUBSET Configs]
      BY <1>4, <2>1 DEF Fail, TypeOK
    <3>3. at' \in [Calls -> 0..(Len(Providers) + 1)] /\ asking' \in [Calls -> BOOLEAN]
      BY <1>4, <2>1, Positions DEF Fail, TypeOK
    <3>4. UNCHANGED <<table, phase, readRows, todo, providers, list, start, expired, result, partial, clock, edits>>
      BY <1>4 DEF Fail, refresh, bounds
    <3>5. health' \in [Names -> Healths]
      BY <1>4, <2>3 DEF Fail
    <3> QED
      BY <3>1, <3>2, <3>3, <3>4, <3>5 DEF TypeOK
  <2>5. Work'
    <3>1. UNCHANGED <<list, result, todo, readRows>>
      BY <1>4 DEF Fail, refresh
    <3>2. ASSUME NEW r \in Calls, asking'[r]
          PROVE  r # q /\ asking[r] /\ at'[r] = at[r]
      BY <1>4, <3>2 DEF Fail, TypeOK
    <3> QED
      BY <3>1, <3>2 DEF Work, Provider
  <2> QED
    BY <2>4, <2>5
<1>5. CASE GiveUp(q)
  BY <1>5 DEF GiveUp, Running, TypeOK, Work, refresh, history, bounds, Provider
<1>6. CASE Expire(q)
  BY <1>6 DEF Expire, TypeOK, Work, refresh, history, bounds, Provider
<1> QED
  BY <1>1, <1>2, <1>3, <1>4, <1>5, <1>6 DEF CallStep

LEMMA PoolTypes == PoolSound /\ PoolStep => PoolSound'
BY RefreshTypes, CallTypes DEF PoolStep

\* A question enters the pool, and leaves it with a result.
LEMMA TakeTypes ==
  ASSUME PoolSound, NEW q \in Calls, at[q] = 0, TakeList(q)
  PROVE  PoolSound'
<1>1. 1 \in 0..(Len(Providers) + 1) /\ clock \in 0..MaxTime
  BY Positions, PoolAssumption DEF PoolSound, TypeOK
<1>2. TypeOK'
  BY <1>1 DEF TakeList, PoolSound, TypeOK, refresh, history, bounds
<1>3. ~ asking[q]
  BY Positions DEF PoolSound, Work
<1>4. Work'
  BY <1>3 DEF TakeList, PoolSound, TypeOK, Work, refresh, Provider
<1> QED
  BY <1>2, <1>4 DEF PoolSound

LEMMA LeaveTypes ==
  ASSUME PoolSound, NEW q \in Calls, LeavePool(q), expired' \in [Calls -> BOOLEAN]
  PROVE  PoolSound'
<1>1. 0 \in 0..(Len(Providers) + 1) /\ 0 \in 0..MaxTime
  BY Positions, PoolAssumption
<1>2. TypeOK'
  BY <1>1 DEF LeavePool, PoolSound, TypeOK, refresh, history, bounds
<1>3. ~ asking[q]
  BY DEF LeavePool, PoolSound, Work
<1>4. Work'
  BY <1>3 DEF LeavePool, PoolSound, TypeOK, Work, refresh, Provider
<1> QED
  BY <1>2, <1>4 DEF PoolSound

LEMMA QuestionTypes ==
  ASSUME Sound, NEW q \in Questions,
         \/ Begin(q) \/ AskLimiter(q) \/ EnterPool(q)
         \/ SemanticReturns(q) \/ ChatReturns(q) \/ FallBack(q)
  PROVE  Sound'
<1> USE DEF Sound, Questions
<1>1. PoolSound /\ q \in Calls /\ Asker[q] \in Users /\ clock \in 1..MaxTime /\ MaxTime \in Nat
  BY CuratorAssumption, PoolAssumption DEF CuratorTypeOK, PoolSound, TypeOK
<1>2. UNCHANGED vars => PoolSound'
  BY <1>1 DEF vars, refresh, call, history, bounds, PoolSound, TypeOK, Work, Provider
<1>3. ASSUME NEW last \in Times
      PROVE  Used(last, Asker[q]) \in Times
  BY <1>1 DEF Used, Times
<1>4. CASE Begin(q)
  BY <1>1, <1>2, <1>3, <1>4 DEF Begin, Done, Goto, CuratorTypeOK, PoolSound
<1>5. CASE AskLimiter(q)
  BY <1>1, <1>2, <1>3, <1>5 DEF AskLimiter, Goto, CuratorTypeOK, PoolSound
<1>6. CASE EnterPool(q)
  BY <1>1, <1>6, TakeTypes DEF EnterPool, curatorVars, question, pacing, CuratorTypeOK, PoolSound
<1>7. CASE SemanticReturns(q)
  <2>1. PoolSound'
    BY <1>1, <1>7, LeaveTypes DEF SemanticReturns, PoolSound, TypeOK
  <2> QED
    BY <1>1, <1>7, <2>1 DEF SemanticReturns, Goto, pacing, CuratorTypeOK, PoolSound
<1>8. CASE ChatReturns(q)
  <2>1. PoolSound'
    BY <1>1, <1>8, LeaveTypes DEF ChatReturns, PoolSound, TypeOK
  <2> QED
    BY <1>1, <1>8, <2>1 DEF ChatReturns, Done, Goto, pacing, CuratorTypeOK, PoolSound
<1>9. CASE FallBack(q)
  <2>1. Fallback(q) \in {"fact", "canned"}
    BY DEF Fallback
  <2> QED
    BY <1>1, <1>2, <1>9, <2>1 DEF FallBack, Done, Goto, pacing, CuratorTypeOK, PoolSound
<1> QED
  BY <1>4, <1>5, <1>6, <1>7, <1>8, <1>9

LEMMA SoundStep == Sound /\ [CuratorNext]_allVars => Sound'
<1> SUFFICES ASSUME Sound, [CuratorNext]_allVars PROVE Sound'
  OBVIOUS
<1>1. PoolSound
  BY DEF Sound, CuratorTypeOK, PoolSound
<1>2. ASSUME PoolSound', UNCHANGED curatorVars
      PROVE  Sound'
  BY <1>2 DEF Sound, CuratorTypeOK, PoolSound, curatorVars, question, pacing
<1>3. CASE PoolStep /\ UNCHANGED curatorVars
  BY <1>1, <1>2, <1>3, PoolTypes
<1>4. ASSUME NEW q \in Questions, QuestionStep(q)
      PROVE  Sound'
  BY <1>1, <1>2, <1>4, CallTypes, QuestionTypes DEF QuestionStep, Questions
<1>5. CASE UNCHANGED allVars
  <2>1. PoolSound'
    BY <1>1, <1>5 DEF allVars, vars, refresh, call, history, bounds, PoolSound, TypeOK, Work, Provider
  <2> QED
    BY <1>2, <1>5, <2>1 DEF allVars
<1> QED
  BY <1>3, <1>4, <1>5 DEF CuratorNext

\* Every reachable state of the provider pool and of the questions to the
\* Curator is well typed.
THEOREM TypeCorrect == CuratorSpec => []CuratorTypeOK
<1>1. Sound => CuratorTypeOK
  BY DEF Sound
<1> QED
  BY <1>1, InitTypes, SoundStep, PTL DEF CuratorSpec

-----------------------------------------------------------------------------
(* Providers left alone.                                                   *)

PoolVars == <<readRows, phase, todo, providers, health, blame, late, partial>>

\* Most steps touch nothing these invariants speak of.
LEMMA PoolUntouched ==
  ASSUME Booked, Refreshed, UNCHANGED PoolVars
  PROVE  Booked' /\ Refreshed'
BY DEF PoolVars, Booked, Refreshed, Handled, NewList, Suppressed

LEMMA RefreshBooks ==
  ASSUME TypeOK, Booked, Refreshed, RefreshStep \/ RefreshFails
  PROVE  Booked' /\ Refreshed'
<1>1. CASE ReadTable
  BY <1>1 DEF ReadTable, TypeOK, Booked, Refreshed, Handled, Suppressed, history
<1>2. ASSUME NEW i \in 1..Len(Providers), HandleRow(i)
      PROVE  Booked' /\ Refreshed'
  <2> DEFINE p == Providers[i]
             c == readRows[p]
             h == RefreshedHealth(p, c)
  <2>1. p \in Names
    BY Positions
  <2>2. h.fingerprint = c /\ (h # health[p] /\ ~ h.misconfigured => h.until = 0)
    BY DEF RefreshedHealth, Healthy, Fingerprint
  <2>3. /\ health' = [health EXCEPT ![p] = h]
        /\ blame' = [blame EXCEPT ![p] = IF h = health[p] THEN @ ELSE IF h.misconfigured THEN {c} ELSE {}]
        /\ late' = [late EXCEPT ![p] = IF h = health[p] THEN @ ELSE FALSE]
        /\ phase = "rows" /\ phase' = phase /\ readRows' = readRows /\ todo' = todo \ {p}
    BY <1>2 DEF HandleRow
  <2> HIDE DEF h
  <2>4. Booked'
    <3> SUFFICES ASSUME NEW n \in Names, ~ late'[n]
                 PROVE  /\ blame'[n] \subseteq {health'[n].fingerprint}
                        /\ Suppressed(n)' => blame'[n] = {health'[n].fingerprint}
      BY DEF Booked
    <3>1. CASE n # p \/ h = health[p]
      BY <2>1, <2>3, <3>1 DEF Booked, Suppressed, TypeOK
    <3>2. CASE n = p /\ h # health[p]
      <4>1. health'[n] = h /\ blame'[n] = (IF h.misconfigured THEN {c} ELSE {})
        BY <2>1, <2>3, <3>2 DEF TypeOK
      <4>2. CASE h.misconfigured
        BY <2>2, <4>1, <4>2
      <4>3. CASE ~ h.misconfigured
        BY <2>2, <3>2, <4>1, <4>3 DEF Suppressed
      <4> QED
        BY <4>2, <4>3
    <3> QED
      BY <3>1, <3>2
  <2>5. Refreshed'
    <3>1. Handled(Names \ todo)
      BY <2>3 DEF Refreshed
    <3>2. ASSUME NEW n \in Names \ todo', readRows[n] # Off
          PROVE  health'[n].fingerprint = readRows[n]
      BY <2>1, <2>2, <2>3, <3>1, <3>2 DEF Handled, TypeOK
    <3> QED
      BY <2>3, <3>2 DEF Refreshed, Handled
  <2> QED
    BY <2>4, <2>5
<1>3. CASE Swap
  <2>1. Booked'
    BY <1>3 DEF Swap, Booked, Suppressed
  <2>2. Handled(Names \ {}) /\ Names \ {} = Names
    BY <1>3 DEF Swap, Refreshed
  <2>3. Handled(Names)' /\ providers' = NewList' /\ phase' = "idle"
    BY <1>3, <2>2 DEF Swap, Handled, NewList
  <2> QED
    BY <2>1, <2>3 DEF Refreshed
<1>4. CASE RefreshFails
  BY <1>4 DEF RefreshFails, Booked, Refreshed, Suppressed
<1> QED
  BY <1>1, <1>2, <1>3, <1>4 DEF RefreshStep

\* A result is booked under the provider's name.
LEMMA ResultBooks ==
  ASSUME PoolSound, Booked, Refreshed, NEW q \in Calls, CallStep(q)
  PROVE  Booked' /\ Refreshed'
<1>1. CASE Skip(q) \/ Ask(q) \/ GiveUp(q)
  BY <1>1, PoolUntouched DEF Skip, Ask, GiveUp, refresh, history, PoolVars
<1>2. ASSUME NEW p \in Names, p = Provider(q), asking[q],
             \E h \in Healths : /\ h.fingerprint = health[p].fingerprint
                               /\ health' = [health EXCEPT ![p] = h],
             UNCHANGED <<refresh, providers, partial>>
      PROVE  Refreshed'
  <2>1. \A n \in Names : health'[n].fingerprint = health[n].fingerprint
    BY <1>2 DEF PoolSound, TypeOK
  <2> QED
    BY <1>2, <2>1 DEF Refreshed, Handled, NewList, refresh
<1>3. CASE Succeed(q)
  <2> DEFINE p == Provider(q)
             h == [health[p] EXCEPT !.until = 0]
  <2>1. p \in Names /\ asking[q]
    BY <1>3, Positions DEF Succeed, PoolSound, Work, Provider
  <2>2. /\ health[p] \in Healths /\ h \in Healths
        /\ h.fingerprint = health[p].fingerprint /\ h.misconfigured = health[p].misconfigured /\ h.until = 0
    <3>1. health[p] \in Healths /\ 0 \in 0..MaxTime
      BY <2>1, PoolAssumption DEF PoolSound, TypeOK
    <3> QED
      BY <3>1 DEF Healths
  <2>3. health' = [health EXCEPT ![p] = h]
    BY <1>3, <2>1 DEF Succeed, Cleared, PoolSound, TypeOK
  <2>4. blame' = [blame EXCEPT ![p] = IF health[p].misconfigured THEN @ ELSE {}] /\ late' = late
    BY <1>3 DEF Succeed
  <2> HIDE DEF h
  <2>5. Booked'
    BY <2>1, <2>2, <2>3, <2>4 DEF Booked, Suppressed, PoolSound, TypeOK
  <2>6. UNCHANGED <<refresh, providers, partial>>
    BY <1>3 DEF Succeed
  <2> QED
    BY <1>2, <2>1, <2>2, <2>3, <2>5, <2>6
<1>4. ASSUME NEW kind \in Kinds \cup {"auth"}, Fail(q, kind)
      PROVE  Booked' /\ Refreshed'
  <2> DEFINE p == Provider(q)
             h == health'[p]
  <2>1. p \in Names /\ asking[q]
    BY <1>4, Positions DEF Fail, PoolSound, Work, Provider
  <2>2. health' = [health EXCEPT ![p] = h] /\ h.fingerprint = health[p].fingerprint /\ h \in Healths
    <3>1. PoolSound'
      BY <1>4, CallTypes DEF CallStep
    <3>2. h \in Healths
      BY <2>1, <3>1 DEF PoolSound, TypeOK
    <3>3. CASE kind = "auth"
      BY <1>4, <2>1, <3>2, <3>3 DEF Fail, Failed, PoolSound, TypeOK, Healths
    <3>4. CASE kind # "auth"
      BY <1>4, <2>1, <3>2, <3>4 DEF Fail, Failed, PoolSound, TypeOK, Healths
    <3> QED
      BY <3>2, <3>3, <3>4
  <2>3. /\ blame' = [blame EXCEPT ![p] = @ \cup {list[q][p]}]
        /\ late' = [late EXCEPT ![p] = @ \/ list[q][p] # health[p].fingerprint]
        /\ UNCHANGED <<refresh, providers, partial>>
    BY <1>4 DEF Fail, Fingerprint
  <2> HIDE DEF h
  <2>4. Booked'
    <3> SUFFICES ASSUME NEW n \in Names, ~ late'[n]
                 PROVE  /\ blame'[n] \subseteq {health'[n].fingerprint}
                        /\ Suppressed(n)' => blame'[n] = {health'[n].fingerprint}
      BY DEF Booked
    <3>1. CASE n # p
      BY <2>1, <2>2, <2>3, <3>1 DEF Booked, Suppressed, PoolSound, TypeOK
    <3>2. CASE n = p
      <4>1. late'[p] = (late[p] \/ list[q][p] # health[p].fingerprint)
        BY <2>1, <2>3 DEF PoolSound, TypeOK
      <4>2. ~ late[p] /\ list[q][p] = health[p].fingerprint
        BY <3>2, <4>1
      <4>3. blame[p] \subseteq {health[p].fingerprint} /\ blame'[p] = blame[p] \cup {list[q][p]}
        BY <2>1, <2>3, <4>2 DEF Booked, PoolSound, TypeOK
      <4>4. health'[p].fingerprint = health[p].fingerprint
        BY <2>1, <2>2 DEF PoolSound, TypeOK
      <4>5. blame'[p] = {health'[p].fingerprint}
        BY <4>2, <4>3, <4>4
      <4> QED
        BY <3>2, <4>5
    <3> QED
      BY <3>1, <3>2
  <2> QED
    BY <1>2, <2>1, <2>2, <2>3, <2>4
<1> QED
  BY <1>1, <1>3, <1>4 DEF CallStep

LEMMA BooksStep ==
  ASSUME Sound, Booked, Refreshed, [CuratorNext]_allVars
  PROVE  Booked' /\ Refreshed'
<1>1. TypeOK /\ PoolSound
  BY DEF Sound, CuratorTypeOK, PoolSound
<1>2. CASE PoolStep
  <2>1. CASE \/ \E p \in Names, c \in Rows : Edit(p, c)
             \/ Tick \/ \E q \in Calls : Expire(q)
    BY <2>1, PoolUntouched DEF Edit, Tick, Expire, refresh, history, PoolVars
  <2> QED
    BY <1>1, <1>2, <2>1, RefreshBooks, ResultBooks DEF PoolStep
<1>3. ASSUME NEW q \in Questions, QuestionStep(q)
      PROVE  Booked' /\ Refreshed'
  <2>1. CASE CallStep(q)
    BY <1>1, <2>1, ResultBooks DEF Questions
  <2>2. CASE EnterPool(q) \/ SemanticReturns(q) \/ ChatReturns(q)
    BY <2>2, PoolUntouched DEF EnterPool, TakeList, SemanticReturns, ChatReturns, LeavePool, refresh, history, PoolVars
  <2>3. CASE Begin(q) \/ AskLimiter(q) \/ FallBack(q)
    BY <2>3, PoolUntouched DEF Begin, AskLimiter, FallBack, vars, refresh, history, PoolVars
  <2> QED
    BY <1>3, <2>1, <2>2, <2>3 DEF QuestionStep
<1>4. CASE UNCHANGED allVars
  BY <1>4, PoolUntouched DEF allVars, vars, refresh, history, PoolVars
<1> QED
  BY <1>2, <1>3, <1>4 DEF CuratorNext

\* A provider in the list is left alone only for failures under its present
\* configuration, as long as no result came late and no refresh has failed half
\* way (resetHealthIfFingerprintChanged).
THEOREM OwnFailures == CuratorSpec => []SuppressedForCause
<1>1. CuratorInit => Booked /\ Refreshed
  BY DEF CuratorInit, Init, Booked, Refreshed, Handled, NewList, Resolved, Suppressed, Healthy
<1>2. Sound /\ Booked /\ Refreshed /\ [CuratorNext]_allVars => Booked' /\ Refreshed'
  BY BooksStep
<1>3. Sound /\ Booked /\ Refreshed => SuppressedForCause
  <2> SUFFICES ASSUME Sound, Booked, Refreshed, NEW p \in Names,
                      phase = "idle", ~ partial, providers[p] # Off, ~ late[p], Suppressed(p)
               PROVE  blame[p] = {providers[p]}
    BY DEF SuppressedForCause
  <2>1. providers[p] = Resolved(readRows[p]) /\ readRows[p] \in Configs \cup {Off}
    BY DEF Refreshed, NewList, Sound, CuratorTypeOK, TypeOK
  <2>2. readRows[p] = providers[p]
    BY <2>1, ResolvedRow
  <2> QED
    BY <2>2 DEF Refreshed, Handled, Booked
<1> QED
  BY <1>1, <1>2, <1>3, InitTypes, SoundStep, PTL DEF CuratorSpec

-----------------------------------------------------------------------------
(* The budget of language model calls.                                     *)

\* Two grants are as far apart as the budget says.
Apart(q, r) == grants[q] # 0 /\ grants[r] >= grants[q] =>
  grants[r] - grants[q] >= (IF Asker[q] = Asker[r] /\ Budget.user > Budget.global
                            THEN Budget.user ELSE Budget.global)
AllApart == \A q, r \in Questions : q # r => Apart(q, r)

\* Only AskLimiter grants; what it leaves alone keeps the grants apart.
LEMMA NoNewGrant ==
  ASSUME Sound, Granted, AllApart, UNCHANGED <<grants, spent>>,
         clock' \in Nat, clock <= clock',
         \A q \in Questions : state'[q] \in {"new", "limiter"} =>
           state[q] \in {"new", "limiter"} /\ at'[q] = 0,
         \A q \in Questions : at'[q] # 0 => state'[q] \in {"semantic", "chat"},
         \A q \in Questions : state'[q] \in {"semantic", "chat"} => state[q] \in {"semantic", "chat"}
  PROVE  Granted' /\ AllApart'
<1>1. AllApart'
  BY DEF AllApart, Apart
<1>2. spent.global <= clock' /\ \A u \in Users : spent.user[u] <= clock'
  <2>1. spent.global \in Int /\ \A u \in Users : spent.user[u] \in Int
    BY DEF Sound, CuratorTypeOK, Times
  <2>2. clock \in Int
    BY PoolAssumption DEF Sound, CuratorTypeOK, TypeOK
  <2> QED
    BY <2>1, <2>2 DEF Granted
<1> QED
  BY <1>1, <1>2 DEF Granted

\* A new grant is as far from every earlier one as the budget asks for, since
\* the limiter remembers the last.
LEMMA NewGrant ==
  ASSUME Sound, Granted, AllApart, NEW q \in Questions, AskLimiter(q)
  PROVE  Granted' /\ AllApart'
<1> DEFINE a == Asker[q]
<1>1. /\ a \in Users /\ Budget.user \in Nat /\ Budget.global \in Nat
      /\ clock \in Nat \ {0} /\ spent \in Times /\ grants \in [Questions -> Nat]
      /\ \A r \in Questions : Asker[r] \in Users
  BY CuratorAssumption, PoolAssumption DEF Sound, CuratorTypeOK, TypeOK, Paces
<1>2. /\ state[q] = "limiter" /\ UNCHANGED <<at, clock>>
      /\ state' = [state EXCEPT ![q] = state'[q]]
      /\ grants[q] = 0 /\ at[q] = 0
  BY DEF AskLimiter, Goto, vars, call, bounds, Granted, Sound, CuratorTypeOK
<1>3. CASE ~ Permitted(spent, Budget, a)
  <2>1. UNCHANGED <<grants, spent>> /\ state'[q] = "sending"
    BY <1>3 DEF AskLimiter, Goto, Sound, CuratorTypeOK
  <2> QED
    BY <1>1, <1>2, <2>1, NoNewGrant DEF Granted, Sound, CuratorTypeOK
<1>4. CASE Permitted(spent, Budget, a)
  <2>1. /\ spent' = Used(spent, a) /\ grants' = [grants EXCEPT ![q] = clock]
        /\ state'[q] \in {"chat", "semantic"}
    BY <1>4 DEF AskLimiter, Goto, Sound, CuratorTypeOK
  <2>2. /\ spent'.global = clock /\ spent'.user = [spent.user EXCEPT ![a] = clock]
        /\ spent.user \in [Users -> Int] /\ spent.global \in Int
    BY <1>1, <2>1 DEF Used, Times
  <2>3. grants'[q] = clock /\ \A r \in Questions \ {q} : grants'[r] = grants[r]
    BY <1>1, <2>1
  <2>4. ASSUME NEW r \in Questions, r # q, grants[r] # 0
        PROVE  /\ grants[r] \in Nat /\ clock - grants[r] >= Budget.global
               /\ Asker[r] = a => clock - grants[r] >= Budget.user
    <3>1. grants[r] <= spent.global /\ grants[r] <= spent.user[Asker[r]]
      BY <2>4 DEF Granted
    <3>2. clock - spent.global >= Budget.global /\ clock - spent.user[a] >= Budget.user
      BY <1>4 DEF Permitted
    <3>3. grants[r] \in Nat /\ spent.user[a] \in Int /\ spent.global \in Int
      BY <1>1, <2>2
    <3>4. clock - grants[r] >= Budget.global
      BY <1>1, <3>1, <3>2, <3>3
    <3>5. ASSUME Asker[r] = a
          PROVE  clock - grants[r] >= Budget.user
      <4>1. grants[r] <= spent.user[a]
        BY <3>1, <3>5
      <4> QED
        BY <1>1, <3>2, <3>3, <4>1
    <3> QED
      BY <3>3, <3>4, <3>5
  <2>5. AllApart'
    <3> SUFFICES ASSUME NEW s \in Questions, NEW r \in Questions, s # r
                 PROVE  Apart(s, r)'
      BY DEF AllApart
    <3>1. CASE s # q /\ r # q
      BY <2>3, <3>1 DEF AllApart, Apart
    <3>2. CASE r = q
      BY <1>1, <2>3, <2>4, <3>2 DEF Apart
    <3>3. CASE s = q
      <4>1. CASE grants[r] = 0
        BY <1>1, <2>3, <3>3, <4>1 DEF Apart
      <4>2. CASE grants[r] # 0
        <5>1. grants'[r] = grants[r] /\ grants[r] \in Nat
          BY <2>3, <2>4, <3>3, <4>2
        <5>2. /\ clock - grants[r] >= Budget.global
              /\ Asker[r] = a => clock - grants[r] >= Budget.user
          BY <2>4, <3>3, <4>2
        <5> QED
          BY <1>1, <2>3, <3>3, <5>1, <5>2 DEF Apart
      <4> QED
        BY <4>1, <4>2
    <3> QED
      BY <3>1, <3>2, <3>3
  <2>6. \A r \in Questions : grants'[r] # 0 =>
          grants'[r] <= spent'.global /\ grants'[r] <= spent'.user[Asker[r]]
    <3> SUFFICES ASSUME NEW r \in Questions, grants'[r] # 0
                 PROVE  grants'[r] <= clock /\ grants'[r] <= spent'.user[Asker[r]]
      BY <2>2
    <3>1. CASE r = q
      BY <1>1, <2>2, <2>3, <3>1
    <3>2. CASE r # q
      <4>1. /\ grants'[r] = grants[r] /\ grants[r] \in Nat
            /\ grants[r] <= spent.global /\ grants[r] <= spent.user[Asker[r]] /\ spent.global <= clock
        BY <1>1, <2>3, <3>2 DEF Granted
      <4>2. grants[r] <= clock
        BY <1>1, <2>2, <4>1
      <4> QED
        BY <1>1, <2>2, <4>1, <4>2
    <3> QED
      BY <3>1, <3>2
  <2>7. spent'.global <= clock /\ \A u \in Users : spent'.user[u] <= clock
    BY <1>1, <2>2 DEF Granted
  <2>8. \A r \in Questions \ {q} : state'[r] = state[r]
    BY <1>2 DEF Sound, CuratorTypeOK
  <2> QED
    BY <1>1, <1>2, <2>1, <2>3, <2>5, <2>6, <2>7, <2>8 DEF Granted
<1> QED
  BY <1>3, <1>4

LEMMA GrantedStep ==
  ASSUME Sound, Granted, AllApart, [CuratorNext]_allVars
  PROVE  Granted' /\ AllApart'
<1>1. clock \in Nat
  BY PoolAssumption DEF Sound, CuratorTypeOK, TypeOK
<1>2. \A q \in Questions : at[q] \in Int /\ state[q] \in {"new", "limiter", "semantic", "chat", "sending", "done"}
  BY Positions DEF Sound, CuratorTypeOK, TypeOK, Questions
<1>3. ASSUME UNCHANGED curatorVars, clock' \in Nat, clock <= clock',
             \A q \in Questions : at[q] = 0 => at'[q] = 0
      PROVE  Granted' /\ AllApart'
  BY <1>3, NoNewGrant DEF Granted, curatorVars, question, pacing
<1>4. ASSUME NEW q \in Calls, CallStep(q)
      PROVE  clock' = clock /\ \A r \in Questions : at[r] = 0 => at'[r] = 0
  <2>1. clock' = clock
    BY <1>4 DEF CallStep, Skip, Ask, Succeed, GiveUp, Fail, bounds
  <2>2. at' = at \/ at' = [at EXCEPT ![q] = @ + 1]
    BY <1>4 DEF CallStep, Skip, Ask, Succeed, GiveUp, Fail
  <2>3. at[q] # 0
    BY <1>4, Positions DEF CallStep, Skip, Ask, Succeed, GiveUp, Fail, Running, Sound, Work
  <2> QED
    BY <2>1, <2>2, <2>3 DEF Sound, CuratorTypeOK, TypeOK, Questions
<1>5. CASE PoolStep /\ UNCHANGED curatorVars
  <2>1. CASE Tick
    BY <1>1, <1>3, <1>5, <2>1 DEF Tick, call
  <2>2. CASE \/ \E p \in Names, c \in Rows : Edit(p, c)
             \/ RefreshStep \/ RefreshFails \/ \E q \in Calls : Expire(q)
    <3>1. UNCHANGED <<at, clock>>
      BY <2>2 DEF Edit, RefreshStep, ReadTable, HandleRow, Swap, RefreshFails, Expire, call, bounds
    <3> QED
      BY <1>1, <1>3, <1>5, <3>1
  <2>3. CASE \E q \in Calls : CallStep(q)
    BY <1>1, <1>3, <1>4, <1>5, <2>3
  <2> QED
    BY <1>5, <2>1, <2>2, <2>3 DEF PoolStep
<1>6. ASSUME NEW q \in Questions, QuestionStep(q)
      PROVE  Granted' /\ AllApart'
  <2>1. CASE CallStep(q) /\ UNCHANGED curatorVars
    BY <1>1, <1>3, <1>4, <2>1 DEF Questions
  <2>2. CASE AskLimiter(q)
    BY <2>2, NewGrant
  <2>3. CASE Begin(q) \/ FallBack(q)
    <3>1. /\ UNCHANGED <<grants, spent, clock, at>>
          /\ state[q] \in {"new", "sending"}
          /\ state' = [state EXCEPT ![q] = state'[q]]
          /\ state'[q] \in {"limiter", "done"} /\ (state'[q] = "limiter" => state[q] = "new")
      BY <2>3 DEF Begin, FallBack, Done, Goto, vars, call, bounds, pacing, Sound, CuratorTypeOK
    <3>2. \A r \in Questions \ {q} : state'[r] = state[r]
      BY <3>1 DEF Sound, CuratorTypeOK
    <3> QED
      BY <1>1, <3>1, <3>2, NoNewGrant DEF Granted
  <2>4. CASE EnterPool(q)
    <3>1. /\ UNCHANGED <<grants, spent, clock, state>>
          /\ state[q] \in {"semantic", "chat"} /\ at' = [at EXCEPT ![q] = 1]
      BY <2>4 DEF EnterPool, TakeList, curatorVars, question, pacing, bounds
    <3>2. \A r \in Questions \ {q} : at'[r] = at[r]
      BY <3>1 DEF Sound, CuratorTypeOK, TypeOK, Questions
    <3> QED
      BY <1>1, <3>1, <3>2, NoNewGrant DEF Granted
  <2>5. CASE SemanticReturns(q) \/ ChatReturns(q)
    <3>1. /\ UNCHANGED <<grants, spent, clock>>
          /\ state[q] \in {"semantic", "chat"} /\ at' = [at EXCEPT ![q] = 0]
          /\ state' = [state EXCEPT ![q] = state'[q]]
          /\ state'[q] \in {"chat", "sending", "done"} /\ (state'[q] = "chat" => state[q] = "semantic")
      BY <2>5 DEF SemanticReturns, ChatReturns, LeavePool, Done, Goto, bounds, pacing, Sound, CuratorTypeOK
    <3>2. at'[q] = 0 /\ \A r \in Questions \ {q} : at'[r] = at[r] /\ state'[r] = state[r]
      BY <3>1 DEF Sound, CuratorTypeOK, TypeOK, Questions
    <3> QED
      BY <1>1, <3>1, <3>2, NoNewGrant DEF Granted
  <2> QED
    BY <1>6, <2>1, <2>2, <2>3, <2>4, <2>5 DEF QuestionStep
<1>7. CASE UNCHANGED allVars
  BY <1>1, <1>3, <1>7 DEF allVars, vars, call, bounds
<1> QED
  BY <1>5, <1>6, <1>7 DEF CuratorNext

LEMMA InitGranted == CuratorInit => Granted /\ AllApart
<1> SUFFICES ASSUME CuratorInit PROVE Granted /\ AllApart
  OBVIOUS
<1>1. /\ \A q \in Questions : state[q] = "new" /\ grants[q] = 0 /\ at[q] = 0
      /\ clock = 1 /\ spent.global = Never(Budget) /\ \A u \in Users : spent.user[u] = Never(Budget)
  BY DEF CuratorInit, Init, Questions
<1>2. Never(Budget) \in Int /\ Never(Budget) <= 1
  BY CuratorAssumption DEF Never, Paces
<1> QED
  BY <1>1, <1>2 DEF Granted, AllApart, Apart

\* Any number of questions on any surfaces share one budget: two grants of the
\* language model are as far apart as it says, and nobody is in the pool
\* without one (curatorLLMLimiter).
THEOREM SharedBudget == CuratorSpec => []BudgetKept
<1>1. Sound /\ Granted /\ AllApart /\ [CuratorNext]_allVars => Granted' /\ AllApart'
  BY GrantedStep
<1>2. Granted /\ AllApart => BudgetKept
  BY DEF Granted, AllApart, Apart, BudgetKept
<1> QED
  BY <1>1, <1>2, InitGranted, InitTypes, SoundStep, PTL DEF CuratorSpec
-----------------------------------------------------------------------------
(* Billed credentials.                                                     *)

\* Only eligible configurations get into a list.
EligibleInv ==
  /\ \A p \in Names : providers[p] # Off => PaidEligible(providers[p])
  /\ \A q \in Calls, p \in Names : list[q][p] # Off => PaidEligible(list[q][p])

LEMMA EligibleStep ==
  ASSUME Sound, EligibleInv, [CuratorNext]_allVars
  PROVE  EligibleInv'
<1> TypeOK
  BY DEF Sound, CuratorTypeOK
<1> USE DEF refresh, call, history, bounds, curatorVars, question, pacing
<1>1. CASE UNCHANGED <<providers, list>>
  BY <1>1 DEF EligibleInv, PaidEligible
<1>2. ASSUME NEW q \in Calls, CallStep(q) \/ Expire(q) PROVE EligibleInv'
  BY <1>1, <1>2 DEF CallStep, Skip, Ask, Succeed, Fail, GiveUp, Expire
<1>3. CASE PoolStep
  <2>1. CASE \/ \E p \in Names, c \in Rows : Edit(p, c)
             \/ ReadTable \/ (\E i \in 1..Len(Providers) : HandleRow(i)) \/ RefreshFails \/ Tick
    BY <1>1, <2>1 DEF Edit, ReadTable, HandleRow, RefreshFails, Tick
  <2>2. CASE Swap
    <3>1. \A p \in Names : providers'[p] = Resolved(readRows[p])
      BY <2>2 DEF Swap, NewList
    <3>2. \A p \in Names : providers'[p] # Off => PaidEligible(providers'[p])
      BY <3>1 DEF Resolved
    <3> QED
      BY <2>2, <3>2 DEF Swap, EligibleInv, PaidEligible
  <2> QED
    BY <1>2, <1>3, <2>1, <2>2 DEF PoolStep, RefreshStep
<1>4. ASSUME NEW q \in Questions, QuestionStep(q) PROVE EligibleInv'
  <2>1. CASE Begin(q) \/ AskLimiter(q) \/ FallBack(q)
    BY <1>1, <2>1 DEF Begin, AskLimiter, FallBack, vars
  <2>2. CASE EnterPool(q)
    <3>1. UNCHANGED providers /\ list' = [list EXCEPT ![q] = providers]
      BY <2>2 DEF EnterPool, TakeList
    <3> QED
      BY <3>1 DEF EligibleInv, PaidEligible, TypeOK
  <2>3. CASE SemanticReturns(q) \/ ChatReturns(q)
    <3>1. UNCHANGED providers /\ list' = [list EXCEPT ![q] = [p \in Names |-> Off]]
      BY <2>3 DEF SemanticReturns, ChatReturns, LeavePool
    <3> QED
      BY <3>1 DEF EligibleInv, PaidEligible, TypeOK
  <2> QED
    BY <1>2, <1>4, <2>1, <2>2, <2>3 DEF QuestionStep, Questions
<1>5. CASE UNCHANGED allVars
  BY <1>1, <1>5 DEF allVars, vars
<1> QED
  BY <1>3, <1>4, <1>5 DEF CuratorNext

\* No request is on the way with a billed credential unless its row and the
\* global gate both allowed it, whatever an operator edits and whenever the list
\* is replaced (isProviderPaidEligible).
THEOREM NothingBilled == CuratorSpec => []NeverBilledUnasked
<1>1. CuratorInit => EligibleInv
  BY DEF CuratorInit, Init, EligibleInv
<1>2. Sound /\ EligibleInv /\ [CuratorNext]_allVars => EligibleInv'
  BY EligibleStep
<1>3. Sound /\ EligibleInv => NeverBilledUnasked
  <2> SUFFICES ASSUME Sound, EligibleInv, NEW q \in Calls, asking[q]
               PROVE  LET c == list[q][Provider(q)]
                      IN  (c.slot \notin FreeSlots => c.allowPaid) /\ (c.allowPaid => AllowPaid)
    BY DEF NeverBilledUnasked
  <2>1. Provider(q) \in Names /\ list[q][Provider(q)] # Off
    BY Positions DEF Sound, Work, Provider
  <2>2. PaidEligible(list[q][Provider(q)])
    BY <2>1 DEF EligibleInv
  <2> QED
    BY <2>2 DEF PaidEligible
<1> QED
  BY <1>1, <1>2, <1>3, InitTypes, SoundStep, PTL DEF CuratorSpec

-----------------------------------------------------------------------------
(* Answers.                                                                *)

\* A question has its answer if and only if it is done.
AnswerInv ==
  \A q \in Questions : /\ answer[q] # "none" <=> state[q] = "done"
                       /\ state[q] = "done" => Ended(q)

\* One step of a question leaves those that are done alone.
LEMMA AnswerStep ==
  ASSUME Sound, Granted, AnswerInv, [CuratorNext]_allVars
  PROVE  /\ AnswerInv'
         /\ \A q \in Questions : answer[q] # "none" =>
              /\ answer'[q] = answer[q] /\ fact'[q] = fact[q] /\ grants'[q] = grants[q]
              /\ at'[q] = 0 /\ ~ asking'[q] /\ Ended(q)
<1> DEFINE Kept == \A q \in Questions : answer[q] # "none" =>
                     answer'[q] = answer[q] /\ fact'[q] = fact[q] /\ grants'[q] = grants[q] /\ at'[q] = 0
<1> CuratorTypeOK /\ TypeOK /\ PoolSound
  BY DEF Sound, CuratorTypeOK, PoolSound
<1> USE DEF Questions
<1>1. \A q \in Questions : answer[q] # "none" => state[q] = "done" /\ at[q] = 0 /\ Ended(q)
  BY DEF AnswerInv, Granted
<1>2. ASSUME NEW q \in Calls, CallStep(q) PROVE \A r \in Questions : at[r] = 0 => at'[r] = 0
  <2>1. at' = at \/ at' = [at EXCEPT ![q] = @ + 1]
    BY <1>2 DEF CallStep, Skip, Ask, Succeed, GiveUp, Fail
  <2>2. at[q] # 0
    BY <1>2, Positions DEF CallStep, Skip, Ask, Succeed, GiveUp, Fail, Running, PoolSound, Work
  <2> QED
    BY <2>1, <2>2 DEF TypeOK
<1>3. ASSUME UNCHANGED curatorVars, \A r \in Questions : at[r] = 0 => at'[r] = 0
      PROVE  AnswerInv' /\ Kept
  BY <1>1, <1>3 DEF curatorVars, question, AnswerInv, Ended
<1>4. ASSUME PoolStep, UNCHANGED curatorVars PROVE AnswerInv' /\ Kept
  <2>1. CASE \E q \in Calls : CallStep(q)
    BY <1>2, <1>3, <1>4, <2>1
  <2>2. CASE ~ \E q \in Calls : CallStep(q)
    <3>1. UNCHANGED at
      BY <1>4, <2>2 DEF PoolStep, Edit, RefreshStep, ReadTable, HandleRow, Swap, RefreshFails, Tick, Expire, call
    <3> QED
      BY <1>3, <1>4, <3>1
  <2> QED
    BY <2>1, <2>2
<1>5. ASSUME UNCHANGED allVars PROVE AnswerInv' /\ Kept
  BY <1>3, <1>5 DEF allVars, vars, call
<1>6. ASSUME NEW q \in Questions, QuestionStep(q) PROVE AnswerInv' /\ Kept
  <2>1. CASE CallStep(q) /\ UNCHANGED curatorVars
    BY <1>2, <1>3, <2>1
  <2>2. CASE EnterPool(q)
    <3>1. state[q] # "done" /\ UNCHANGED curatorVars /\ at' = [at EXCEPT ![q] = 1]
      BY <2>2 DEF EnterPool, TakeList
    <3>2. \A r \in Questions : answer[r] # "none" => at'[r] = 0
      BY <1>1, <3>1 DEF TypeOK
    <3> QED
      BY <1>1, <3>1, <3>2 DEF curatorVars, question, AnswerInv, Ended
  <2>3. ASSUME Begin(q) \/ AskLimiter(q) \/ SemanticReturns(q) \/ ChatReturns(q) \/ FallBack(q)
        PROVE  /\ state[q] # "done" /\ state'[q] # "new"
               /\ answer'[q] # "none" <=> state'[q] = "done"
               /\ state'[q] = "done" =>
                    \/ answer'[q] \in {"silence", "refusal", "model"}
                    \/ answer'[q] = (IF fact'[q] THEN "fact" ELSE "canned")
               /\ \A r \in Questions \ {q} :
                    /\ answer'[r] = answer[r] /\ state'[r] = state[r] /\ fact'[r] = fact[r]
                    /\ grants'[r] = grants[r] /\ at'[r] = at[r]
    <3> answer[q] = "none" \/ state[q] = "done"
      BY DEF AnswerInv
    <3> USE DEF CuratorTypeOK, TypeOK, Done, Goto, vars, call, pacing
    <3>1. CASE Begin(q)
      BY <3>1 DEF Begin
    <3>2. CASE AskLimiter(q)
      BY <3>2 DEF AskLimiter
    <3>3. CASE SemanticReturns(q)
      BY <3>3 DEF SemanticReturns, LeavePool
    <3>4. CASE ChatReturns(q)
      BY <3>4 DEF ChatReturns, LeavePool
    <3>5. CASE FallBack(q)
      BY <3>5 DEF FallBack, Fallback
    <3> QED
      BY <2>3, <3>1, <3>2, <3>3, <3>4, <3>5
  <2>4. CASE Begin(q) \/ AskLimiter(q) \/ SemanticReturns(q) \/ ChatReturns(q) \/ FallBack(q)
    <3>1. AnswerInv'
      BY <2>3, <2>4 DEF AnswerInv, Ended
    <3>2. Kept
      BY <1>1, <2>3, <2>4
    <3> QED
      BY <3>1, <3>2
  <2> QED
    BY <1>6, <2>1, <2>2, <2>4 DEF QuestionStep
<1>7. AnswerInv' /\ Kept
  BY <1>4, <1>5, <1>6 DEF CuratorNext
<1>8. \A q \in Questions : at'[q] = 0 => ~ asking'[q]
  <2>1. Sound'
    BY SoundStep
  <2> QED
    BY <2>1, Positions DEF Sound, Work
<1> QED
  BY <1>1, <1>7, <1>8

\* An answer is final, and is the one its question should get: nothing that
\* arrives later changes it, which is why EveryQuestionEnds may say "again and
\* again" (askCurator).
THEOREM FinalAnswer == CuratorSpec => AnswerStays
<1>1. CuratorInit => AnswerInv /\ Granted /\ AllApart
  <2>1. CuratorInit => AnswerInv
    BY DEF CuratorInit, AnswerInv
  <2> QED
    BY <2>1, InitGranted
<1>2. Sound /\ Granted /\ AllApart /\ AnswerInv /\ [CuratorNext]_allVars => Granted' /\ AllApart' /\ AnswerInv'
  BY GrantedStep, AnswerStep
<1>3. Sound /\ Granted /\ AnswerInv /\ [CuratorNext]_allVars =>
        [\A q \in Questions : answer[q] # "none" =>
           /\ answer'[q] = answer[q] /\ fact'[q] = fact[q] /\ grants'[q] = grants[q]
           /\ at'[q] = 0 /\ ~ asking'[q] /\ Ended(q)]_allVars
  BY AnswerStep
<1> QED
  BY <1>1, <1>2, <1>3, InitTypes, SoundStep, PTL DEF CuratorSpec, AnswerStays
=============================================================================
