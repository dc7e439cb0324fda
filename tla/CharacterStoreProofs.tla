------------------------ MODULE CharacterStoreProofs ------------------------
(***************************************************************************)
(* The invariants of CharacterStore hold for any number of pipelines,      *)
(* lines and faults.                                                       *)
(***************************************************************************)
EXTENDS CharacterStore, WellFoundedInduction, TLAPS

Inv == TypeOK /\ CacheIsCurrent /\ HandlerInv

-----------------------------------------------------------------------------
(* The last character of a set.                                            *)

LEMMA Least ==
  ASSUME NEW T, T \subseteq Nat, T # {}
  PROVE  \E x \in T : \A y \in T : x <= y
<1>1. \E x \in T : \A y \in T : ~ (<<y, x>> \in OpToRel(<, Nat))
  BY NatLessThanWellFounded, WFMin, Zenon
<1>2. ASSUME NEW x \in Nat, NEW y \in Nat, y < x
      PROVE  <<y, x>> \in OpToRel(<, Nat)
  <2>1. <<y, x>> \in Nat \X Nat /\ <<y, x>>[1] < <<y, x>>[2]
    BY <1>2
  <2>2. OpToRel(<, Nat) = {p \in Nat \X Nat : p[1] < p[2]}
    BY Zenon DEF OpToRel
  <2> QED
    BY <2>1, <2>2
<1>3. PICK x \in T : \A y \in T : ~ (<<y, x>> \in OpToRel(<, Nat))
  BY <1>1
<1>4. ASSUME NEW y \in T PROVE x <= y
  <2>1. ~ (y < x)
    BY <1>2, <1>3
  <2> QED
    BY <2>1
<1> QED
  BY <1>4

LEMMA LastOf ==
  ASSUME NEW n \in Nat, NEW S, S \subseteq 1..n, S # {}
  PROVE  Last(S) \in S /\ \A d \in S : d <= Last(S)
<1> DEFINE T == {n - c : c \in S}
<1>1. T \subseteq Nat /\ T # {}
  <2>1. \A c \in S : c \in Nat /\ c <= n /\ n - c \in Nat
    OBVIOUS
  <2> QED
    BY <2>1
<1>2. PICK x \in T : \A y \in T : x <= y
  <2> HIDE DEF T
  <2> QED
    BY <1>1, Least
<1>3. PICK c \in S : x = n - c
  BY <1>2
<1>4. \A d \in S : n - d \in T
  OBVIOUS
<1>5. \A d \in S : d <= c
  BY <1>2, <1>3, <1>4
<1> QED
  BY <1>5 DEF Last

LEMMA LastOfOne ==
  ASSUME NEW n \in Nat
  PROVE  Last({n}) = n
  BY DEF Last

\* The character events belong to is one, if there is any.
LEMMA CurrentIs ==
  ASSUME TypeOK
  PROVE  /\ alive # {} => Last(alive) \in alive /\ Last(alive) \in Characters /\ Current = Last(alive)
         /\ alive = {} => Current = rows
         /\ rows # 0 => rows \in Characters
<1>1. rows \in Nat /\ alive \subseteq 1..rows
  BY DEF TypeOK, Characters
<1>2. alive # {} => Last(alive) \in alive
  BY <1>1, LastOf
<1>3. rows # 0 => rows \in 1..rows
  BY <1>1
<1> QED
  BY <1>1, <1>2, <1>3 DEF Current, Characters

LEMMA AfterInsert ==
  ASSUME TypeOK, rows' = rows + 1, alive' = alive \cup {rows + 1}
  PROVE  Current' = rows'
<1>1. alive' \subseteq 1..rows' /\ rows' \in alive' /\ rows' \in Nat
  BY DEF TypeOK, Characters
<1>2. Last(alive') \in alive' /\ rows' <= Last(alive')
  BY <1>1, LastOf
<1> QED
  BY <1>1, <1>2 DEF Current

-----------------------------------------------------------------------------
(* Types.                                                                  *)

Ops == {"none", "created", "died", "event"}
Statements == {"idle", "cache", "alive", "recent", "max", "insert", "remember", "update", "forget"}

LEMMA InitTypes == Init => TypeOK
  BY DEF Init, TypeOK, Characters

LEMMA Wider ==
  ASSUME NEW m \in Nat, NEW n \in Nat, m <= n
  PROVE  0 \in 0..(n + 1) /\ \A k \in 0..(m + 1) : k \in 0..(n + 1)
  OBVIOUS

LEMMA MoveTypes ==
  ASSUME TypeOK, NEW w \in Workers, NEW c \in 0..(rows + 1), NEW p \in Statements, Move(w, c, p),
         rows' \in {rows, rows + 1}
  PROVE  /\ op' \in [Workers -> Ops] /\ pc' \in [Workers -> Statements]
         /\ id' \in [Workers -> 0..(rows' + 1)]
<1>1. op' \in [Workers -> Ops] /\ pc' \in [Workers -> Statements]
  BY DEF Move, TypeOK, Ops, Statements
<1>2. \A v \in Workers : id'[v] \in {id[v], 0, c}
  BY DEF Move, TypeOK
<1>3. 0 \in 0..(rows' + 1) /\ \A n \in 0..(rows + 1) : n \in 0..(rows' + 1)
  <2>1. rows \in Nat /\ rows' \in Nat /\ rows <= rows'
    BY DEF TypeOK
  <2> QED
    BY <2>1, Wider, Zenon
<1>4. DOMAIN id' = Workers /\ id' = [v \in Workers |-> id'[v]]
  BY DEF Move, TypeOK
<1> QED
  BY <1>1, <1>2, <1>3, <1>4 DEF TypeOK

LEMMA ResumeTypes ==
  ASSUME NEW o
  PROVE  Resume(o) \in Statements /\ "idle" \in Statements
  BY DEF Resume, Statements

\* A step of a handler is a move, and changes little else.
LEMMA HandlerMoves ==
  ASSUME Inv, NEW w \in Workers, Lookup(w) \/ Create(w) \/ GiveUp(w) \/ (w = Perk /\ (Bury \/ Forget))
  PROVE  \E c \in 0..(rows + 1), p \in Statements : Move(w, c, p)
<1> USE DEF TypeOK
<1>1. TypeOK /\ PlacesInv /\ 0 \in 0..(rows + 1) /\ id[w] \in 0..(rows + 1) /\ cache \in 0..(rows + 1)
  BY DEF Inv, HandlerInv
<1>2. Resume(op[w]) \in Statements
  BY ResumeTypes
<1> USE DEF Statements
<1>3. CASE CacheLookup(w)
  BY <1>1, <1>2, <1>3 DEF CacheLookup
<1>4. CASE FindAlive(w)
  <2>1. alive # {} => Last(alive) \in 0..(rows + 1)
    BY <1>1, CurrentIs DEF Characters
  <2> QED
    BY <1>1, <1>4, <2>1 DEF FindAlive
<1>5. CASE FindRecent(w) \/ QueryFails(w) \/ NextNumber(w)
  <2>1. rows \in 0..(rows + 1) /\ rows + 1 \in 0..(rows + 1)
    BY <1>1
  <2>2. CASE FindRecent(w)
    BY <1>1, <2>1, <2>2 DEF FindRecent
  <2>3. CASE QueryFails(w)
    BY <1>1, <2>3 DEF QueryFails
  <2>4. CASE NextNumber(w)
    BY <2>1, <2>4 DEF NextNumber
  <2> QED
    BY <1>5, <2>2, <2>3, <2>4
<1>6. CASE InsertCharacter(w) \/ NumberTaken(w) \/ RememberCharacter(w)
  BY <1>1, <1>2, <1>6 DEF InsertCharacter, NumberTaken, RememberCharacter
<1>7. CASE GiveUp(w)
  BY <1>1, <1>7 DEF GiveUp
<1>8. CASE w = Perk /\ (Bury \/ Forget)
  BY <1>1, <1>8 DEF Bury, Forget
<1> QED
  BY <1>3, <1>4, <1>5, <1>6, <1>7, <1>8 DEF Lookup, Create

\* Two statements change the rows, and two the cache.
LEMMA Disturbs ==
  ASSUME NEW w \in Workers, Lookup(w) \/ Create(w) \/ GiveUp(w) \/ (w = Perk /\ (Bury \/ Forget))
  PROVE  /\ InsertCharacter(w) \/ Bury \/ UNCHANGED db
         /\ RememberCharacter(w) \/ Forget \/ UNCHANGED cache
         /\ UNCHANGED log
         /\ adopted' \in {adopted, adopted + 1} /\ stale' \in {stale, stale + 1}
         /\ faults' \in {faults, faults + 1}
<1>1. CASE Lookup(w)
  BY <1>1 DEF Lookup, CacheLookup, FindAlive, FindRecent, QueryFails, history, Fault
<1>2. CASE NextNumber(w) \/ InsertCharacter(w) \/ NumberTaken(w)
  BY <1>2 DEF NextNumber, InsertCharacter, NumberTaken, history, log
<1>3. CASE RememberCharacter(w)
  BY <1>3 DEF RememberCharacter
<1>4. CASE GiveUp(w) \/ Bury \/ Forget
  BY <1>4 DEF GiveUp, Bury, Forget, history, Fault, log
<1> QED
  BY <1>1, <1>2, <1>3, <1>4 DEF Create

LEMMA TypeStep ==
  ASSUME Inv, [Next]_vars
  PROVE  TypeOK'
<1>1. TypeOK /\ PlacesInv
  BY DEF Inv, HandlerInv
<1>2. ASSUME NEW w \in Workers, Lookup(w) \/ Create(w) \/ GiveUp(w) \/ (w = Perk /\ (Bury \/ Forget))
      PROVE  TypeOK'
  <2>1. rows' \in {rows, rows + 1} /\ alive' \subseteq 1..rows' /\ rows' \in Nat
    <3>1. CASE InsertCharacter(w)
      BY <1>1, <3>1 DEF InsertCharacter, TypeOK, Characters
    <3>2. CASE Bury
      BY <1>1, <3>2 DEF Bury, TypeOK, Characters
    <3>3. CASE UNCHANGED db
      BY <1>1, <3>3 DEF db, TypeOK, Characters
    <3> QED
      BY <1>2, <3>1, <3>2, <3>3, Disturbs
  <2>2. /\ op' \in [Workers -> Ops] /\ pc' \in [Workers -> Statements]
        /\ id' \in [Workers -> 0..(rows' + 1)]
    BY <1>1, <1>2, <2>1, HandlerMoves, MoveTypes
  <2>3. cache' \in 0..rows'
    <3>1. CASE RememberCharacter(w)
      BY <1>1, <2>1, <3>1 DEF RememberCharacter, PlacesInv, TypeOK, Characters
    <3>2. CASE Forget \/ UNCHANGED cache
      BY <1>1, <2>1, <3>2 DEF Forget, TypeOK
    <3> QED
      BY <1>2, <3>1, <3>2, Disturbs
  <2>4. /\ UNCHANGED log
        /\ adopted' \in {adopted, adopted + 1} /\ stale' \in {stale, stale + 1} /\ faults' \in {faults, faults + 1}
    BY <1>2, Disturbs
  <2> QED
    BY <1>1, <2>1, <2>2, <2>3, <2>4 DEF TypeOK, Ops, Statements, log, Characters
<1>3. ASSUME NEW w \in Workers, NEW o \in {"created", "died", "event"}, NEW p \in {"cache", "max"}, Begin(w, o, p),
             line' \in {line, line + 1}
      PROVE  TypeOK'
  BY <1>1, <1>3 DEF Begin, TypeOK, db, history, Characters
<1>4. CASE Restart
  <2>1. cache' \in 0..rows /\ UNCHANGED <<rows, alive>>
    BY <1>1, <1>4 DEF Restart, TypeOK, Characters, db
  <2>2. checkpoint' = line' /\ line' \in Nat
    BY <1>1, <1>4 DEF Restart, TypeOK
  <2>3. UNCHANGED <<cold, adopted>> /\ stale' \in {stale, stale + 1} /\ faults' = faults + 1
    BY <1>4 DEF Restart, Fault
  <2>4. /\ op' = [w \in Workers |-> "none"] /\ pc' = [w \in Workers |-> "idle"]
        /\ id' = [w \in Workers |-> 0]
    BY <1>4 DEF Restart
  <2> QED
    BY <1>1, <2>1, <2>2, <2>3, <2>4 DEF TypeOK, Characters
<1>5. CASE UNCHANGED vars
  BY <1>1, <1>5 DEF vars, db, work, log, history, TypeOK, Characters
<1>6. CASE ReadPerkLine
  BY <1>3, <1>6, StoreAssumption DEF ReadPerkLine
<1>7. ASSUME NEW w \in Workers, Ingest(w) PROVE TypeOK'
  BY <1>3, <1>7 DEF Ingest
<1> QED
  BY <1>2, <1>4, <1>5, <1>6, <1>7, StoreAssumption DEF Next

-----------------------------------------------------------------------------
(* Where the handlers are.                                                 *)

Places(w) ==
  /\ op[w] = "none" <=> pc[w] = "idle"
  /\ op[w] \in {"created", "died"} => w = Perk
  /\ pc[w] \in {"update", "forget"} => op[w] = "died"
  /\ pc[w] \in {"remember", "update"} => id[w] \in Characters
  /\ op[w] = "created" => pc[w] \in {"max", "insert", "remember"}

\* PlacesInv, worker by worker.
LEMMA EachPlace == PlacesInv <=> \A w \in Workers : Places(w)
  BY StoreAssumption DEF PlacesInv, Places

\* A move of one worker leaves the others where they are, and no character is ever
\* deleted.
LEMMA OthersStay ==
  ASSUME TypeOK, NEW w \in Workers, NEW c, NEW p, Move(w, c, p), rows' \in {rows, rows + 1},
         NEW v \in Workers, v # w, Places(v)
  PROVE  Places(v)'
<1>1. op'[v] = op[v] /\ pc'[v] = pc[v] /\ id'[v] = id[v]
  BY DEF Move, TypeOK
<1>2. \A n \in 1..rows : n \in 1..rows'
  BY DEF TypeOK
<1> QED
  BY <1>1, <1>2 DEF Places, Characters

LEMMA Moved ==
  ASSUME TypeOK, NEW w \in Workers, NEW c, NEW p, Move(w, c, p)
  PROVE  /\ pc'[w] = p
         /\ op'[w] = IF p = "idle" THEN "none" ELSE op[w]
         /\ id'[w] = IF p = "idle" THEN 0 ELSE c
  BY DEF Move, TypeOK

LEMMA HandlerPlace ==
  ASSUME Inv, NEW w \in Workers, Lookup(w) \/ Create(w) \/ GiveUp(w) \/ (w = Perk /\ (Bury \/ Forget))
  PROVE  Places(w)'
<1>1. TypeOK /\ Places(w)
  BY EachPlace DEF Inv, HandlerInv
<1> USE Moved DEF Places
<1>2. CASE CacheLookup(w)
  <2>1. rows' = rows /\ (cache # 0 => cache \in Characters)
    BY <1>1, <1>2 DEF CacheLookup, db, TypeOK, Characters
  <2>2. CASE cache # 0
    BY <1>1, <1>2, <2>1, <2>2 DEF CacheLookup, Resume, Characters
  <2>3. CASE cache = 0
    BY <1>1, <1>2, <2>1, <2>3 DEF CacheLookup, Characters
  <2> QED
    BY <2>2, <2>3
<1>3. CASE FindAlive(w)
  <2>1. rows' = rows /\ (alive # {} => Last(alive) \in Characters)
    BY <1>1, <1>3, CurrentIs DEF FindAlive, db
  <2> QED
    BY <1>1, <1>3, <2>1 DEF FindAlive, Characters
<1>4. CASE FindRecent(w)
  <2>1. rows' = rows /\ (rows # 0 => rows \in Characters)
    BY <1>1, <1>4, CurrentIs DEF FindRecent, db
  <2> QED
    BY <1>1, <1>4, <2>1 DEF FindRecent, Characters
<1>5. CASE QueryFails(w)
  BY <1>1, <1>5 DEF QueryFails
<1>6. CASE NextNumber(w)
  BY <1>1, <1>6 DEF NextNumber
<1>7. CASE InsertCharacter(w)
  <2>1. rows' = rows + 1 /\ id[w] = rows + 1 /\ rows \in Nat /\ rows' \in 1..rows'
    BY <1>1, <1>7 DEF InsertCharacter, TypeOK
  <2> QED
    BY <1>1, <1>7, <2>1 DEF InsertCharacter, Characters
<1>8. CASE NumberTaken(w)
  BY <1>1, <1>8 DEF NumberTaken
<1>9. CASE RememberCharacter(w)
  BY <1>1, <1>9 DEF RememberCharacter, Resume, db, Characters
<1>10. CASE GiveUp(w)
  BY <1>1, <1>10 DEF GiveUp
<1>11. CASE w = Perk /\ (Bury \/ Forget)
  BY <1>1, <1>11 DEF Bury, Forget
<1> QED
  BY <1>2, <1>3, <1>4, <1>5, <1>6, <1>7, <1>8, <1>9, <1>10, <1>11 DEF Lookup, Create

LEMMA PlacesStep ==
  ASSUME Inv, [Next]_vars
  PROVE  PlacesInv'
<1>1. TypeOK /\ \A v \in Workers : Places(v)
  BY EachPlace DEF Inv, HandlerInv
<1>2. SUFFICES ASSUME NEW v \in Workers PROVE Places(v)'
  BY StoreAssumption DEF PlacesInv, Places
<1>3. ASSUME NEW w \in Workers, Lookup(w) \/ Create(w) \/ GiveUp(w) \/ (w = Perk /\ (Bury \/ Forget))
      PROVE  Places(v)'
  <2>1. rows' \in {rows, rows + 1}
    BY <1>3, Disturbs DEF InsertCharacter, Bury, db
  <2> QED
    BY <1>1, <1>3, <2>1, HandlerMoves, HandlerPlace, OthersStay
<1>4. ASSUME NEW w \in Workers, NEW o \in {"created", "died", "event"}, NEW p \in {"cache", "max"}, Begin(w, o, p),
             o \in {"created", "died"} => w = Perk, o = "created" => p = "max"
      PROVE  Places(v)'
  <2>1. /\ op'[v] = IF v = w THEN o ELSE op[v]
        /\ pc'[v] = IF v = w THEN p ELSE pc[v]
        /\ id'[v] = id[v] /\ rows' = rows
    BY <1>1, <1>4 DEF Begin, TypeOK, db
  <2> QED
    BY <1>1, <1>4, <2>1 DEF Places, Characters
<1>5. CASE ReadPerkLine
  BY <1>4, <1>5, StoreAssumption DEF ReadPerkLine
<1>6. ASSUME NEW w \in Workers, Ingest(w) PROVE Places(v)'
  BY <1>4, <1>6 DEF Ingest
<1>7. CASE Restart
  BY <1>7 DEF Restart, Places
<1>8. CASE UNCHANGED vars
  BY <1>1, <1>8 DEF vars, work, db, Places, Characters
<1> QED
  BY <1>3, <1>5, <1>6, <1>7, <1>8, StoreAssumption DEF Next

-----------------------------------------------------------------------------
(* The cache.                                                              *)

LEMMA CacheStep ==
  ASSUME Inv, [Next]_vars
  PROVE  CacheIsCurrent'
<1>1. TypeOK /\ CacheIsCurrent /\ stale \in Nat
  BY DEF Inv, TypeOK
<1>2. SUFFICES ASSUME stale' = 0 PROVE CacheIsCurrent'
  BY DEF CacheIsCurrent
<1>3. ASSUME NEW w \in Workers, Lookup(w) \/ Create(w) \/ GiveUp(w) \/ (w = Perk /\ (Bury \/ Forget))
      PROVE  CacheIsCurrent'
  <2>1. CASE InsertCharacter(w)
    <3>1. Current' = rows + 1 /\ id[w] = rows + 1
      BY <1>1, <2>1, AfterInsert DEF InsertCharacter
    <3>2. pc'[w] = "remember" /\ id'[w] = rows + 1
      BY <1>1, <2>1, <3>1, Moved DEF InsertCharacter
    <3> QED
      BY <3>1, <3>2 DEF CacheIsCurrent
  <2>2. CASE RememberCharacter(w)
    <3>1. cache' = id[w] /\ id[w] = Current
      BY <1>1, <1>2, <2>2 DEF RememberCharacter
    <3>2. Current' = Current
      BY <2>2 DEF RememberCharacter, db, Current
    <3> QED
      BY <3>1, <3>2 DEF CacheIsCurrent
  <2>3. CASE w = Perk /\ Bury
    <3>1. pc'[Perk] = "forget"
      BY <1>1, <2>3, Moved DEF Bury
    <3> QED
      BY <3>1 DEF CacheIsCurrent
  <2>4. CASE w = Perk /\ Forget
    BY <2>4 DEF Forget, CacheIsCurrent
  <2>5. CASE Lookup(w) \/ NextNumber(w) \/ NumberTaken(w) \/ GiveUp(w)
    <3>1. /\ UNCHANGED <<rows, alive, cache>> /\ stale' = stale
          /\ pc[w] \notin {"remember", "forget"}
      BY <2>5 DEF Lookup, CacheLookup, FindAlive, FindRecent, QueryFails, NextNumber, NumberTaken, GiveUp, db, history
    <3>2. \A v \in Workers : pc[v] \in {"remember", "forget"} => pc'[v] = pc[v] /\ id'[v] = id[v]
      BY <1>1, <1>3, <3>1, HandlerMoves DEF Move, TypeOK
    <3>3. Current' = Current
      BY <3>1 DEF Current
    <3> QED
      BY <1>1, <1>2, <3>1, <3>2, <3>3, StoreAssumption DEF CacheIsCurrent
  <2> QED
    BY <1>3, <2>1, <2>2, <2>3, <2>4, <2>5 DEF Create
<1>4. ASSUME NEW w \in Workers, NEW o, NEW p, Begin(w, o, p)
      PROVE  CacheIsCurrent'
  <2>1. /\ UNCHANGED <<rows, alive, cache, id>> /\ stale' = stale
        /\ \A v \in Workers : pc[v] # "idle" => pc'[v] = pc[v]
    BY <1>1, <1>4 DEF Begin, db, history, TypeOK
  <2>2. Current' = Current
    BY <2>1 DEF Current
  <2> QED
    BY <1>1, <1>2, <2>1, <2>2, StoreAssumption DEF CacheIsCurrent
<1>5. CASE ReadPerkLine
  BY <1>4, <1>5, StoreAssumption DEF ReadPerkLine
<1>6. ASSUME NEW w \in Workers, Ingest(w) PROVE CacheIsCurrent'
  BY <1>4, <1>6 DEF Ingest
<1>7. CASE Restart
  <2>1. cache' \in {0, Current}
    BY <1>1, <1>2, <1>7 DEF Restart
  <2>2. Current' = Current
    BY <1>7 DEF Restart, db, Current
  <2> QED
    BY <2>1, <2>2 DEF CacheIsCurrent
<1>8. CASE UNCHANGED vars
  BY <1>1, <1>2, <1>8 DEF vars, work, db, history, Current, CacheIsCurrent
<1> QED
  BY <1>3, <1>5, <1>6, <1>7, <1>8, StoreAssumption DEF Next

-----------------------------------------------------------------------------
(* Agreement with PerkLog.txt.                                             *)

\* Creations and deaths alternate.
LEMMA Alternate ==
  ASSUME TypeOK, NEW n \in Nat
  PROVE  Creates(n + 1) <=> ~ Creates(n)
<1>1. cold \in {0, 1}
  BY DEF TypeOK
<1>2. CASE cold = 0
  BY <1>2 DEF Creates
<1>3. CASE cold = 1
  BY <1>3 DEF Creates
<1> QED
  BY <1>1, <1>2, <1>3

\* Without faults the living character is the one events belong to, and there is at
\* most one.
LEMMA CalmCurrent ==
  ASSUME TypeOK, alive \in {{}, {rows}}
  PROVE  Current = rows
  BY LastOfOne DEF TypeOK, Current

LEMMA LoggedIs ==
  ASSUME NEW n
  PROVE  Logged(n) \in {{}, {rows}}
  BY DEF Logged

\* The cache's part of CalmInv.
CacheCalm ==
  \/ cache \in {0, Current}
  \/ pc[Perk] = "forget"
  \/ pc[Perk] = "remember" /\ id[Perk] = Current

\* The part that is about the handler of PerkLog.txt.
PerkCalm ==
  /\ pc[Perk] = "insert" => id[Perk] = rows + 1
  /\ op[Perk] \in {"none", "event"} => alive = Logged(line)
  /\ op[Perk] = "created" =>
       /\ line > 0 /\ Creates(line)
       /\ IF pc[Perk] = "remember" THEN alive = {rows} /\ id[Perk] = rows ELSE alive = {}
  /\ op[Perk] = "died" =>
       /\ line > 0 /\ ~ Creates(line)
       /\ alive = (IF pc[Perk] = "forget" THEN {} ELSE Logged(line - 1))
       /\ pc[Perk] \in {"remember", "update"} => id[Perk] = rows

LEMMA CalmParts == CalmInv <=> (Calm => CacheCalm /\ PerkCalm)
  BY DEF CalmInv, CacheCalm, PerkCalm

LEMMA SumZero ==
  ASSUME NEW a \in Nat, NEW b \in Nat, NEW c \in Nat
  PROVE  a + b + c = 0 <=> a = 0 /\ b = 0 /\ c = 0
  OBVIOUS

LEMMA Unraised ==
  ASSUME NEW a \in Nat, NEW b \in {a, a + 1}, b = 0
  PROVE  a = 0
  OBVIOUS

LEMMA CalmBefore ==
  ASSUME Inv, [Next]_vars, Calm'
  PROVE  Calm /\ UNCHANGED <<adopted, stale, faults>>
<1>1. /\ adopted \in Nat /\ stale \in Nat /\ faults \in Nat
      /\ adopted' \in Nat /\ stale' \in Nat /\ faults' \in Nat
  BY TypeStep DEF Inv, TypeOK
<1>2. adopted' = 0 /\ stale' = 0 /\ faults' = 0
  BY <1>1, SumZero, Zenon DEF Calm
<1>3. ASSUME NEW w \in Workers, Lookup(w) \/ Create(w) \/ GiveUp(w) \/ (w = Perk /\ (Bury \/ Forget))
      PROVE  adopted' \in {adopted, adopted + 1} /\ stale' \in {stale, stale + 1} /\ faults' \in {faults, faults + 1}
  BY <1>3, Disturbs
<1>4. ASSUME Restart
      PROVE  adopted' = adopted /\ stale' \in {stale, stale + 1} /\ faults' = faults + 1
  BY <1>4 DEF Restart, Fault
<1>5. ASSUME ReadPerkLine \/ (\E w \in Workers : Ingest(w)) \/ UNCHANGED vars
      PROVE  UNCHANGED <<adopted, stale, faults>>
  BY <1>5 DEF ReadPerkLine, Ingest, Begin, vars, history
<1>6. /\ adopted' \in {adopted, adopted + 1} /\ stale' \in {stale, stale + 1} /\ faults' \in {faults, faults + 1}
  BY <1>3, <1>4, <1>5, StoreAssumption DEF Next
<1>7. adopted = 0 /\ stale = 0 /\ faults = 0
  BY <1>1, <1>2, <1>6, Unraised, Zenon
<1>8. Calm
  BY <1>1, <1>7, SumZero, Zenon DEF Calm
<1> QED
  BY <1>2, <1>7, <1>8

LEMMA CacheCalmStep ==
  ASSUME Inv, [Next]_vars, Calm'
  PROVE  CacheCalm'
<1>1. TypeOK /\ Calm /\ CacheCalm /\ PerkCalm /\ PlacesInv /\ UNCHANGED <<adopted, stale, faults>>
  BY CalmBefore, CalmParts DEF Inv, HandlerInv
<1>2. adopted \in Nat /\ stale \in Nat /\ faults \in Nat
  BY <1>1 DEF TypeOK
<1>3. ASSUME NEW w \in Workers, Lookup(w) \/ Create(w) \/ GiveUp(w) \/ (w = Perk /\ (Bury \/ Forget))
      PROVE  CacheCalm'
  <2>1. CASE InsertCharacter(w)
    <3>1. op[w] = "created"
      BY <1>1, <1>2, <2>1 DEF InsertCharacter
    <3>2. w = Perk
      BY <1>1, <3>1 DEF PlacesInv
    <3>3. Current' = rows + 1 /\ id[w] = rows + 1
      BY <1>1, <2>1, AfterInsert DEF InsertCharacter
    <3>4. pc'[w] = "remember" /\ id'[w] = rows + 1
      BY <1>1, <2>1, <3>3, Moved DEF InsertCharacter
    <3> QED
      BY <3>2, <3>3, <3>4 DEF CacheCalm
  <2>2. CASE RememberCharacter(w)
    <3>1. cache' = id[w] /\ id[w] = Current
      BY <1>1, <1>2, <2>2 DEF RememberCharacter
    <3>2. Current' = Current
      BY <2>2 DEF RememberCharacter, db, Current
    <3> QED
      BY <3>1, <3>2 DEF CacheCalm
  <2>3. CASE w = Perk /\ Bury
    <3>1. pc'[Perk] = "forget"
      BY <1>1, <2>3, Moved DEF Bury
    <3> QED
      BY <3>1 DEF CacheCalm
  <2>4. CASE w = Perk /\ Forget
    BY <2>4 DEF Forget, CacheCalm
  <2>5. CASE Lookup(w) \/ NextNumber(w) \/ NumberTaken(w) \/ GiveUp(w)
    <3>1. UNCHANGED <<rows, alive, cache>> /\ pc[w] \notin {"remember", "forget"}
      BY <2>5 DEF Lookup, CacheLookup, FindAlive, FindRecent, QueryFails, NextNumber, NumberTaken, GiveUp, db
    <3>2. pc[Perk] \in {"remember", "forget"} => pc'[Perk] = pc[Perk] /\ id'[Perk] = id[Perk]
      BY <1>1, <1>3, <3>1, HandlerMoves, StoreAssumption DEF Move, TypeOK
    <3>3. Current' = Current
      BY <3>1 DEF Current
    <3> QED
      BY <1>1, <3>1, <3>2, <3>3 DEF CacheCalm
  <2> QED
    BY <1>3, <2>1, <2>2, <2>3, <2>4, <2>5 DEF Create
<1>4. ASSUME NEW w \in Workers, NEW o, NEW p, Begin(w, o, p)
      PROVE  CacheCalm'
  <2>1. /\ UNCHANGED <<rows, alive, cache, id>>
        /\ pc[Perk] # "idle" => pc'[Perk] = pc[Perk]
    BY <1>1, <1>4, StoreAssumption DEF Begin, db, TypeOK
  <2>2. Current' = Current
    BY <2>1 DEF Current
  <2> QED
    BY <1>1, <2>1, <2>2 DEF CacheCalm
<1>5. CASE ReadPerkLine
  BY <1>4, <1>5, StoreAssumption DEF ReadPerkLine
<1>6. ASSUME NEW w \in Workers, Ingest(w) PROVE CacheCalm'
  BY <1>4, <1>6 DEF Ingest
<1>7. ~ Restart
  BY <1>1, <1>2 DEF Restart, Fault
<1>8. CASE UNCHANGED vars
  BY <1>1, <1>8 DEF vars, work, db, Current, CacheCalm
<1> QED
  BY <1>3, <1>5, <1>6, <1>7, <1>8, StoreAssumption DEF Next

\* The other pipelines change neither the rows nor what Perk is doing ...
LEMMA OthersCalm ==
  ASSUME Inv, Calm, PerkCalm, UNCHANGED <<adopted, stale, faults>>, NEW w \in Workers, w # Perk,
         Ingest(w) \/ Lookup(w) \/ Create(w) \/ GiveUp(w)
  PROVE  PerkCalm'
<1>1. TypeOK /\ PlacesInv /\ adopted \in Nat /\ faults \in Nat
  BY DEF Inv, HandlerInv, TypeOK
<1>2. ~ InsertCharacter(w)
  BY <1>1 DEF InsertCharacter, PlacesInv
<1>3. UNCHANGED <<rows, alive, line, cold>>
  BY <1>2 DEF Ingest, Begin, Lookup, Create, CacheLookup, FindAlive, FindRecent, QueryFails, NextNumber, NumberTaken,
              RememberCharacter, GiveUp, db, log
<1>4. op'[Perk] = op[Perk] /\ pc'[Perk] = pc[Perk] /\ id'[Perk] = id[Perk]
  <2>1. CASE Ingest(w)
    BY <1>1, <2>1, StoreAssumption DEF Ingest, Begin, TypeOK
  <2>2. CASE Lookup(w) \/ Create(w) \/ GiveUp(w)
    BY <1>1, <2>2, HandlerMoves, StoreAssumption DEF Move, TypeOK
  <2> QED
    BY <2>1, <2>2
<1>5. \A n : Logged(n)' = Logged(n)
  BY <1>3 DEF Logged, Creates
<1> QED
  BY <1>3, <1>4, <1>5 DEF PerkCalm, Logged, Creates

\* ... and Perk takes the lines of its log one by one.
LEMMA PerkSteps ==
  ASSUME Inv, Calm, PerkCalm, UNCHANGED <<adopted, stale, faults>>,
         Lookup(Perk) \/ Create(Perk) \/ GiveUp(Perk) \/ Bury \/ Forget
  PROVE  PerkCalm'
<1>1. TypeOK /\ PlacesInv /\ Perk \in Workers /\ adopted \in Nat /\ faults \in Nat /\ rows \in Nat /\ line \in Nat
  BY StoreAssumption DEF Inv, HandlerInv, TypeOK
<1>2. Places(Perk)
  BY <1>1, EachPlace
<1>3. /\ UNCHANGED <<line, cold>>
      /\ ~ QueryFails(Perk) /\ ~ GiveUp(Perk)
  BY <1>1, Disturbs DEF log, QueryFails, GiveUp, Fault
<1>4. \A n : rows' = rows => Logged(n)' = Logged(n)
  BY <1>3 DEF Logged, Creates
<1>5. Logged(line - 1) \in {{}, {rows}} /\ Logged(line) \in {{}, {rows}}
  BY LoggedIs
<1> USE DEF Places
<1>6. CASE CacheLookup(Perk)
  <2>1. UNCHANGED <<rows, alive>> /\ op[Perk] \in {"died", "event"} /\ pc[Perk] = "cache"
    BY <1>2, <1>6, <1>1 DEF CacheLookup, db, TypeOK
  <2>2. op[Perk] = "died" /\ cache # 0 => cache = rows
    <3>1. SUFFICES ASSUME op[Perk] = "died", cache # 0 PROVE cache = rows
      OBVIOUS
    <3>2. cache = Current
      BY <2>1, <3>1, CalmParts DEF Inv, HandlerInv, CacheCalm
    <3>3. alive \in {{}, {rows}}
      BY <1>5, <2>1, <3>1 DEF PerkCalm
    <3> QED
      BY <1>1, <3>2, <3>3, CalmCurrent
  <2>3. CASE cache # 0
    BY <1>1, <1>2, <1>3, <1>4, <1>6, <2>1, <2>2, <2>3, Moved DEF CacheLookup, Resume, PerkCalm, Creates, Logged
  <2>4. CASE cache = 0
    BY <1>1, <1>2, <1>3, <1>4, <1>6, <2>1, <2>4, Moved DEF CacheLookup, PerkCalm, Creates, Logged
  <2> QED
    BY <2>3, <2>4
<1>7. CASE FindAlive(Perk)
  <2>1. UNCHANGED <<rows, alive>> /\ op[Perk] \in {"died", "event"} /\ pc[Perk] = "alive"
    BY <1>2, <1>7, <1>1 DEF FindAlive, db, TypeOK
  <2>2. op[Perk] = "died" /\ alive # {} => Last(alive) = rows
    BY <1>1, <1>5, <2>1, LastOfOne DEF PerkCalm
  <2> QED
    BY <1>1, <1>2, <1>3, <1>4, <1>7, <2>1, <2>2, Moved DEF FindAlive, PerkCalm, Creates, Logged
<1>8. CASE FindRecent(Perk)
  <2>1. UNCHANGED <<rows, alive>> /\ op[Perk] \in {"died", "event"} /\ pc[Perk] = "recent"
    BY <1>2, <1>8, <1>1 DEF FindRecent, db, TypeOK
  <2> QED
    BY <1>1, <1>2, <1>3, <1>4, <1>8, <2>1, Moved DEF FindRecent, PerkCalm, Creates, Logged
<1>9. CASE NextNumber(Perk)
  <2>1. UNCHANGED <<rows, alive>> /\ pc[Perk] = "max"
    BY <1>9 DEF NextNumber, db
  <2> QED
    BY <1>1, <1>2, <1>3, <1>4, <1>9, <2>1, Moved DEF NextNumber, PerkCalm, Creates, Logged
<1>10. CASE InsertCharacter(Perk)
  <2>1. op[Perk] = "created"
    BY <1>1, <1>10 DEF InsertCharacter
  <2>2. rows' = rows + 1 /\ alive' = {rows'} /\ id[Perk] = rows' /\ pc[Perk] = "insert"
    BY <1>10, <2>1 DEF InsertCharacter, PerkCalm
  <2>3. op'[Perk] = "created" /\ pc'[Perk] = "remember" /\ id'[Perk] = rows'
    BY <1>1, <1>10, <2>1, <2>2, Moved DEF InsertCharacter
  <2> QED
    BY <1>3, <2>1, <2>2, <2>3 DEF PerkCalm, Creates
<1>11. ~ NumberTaken(Perk)
  BY DEF NumberTaken, PerkCalm
<1>12. CASE RememberCharacter(Perk)
  <2>1. UNCHANGED <<rows, alive>> /\ pc[Perk] = "remember"
    BY <1>12 DEF RememberCharacter, db
  <2>2. CASE op[Perk] = "created"
    <3>1. op'[Perk] = "none" /\ pc'[Perk] = "idle"
      BY <1>1, <1>12, <2>2, Moved DEF RememberCharacter, Resume
    <3>2. alive' = {rows} /\ line > 0 /\ Creates(line)
      BY <2>1, <2>2 DEF PerkCalm
    <3> QED
      BY <1>3, <2>1, <3>1, <3>2 DEF PerkCalm, Logged, Creates
  <2>3. CASE op[Perk] = "died"
    <3>1. op'[Perk] = "died" /\ pc'[Perk] = "update" /\ id'[Perk] = id[Perk]
      BY <1>1, <1>12, <2>3, Moved DEF RememberCharacter, Resume
    <3> QED
      BY <1>3, <1>4, <2>1, <2>3, <3>1 DEF PerkCalm, Logged, Creates
  <2>4. CASE op[Perk] = "event"
    <3>1. op'[Perk] = "none" /\ pc'[Perk] = "idle"
      BY <1>1, <1>12, <2>4, Moved DEF RememberCharacter, Resume
    <3> QED
      BY <1>3, <1>4, <2>1, <2>4, <3>1 DEF PerkCalm, Logged, Creates
  <2> QED
    BY <1>1, <1>2, <2>1, <2>2, <2>3, <2>4 DEF TypeOK
<1>13. CASE Bury
  <2>1. op[Perk] = "died" /\ pc[Perk] = "update" /\ id[Perk] = rows /\ alive \in {{}, {rows}}
    BY <1>2, <1>5, <1>13 DEF Bury, PerkCalm
  <2>2. alive' = {} /\ rows' = rows
    BY <1>13, <2>1 DEF Bury
  <2>3. op'[Perk] = "died" /\ pc'[Perk] = "forget"
    BY <1>1, <1>13, <2>1, Moved DEF Bury
  <2> QED
    BY <1>3, <2>1, <2>2, <2>3 DEF PerkCalm, Creates
<1>14. CASE Forget
  <2>1. op[Perk] = "died" /\ pc[Perk] = "forget" /\ alive = {} /\ ~ Creates(line)
    BY <1>2, <1>14 DEF Forget, PerkCalm
  <2>2. alive' = alive /\ rows' = rows /\ op'[Perk] = "none" /\ pc'[Perk] = "idle"
    BY <1>1, <1>14, Moved DEF Forget, db
  <2> QED
    BY <1>3, <2>1, <2>2 DEF PerkCalm, Logged, Creates
<1> QED
  BY <1>3, <1>6, <1>7, <1>8, <1>9, <1>10, <1>11, <1>12, <1>13, <1>14 DEF Lookup, Create

LEMMA BeginCalm ==
  ASSUME Inv, PerkCalm, ReadPerkLine \/ Ingest(Perk)
  PROVE  PerkCalm'
<1>1. TypeOK /\ Perk \in Workers /\ line \in Nat /\ Places(Perk)
  BY StoreAssumption, EachPlace DEF Inv, HandlerInv, TypeOK
<1>2. UNCHANGED <<rows, alive, cold>> /\ pc[Perk] = "idle" /\ op[Perk] = "none"
  BY <1>1 DEF ReadPerkLine, Ingest, Begin, db, Places
<1>3. alive = Logged(line)
  BY <1>2 DEF PerkCalm
<1>4. CASE ReadPerkLine
  <2>1. line' = line + 1 /\ line' > 0 /\ line' - 1 = line /\ line' # 0
    BY <1>1, <1>4 DEF ReadPerkLine
  <2>2. Creates(line + 1) <=> ~ Creates(line)
    BY <1>1, Alternate
  <2>3. CASE Creates(line + 1)
    <3>1. op'[Perk] = "created" /\ pc'[Perk] = "max"
      BY <1>1, <1>4, <2>3 DEF ReadPerkLine, Begin, TypeOK
    <3>2. alive' = {} /\ Creates(line)'
      BY <1>2, <1>3, <2>1, <2>2, <2>3 DEF Logged, Creates
    <3> QED
      BY <2>1, <3>1, <3>2 DEF PerkCalm
  <2>4. CASE ~ Creates(line + 1)
    <3>1. op'[Perk] = "died" /\ pc'[Perk] = "cache"
      BY <1>1, <1>4, <2>4 DEF ReadPerkLine, Begin, TypeOK
    <3>2. ~ Creates(line)' /\ alive' = Logged(line - 1)'
      BY <1>1, <1>2, <1>3, <2>1, <2>4 DEF Logged, Creates
    <3> QED
      BY <2>1, <3>1, <3>2 DEF PerkCalm
  <2> QED
    BY <2>3, <2>4
<1>5. CASE Ingest(Perk)
  <2>1. op'[Perk] = "event" /\ pc'[Perk] = "cache" /\ line' = line
    BY <1>1, <1>5 DEF Ingest, Begin, TypeOK
  <2> QED
    BY <1>2, <1>3, <2>1 DEF PerkCalm, Logged, Creates
<1> QED
  BY <1>4, <1>5

LEMMA CalmStep ==
  ASSUME Inv, [Next]_vars
  PROVE  CalmInv'
<1>1. SUFFICES ASSUME Calm' PROVE CacheCalm' /\ PerkCalm'
  BY DEF CalmInv, CacheCalm, PerkCalm
<1>2. CacheCalm'
  BY <1>1, CacheCalmStep
<1>3. Calm /\ PerkCalm /\ UNCHANGED <<adopted, stale, faults>> /\ faults \in Nat
  BY <1>1, CalmBefore, CalmParts DEF Inv, HandlerInv, TypeOK
<1>4. ASSUME NEW w \in Workers, Ingest(w) \/ Lookup(w) \/ Create(w) \/ GiveUp(w)
      PROVE  PerkCalm'
  <2>1. CASE w # Perk
    BY <1>3, <1>4, <2>1, OthersCalm
  <2>2. CASE w = Perk /\ Ingest(w)
    BY <1>3, <2>2, BeginCalm
  <2>3. CASE w = Perk /\ (Lookup(w) \/ Create(w) \/ GiveUp(w))
    BY <1>3, <2>3, PerkSteps
  <2> QED
    BY <1>4, <2>1, <2>2, <2>3
<1>5. ASSUME ReadPerkLine \/ Bury \/ Forget
      PROVE  PerkCalm'
  BY <1>3, <1>5, PerkSteps, BeginCalm
<1>6. ~ Restart
  BY <1>3 DEF Restart, Fault
<1>7. ASSUME UNCHANGED vars
      PROVE  PerkCalm'
  BY <1>3, <1>7 DEF vars, db, work, log, PerkCalm, Logged, Creates
<1> QED
  BY <1>2, <1>4, <1>5, <1>6, <1>7 DEF Next

-----------------------------------------------------------------------------
(* The theorems.                                                           *)

LEMMA InitInv == Init => Inv
<1> SUFFICES ASSUME Init PROVE Inv
  OBVIOUS
<1>1. TypeOK
  BY InitTypes
<1>2. cache \in {0, Current}
  <2>1. CASE cold = 1
    <3>1. alive \in {{}, {rows}}
      BY <2>1 DEF Init
    <3> QED
      BY <1>1, <2>1, <3>1, CalmCurrent DEF Init
  <2>2. CASE cold = 0
    BY <2>2 DEF Init
  <2> QED
    BY <2>1, <2>2 DEF Init
<1>3. PlacesInv
  BY StoreAssumption DEF Init, PlacesInv
<1>4. alive = Logged(line)
  <2>1. CASE cold = 0
    BY <2>1 DEF Init, Logged, Creates
  <2>2. CASE cold = 1 /\ rows = 0
    BY <2>2 DEF Init, Logged, Creates
  <2>3. CASE cold = 1 /\ rows = 1
    <3>1. alive = {1} /\ line = 0
      BY <2>3 DEF Init
    <3> QED
      BY <2>3, <3>1 DEF Logged, Creates
  <2> QED
    BY <2>1, <2>2, <2>3 DEF Init
<1>5. CalmInv
  BY <1>2, <1>4, StoreAssumption DEF Init, CalmInv
<1> QED
  BY <1>1, <1>2, <1>3, <1>5 DEF Inv, HandlerInv, CacheIsCurrent

THEOREM Invariance == Spec => []Inv
<1>1. Inv /\ [Next]_vars => Inv'
  BY TypeStep, CacheStep, PlacesStep, CalmStep DEF Inv, HandlerInv
<1> QED
  BY <1>1, InitInv, PTL DEF Spec

\* Every reachable state of a player's characters is well typed.
THEOREM TypeCorrect == Spec => []TypeOK
  BY Invariance, PTL DEF Inv

\* Unless the cache was filled with something out of date, it holds the character
\* that events belong to now, whatever the pipelines are in the middle of
\* (activeCharacter, handleCreatedPlayer, handleDied).
THEOREM CurrentCache == Spec => []CacheIsCurrent
  BY Invariance, PTL DEF Inv

\* Without faults, adoptions and stale entries the database agrees with PerkLog.txt
\* between any two of its lines (handleCreatedPlayer, handleDied).
THEOREM LogAgreement == Spec => []AliveAsLogged
<1>1. Inv => AliveAsLogged
  <2>1. SUFFICES ASSUME Inv, Calm, op[Perk] \notin {"created", "died"}, line > 0
                 PROVE  alive = IF Creates(line) THEN {rows} ELSE {}
    BY DEF AliveAsLogged, Calm
  <2>2. op[Perk] \in {"none", "event"}
    BY <2>1, StoreAssumption DEF Inv, TypeOK
  <2>3. alive = Logged(line)
    BY <2>1, <2>2 DEF Inv, HandlerInv, CalmInv
  <2> QED
    BY <2>1, <2>3 DEF Logged
<1> QED
  BY <1>1, Invariance, PTL

\* Without faults, adoptions and stale entries nobody has two living characters at any
\* time (handleCreatedPlayer, handleDied).
THEOREM NeverTwoLives == Spec => []OneLife
<1>1. Inv => OneLife
  <2> SUFFICES ASSUME Inv, Calm PROVE alive \in {{}, {rows}}
    BY DEF OneLife
  <2>1. op[Perk] \in {"none", "event", "created", "died"}
    BY StoreAssumption DEF Inv, TypeOK
  <2>2. PerkCalm
    BY CalmParts DEF Inv, HandlerInv
  <2> QED
    BY <2>1, <2>2, LoggedIs DEF PerkCalm
<1> QED
  BY <1>1, Invariance, PTL

\* Where the handlers are and what they hold: the strengthening the other theorems
\* rest on.
THEOREM HandlerMeaning == Spec => []HandlerInv
  BY Invariance, PTL DEF Inv

\* PerkLog.txt is followed with the cursor LogTail has for a file: without the loop
\* around its handler the model forgets and repeats the lines a poll can
\* (getFileOffset, setFileOffset).
THEOREM PerkCursor == Spec => FollowsCursor
<1>1. Init => Cursor!Init
  BY DEF Init, Cursor!Init
<1>2. TypeOK /\ [Next]_vars => [Cursor!Next]_(Cursor!vars)
  <2> SUFFICES ASSUME TypeOK, [Next]_vars PROVE [Cursor!Next]_(Cursor!vars)
    OBVIOUS
  <2> USE DEF Cursor!vars, Cursor!Next
  <2>1. CASE UNCHANGED <<line, checkpoint>>
    BY <2>1
  <2>2. CASE ReadPerkLine
    <3>1. line' = line + 1 /\ checkpoint' = checkpoint
      BY <2>2 DEF ReadPerkLine, Begin
    <3> QED
      BY <3>1 DEF Cursor!Advance
  <2>3. CASE Restart
    <3>1. PICK n \in checkpoint..line : checkpoint' = n /\ line' = n
      BY <2>3 DEF Restart, TypeOK
    <3> QED
      BY <3>1 DEF Cursor!GoBack
  <2>4. ASSUME NEW w \in Workers, Ingest(w) PROVE UNCHANGED <<line, checkpoint>>
    BY <2>4 DEF Ingest, Begin
  <2>5. ASSUME NEW w \in Workers, Lookup(w) \/ Create(w) \/ GiveUp(w) \/ (w = Perk /\ (Bury \/ Forget))
        PROVE  UNCHANGED <<line, checkpoint>>
    BY <2>5, Disturbs DEF log
  <2> QED
    BY <2>1, <2>2, <2>3, <2>4, <2>5, StoreAssumption DEF Next, vars, log
<1> QED
  BY <1>1, <1>2, TypeCorrect, PTL DEF Spec, FollowsCursor, Cursor!Spec
=============================================================================
