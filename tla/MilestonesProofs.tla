-------------------------- MODULE MilestonesProofs --------------------------
(***************************************************************************)
(* The invariants of PendingEvents and of Milestones hold for any log,     *)
(* accounts, number of native workers, limits, milestones, thresholds and  *)
(* faults of either process.  The first part is about the exporter alone.  *)
(* The second adds the bot, which only takes messages from the topic, and  *)
(* uses the lemmas of the first.                                           *)
(***************************************************************************)
EXTENDS Milestones, FiniteSetTheorems, TLAPS

-----------------------------------------------------------------------------
(* The exporter: PendingEvents.                                            *)


\* What the statement the worker is at says of the reading in hand.
Work ==
  /\ step # "idle" => Hand \in Readings
  /\ step \in {"enqueue", "ingest"} => Author(Hand) \in Names
  /\ step = "ingest" => identity # Nobody
  /\ step \in {"idle", "lookup", "enqueue"} => identity = Nobody
  /\ step \in {"ingest", "publish"} /\ identity # Nobody => <<Author(Hand), identity>> \in Accounts

\* The map of names and the rows of players are what native logs have told.
Identities ==
  /\ \A u \in Names : known[u] # Nobody => <<u, known[u]>> \in Accounts
  /\ \A s \in Ids : players[s] # Nobody => <<players[s], s>> \in Accounts

\* A native worker flushes events of the player it handles.
Flushing ==
  \A w \in Native : flush[w] # {} =>
    told[w] \in Accounts /\ \A r \in flush[w] : Author(r) = told[w][1]

Sound == TypeOK /\ Work /\ Identities /\ Flushing

-----------------------------------------------------------------------------
(* Readings.                                                               *)

LEMMA Constants ==
  /\ Nobody \notin Names /\ Nobody \notin Ids /\ Accounts \subseteq Names \X Ids
  /\ Log \in Seq(Names \cup {Nobody}) /\ Len(Log) \in Nat
  /\ \A k \in 1..Len(Log) : Log[k] \in Names \cup {Nobody}
  /\ PerUserMax \in Nat \ {0} /\ GlobalMax \in Nat \ {0}
  BY EventsAssumption

LEMMA ReadingsAre ==
  ASSUME TypeOK
  PROVE  /\ Len(readings) \in Nat /\ Readings = 1..Len(readings)
         /\ \A r \in Readings : readings[r] \in 1..Len(Log) /\ Author(r) \in Names \cup {Nobody}
<1>1. readings \in Seq(1..Len(Log))
  BY DEF TypeOK
<1>2. \A r \in 1..Len(readings) : readings[r] \in 1..Len(Log)
  BY <1>1
<1> QED
  BY <1>1, <1>2, Constants DEF Readings, Author

\* A line that is read is the next reading; the others stay what they are.
LEMMA NextReading ==
  ASSUME TypeOK, ReadLine
  PROVE  /\ readings' \in Seq(1..Len(Log)) /\ Hand' = Hand + 1 /\ Hand' \in Readings'
         /\ Hand' \notin Readings /\ Readings' = Readings \cup {Hand'}
         /\ \A r \in Readings : Author(r)' = Author(r) /\ readings'[r] = readings[r]
<1>1. /\ readings \in Seq(1..Len(Log)) /\ position + 1 \in 1..Len(Log)
      /\ readings' = Append(readings, position + 1)
  BY Constants DEF TypeOK, ReadLine
<1>2. /\ readings' \in Seq(1..Len(Log)) /\ Len(readings') = Len(readings) + 1
      /\ \A r \in 1..Len(readings) : readings'[r] = readings[r]
  BY <1>1
<1>3. Len(readings) \in Nat
  BY <1>1
<1> QED
  BY <1>2, <1>3 DEF Readings, Hand, Author

LEMMA SameReadings ==
  ASSUME UNCHANGED readings
  PROVE  Readings' = Readings /\ Hand' = Hand /\ \A r : Author(r)' = Author(r)
  BY DEF Readings, Hand, Author

\* Sets of readings are finite.
LEMMA FiniteReadings ==
  ASSUME TypeOK
  PROVE  \A S : S \subseteq Readings => IsFiniteSet(S) /\ Cardinality(S) \in Nat
<1>1. Len(readings) \in Int
  BY ReadingsAre
<1>2. IsFiniteSet(Readings)
  BY <1>1, FS_Interval DEF Readings
<1> QED
  BY <1>2, FS_Subset, FS_CardinalityType

\* The queue without the expired events, and whether the one in hand fits.
QueueStep(expired, left) ==
  /\ left = waiting \ expired
  /\ \/ /\ Full(Author(Hand), left, total - Cardinality(expired))
        /\ waiting' = left /\ total' = total - Cardinality(expired)
        /\ gone' = gone \cup expired \cup {Hand}
     \/ /\ ~ Full(Author(Hand), left, total - Cardinality(expired))
        /\ waiting' = left \cup {Hand} /\ total' = total - Cardinality(expired) + 1
        /\ gone' = gone \cup expired

LEMMA EnqueueIs ==
  ASSUME Enqueue
  PROVE  \E expired, left \in SUBSET waiting : QueueStep(expired, left)
<1>1. PICK k \in 0..(Hand - 1) :
        LET expired == {r \in waiting : r <= k}
            left == waiting \ expired
            n == total - Cardinality(expired)
        IN  IF Full(Author(Hand), left, n)
            THEN waiting' = left /\ total' = n /\ gone' = gone \cup expired \cup {Hand}
            ELSE waiting' = left \cup {Hand} /\ total' = n + 1 /\ gone' = gone \cup expired
  BY DEF Enqueue
<1> DEFINE expired == {r \in waiting : r <= k}
           left == waiting \ expired
<1>2. QueueStep(expired, left)
  BY <1>1, Zenon DEF QueueStep
<1> QED
  BY <1>2

LEMMA PreloadedIs ==
  ASSUME NEW rows \in [Ids -> Names \cup {Nobody}],
         \A s \in Ids : rows[s] # Nobody => <<rows[s], s>> \in Accounts
  PROVE  /\ Preloaded(rows) \in [Names -> Ids \cup {Nobody}]
         /\ \A u \in Names : Preloaded(rows)[u] # Nobody => <<u, Preloaded(rows)[u]>> \in Accounts
<1>1. ASSUME NEW u \in Names, \E s \in Ids : {t \in Ids : rows[t] = u} = {s}
      PROVE  \E s \in Ids : rows[s] = u
  BY <1>1
<1>2. ASSUME NEW u \in Names, \E s \in Ids : {t \in Ids : rows[t] = u} = {s}
      PROVE  (CHOOSE s \in Ids : rows[s] = u) \in Ids /\ rows[CHOOSE s \in Ids : rows[s] = u] = u
  BY <1>1, <1>2
<1>3. ASSUME NEW u \in Names, \E s \in Ids : {t \in Ids : rows[t] = u} = {s}
      PROVE  <<u, CHOOSE s \in Ids : rows[s] = u>> \in Accounts
  BY <1>2, <1>3, Constants
<1> QED
  BY <1>2, <1>3 DEF Preloaded

\* An upsert writes a name that native logs have told for the SteamID.
LEMMA UpsertSound ==
  ASSUME TypeOK, Identities, NEW u \in Names, NEW s \in Ids, <<u, s>> \in Accounts,
         Upsert(u, s) \/ UNCHANGED players
  PROVE  /\ players' \in [Ids -> Names \cup {Nobody}]
         /\ \A t \in Ids : players'[t] # Nobody => <<players'[t], t>> \in Accounts
<1>1. CASE players' = [players EXCEPT ![s] = u]
  BY <1>1, Constants DEF TypeOK, Identities
<1>2. CASE UNCHANGED players
  BY <1>2 DEF TypeOK, Identities
<1> QED
  BY <1>1, <1>2 DEF Upsert

LEMMA Least ==
  ASSUME NEW T, T \subseteq Nat, T # {}
  PROVE  \E x \in T : \A y \in T : x <= y
<1>1. \E x \in T : \A y \in T : ~ (<<y, x>> \in OpToRel(<, Nat))
  BY NatLessThanWellFounded, WFMin, Zenon
<1>2. ASSUME NEW x \in Nat, NEW y \in Nat, y < x
      PROVE  <<y, x>> \in OpToRel(<, Nat)
  <2>1. <<y, x>> \in Nat \X Nat /\ <<y, x>>[1] < <<y, x>>[2]
    BY <1>2
  <2>2. OpToRel(<, Nat) = {p \in Nat \X Nat : p[1] < p[2]}
    BY Zenon DEF OpToRel
  <2> QED
    BY <2>1, <2>2
<1>3. PICK x \in T : \A y \in T : ~ (<<y, x>> \in OpToRel(<, Nat))
  BY <1>1
<1>4. ASSUME NEW y \in T PROVE x <= y
  <2>1. ~ (y < x)
    BY <1>2, <1>3
  <2> QED
    BY <2>1
<1> QED
  BY <1>4

LEMMA OldestIs ==
  ASSUME TypeOK, NEW S, S \subseteq Readings, S # {}
  PROVE  Oldest(S) \in S /\ \A q \in S : Oldest(S) <= q
<1>1. S \subseteq Nat
  BY ReadingsAre
<1>2. \E r \in S : \A q \in S : r <= q
  BY <1>1, Least
<1> QED
  BY <1>2 DEF Oldest

-----------------------------------------------------------------------------
(* Types, and where the SteamIDs come from.                                *)

LEMMA WiderSeq ==
  ASSUME NEW S, NEW T, S \subseteq T, NEW q \in Seq(S)
  PROVE  q \in Seq(T)
  OBVIOUS

LEMMA InitSound == Init => Sound
<1> SUFFICES ASSUME Init PROVE Sound
  OBVIOUS
<1>1. players \in [Ids -> Names \cup {Nobody}] /\ Identities /\ known \in [Names -> Ids \cup {Nobody}]
  BY PreloadedIs DEF Init, Identities
<1>2. Work /\ Flushing
  BY DEF Init, Work, Flushing
<1>3. TypeOK
  <2>1. /\ step \in {"idle", "lookup", "enqueue", "ingest", "publish"} /\ identity \in Ids \cup {Nobody}
        /\ readings \in Seq(1..Len(Log))
        /\ topic \in Seq([reading : Readings, id : PublishedIds])
    BY DEF Init
  <2>2. stored = {} /\ gone = {} /\ waiting = {} /\ queued \in BOOLEAN
    BY DEF Init
  <2>3. /\ checkpoint \in 0..position /\ position \in 0..Len(Log) /\ total \in Int /\ faults \in Nat
    BY Constants DEF Init
  <2>4. /\ told \in [Native -> Accounts \cup {<<>>}] /\ flush \in [Native -> SUBSET Readings]
    BY DEF Init
  <2> QED
    BY <1>1, <2>1, <2>2, <2>3, <2>4 DEF TypeOK
<1> QED
  BY <1>1, <1>2, <1>3 DEF Sound

LEMMA LineSound ==
  ASSUME Sound, ReadLine \/ EndPoll \/ InsertPlayerless \/ LookUp
  PROVE  Sound'
<1> USE DEF Sound, Fault, db, worker, queue, native, history
<1>1. CASE ReadLine
  <2>1. TypeOK'
    <3>1. topic' \in Seq([reading : Readings', id : PublishedIds])
      <4> DEFINE I == PublishedIds
      <4>1. topic \in Seq([reading : Readings, id : I]) /\ topic' = topic
        BY <1>1 DEF ReadLine, TypeOK
      <4>2. [reading : Readings, id : I] \subseteq [reading : Readings', id : I]
        BY <1>1, NextReading
      <4> QED
        BY <4>1, <4>2, WiderSeq, Zenon
    <3>2. /\ readings' \in Seq(1..Len(Log)) /\ position' \in 0..Len(Log) /\ checkpoint' \in 0..position'
          /\ step' \in {"idle", "lookup", "enqueue", "ingest", "publish"}
      BY <1>1, NextReading, Constants DEF ReadLine, TypeOK
    <3>3. Readings \subseteq Readings'
      BY <1>1, NextReading
    <3>4. stored' \subseteq [reading : Readings', id : Ids \cup {Nobody}]
      BY <1>1, <3>3 DEF ReadLine, TypeOK
    <3>5. waiting' \subseteq Readings' /\ gone' \subseteq Readings' /\ flush' \in [Native -> SUBSET Readings']
      BY <1>1, <3>3 DEF ReadLine, TypeOK
    <3>6. /\ players' \in [Ids -> Names \cup {Nobody}] /\ identity' \in Ids \cup {Nobody}
          /\ known' \in [Names -> Ids \cup {Nobody}] /\ total' \in Int
          /\ told' \in [Native -> Accounts \cup {<<>>}] /\ queued' \in BOOLEAN /\ faults' \in Nat
      BY <1>1 DEF ReadLine, TypeOK
    <3> QED
      BY <3>1, <3>2, <3>4, <3>5, <3>6 DEF TypeOK, LuaId
  <2>2. Work'
    BY <1>1, NextReading DEF ReadLine, Work
  <2>3. Identities'
    BY <1>1 DEF ReadLine, Identities
  <2>4. Flushing'
    BY <1>1, NextReading DEF ReadLine, Flushing, TypeOK
  <2> QED
    BY <2>1, <2>2, <2>3, <2>4
<1>2. CASE EndPoll
  <2>1. TypeOK'
    BY <1>2, SameReadings, Constants DEF EndPoll, TypeOK
  <2>2. Work' /\ Flushing'
    BY <1>2, SameReadings DEF EndPoll, Work, Flushing
  <2>3. Identities'
    BY <1>2 DEF EndPoll, Identities
  <2> QED
    BY <2>1, <2>2, <2>3
<1>3. CASE InsertPlayerless
  <2>1. TypeOK'
    BY <1>3, SameReadings DEF InsertPlayerless, TypeOK, Work, Row
  <2>2. Work' /\ Flushing'
    BY <1>3, SameReadings DEF InsertPlayerless, Work, Flushing
  <2>3. Identities'
    BY <1>3 DEF InsertPlayerless, Identities
  <2> QED
    BY <2>1, <2>2, <2>3
<1>4. CASE LookUp
  <2>1. Hand \in Readings /\ Author(Hand) \in Names
    BY <1>4, ReadingsAre DEF LookUp, Work
  <2>2. TypeOK'
    BY <1>4, <2>1, SameReadings DEF LookUp, TypeOK, Canonical
  <2>3. Work'
    BY <1>4, <2>1, SameReadings DEF LookUp, Work, Canonical, Identities
  <2>4. Identities' /\ Flushing'
    BY <1>4, SameReadings DEF LookUp, Identities, Flushing
  <2> QED
    BY <2>2, <2>3, <2>4
<1> QED
  BY <1>1, <1>2, <1>3, <1>4

LEMMA EventSound ==
  ASSUME Sound, Enqueue \/ IngestLine \/ Publish
  PROVE  Sound'
<1> USE DEF Sound, Fault, db, worker, queue, native, history
<1> Hand \in Readings
  BY DEF Work, Enqueue, IngestLine, Publish
<1>1. CASE Enqueue
  <2>1. /\ total' \in Int /\ waiting' \subseteq Readings /\ gone' \subseteq Readings
    <3>1. PICK expired, left \in SUBSET waiting : QueueStep(expired, left)
      BY <1>1, EnqueueIs
    <3> QED
      <4>1. expired \subseteq Readings /\ Cardinality(expired) \in Int
        BY FiniteReadings DEF TypeOK
      <4>2. total \in Int /\ waiting \subseteq Readings /\ gone \subseteq Readings
        BY DEF TypeOK
      <4> QED
        BY <3>1, <4>1, <4>2 DEF QueueStep
  <2>2. TypeOK'
    BY <1>1, <2>1, SameReadings DEF Enqueue, TypeOK
  <2>3. Work' /\ Identities' /\ Flushing'
    BY <1>1, SameReadings DEF Enqueue, Work, Identities, Flushing
  <2> QED
    BY <2>2, <2>3
<1>2. CASE IngestLine
  <2>1. <<Author(Hand), identity>> \in Accounts /\ Author(Hand) \in Names /\ identity \in Ids
    BY <1>2, Constants DEF IngestLine, Work
  <2>2. Upsert(Author(Hand), identity) \/ UNCHANGED players
    BY <1>2 DEF IngestLine, Ingest
  <2>3. /\ players' \in [Ids -> Names \cup {Nobody}]
        /\ \A t \in Ids : players'[t] # Nobody => <<players'[t], t>> \in Accounts
    BY <2>1, <2>2, UpsertSound
  <2>4. TypeOK'
    BY <1>2, <2>1, <2>3, SameReadings DEF IngestLine, Ingest, Row, TypeOK
  <2>5. Work' /\ Identities' /\ Flushing'
    BY <1>2, <2>3, SameReadings DEF IngestLine, Work, Identities, Flushing
  <2> QED
    BY <2>4, <2>5
<1>3. CASE Publish
  <2>1. PublishedId \in PublishedIds
    BY ReadingsAre DEF PublishedId, PublishedIds, TypeOK
  <2>2. topic' \in Seq([reading : Readings, id : PublishedIds])
    <3> DEFINE new == Row(Hand, PublishedId)
               S == [reading : Readings, id : PublishedIds]
    <3>1. new \in S
      BY <2>1 DEF Row
    <3>2. topic \in Seq(S) /\ topic' = Append(topic, new)
      BY <1>3 DEF Publish, TypeOK
    <3> HIDE DEF new, S
    <3>3. topic' \in Seq(S)
      BY <3>1, <3>2
    <3> QED
      BY <3>3 DEF S
  <2>3. TypeOK'
    BY <1>3, <2>2, SameReadings DEF Publish, TypeOK, PublishedIds, LuaId
  <2>4. Work' /\ Identities' /\ Flushing'
    BY <1>3, SameReadings DEF Publish, Work, Identities, Flushing
  <2> QED
    BY <2>3, <2>4
<1> QED
  BY <1>1, <1>2, <1>3

LEMMA NativeSound ==
  ASSUME Sound, NativeStep \/ Crash
  PROVE  Sound'
<1> USE DEF Sound, Fault, db, worker, queue, native, history
<1>1. ASSUME NEW w \in Native, NEW u \in Names, NEW s \in Ids, Remember(w, u, s) PROVE Sound'
  <2>1. TypeOK'
    BY <1>1, SameReadings DEF Remember, TypeOK, Of, LeftBehind
  <2>2. Work' /\ Identities'
    BY <1>1, SameReadings DEF Remember, Work, Identities, TypeOK
  <2>3. Flushing'
    BY <1>1, SameReadings DEF Remember, Flushing, TypeOK, Of
  <2> QED
    BY <2>1, <2>2, <2>3
<1>2. ASSUME NEW w \in Native, FlushOne(w) PROVE Sound'
  <2>1. flush[w] # {} /\ flush[w] \subseteq Readings /\ told[w] \in Accounts
    BY <1>2 DEF FlushOne, Flushing, TypeOK
  <2>2. Oldest(flush[w]) \in flush[w] /\ Oldest(flush[w]) \in Readings
    BY <2>1, OldestIs
  <2>3. /\ Author(Oldest(flush[w])) = told[w][1] /\ told[w][1] \in Names /\ told[w][2] \in Ids
        /\ <<told[w][1], told[w][2]>> \in Accounts
    BY <2>1, <2>2, Constants DEF Flushing
  <2>4. Upsert(told[w][1], told[w][2]) \/ UNCHANGED players
    BY <1>2, <2>3 DEF FlushOne, Ingest
  <2>5. /\ players' \in [Ids -> Names \cup {Nobody}]
        /\ \A t \in Ids : players'[t] # Nobody => <<players'[t], t>> \in Accounts
    BY <2>3, <2>4, UpsertSound
  <2>6. TypeOK'
    BY <1>2, <2>2, <2>3, <2>5, SameReadings DEF FlushOne, Ingest, Row, TypeOK
  <2>7. Work' /\ Identities'
    BY <1>2, <2>5, SameReadings DEF FlushOne, Work, Identities
  <2>8. Flushing'
    BY <1>2, SameReadings DEF FlushOne, Flushing, TypeOK
  <2> QED
    BY <2>6, <2>7, <2>8
<1>3. ASSUME NEW w \in Native, FinishNative(w) PROVE Sound'
  <2>1. told[w] \in Accounts
    BY <1>3 DEF FinishNative, TypeOK
  <2>2. /\ told[w][1] \in Names /\ told[w][2] \in Ids /\ <<told[w][1], told[w][2]>> \in Accounts
    BY <2>1, Constants
  <2>3. /\ players' \in [Ids -> Names \cup {Nobody}]
        /\ \A t \in Ids : players'[t] # Nobody => <<players'[t], t>> \in Accounts
    BY <1>3, <2>2, UpsertSound DEF FinishNative
  <2>4. TypeOK'
    BY <1>3, <2>3, SameReadings DEF FinishNative, TypeOK
  <2>5. Work' /\ Identities' /\ Flushing'
    BY <1>3, <2>3, SameReadings DEF FinishNative, Work, Identities, Flushing, TypeOK
  <2> QED
    BY <2>4, <2>5
<1>4. CASE Crash
  <2>1. /\ known' \in [Names -> Ids \cup {Nobody}]
        /\ \A u \in Names : known'[u] # Nobody => <<u, known'[u]>> \in Accounts
    BY <1>4, PreloadedIs DEF Crash, TypeOK, Identities
  <2>2. InMemory \subseteq Readings
    BY DEF InMemory, InHand, TypeOK, Work
  <2>3. TypeOK'
    BY <1>4, <2>1, <2>2, SameReadings, Constants DEF Crash, TypeOK
  <2>4. Work' /\ Identities' /\ Flushing'
    BY <1>4, <2>1, SameReadings DEF Crash, Work, Identities, Flushing
  <2> QED
    BY <2>3, <2>4
<1> QED
  BY <1>1, <1>2, <1>3, <1>4 DEF NativeStep

LEMMA SoundStep == Sound /\ [StoreNext]_vars => Sound'
<1> SUFFICES ASSUME Sound, [StoreNext]_vars PROVE Sound'
  OBVIOUS
<1>1. CASE StoreNext
  BY <1>1, LineSound, EventSound, NativeSound DEF StoreNext, ExporterStep
<1>2. CASE UNCHANGED vars
  BY <1>2, SameReadings DEF vars, db, worker, queue, native, history, Sound, TypeOK, Work, Identities, Flushing
<1> QED
  BY <1>1, <1>2

\* Every reachable state of the identity queue is well typed, and the SteamIDs
\* in it are those native logs have told (rememberSteamID, upsertPlayer).
THEOREM TypeCorrect == Spec => [](TypeOK /\ Identities)
<1>1. Sound => TypeOK /\ Identities
  BY DEF Sound
<1> QED
  BY <1>1, InitSound, SoundStep, PTL DEF Spec

\* The worker of ExporterLog.txt follows it with the cursor LogTail has for a file:
\* without the loop around it the model forgets and repeats the lines a poll can
\* (getFileOffset, setFileOffset).
THEOREM ExporterCursor == Spec => FollowsCursor
<1>1. Init => Cursor!Init
  BY DEF Init, Cursor!Init
<1>2. Sound /\ [StoreNext]_vars => [Cursor!Next]_(Cursor!vars)
  <2> SUFFICES ASSUME Sound, [StoreNext]_vars PROVE [Cursor!Next]_(Cursor!vars)
    OBVIOUS
  <2> USE DEF Cursor!vars, Cursor!Next
  <2>1. checkpoint \in Nat /\ position \in Nat /\ checkpoint <= position
    BY DEF Sound, TypeOK
  <2>2. CASE UNCHANGED <<position, checkpoint>>
    BY <2>2
  <2>3. CASE position' = position + 1 /\ checkpoint' = checkpoint
    BY <2>3 DEF Cursor!Advance
  <2>4. CASE checkpoint' = position /\ position' = position
    <3>1. position \in checkpoint..position
      BY <2>1
    <3> QED
      BY <2>4, <3>1 DEF Cursor!Store
  <2>5. CASE position' = checkpoint /\ checkpoint' = checkpoint
    <3>1. checkpoint \in checkpoint..position
      BY <2>1
    <3> QED
      BY <2>5, <3>1 DEF Cursor!GoBack
  <2>6. CASE ReadLine \/ EndPoll \/ Crash
    BY <2>3, <2>4, <2>5, <2>6 DEF ReadLine, EndPoll, Crash, db
  <2>7. CASE InsertPlayerless \/ LookUp \/ Enqueue \/ IngestLine \/ Publish
    BY <2>2, <2>7 DEF InsertPlayerless, LookUp, Enqueue, IngestLine, Publish, db
  <2>8. ASSUME NEW w \in Native, (\E u \in Names, s \in Ids : Remember(w, u, s)) \/ FlushOne(w) \/ FinishNative(w)
        PROVE  UNCHANGED <<position, checkpoint>>
    BY <2>8 DEF Remember, FlushOne, FinishNative, db, worker
  <2>9. CASE NativeStep
    BY <2>2, <2>8, <2>9 DEF NativeStep
  <2> QED
    BY <2>2, <2>6, <2>7, <2>9 DEF StoreNext, ExporterStep, vars, db, worker
<1> QED
  BY <1>1, <1>2, InitSound, SoundStep, PTL DEF Spec, FollowsCursor, Cursor!Spec

-----------------------------------------------------------------------------
(* Under which SteamID a row is stored.                                    *)

LEMMA IngestNative ==
  ASSUME Sound, StoredAsNative, UNCHANGED readings, NEW r \in Readings, NEW s \in Ids,
         <<Author(r), s>> \in Accounts, Ingest(r, s)
  PROVE  StoredAsNative'
<1>1. Author(r) # Nobody
  BY Constants
<1>2. \A row \in stored' : row \in stored \/ row = Row(r, s)
  BY DEF Ingest
<1> QED
  BY <1>1, <1>2, SameReadings DEF StoredAsNative, Row

LEMMA StoredStep ==
  ASSUME Sound, StoredAsNative, [StoreNext]_vars
  PROVE  StoredAsNative'
<1> USE DEF Sound, db, worker, queue, native, history
<1>1. ASSUME UNCHANGED stored, UNCHANGED readings PROVE StoredAsNative'
  BY <1>1, SameReadings DEF StoredAsNative
<1>2. CASE ReadLine
  <2>1. \A row \in stored : row.reading \in Readings
    BY DEF TypeOK
  <2> QED
    BY <1>2, <2>1, NextReading DEF ReadLine, StoredAsNative
<1>3. CASE InsertPlayerless
  <2>1. Author(Hand) = Nobody /\ UNCHANGED readings
    BY <1>3 DEF InsertPlayerless
  <2>2. \A row \in stored' : row \in stored \/ row = Row(Hand, Nobody)
    BY <1>3 DEF InsertPlayerless
  <2> QED
    BY <2>1, <2>2, SameReadings DEF StoredAsNative, Row
<1>4. CASE IngestLine
  <2>1. Hand \in Readings /\ <<Author(Hand), identity>> \in Accounts /\ identity \in Ids
    BY <1>4, Constants DEF IngestLine, Work
  <2> QED
    BY <1>4, <2>1, IngestNative DEF IngestLine
<1>5. ASSUME NEW w \in Native, FlushOne(w) PROVE StoredAsNative'
  <2>1. flush[w] # {} /\ flush[w] \subseteq Readings /\ told[w] \in Accounts
    BY <1>5 DEF FlushOne, Flushing, TypeOK
  <2>2. Oldest(flush[w]) \in flush[w] /\ Oldest(flush[w]) \in Readings
    BY <2>1, OldestIs
  <2>3. <<Author(Oldest(flush[w])), told[w][2]>> \in Accounts /\ told[w][2] \in Ids
    BY <2>1, <2>2, Constants DEF Flushing
  <2> QED
    BY <1>5, <2>2, <2>3, IngestNative DEF FlushOne
<1>6. CASE EndPoll \/ LookUp \/ Enqueue \/ Publish \/ Crash
  BY <1>1, <1>6 DEF EndPoll, LookUp, Enqueue, Publish, Crash
<1>7. ASSUME NEW w \in Native, FinishNative(w) \/ \E u \in Names, s \in Ids : Remember(w, u, s)
      PROVE  StoredAsNative'
  BY <1>1, <1>7 DEF FinishNative, Remember
<1>8. CASE UNCHANGED vars
  BY <1>1, <1>8 DEF vars
<1> QED
  BY <1>2, <1>3, <1>4, <1>5, <1>6, <1>7, <1>8 DEF StoreNext, ExporterStep, NativeStep

\* An event is stored under a SteamID a native log has told for its player's
\* name, whatever waits, is flushed or restarted (rememberSteamID: the value
\* Lua wrote is never stored).
THEOREM NativeIdentity == Spec => []StoredAsNative
<1>1. Init => StoredAsNative
  BY DEF Init, StoredAsNative
<1>2. Sound /\ StoredAsNative /\ [StoreNext]_vars => StoredAsNative'
  BY StoredStep
<1> QED
  BY <1>1, <1>2, InitSound, SoundStep, PTL DEF Spec

-----------------------------------------------------------------------------
(* Where a reading is.                                                     *)

\* A reading moves from the hand or a flush into the table, or is dropped.
LEMMA IngestRows ==
  ASSUME NEW r, NEW s, \A row \in stored : row.reading # r,
         \A x, y \in stored : x.reading = y.reading => x = y,
         \/ stored' = stored \cup {Row(r, s)} /\ UNCHANGED gone
         \/ gone' = gone \cup {r} /\ UNCHANGED stored
  PROVE  /\ \/ InRows' = InRows \cup {r} /\ gone' = gone
            \/ InRows' = InRows /\ gone' = gone \cup {r}
         /\ \A x, y \in stored' : x.reading = y.reading => x = y
<1>1. CASE stored' = stored \cup {Row(r, s)} /\ UNCHANGED gone
  <2>1. Row(r, s).reading = r
    BY DEF Row
  <2>2. \A x : x \in InRows' <=> x \in InRows \/ x = r
    BY <1>1, <2>1 DEF InRows
  <2>3. ASSUME NEW x \in stored', NEW y \in stored', x.reading = y.reading PROVE x = y
    BY <1>1, <2>1, <2>3
  <2> QED
    BY <1>1, <2>2, <2>3
<1>2. CASE gone' = gone \cup {r} /\ UNCHANGED stored
  BY <1>2 DEF InRows
<1> QED
  BY <1>1, <1>2

LEMMA LineAccounted ==
  ASSUME Sound, EveryReadingAccounted, ReadLine \/ EndPoll \/ InsertPlayerless \/ LookUp \/ Enqueue \/ IngestLine \/ Publish
  PROVE  EveryReadingAccounted'
<1> USE DEF Sound, db, worker, queue, native, history
<1>1. CASE ReadLine
  <2>1. InHand = {} /\ InHand' = {Hand'}
    BY <1>1 DEF ReadLine, InHand
  <2>2. UNCHANGED <<waiting, flush, gone, stored>> /\ InRows' = InRows
    BY <1>1 DEF ReadLine, InRows
  <2>3. InRows \subseteq Readings /\ gone \subseteq Readings /\ waiting \subseteq Readings
        /\ \A w \in Native : flush[w] \subseteq Readings
    BY DEF TypeOK, InRows
  <2> QED
    BY <1>1, <2>1, <2>2, <2>3, NextReading DEF EveryReadingAccounted, InMemory
<1>2. CASE EndPoll \/ LookUp \/ Publish
  <2>1. UNCHANGED readings /\ UNCHANGED stored /\ UNCHANGED waiting /\ UNCHANGED flush /\ UNCHANGED gone
    BY <1>2 DEF EndPoll, LookUp, Publish
  <2>2. InHand' = InHand /\ InRows' = InRows /\ InMemory' = InMemory
    BY <1>2, <2>1, SameReadings DEF EndPoll, LookUp, Publish, InHand, InRows, InMemory
  <2> QED
    BY <2>1, <2>2, SameReadings DEF EveryReadingAccounted
<1>3. CASE InsertPlayerless \/ IngestLine
  <2>1. InHand = {Hand} /\ InHand' = {} /\ UNCHANGED readings /\ UNCHANGED waiting /\ UNCHANGED flush
    BY <1>3 DEF InsertPlayerless, IngestLine, InHand
  <2>2. Hand \in InMemory /\ Hand \notin InRows /\ Hand \notin gone
    BY <2>1 DEF EveryReadingAccounted, InMemory
  <2>3. \A row \in stored : row.reading # Hand
    BY <2>2 DEF InRows
  <2>4. \E s : \/ stored' = stored \cup {Row(Hand, s)} /\ UNCHANGED gone
               \/ gone' = gone \cup {Hand} /\ UNCHANGED stored
    BY <1>3 DEF InsertPlayerless, IngestLine, Ingest
  <2>5. /\ \/ InRows' = InRows \cup {Hand} /\ gone' = gone
           \/ InRows' = InRows /\ gone' = gone \cup {Hand}
        /\ \A x, y \in stored' : x.reading = y.reading => x = y
    BY <2>3, <2>4, IngestRows DEF EveryReadingAccounted
  <2>6. InMemory = InMemory' \cup {Hand} /\ Hand \notin InMemory'
    BY <2>1 DEF EveryReadingAccounted, InMemory
  <2> QED
    BY <2>1, <2>2, <2>5, <2>6, SameReadings DEF EveryReadingAccounted
<1>4. CASE Enqueue
  <2>1. InHand = {Hand} /\ InHand' = {} /\ UNCHANGED readings /\ UNCHANGED stored /\ UNCHANGED flush
    BY <1>4 DEF Enqueue, InHand
  <2>2. PICK expired, left \in SUBSET waiting : QueueStep(expired, left)
    BY <1>4, EnqueueIs
  <2>3. \/ waiting' = waiting \ expired /\ gone' = gone \cup expired \cup {Hand}
        \/ waiting' = (waiting \ expired) \cup {Hand} /\ gone' = gone \cup expired
    BY <2>2 DEF QueueStep
  <2>4. InRows' = InRows
    BY <2>1 DEF InRows
  <2> QED
    BY <2>1, <2>2, <2>3, <2>4, SameReadings DEF EveryReadingAccounted, InMemory
<1> QED
  BY <1>1, <1>2, <1>3, <1>4

LEMMA NativeAccounted ==
  ASSUME Sound, EveryReadingAccounted, NativeStep \/ Crash
  PROVE  EveryReadingAccounted'
<1> USE DEF Sound, db, worker, queue, native, history
<1>1. ASSUME NEW w \in Native, NEW u \in Names, NEW s \in Ids, Remember(w, u, s) PROVE EveryReadingAccounted'
  <2>1. flush[w] = {}
    <3>1. told[w] = <<>> /\ <<>> \notin Names \X Ids
      BY <1>1 DEF Remember
    <3> QED
      BY <3>1, Constants DEF Flushing
  <2>2. /\ waiting' = waiting \ Of(u) /\ Of(u) \subseteq waiting
        /\ flush' = [flush EXCEPT ![w] = Of(u)] /\ UNCHANGED gone /\ UNCHANGED stored
    BY <1>1 DEF Remember, LeftBehind, Of
  <2>3. InHand' = InHand /\ InRows' = InRows /\ Readings' = Readings
    BY <1>1, SameReadings DEF Remember, InHand, InRows
  <2>4. \A v \in Native : flush'[v] = IF v = w THEN Of(u) ELSE flush[v]
    BY <2>2 DEF TypeOK
  <2>5. InMemory' = InMemory
    BY <2>1, <2>2, <2>3, <2>4 DEF InMemory
  <2> QED
    BY <2>1, <2>2, <2>3, <2>4, <2>5 DEF EveryReadingAccounted
<1>2. ASSUME NEW w \in Native, FlushOne(w) PROVE EveryReadingAccounted'
  <2> DEFINE o == Oldest(flush[w])
  <2>1. o \in flush[w]
    <3>1. flush[w] # {} /\ flush[w] \subseteq Readings
      BY <1>2 DEF FlushOne, TypeOK
    <3> QED
      BY <3>1, OldestIs
  <2>2. /\ UNCHANGED waiting /\ UNCHANGED readings /\ UNCHANGED step
        /\ flush' = [flush EXCEPT ![w] = @ \ {o}]
    BY <1>2 DEF FlushOne
  <2>3. o \in InMemory /\ o \notin InRows /\ o \notin gone
    BY <2>1 DEF EveryReadingAccounted, InMemory
  <2>4. \A row \in stored : row.reading # o
    BY <2>3 DEF InRows
  <2>5. \E s : \/ stored' = stored \cup {Row(o, s)} /\ UNCHANGED gone
               \/ gone' = gone \cup {o} /\ UNCHANGED stored
    BY <1>2 DEF FlushOne, Ingest
  <2> HIDE DEF o
  <2>6. /\ \/ InRows' = InRows \cup {o} /\ gone' = gone
           \/ InRows' = InRows /\ gone' = gone \cup {o}
        /\ \A x, y \in stored' : x.reading = y.reading => x = y
    BY <2>4, <2>5, IngestRows DEF EveryReadingAccounted
  <2>7. /\ \A v \in Native : flush'[v] = IF v = w THEN flush[v] \ {o} ELSE flush[v]
        /\ InHand' = InHand /\ Readings' = Readings
    BY <2>2, SameReadings DEF TypeOK, InHand
  <2>8. InMemory = InMemory' \cup {o} /\ o \notin InMemory'
    BY <2>1, <2>2, <2>7 DEF EveryReadingAccounted, InMemory
  <2> QED
    BY <2>2, <2>3, <2>6, <2>7, <2>8 DEF EveryReadingAccounted
<1>3. ASSUME NEW w \in Native, FinishNative(w) PROVE EveryReadingAccounted'
  <2>1. UNCHANGED readings /\ UNCHANGED stored /\ UNCHANGED waiting /\ UNCHANGED flush /\ UNCHANGED gone
        /\ UNCHANGED step
    BY <1>3 DEF FinishNative
  <2> QED
    BY <2>1, SameReadings DEF EveryReadingAccounted, InMemory, InHand, InRows
<1>4. CASE Crash
  <2>1. /\ InHand' = {} /\ waiting' = {} /\ \A w \in Native : flush'[w] = {}
        /\ gone' = gone \cup InMemory /\ UNCHANGED stored /\ UNCHANGED readings
    BY <1>4 DEF Crash, InHand
  <2>2. InMemory' = {} /\ InRows' = InRows
    BY <2>1 DEF InMemory, InRows
  <2> QED
    BY <2>1, <2>2, SameReadings DEF EveryReadingAccounted
<1> QED
  BY <1>1, <1>2, <1>3, <1>4 DEF NativeStep

\* Whatever the interleaving of the worker and the flushes, each reading of a
\* line is in exactly one place: nothing is inserted twice by a race and
\* nothing vanishes unseen (handleExporterEvent, rememberSteamID).
THEOREM Accounting == Spec => []EveryReadingAccounted
<1>1. Init => EveryReadingAccounted
  BY DEF Init, EveryReadingAccounted, Readings, InMemory, InHand, InRows
<1>2. Sound /\ EveryReadingAccounted /\ [StoreNext]_vars => EveryReadingAccounted'
  <2>1. ASSUME EveryReadingAccounted, UNCHANGED vars PROVE EveryReadingAccounted'
    BY <2>1, SameReadings DEF vars, db, worker, queue, native, history,
       EveryReadingAccounted, InMemory, InHand, InRows
  <2> QED
    BY <2>1, LineAccounted, NativeAccounted DEF StoreNext, ExporterStep
<1> QED
  BY <1>1, <1>2, InitSound, SoundStep, PTL DEF Spec
-----------------------------------------------------------------------------
(* The limits of the queue.                                                *)

LEMMA EmptyQueue ==
  Cardinality({}) = 0 /\ 0 <= GlobalMax /\ 0 <= PerUserMax
<1>1. Cardinality({}) = 0
  BY FS_EmptySet, Zenon
<1> QED
  BY <1>1, Constants

LEMMA InitCounted == Init => QueueBounded
<1> SUFFICES ASSUME Init PROVE QueueBounded
  OBVIOUS
<1>1. waiting = {} /\ total = 0 /\ \A u \in Names : Of(u) = {}
  BY DEF Init, Of
<1> QED
  BY <1>1, EmptyQueue DEF QueueBounded

\* Fewer waiting events keep the limits.
LEMMA FewerWaiting ==
  ASSUME Sound, QueueBounded, NEW left \in SUBSET waiting, NEW u \in Names
  PROVE  /\ IsFiniteSet(left) /\ Cardinality(left) \in Nat /\ Cardinality(left) <= Cardinality(waiting)
         /\ IsFiniteSet({r \in left : Author(r) = u})
         /\ Cardinality({r \in left : Author(r) = u}) \in Nat
         /\ Cardinality({r \in left : Author(r) = u}) <= PerUserMax
<1> DEFINE A == {r \in left : Author(r) = u}
<1>1. waiting \subseteq Readings /\ A \subseteq Of(u) /\ Of(u) \subseteq Readings /\ left \subseteq Readings
  BY DEF Sound, TypeOK, Of
<1>2. IsFiniteSet(waiting) /\ IsFiniteSet(Of(u)) /\ IsFiniteSet(left) /\ IsFiniteSet(A)
  BY <1>1, FiniteReadings DEF Sound
<1>3. Cardinality(A) <= Cardinality(Of(u)) /\ Cardinality(left) <= Cardinality(waiting)
  BY <1>1, <1>2, FS_Subset
<1>4. Cardinality(A) \in Nat /\ Cardinality(left) \in Nat /\ Cardinality(Of(u)) \in Nat
  BY <1>2, FS_CardinalityType
<1> QED
  BY <1>2, <1>3, <1>4, Constants DEF QueueBounded

\* Taking events out of the queue lowers the counter by their number.
LEMMA TakenOut ==
  ASSUME Sound, QueueBounded, NEW out \in SUBSET waiting
  PROVE  /\ total - Cardinality(out) = Cardinality(waiting \ out)
         /\ total - Cardinality(out) \in Nat /\ total - Cardinality(out) <= GlobalMax
<1>1. waiting \subseteq Readings /\ out \subseteq Readings /\ waiting \cap out = out
  BY DEF Sound, TypeOK
<1>2. IsFiniteSet(waiting) /\ Cardinality(out) \in Nat /\ Cardinality(waiting \ out) \in Nat
  <2>1. waiting \ out \subseteq Readings
    BY <1>1
  <2> QED
    BY <1>1, <2>1, FiniteReadings DEF Sound
<1>3. Cardinality(waiting \ out) = Cardinality(waiting) - Cardinality(out)
  BY <1>1, <1>2, FS_Difference
<1>4. total = Cardinality(waiting) /\ total <= GlobalMax /\ GlobalMax \in Nat /\ Cardinality(waiting) \in Nat
  BY <1>1, FiniteReadings, Constants DEF QueueBounded, Sound
<1>5. ASSUME NEW a \in Nat, NEW b \in Nat, NEW c \in Nat, c = a - b, NEW m \in Nat, a <= m
      PROVE  a - b = c /\ a - b \in Nat /\ a - b <= m
  BY <1>5
<1> QED
  BY <1>2, <1>3, <1>4, <1>5

LEMMA EnqueueCounted ==
  ASSUME Sound, EveryReadingAccounted, QueueBounded, Enqueue
  PROVE  QueueBounded'
<1>1. UNCHANGED readings /\ Hand \in Readings /\ Hand \notin waiting
  BY DEF Enqueue, EveryReadingAccounted, InHand, Sound, Work
<1>2. PICK expired, left \in SUBSET waiting : QueueStep(expired, left)
  BY EnqueueIs
<1> DEFINE n == total - Cardinality(expired)
<1>3. n = Cardinality(left) /\ n \in Nat /\ n <= GlobalMax
  BY <1>2, TakenOut DEF QueueStep
<1>4. CASE waiting' = left /\ total' = n
  <2>1. ASSUME NEW u \in Names PROVE Cardinality(Of(u))' <= PerUserMax
    <3>1. Of(u)' = {r \in left : Author(r) = u}
      BY <1>1, <1>4, SameReadings DEF Of
    <3> QED
      BY <3>1, FewerWaiting
  <2> QED
    BY <1>3, <1>4, <2>1 DEF QueueBounded
<1>5. CASE ~ Full(Author(Hand), left, n) /\ waiting' = left \cup {Hand} /\ total' = n + 1
  <2>1. /\ ~ (Cardinality({r \in left : Author(r) = Author(Hand)}) >= PerUserMax) /\ ~ (n >= GlobalMax)
    BY <1>5 DEF Full
  <2>2. Cardinality(waiting') = n + 1 /\ n + 1 <= GlobalMax
    <3>1. IsFiniteSet(left)
      <4>1. left \subseteq Readings
        BY DEF Sound, TypeOK
      <4> QED
        BY <4>1, FiniteReadings DEF Sound
    <3>2. Cardinality(left \cup {Hand}) = Cardinality(left) + 1
      BY <1>1, <3>1, FS_AddElement
    <3> QED
      BY <1>3, <1>5, <2>1, <3>2, Constants
  <2>3. ASSUME NEW u \in Names PROVE Cardinality(Of(u))' <= PerUserMax
    <3> DEFINE A == {r \in left : Author(r) = u}
    <3>1. IsFiniteSet(A) /\ Cardinality(A) \in Nat /\ Cardinality(A) <= PerUserMax
      BY FewerWaiting
    <3>2. CASE u # Author(Hand)
      <4>1. Of(u)' = A
        BY <1>1, <1>5, <3>2, SameReadings DEF Of
      <4> QED
        BY <3>1, <4>1
    <3>3. CASE u = Author(Hand)
      <4>1. Of(u)' = A \cup {Hand} /\ Hand \notin A
        BY <1>1, <1>5, <3>3, SameReadings DEF Of
      <4>2. Cardinality(A \cup {Hand}) = Cardinality(A) + 1
        BY <3>1, <4>1, FS_AddElement
      <4>3. Cardinality(A) + 1 <= PerUserMax
        BY <2>1, <3>1, <3>3, Constants
      <4> QED
        BY <4>1, <4>2, <4>3
    <3> QED
      BY <3>2, <3>3
  <2> QED
    BY <1>5, <2>2, <2>3 DEF QueueBounded
<1> QED
  BY <1>2, <1>4, <1>5 DEF QueueStep

LEMMA OthersCounted ==
  ASSUME Sound, QueueBounded, [StoreNext]_vars, ~ Enqueue
  PROVE  QueueBounded'
<1> USE DEF Sound, db, worker, queue, native, history
<1>1. ASSUME UNCHANGED <<waiting, total>>, \A u \in Names : Of(u)' = Of(u) PROVE QueueBounded'
  BY <1>1 DEF QueueBounded
<1>2. CASE ReadLine
  <2>1. \A r \in waiting : Author(r)' = Author(r)
    BY <1>2, NextReading DEF TypeOK
  <2> QED
    BY <1>1, <1>2, <2>1 DEF ReadLine, Of
<1>3. ASSUME NEW w \in Native, NEW u \in Names, NEW s \in Ids, Remember(w, u, s) PROVE QueueBounded'
  <2>1. Of(u) \in SUBSET waiting /\ waiting' = waiting \ Of(u) /\ total' = total - Cardinality(Of(u))
    BY <1>3 DEF Remember, LeftBehind, Of
  <2>2. ASSUME NEW v \in Names PROVE Cardinality(Of(v))' <= PerUserMax
    <3>1. Of(v)' = {r \in waiting \ Of(u) : Author(r) = v}
      BY <1>3, <2>1, SameReadings DEF Remember, Of
    <3> QED
      BY <3>1, FewerWaiting
  <2>3. total' = Cardinality(waiting') /\ total' <= GlobalMax
    BY <2>1, TakenOut
  <2> QED
    BY <2>2, <2>3 DEF QueueBounded
<1>4. CASE Crash
  <2>1. waiting' = {} /\ total' = 0 /\ \A u \in Names : Of(u)' = {}
    BY <1>4 DEF Crash, Of
  <2>2. total' = Cardinality(waiting') /\ total' <= GlobalMax
    BY <2>1, EmptyQueue
  <2>3. ASSUME NEW u \in Names PROVE Cardinality(Of(u)') <= PerUserMax
    BY <2>1, EmptyQueue
  <2> QED
    BY <2>2, <2>3 DEF QueueBounded
<1>5. CASE EndPoll \/ InsertPlayerless \/ LookUp \/ IngestLine \/ Publish \/ UNCHANGED vars
  <2>1. UNCHANGED <<waiting, total, readings>>
    BY <1>5 DEF EndPoll, InsertPlayerless, LookUp, IngestLine, Publish, vars
  <2> QED
    BY <1>1, <2>1, SameReadings DEF Of
<1>6. ASSUME NEW w \in Native, FlushOne(w) \/ FinishNative(w) PROVE QueueBounded'
  <2>1. UNCHANGED <<waiting, total, readings>>
    BY <1>6 DEF FlushOne, FinishNative
  <2> QED
    BY <1>1, <2>1, SameReadings DEF Of
<1> QED
  BY <1>2, <1>3, <1>4, <1>5, <1>6 DEF StoreNext, ExporterStep, NativeStep

\* The counter agrees with the queue, so that both limits hold and the queue
\* does not fill up with events that have left it
\* (enqueuePendingExporterEvent, rememberSteamID).
THEOREM Bounds == Spec => []QueueBounded
<1>1. Sound /\ EveryReadingAccounted /\ QueueBounded /\ [StoreNext]_vars => QueueBounded'
  BY EnqueueCounted, OthersCounted
<1> QED
  BY <1>1, InitCounted, InitSound, SoundStep, Accounting, PTL DEF Spec
-----------------------------------------------------------------------------
(* Events left behind in the queue.                                        *)

\* Events of a player that wait, or are about to.
Stragglers(u) == Of(u) \cup {r \in InHand : step = "enqueue" /\ Author(r) = u}

AtMostOne ==
  \A u \in Names : known[u] # Nobody => \A p, q \in Stragglers(u) : p = q

LEMMA StragglersStep ==
  ASSUME Sound, [StoreNext]_vars, NEW u \in Names, known'[u] # Nobody
  PROVE  \/ known[u] # Nobody /\ Stragglers(u)' \subseteq Stragglers(u)
         \/ Stragglers(u)' \subseteq {Hand}
<1> USE DEF Sound, db, worker, queue, native, history
<1>1. ASSUME UNCHANGED <<known, waiting, readings>>, step' # "enqueue"
      PROVE  known[u] # Nobody /\ Stragglers(u)' \subseteq Stragglers(u)
  BY <1>1, SameReadings DEF Stragglers, Of
<1>2. CASE ReadLine
  <2>1. /\ step' # "enqueue" /\ UNCHANGED known /\ UNCHANGED waiting
        /\ \A r \in waiting : Author(r)' = Author(r)
    BY <1>2, NextReading DEF ReadLine, TypeOK
  <2> QED
    BY <2>1 DEF Stragglers, Of
<1>3. CASE LookUp
  <2>1. CASE step' # "enqueue"
    BY <1>1, <1>3, <2>1 DEF LookUp
  <2>2. CASE step' = "enqueue"
    <3>1. known[Author(Hand)] = Nobody /\ UNCHANGED known /\ UNCHANGED waiting /\ UNCHANGED readings
      BY <1>3, <2>2 DEF LookUp, Canonical
    <3>2. InHand' = {Hand}
      BY <2>2, <3>1, SameReadings DEF InHand
    <3>3. Author(Hand) # u
      BY <3>1
    <3> QED
      BY <3>1, <3>2, <3>3, SameReadings DEF Stragglers, Of
  <2> QED
    BY <2>1, <2>2
<1>4. CASE Enqueue
  <2>1. /\ step = "enqueue" /\ step' = "publish" /\ UNCHANGED known /\ UNCHANGED readings /\ InHand = {Hand}
    BY <1>4 DEF Enqueue, InHand
  <2>2. waiting' \subseteq waiting \cup {Hand}
    <3>1. PICK expired, left \in SUBSET waiting : QueueStep(expired, left)
      BY <1>4, EnqueueIs
    <3> QED
      BY <3>1 DEF QueueStep
  <2>3. Stragglers(u)' \subseteq Stragglers(u)
    BY <2>1, <2>2, SameReadings DEF Stragglers, Of
  <2> QED
    BY <2>1, <2>3
<1>5. ASSUME NEW w \in Native, NEW v \in Names, NEW s \in Ids, Remember(w, v, s)
      PROVE  \/ known[u] # Nobody /\ Stragglers(u)' \subseteq Stragglers(u)
             \/ Stragglers(u)' \subseteq {Hand}
  <2>1. /\ waiting' = waiting \ Of(v) /\ UNCHANGED readings /\ UNCHANGED step /\ InHand \subseteq {Hand}
        /\ known' = [known EXCEPT ![v] = s] /\ known \in [Names -> Ids \cup {Nobody}]
    BY <1>5 DEF Remember, LeftBehind, InHand, TypeOK
  <2>2. InHand' = InHand
    BY <2>1, SameReadings DEF InHand
  <2>3. CASE u = v
    BY <2>1, <2>2, <2>3, SameReadings DEF Stragglers, Of
  <2>4. CASE u # v
    BY <2>1, <2>2, <2>4, SameReadings DEF Stragglers, Of
  <2> QED
    BY <2>3, <2>4
<1>6. CASE Crash
  BY <1>6 DEF Crash, Stragglers, Of
<1>7. CASE InsertPlayerless \/ IngestLine \/ Publish
  BY <1>1, <1>7 DEF InsertPlayerless, IngestLine, Publish
<1>8. ASSUME EndPoll \/ UNCHANGED vars \/ \E w \in Native : FlushOne(w) \/ FinishNative(w)
      PROVE  known[u] # Nobody /\ Stragglers(u)' \subseteq Stragglers(u)
  <2>1. UNCHANGED <<known, waiting, readings, step>>
    BY <1>8 DEF EndPoll, FlushOne, FinishNative, vars
  <2> QED
    BY <2>1, SameReadings DEF Stragglers, Of, InHand
<1> QED
  BY <1>2, <1>3, <1>4, <1>5, <1>6, <1>7, <1>8 DEF StoreNext, ExporterStep, NativeStep

\* An event of a player whose SteamID is known waits only if it was in hand
\* when the SteamID was told, and there is at most one such event
\* (handleExporterEvent between its lookup and the queue).
THEOREM LeftInQueue == Spec => []StragglerOnly
<1>1. Init => AtMostOne
  BY DEF Init, AtMostOne, Stragglers, Of, InHand
<1>2. Sound /\ AtMostOne /\ [StoreNext]_vars => AtMostOne'
  BY StragglersStep DEF AtMostOne
<1>3. Sound /\ AtMostOne => StragglerOnly
  <2> SUFFICES ASSUME Sound, AtMostOne, NEW u \in Names, known[u] # Nobody
               PROVE  Cardinality(Stragglers(u)) <= 1
    BY DEF StragglerOnly, Stragglers
  <2>1. Stragglers(u) = {} \/ \E p : Stragglers(u) = {p}
    BY DEF AtMostOne
  <2>2. Cardinality({}) = 0 /\ \A p : Cardinality({p}) = 1
    BY FS_EmptySet, FS_Singleton, Zenon
  <2> QED
    BY <2>1, <2>2
<1> QED
  BY <1>1, <1>2, <1>3, InitSound, SoundStep, PTL DEF Spec

-----------------------------------------------------------------------------
(* Exporter and bot: Milestones.                                           *)


\* The SteamIDs under which events of a reading may be published.
PublishedAs(r) == {LuaId(Author(r))} \cup {s \in Ids : <<Author(r), s>> \in Accounts}

\* Each message is about a reading and carries one of them.
Messages ==
  /\ \A i \in 1..Len(topic) : topic[i].reading \in Readings /\ topic[i].id \in PublishedAs(topic[i].reading)
  /\ message # <<>> => message.reading \in Readings /\ message.id \in PublishedAs(message.reading)

BotSound == Sound /\ BotTypeOK /\ Messages

-----------------------------------------------------------------------------
(* Types, and where the SteamIDs of messages come from.                    *)

LEMMA InitBot == BotInit => BotSound
<1> SUFFICES ASSUME BotInit PROVE BotSound
  OBVIOUS
<1>1. Sound
  BY InitSound DEF BotInit
<1>2. posts \in [All \X PublishedIds -> Nat] /\ hits = {} /\ message = <<>> /\ todo = {} /\ found = {}
  BY DEF BotInit
<1>3. BotTypeOK
  BY <1>1, <1>2 DEF BotTypeOK, Sound
<1>4. Messages
  BY <1>2 DEF Messages, BotInit, Init
<1> QED
  BY <1>1, <1>3, <1>4 DEF BotSound

\* What a reading may be published as does not change.
LEMMA SamePublished ==
  ASSUME Sound, ReadLine \/ UNCHANGED readings
  PROVE  Readings \subseteq Readings' /\ \A r \in Readings : PublishedAs(r)' = PublishedAs(r)
<1>1. Readings \subseteq Readings' /\ \A r \in Readings : Author(r)' = Author(r)
  BY NextReading, SameReadings DEF Sound
<1> QED
  BY <1>1 DEF PublishedAs, LuaId

LEMMA StoreReadings ==
  ASSUME StoreNext
  PROVE  /\ ReadLine \/ UNCHANGED readings
         /\ Publish \/ UNCHANGED topic
  BY DEF StoreNext, ExporterStep, NativeStep, ReadLine, EndPoll, InsertPlayerless, LookUp, Enqueue,
     IngestLine, Publish, Remember, FlushOne, FinishNative, Crash, db, worker, queue, native, history

\* A message is published with the SteamID of its player, if it is known, and
\* otherwise with the value Lua wrote.
LEMMA PublishMessage ==
  ASSUME Sound, Publish
  PROVE  /\ Hand \in Readings /\ PublishedId \in PublishedAs(Hand)
         /\ topic' = Append(topic, Row(Hand, PublishedId))
<1>1. Hand \in Readings /\ (identity # Nobody => <<Author(Hand), identity>> \in Accounts)
  BY DEF Publish, Sound, Work
<1>2. identity \in Ids \cup {Nobody}
  BY DEF Sound, TypeOK
<1> QED
  BY <1>1, <1>2 DEF Publish, PublishedId, PublishedAs

LEMMA StoreBot ==
  ASSUME BotSound, StoreNext, UNCHANGED botVars
  PROVE  BotSound'
<1> USE DEF botVars, bot
<1>1. Sound /\ Sound' /\ Readings \subseteq Readings' /\ \A r \in Readings : PublishedAs(r)' = PublishedAs(r)
  BY SoundStep, SamePublished, StoreReadings DEF BotSound
<1>2. BotTypeOK'
  BY <1>1 DEF BotSound, BotTypeOK, Sound, PublishedIds, LuaId
<1>3. Messages'
  <2>1. (message # <<>> => message.reading \in Readings /\ message.id \in PublishedAs(message.reading))'
    BY <1>1 DEF BotSound, Messages
  <2>3. ASSUME NEW i \in 1..Len(topic')
        PROVE  (topic[i].reading \in Readings /\ topic[i].id \in PublishedAs(topic[i].reading))'
    <3>1. CASE UNCHANGED topic
      BY <1>1, <2>3, <3>1 DEF BotSound, Messages
    <3>2. CASE Publish
      <4> DEFINE new == Row(Hand, PublishedId)
      <4>1. new.reading = Hand /\ new.id = PublishedId /\ topic' = Append(topic, new)
        BY <1>1, <3>2, PublishMessage DEF Row
      <4>2. Hand \in Readings /\ PublishedId \in PublishedAs(Hand)
        BY <1>1, <3>2, PublishMessage
      <4>3. topic \in Seq([reading : Readings, id : PublishedIds])
        BY <1>1 DEF Sound, TypeOK
      <4> HIDE DEF new
      <4>4. topic'[i] = new \/ (i \in 1..Len(topic) /\ topic'[i] = topic[i])
        <5> DEFINE S == [reading : Readings, id : PublishedIds]
        <5>1. topic \in Seq(S)
          BY <4>3
        <5> HIDE DEF S
        <5> QED
          BY <2>3, <4>1, <5>1
      <4>5. CASE topic'[i] = new
        BY <1>1, <4>1, <4>2, <4>5
      <4>6. CASE i \in 1..Len(topic) /\ topic'[i] = topic[i]
        BY <1>1, <4>6 DEF BotSound, Messages
      <4> QED
        BY <4>4, <4>5, <4>6
    <3> QED
      BY <3>1, <3>2, StoreReadings
  <2> QED
    BY <2>1, <2>3 DEF Messages
<1> QED
  BY <1>1, <1>2, <1>3 DEF BotSound

\* The bot's steps leave the exporter alone, but for the topic and the count of
\* failures.
LEMMA BotSame ==
  ASSUME BotStep \/ QueryFails \/ MessageLost \/ BotRestart
  PROVE  /\ UNCHANGED <<players, stored, checkpoint, position, readings, step, identity>>
         /\ UNCHANGED <<known, waiting, total, told, flush, gone, queued>>
         /\ faults' \in {faults, faults + 1}
  BY DEF BotStep, Receive, Evaluate, Announce, HandlerReturns, QueryFails, MessageLost, BotRestart,
     vars, db, worker, queue, native, history, Fault

\* ... and the topic only gets shorter.
LEMMA BotTopic ==
  ASSUME Sound, BotStep \/ QueryFails \/ MessageLost \/ BotRestart
  PROVE  /\ topic' \in Seq([reading : Readings, id : PublishedIds])
         /\ \A i \in 1..Len(topic') : \E j \in 1..Len(topic) : topic'[i] = topic[j]
<1> DEFINE S == [reading : Readings, id : PublishedIds]
<1>1. topic \in Seq(S)
  BY DEF Sound, TypeOK
<1> HIDE DEF S
<1>2. topic' = topic \/ (topic # <<>> /\ topic' = Tail(topic)) \/ topic' = <<>>
  BY DEF BotStep, Receive, Evaluate, Announce, HandlerReturns, QueryFails, MessageLost, BotRestart, vars
<1>3. CASE topic' = topic
  BY <1>1, <1>3 DEF S
<1>4. CASE topic # <<>> /\ topic' = Tail(topic)
  <2>1. topic' \in Seq(S) /\ \A i \in 1..Len(topic') : i + 1 \in 1..Len(topic) /\ topic'[i] = topic[i + 1]
    BY <1>1, <1>4
  <2> QED
    BY <2>1 DEF S
<1>5. CASE topic' = <<>>
  <2>1. topic' \in Seq(S) /\ 1..Len(topic') = {}
    BY <1>5
  <2> QED
    BY <2>1 DEF S
<1> QED
  BY <1>2, <1>3, <1>4, <1>5

LEMMA MessageIs ==
  ASSUME Sound, NEW i \in 1..Len(topic)
  PROVE  topic[i] \in [reading : Readings, id : PublishedIds] /\ topic[i] # <<>>
<1> DEFINE S == [reading : Readings, id : PublishedIds]
<1>1. topic \in Seq(S)
  BY DEF Sound, TypeOK, PublishedIds
<1>2. \A x \in S : DOMAIN x = {"reading", "id"}
  OBVIOUS
<1>3. DOMAIN <<>> = {}
  OBVIOUS
<1> HIDE DEF S
<1>4. topic[i] \in S
  BY <1>1
<1>5. topic[i] # <<>>
  BY <1>2, <1>3, <1>4
<1> QED
  BY <1>4, <1>5 DEF S

LEMMA BotSoundStep ==
  ASSUME BotSound, BotStep \/ QueryFails \/ MessageLost \/ BotRestart
  PROVE  BotSound'
<1> USE DEF botVars, bot
<1> Sound /\ BotTypeOK /\ Messages
  BY DEF BotSound
<1>1. Sound'
  <2>1. Readings' = Readings /\ Hand' = Hand /\ \A r : Author(r)' = Author(r)
    BY BotSame, SameReadings
  <2>2. Work' /\ Identities' /\ Flushing'
    BY <2>1, BotSame DEF Sound, Work, Identities, Flushing
  <2>3. topic' \in Seq([reading : Readings', id : PublishedIds])
    BY <2>1, BotTopic, Zenon DEF Sound
  <2>4. faults' \in Nat
    BY BotSame DEF Sound, TypeOK
  <2>5. TypeOK'
    BY <2>1, <2>3, <2>4, BotSame DEF Sound, TypeOK, LuaId
  <2> QED
    BY <2>2, <2>5 DEF Sound
<1>2. /\ hits' \subseteq All \X PublishedIds /\ todo' \subseteq All /\ found' \subseteq All
      /\ posts' \in [All \X PublishedIds -> Nat]
  <2>1. message # <<>> => message.id \in PublishedIds
    BY DEF BotTypeOK
  <2>2. CASE Receive \/ QueryFails \/ HandlerReturns \/ MessageLost \/ BotRestart
    BY <2>2 DEF Receive, QueryFails, HandlerReturns, MessageLost, BotRestart, BotTypeOK, Candidates
  <2>3. ASSUME NEW m \in All, Evaluate(m) \/ Announce(m)
        PROVE  /\ hits' \subseteq All \X PublishedIds /\ todo' \subseteq All /\ found' \subseteq All
               /\ posts' \in [All \X PublishedIds -> Nat]
    <3>1. message.id \in PublishedIds
      BY <2>1, <2>3 DEF Evaluate, Announce, BotTypeOK
    <3>2. CASE Evaluate(m)
      BY <3>1, <3>2 DEF Evaluate, BotTypeOK
    <3>3. CASE Announce(m)
      <4>1. <<m, message.id>> \in All \X PublishedIds
        BY <3>1
      <4>2. posts' = [posts EXCEPT ![<<m, message.id>>] = @ + 1] \/ UNCHANGED posts
        BY <3>3 DEF Announce
      <4>3. posts' \in [All \X PublishedIds -> Nat]
        BY <4>1, <4>2 DEF BotTypeOK
      <4> QED
        BY <3>3, <4>3 DEF Announce, BotTypeOK
    <3> QED
      BY <2>3, <3>2, <3>3
  <2> QED
    BY <2>2, <2>3 DEF BotStep
<1>3. (message' # message => message' = <<>> \/ Receive) /\ (Receive => message' = topic[1] /\ 1 \in 1..Len(topic))
  <2>1. ASSUME Receive PROVE message' = topic[1] /\ 1 \in 1..Len(topic)
    <3> DEFINE S == [reading : Readings, id : PublishedIds]
    <3>1. topic \in Seq(S) /\ topic # <<>> /\ message' = Head(topic)
      BY <2>1 DEF Receive, Sound, TypeOK
    <3> HIDE DEF S
    <3> QED
      BY <3>1
  <2> QED
    BY <2>1 DEF BotStep, Evaluate, Announce, HandlerReturns, QueryFails, MessageLost, BotRestart
<1>4. Messages'
  <2>1. Readings' = Readings /\ \A r \in Readings : PublishedAs(r)' = PublishedAs(r)
    <3>1. UNCHANGED readings
      BY BotSame
    <3> QED
      BY <3>1, SamePublished, SameReadings
  <2>2. ASSUME NEW i \in 1..Len(topic')
        PROVE  (topic[i].reading \in Readings /\ topic[i].id \in PublishedAs(topic[i].reading))'
    <3>1. PICK j \in 1..Len(topic) : topic'[i] = topic[j]
      BY BotTopic
    <3> QED
      BY <2>1, <3>1 DEF Messages
  <2>3. (message # <<>> => message.reading \in Readings /\ message.id \in PublishedAs(message.reading))'
    BY <1>3, <2>1 DEF Messages
  <2> QED
    BY <2>2, <2>3 DEF Messages
<1>5. message' \in [reading : Readings', id : PublishedIds] \cup {<<>>}
  <2>1. Readings' = Readings
    BY BotSame, SameReadings
  <2>2. CASE Receive
    BY <1>3, <2>1, <2>2, MessageIs
  <2>3. CASE message' = <<>> \/ message' = message
    BY <2>1, <2>3 DEF BotTypeOK
  <2> QED
    BY <1>3, <2>2, <2>3
<1>6. (message = <<>> => todo = {} /\ found = {})'
  <2>1. CASE Receive
    <3>1. topic[1] # <<>>
      BY <1>3, <2>1, MessageIs
    <3> QED
      BY <1>3, <2>1, <3>1
  <2>2. CASE ~ Receive
    BY <2>2 DEF BotStep, Evaluate, Announce, HandlerReturns, QueryFails, MessageLost, BotRestart, BotTypeOK
  <2> QED
    BY <2>1, <2>2
<1> QED
  BY <1>1, <1>2, <1>4, <1>5, <1>6 DEF BotSound, BotTypeOK

LEMMA BotNextStep == BotSound /\ [BotNext]_allVars => BotSound'
<1> SUFFICES ASSUME BotSound, [BotNext]_allVars PROVE BotSound'
  OBVIOUS
<1>1. CASE UNCHANGED allVars
  <2>1. UNCHANGED vars /\ UNCHANGED botVars /\ UNCHANGED topic /\ UNCHANGED readings
    BY <1>1 DEF allVars, vars, worker
  <2>2. Sound' /\ Readings' = Readings /\ \A r \in Readings : PublishedAs(r)' = PublishedAs(r)
    BY <2>1, SoundStep, SameReadings, SamePublished DEF BotSound
  <2>3. BotTypeOK'
    BY <2>1, <2>2 DEF BotSound, Sound, BotTypeOK, botVars, bot
  <2>4. Messages'
    BY <2>1, <2>2 DEF BotSound, Messages, botVars, bot
  <2> QED
    BY <2>2, <2>3, <2>4 DEF BotSound
<1>2. CASE BotNext
  BY <1>2, StoreBot, BotSoundStep DEF BotNext
<1> QED
  BY <1>1, <1>2

\* Every reachable state of exporter, topic and bot together is well typed, and
\* nothing is left to do when a handler has returned (newMQTTHandler).
THEOREM BotTypeCorrect == BotSpec => [](TypeOK /\ BotTypeOK)
<1>1. BotSound => TypeOK /\ BotTypeOK
  BY DEF BotSound, Sound
<1> QED
  BY <1>1, InitBot, BotNextStep, PTL DEF BotSpec

-----------------------------------------------------------------------------
(* Announcements.                                                          *)

LEMMA AnnouncedStep ==
  ASSUME BotSound, AnnouncedOnce, [BotNext]_allVars
  PROVE  AnnouncedOnce'
<1> USE DEF bot, botVars
<1> BotTypeOK /\ Messages
  BY DEF BotSound
<1>1. CASE (StoreNext /\ UNCHANGED botVars) \/ UNCHANGED allVars
  <2>1. UNCHANGED <<hits, message, todo, found, posts>>
    BY <1>1 DEF allVars
  <2> QED
    BY <2>1 DEF AnnouncedOnce
<1>2. CASE Receive
  <2>1. /\ UNCHANGED <<hits, found, posts>> /\ found = {}
        /\ todo' = Candidates(message'.id)
    BY <1>2 DEF Receive, BotTypeOK
  <2> QED
    BY <2>1 DEF AnnouncedOnce, Candidates
<1>3. CASE QueryFails \/ HandlerReturns \/ MessageLost \/ BotRestart
  <2>1. /\ UNCHANGED <<hits, posts>> /\ todo' \subseteq todo /\ found' \subseteq found
        /\ message' = message \/ message' = <<>>
    BY <1>3 DEF QueryFails, HandlerReturns, MessageLost, BotRestart
  <2> QED
    BY <2>1 DEF AnnouncedOnce
<1>4. ASSUME NEW m \in All, Evaluate(m) PROVE AnnouncedOnce'
  <2> DEFINE h == <<m, message.id>>
  <2>1. /\ m \in todo /\ message # <<>> /\ h \notin hits
        /\ UNCHANGED <<message, posts>> /\ todo' = todo \ {m}
    BY <1>4 DEF Evaluate, AnnouncedOnce, BotTypeOK
  <2>2. \/ hits' = hits \cup {h} /\ found' = found \cup {m}
        \/ UNCHANGED <<hits, found>>
    BY <1>4 DEF Evaluate
  <2>3. message.id \in PublishedIds /\ h \in All \X PublishedIds
    BY <2>1 DEF BotTypeOK
  <2>4. posts[h] = 0
    BY <2>1, <2>3 DEF AnnouncedOnce, BotTypeOK
  <2> QED
    BY <2>1, <2>2, <2>4 DEF AnnouncedOnce
<1>5. ASSUME NEW m \in All, Announce(m) PROVE AnnouncedOnce'
  <2> DEFINE h == <<m, message.id>>
  <2>1. /\ m \in found /\ message # <<>> /\ h \in hits /\ posts[h] = 0
        /\ UNCHANGED <<hits, message, todo>> /\ found' = found \ {m}
    BY <1>5 DEF Announce, AnnouncedOnce
  <2>2. h \in All \X PublishedIds
    BY <2>1 DEF BotTypeOK
  <2>3. posts' = [posts EXCEPT ![h] = @ + 1] \/ UNCHANGED posts
    BY <1>5 DEF Announce
  <2>4. \A g \in All \X PublishedIds : posts'[g] = posts[g] \/ (g = h /\ posts'[g] = 1)
    BY <2>1, <2>2, <2>3 DEF BotTypeOK
  <2>5. ASSUME NEW n \in found' PROVE posts'[<<n, message.id>>] = posts[<<n, message.id>>]
    <3>1. <<n, message.id>> # h /\ <<n, message.id>> \in All \X PublishedIds
      BY <2>1, <2>2, <2>5 DEF BotTypeOK
    <3>2. posts \in [All \X PublishedIds -> Nat]
      BY DEF BotTypeOK
    <3> QED
      BY <2>3, <3>1, <3>2
  <2> QED
    BY <2>1, <2>4, <2>5 DEF AnnouncedOnce
<1> QED
  BY <1>1, <1>2, <1>3, <1>4, <1>5 DEF BotNext, BotStep

\* A milestone is recorded before it is announced and announced at most once
\* under one SteamID, whatever is lost, read again or restarted
\* (checkMilestones).
THEOREM NotTwice == BotSpec => []AnnouncedOnce
<1>1. BotInit => AnnouncedOnce
  BY DEF BotInit, AnnouncedOnce
<1>2. BotSound /\ AnnouncedOnce /\ [BotNext]_allVars => AnnouncedOnce'
  BY AnnouncedStep
<1> QED
  BY <1>1, <1>2, InitBot, BotNextStep, PTL DEF BotSpec

-----------------------------------------------------------------------------
(* What a hit goes back to.                                                *)

Justified == HitJustified /\ IsFiniteSet(stored)

\* Rows are only added, one at a time.
LEMMA RowsAdded ==
  ASSUME Sound, StoreNext, IsFiniteSet(stored)
  PROVE  IsFiniteSet(stored') /\ stored \subseteq stored'
<1>1. UNCHANGED stored \/ \E row : stored' = stored \cup {row}
  BY DEF StoreNext, ExporterStep, NativeStep, ReadLine, EndPoll, InsertPlayerless, LookUp, Enqueue,
     IngestLine, Ingest, Publish, Remember, FlushOne, FinishNative, Crash, db
<1> QED
  BY <1>1, FS_AddElement

LEMMA RowsGrow ==
  ASSUME Sound, NEW id, IsFiniteSet(stored'), stored \subseteq stored'
  PROVE  /\ Cardinality(Rows(id)) \in Nat /\ Cardinality(Rows(id))' \in Nat
         /\ Cardinality(Rows(id)) <= Cardinality(Rows(id))'
<1> DEFINE A == {row \in stored : row.id = id}
           B == {row \in stored' : row.id = id}
<1>1. A \subseteq B /\ B \subseteq stored'
  OBVIOUS
<1>2. IsFiniteSet(B)
  BY <1>1, FS_Subset
<1>3. IsFiniteSet(A) /\ Cardinality(A) <= Cardinality(B)
  BY <1>1, <1>2, FS_Subset
<1>4. Cardinality(A) \in Nat /\ Cardinality(B) \in Nat
  BY <1>2, <1>3, FS_CardinalityType
<1> QED
  BY <1>3, <1>4 DEF Rows

LEMMA JustifiedStep ==
  ASSUME BotSound, Justified, [BotNext]_allVars
  PROVE  Justified'
<1> USE DEF bot, botVars
<1> Sound /\ BotTypeOK /\ Messages
  BY DEF BotSound
<1>1. /\ IsFiniteSet(stored') /\ stored \subseteq stored'
      /\ ReadLine \/ UNCHANGED readings
  <2>1. CASE StoreNext
    BY <2>1, RowsAdded, StoreReadings DEF Justified
  <2>2. CASE BotStep \/ QueryFails \/ MessageLost \/ BotRestart
    BY <2>2, BotSame DEF Justified
  <2>3. CASE UNCHANGED allVars
    BY <2>3 DEF allVars, vars, db, worker, Justified
  <2> QED
    BY <2>1, <2>2, <2>3 DEF BotNext
<1>2. /\ Readings \subseteq Readings'
      /\ \A r \in Readings : PublishedAs(r)' = PublishedAs(r) /\ readings'[r] = readings[r]
  BY <1>1, SamePublished, NextReading DEF Sound
<1>3. ASSUME NEW m \in All, NEW id \in PublishedIds, <<m, id>> \in hits'
      PROVE  IF m \in CountMilestones THEN Cardinality(Rows(id)) >= Threshold[m]
             ELSE \E r \in Readings : readings[r] \in Large /\ id \in PublishedAs(r)
  <2>1. CASE <<m, id>> \in hits
    BY <2>1 DEF Justified, HitJustified, PublishedAs
  <2>2. CASE <<m, id>> \notin hits
    <3>1. hits' # hits
      BY <1>3, <2>2
    <3>2. PICK n \in All : Evaluate(n)
      BY <3>1 DEF BotNext, BotStep, Receive, Announce, HandlerReturns, QueryFails, MessageLost, BotRestart, allVars
    <3>3. Reached(n, message) /\ hits' = hits \cup {<<n, message.id>>} /\ n \in todo
      BY <3>1, <3>2 DEF Evaluate
    <3>4. n = m /\ id = message.id
      BY <1>3, <2>2, <3>3
    <3>5. message.reading \in Readings /\ message.id \in PublishedAs(message.reading)
      BY <3>3 DEF Messages, BotTypeOK
    <3> QED
      BY <3>3, <3>4, <3>5 DEF Reached
  <2> QED
    BY <2>1, <2>2
<1>4. HitJustified'
  <2>1. ASSUME NEW m \in All, NEW id \in PublishedIds, <<m, id>> \in hits', m \in CountMilestones
        PROVE  Cardinality(Rows(id))' >= Threshold[m]
    <3>1. Threshold[m] \in Nat /\ Cardinality(Rows(id)) >= Threshold[m]
      BY <1>3, <2>1, MilestonesAssumption
    <3>2. /\ Cardinality(Rows(id)) \in Nat /\ Cardinality(Rows(id))' \in Nat
          /\ Cardinality(Rows(id)) <= Cardinality(Rows(id))'
      BY <1>1, RowsGrow
    <3> QED
      BY <3>1, <3>2
  <2>2. ASSUME NEW m \in All, NEW id \in PublishedIds, <<m, id>> \in hits', m \notin CountMilestones
        PROVE  \E r \in Readings' : readings'[r] \in Large /\ id \in PublishedAs(r)'
    <3>1. PICK r \in Readings : readings[r] \in Large /\ id \in PublishedAs(r)
      BY <1>3, <2>2
    <3> QED
      BY <1>2, <3>1
  <2> QED
    BY <2>1, <2>2 DEF HitJustified, PublishedAs, LuaId
<1> QED
  BY <1>1, <1>4 DEF Justified

\* A hit goes back to the event table: to as many rows under its SteamID as
\* the milestone asks for, or to an event of the player with the value it asks
\* for (checkMilestones).
THEOREM NothingUnearned == BotSpec => []HitJustified
<1>1. BotInit => Justified
  <2> SUFFICES ASSUME BotInit PROVE Justified
    OBVIOUS
  <2>1. hits = {} /\ stored = {}
    BY DEF BotInit, Init
  <2> QED
    BY <2>1, FS_EmptySet DEF Justified, HitJustified
<1>2. Justified => HitJustified
  BY DEF Justified
<1>3. BotSound /\ Justified /\ [BotNext]_allVars => Justified'
  BY JustifiedStep
<1> QED
  BY <1>1, <1>2, <1>3, InitBot, BotNextStep, PTL DEF BotSpec
-----------------------------------------------------------------------------
(* Under which value an event goes out.                                    *)

\* The SteamIDs native logs tell.
Told == {x[2] : x \in Accounts}

LEMMA ToldIs == Told \subseteq Ids /\ \A u, s : <<u, s>> \in Accounts => s \in Told
<1>1. \A u, s : <<u, s>> \in Accounts => s \in Told
  <2> SUFFICES ASSUME NEW u, NEW s, <<u, s>> \in Accounts PROVE s \in Told
    OBVIOUS
  <2> QED
    BY DEF Told
<1> QED
  BY <1>1, Constants DEF Told

\* ... and what goes out for events without a player.
Sent == Told \cup {LuaId(Nobody)}

\* As long as no event has been sent to the queue, every message carries the
\* SteamID of a native log or none, and nothing was announced under any other
\* value.
NativeOnly ==
  ~ queued =>
    /\ step = "publish" => PublishedId \in Sent
    /\ \A i \in 1..Len(topic) : topic[i].id \in Sent
    /\ message # <<>> => message.id \in Sent
    /\ \A m \in All, s \in PublishedIds : posts[<<m, s>>] > 0 => s \in Sent

\* The worker publishes what it has inserted, or what it has queued.
LEMMA NativeOnlyStore ==
  ASSUME BotSound, NativeOnly, StoreNext, UNCHANGED botVars
  PROVE  NativeOnly'
<1> USE DEF botVars, bot
<1> SUFFICES ASSUME ~ queued' PROVE NativeOnly'
  BY DEF NativeOnly
<1>1. ~ queued /\ Sound
  <2>1. CASE Enqueue
    BY <2>1 DEF Enqueue
  <2>2. CASE ~ Enqueue
    <3>1. UNCHANGED queued
      BY <2>2 DEF StoreNext, ExporterStep, NativeStep, ReadLine, EndPoll, InsertPlayerless, LookUp,
         IngestLine, Ingest, Publish, Remember, FlushOne, FinishNative, Crash, history
    <3> QED
      BY <3>1 DEF BotSound
  <2> QED
    BY <2>1, <2>2
<1>2. (step = "publish" => PublishedId \in Sent)'
  <2>1. CASE IngestLine
    <3>1. identity' = identity /\ identity \in Told /\ identity # Nobody
      BY <1>1, <2>1, ToldIs DEF IngestLine, Sound, Work
    <3> QED
      BY <3>1 DEF PublishedId, Sent
  <2>2. CASE InsertPlayerless
    <3>1. Author(Hand)' = Nobody
      BY <2>2, SameReadings DEF InsertPlayerless
    <3>2. identity' = Nobody
      BY <1>1, <2>2 DEF InsertPlayerless, Sound, Work
    <3> QED
      BY <3>1, <3>2 DEF PublishedId, Sent, LuaId
  <2>3. CASE ~ IngestLine /\ ~ InsertPlayerless /\ step' = "publish"
    <3>1. step = "publish" /\ UNCHANGED <<identity, readings>>
      BY <1>1, <2>3 DEF StoreNext, ExporterStep, NativeStep, ReadLine, EndPoll,
         LookUp, Enqueue, Publish, Remember, FlushOne, FinishNative, Crash, worker, history
    <3>2. PublishedId' = PublishedId
      BY <3>1, SameReadings DEF PublishedId, LuaId
    <3> QED
      BY <1>1, <3>1, <3>2 DEF NativeOnly, Sent, LuaId
  <2> QED
    BY <2>1, <2>2, <2>3
<1>3. ASSUME NEW i \in 1..Len(topic') PROVE topic'[i].id \in Sent
  <2>1. CASE UNCHANGED topic
    BY <1>1, <1>3, <2>1 DEF NativeOnly
  <2>2. CASE Publish
    <3> DEFINE new == Row(Hand, PublishedId)
               S == [reading : Readings, id : PublishedIds]
    <3>1. PublishedId \in Sent
      BY <1>1, <2>2 DEF NativeOnly, Publish
    <3>2. new.id \in Sent /\ topic' = Append(topic, new)
      BY <2>2, <3>1 DEF Publish, Row
    <3>3. topic \in Seq(S)
      BY <1>1 DEF Sound, TypeOK
    <3> HIDE DEF new, S
    <3>4. topic'[i] = new \/ (i \in 1..Len(topic) /\ topic'[i] = topic[i])
      BY <1>3, <3>2, <3>3
    <3> QED
      BY <1>1, <3>2, <3>4 DEF NativeOnly
  <2> QED
    BY <2>1, <2>2, StoreReadings
<1> QED
  BY <1>1, <1>2, <1>3 DEF NativeOnly, PublishedIds, Sent, LuaId

LEMMA NativeOnlyBot ==
  ASSUME BotSound, NativeOnly, BotStep \/ QueryFails \/ MessageLost \/ BotRestart
  PROVE  NativeOnly'
<1> SUFFICES ASSUME ~ queued' PROVE NativeOnly'
  BY DEF NativeOnly
<1>1. /\ ~ queued /\ Sound /\ BotTypeOK /\ UNCHANGED <<step, identity>>
      /\ PublishedId' = PublishedId /\ Sent' = Sent /\ PublishedIds' = PublishedIds
  <2>1. UNCHANGED <<queued, step, identity, readings>>
    BY BotSame
  <2> QED
    BY <2>1, SameReadings DEF BotSound, PublishedId, Sent, PublishedIds, LuaId
<1>2. \A i \in 1..Len(topic') : topic'[i].id \in Sent
  BY <1>1, BotTopic DEF NativeOnly
<1>3. (message # <<>> => message.id \in Sent)'
  <2>1. CASE Receive
    <3> DEFINE S == [reading : Readings, id : PublishedIds]
    <3>1. topic \in Seq(S) /\ topic # <<>> /\ message' = Head(topic)
      BY <1>1, <2>1 DEF Receive, Sound, TypeOK
    <3> HIDE DEF S
    <3>2. 1 \in 1..Len(topic) /\ message' = topic[1]
      BY <3>1
    <3> QED
      BY <1>1, <3>2 DEF NativeOnly
  <2>2. CASE ~ Receive
    <3>1. message' = message \/ message' = <<>>
      BY <2>2 DEF BotStep, Evaluate, Announce, HandlerReturns, QueryFails, MessageLost, BotRestart, botVars, bot
    <3> QED
      BY <1>1, <3>1 DEF NativeOnly
  <2> QED
    BY <2>1, <2>2
<1>4. ASSUME NEW m \in All, NEW s \in PublishedIds, posts'[<<m, s>>] > 0 PROVE s \in Sent
  <2>1. posts[<<m, s>>] > 0 => s \in Sent
    BY <1>1 DEF NativeOnly
  <2>2. CASE UNCHANGED posts
    BY <1>4, <2>1, <2>2
  <2>3. ASSUME NEW n \in All, Announce(n) PROVE s \in Sent
    <3>1. message.id \in Sent
      BY <1>1, <2>3 DEF Announce, NativeOnly
    <3>2. CASE <<n, message.id>> # <<m, s>>
      <4>1. posts \in [All \X PublishedIds -> Nat] /\ <<m, s>> \in All \X PublishedIds
        BY <1>1 DEF BotTypeOK
      <4>2. posts' = [posts EXCEPT ![<<n, message.id>>] = @ + 1] \/ UNCHANGED posts
        BY <2>3 DEF Announce
      <4>3. posts'[<<m, s>>] = posts[<<m, s>>]
        BY <3>2, <4>1, <4>2
      <4> QED
        BY <1>4, <2>1, <4>3
    <3> QED
      BY <3>1, <3>2
  <2>4. UNCHANGED posts \/ \E n \in All : Announce(n)
    BY DEF BotStep, Receive, Evaluate, HandlerReturns, QueryFails, MessageLost, BotRestart, botVars, bot
  <2> QED
    BY <2>2, <2>3, <2>4
<1> QED
  BY <1>1, <1>2, <1>3, <1>4 DEF NativeOnly

\* A milestone fires at most once per player as long as no event has had to
\* wait for its identity, each name is told for one SteamID only, and no value of
\* Lua's is the SteamID of somebody else: the boundary of the finding about
\* OncePerPlayer, where it fires twice (checkMilestones, handleExporterEvent).
THEOREM OneIdentity == BotSpec => []OnceUnlessQueued
<1>1. BotInit => NativeOnly
  <2> SUFFICES ASSUME BotInit PROVE NativeOnly
    OBVIOUS
  <2>1. step = "idle" /\ topic = <<>> /\ message = <<>> /\ posts = [h \in All \X PublishedIds |-> 0]
    BY DEF BotInit, Init
  <2> QED
    BY <2>1 DEF NativeOnly
<1>2. BotSound /\ NativeOnly /\ [BotNext]_allVars => NativeOnly'
  <2> SUFFICES ASSUME BotSound, NativeOnly, [BotNext]_allVars PROVE NativeOnly'
    OBVIOUS
  <2>1. CASE UNCHANGED allVars
    BY <2>1, SameReadings DEF allVars, vars, worker, history, botVars, bot, NativeOnly, PublishedId, PublishedIds, Sent, LuaId
  <2> QED
    BY <2>1, NativeOnlyStore, NativeOnlyBot DEF BotNext
<1>3. NativeOnly => OnceUnlessQueued
  <2> SUFFICES ASSUME NativeOnly, ~ queued, \A x, y \in Accounts : x[1] = y[1] => x = y,
                      \A x \in Accounts, u \in Names : x[2] = LuaId(u) => x[1] = u,
                      NEW m \in All, NEW u \in Names
               PROVE  Cardinality({s \in {LuaId(u)} \cup {t \in Ids : <<u, t>> \in Accounts} :
                                     posts[<<m, s>>] > 0}) <= 1
    BY DEF OnceUnlessQueued, OncePerPlayer
  <2> DEFINE C == {s \in {LuaId(u)} \cup {t \in Ids : <<u, t>> \in Accounts} : posts[<<m, s>>] > 0}
  <2>0. ASSUME NEW s \in C PROVE <<u, s>> \in Accounts
    <3>1. CASE s = LuaId(u)
      <4>1. s \in Sent /\ s # LuaId(Nobody)
        BY <3>1, Constants DEF NativeOnly, PublishedIds, LuaId
      <4>2. PICK x \in Accounts : x[2] = s
        BY <4>1 DEF Told, Sent
      <4>3. x[1] = u /\ x = <<x[1], x[2]>>
        BY <3>1, <4>2, Constants
      <4> QED
        BY <4>2, <4>3
    <3> QED
      BY <3>1
  <2>1. ASSUME NEW s \in C, NEW t \in C PROVE s = t
    <3>1. <<u, s>> = <<u, t>>
      BY <2>0
    <3> QED
      BY <3>1
  <2> HIDE DEF C
  <2>2. C = {} \/ \E s : C = {s}
    <3>1. ASSUME NEW s \in C PROVE C = {s}
      BY <2>1
    <3> QED
      BY <3>1
  <2>3. Cardinality({}) = 0 /\ \A s : Cardinality({s}) = 1
    BY FS_EmptySet, FS_Singleton, Zenon
  <2>4. Cardinality(C) = 0 \/ Cardinality(C) = 1
    BY <2>2, <2>3
  <2>5. Cardinality(C) <= 1
    BY <2>4
  <2> QED
    BY <2>5 DEF C
<1> QED
  BY <1>1, <1>2, <1>3, InitBot, BotNextStep, PTL DEF BotSpec
=============================================================================
