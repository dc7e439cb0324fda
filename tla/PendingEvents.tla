---------------------------- MODULE PendingEvents ----------------------------
(***************************************************************************)
(* Identity in the event store.  The Lua mod cannot write a SteamID        *)
(* exactly, so an event of ExporterLog.txt is stored under the SteamID the *)
(* native logs have told for its player's name, and waits in memory until  *)
(* they have.  One worker handles the lines of ExporterLog.txt, several    *)
(* handle native logs; they share the mutex of the store, which protects   *)
(* the map of names and the queue but is not held while an event is        *)
(* inserted.                                                               *)
(*                                                                         *)
(* A reading is one time a line has been read: a line is read again if its *)
(* checkpoint was not stored.  Readings are numbered in order, so that a   *)
(* set of them is a queue.                                                 *)
(*                                                                         *)
(* An operator A_B is a faulty variant of A, kept to show that the runs    *)
(* tell the two apart; no specification uses it.                           *)
(***************************************************************************)
EXTENDS Integers, Sequences, FiniteSets

CONSTANTS
  Names,          \* usernames
  Ids,            \* SteamIDs as the native logs write them
  Nobody,         \* no name, no SteamID
  Accounts,       \* <<name, SteamID>> pairs that occur in native logs
  Log,            \* ExporterLog.txt: the name on each line, Nobody if it has none
  Native,         \* workers that read native logs
  PerUserMax,     \* pendingEventsPerUserMax
  GlobalMax,      \* pendingEventsGlobalMax
  MaxFaults       \* bound on everything that goes wrong in a behaviour: failed
                  \* statements and checkpoints, crashes, lost messages

ASSUME EventsAssumption ==
  /\ Nobody \notin Names \cup Ids
  /\ Accounts \subseteq Names \X Ids
  /\ Log \in Seq(Names \cup {Nobody})
  /\ PerUserMax \in Nat \ {0} /\ GlobalMax \in Nat \ {0} /\ MaxFaults \in Nat

VARIABLES
  players,     \* players.last_username by SteamID, Nobody if there is no row
  stored,      \* rows of events: [reading, id]
  checkpoint,  \* lines of the log behind the stored checkpoint
  position,    \* lines read by the poll
  readings,    \* the line of each reading
  step,        \* statement of handleExporterEvent or its caller the worker is at
  identity,    \* SteamID the event in hand is given, Nobody while it has none
  known,       \* steamIDByUsername
  waiting,     \* readings in pendingByUsername
  total,       \* pendingTotal
  told,        \* <<name, SteamID>> each native worker is handling, or <<>>
  flush,       \* readings it has taken from the queue and still has to insert
  gone,        \* history: readings that were dropped, failed or lost in a crash
  queued,      \* history: has an event ever been sent to the queue?
  topic,       \* messages on the way to the bot: [reading, id]
  faults       \* failures so far

db == <<players, stored, checkpoint>>
worker == <<position, readings, step, identity>>
queue == <<known, waiting, total>>
native == <<told, flush>>
history == <<gone, queued, faults>>
vars == <<db, worker, queue, native, history, topic>>

Readings == 1..Len(readings)
Author(r) == Log[readings[r]]
Hand == Len(readings)    \* the reading in hand, if the worker is not idle
Of(u) == {r \in waiting : Author(r) = u}

\* player:getSteamID() in Lua: a double, written with all its digits, some of which
\* have been rounded; LuaId(Nobody) is the empty one of an event without a player.
LuaId(u) == <<"lua", u>>

\* What an event may go out under.
PublishedIds == Ids \cup {LuaId(u) : u \in Names \cup {Nobody}}

Row(r, s) == [reading |-> r, id |-> s]

TypeOK ==
  /\ players \in [Ids -> Names \cup {Nobody}]
  /\ stored \subseteq [reading : Readings, id : Ids \cup {Nobody}]
  /\ checkpoint \in 0..position /\ position \in 0..Len(Log)
  /\ readings \in Seq(1..Len(Log))
  /\ step \in {"idle", "lookup", "enqueue", "ingest", "publish"}
  /\ identity \in Ids \cup {Nobody}
  /\ known \in [Names -> Ids \cup {Nobody}]
  /\ waiting \subseteq Readings /\ total \in Int
  /\ told \in [Native -> Accounts \cup {<<>>}] /\ flush \in [Native -> SUBSET Readings]
  /\ gone \subseteq Readings /\ queued \in BOOLEAN /\ faults \in Nat
  /\ topic \in Seq([reading : Readings, id : PublishedIds])

\* preloadCanonicalSteamIDs: names that exactly one SteamID has.
Preloaded(rows) ==
  [u \in Names |-> IF \E s \in Ids : {t \in Ids : rows[t] = u} = {s}
                   THEN CHOOSE s \in Ids : rows[s] = u ELSE Nobody]

Init ==
  /\ players \in {rows \in [Ids -> Names \cup {Nobody}] :
                    \A s \in Ids : rows[s] # Nobody => <<rows[s], s>> \in Accounts}
  /\ stored = {} /\ checkpoint = 0 /\ position = 0 /\ readings = <<>>
  /\ step = "idle" /\ identity = Nobody
  /\ known = Preloaded(players) /\ waiting = {} /\ total = 0
  /\ told = [w \in Native |-> <<>>] /\ flush = [w \in Native |-> {}]
  /\ gone = {} /\ queued = FALSE /\ topic = <<>> /\ faults = 0

Fault == faults < MaxFaults /\ faults' = faults + 1

-----------------------------------------------------------------------------

\* upsertPlayer: the name in an existing row is replaced by that of a newer
\* line only.
Upsert(u, s) ==
  \/ players' = [players EXCEPT ![s] = u]
  \/ players[s] # Nobody /\ UNCHANGED players

\* ingestExporterEvent of reading r as SteamID s: the row is inserted, or a
\* statement fails, the player's or a later one, and the event is dropped.  Which
\* character it is booked on is the matter of CharacterStore.
Ingest(r, s) ==
  \/ /\ Upsert(Author(r), s)
     /\ stored' = stored \cup {Row(r, s)}
     /\ UNCHANGED history
  \/ /\ Upsert(Author(r), s) \/ UNCHANGED players
     /\ gone' = gone \cup {r} /\ Fault
     /\ UNCHANGED <<stored, queued>>

-----------------------------------------------------------------------------
(* The pipeline of ExporterLog.txt.                                        *)

ReadLine ==
  /\ step = "idle" /\ position < Len(Log)
  /\ position' = position + 1
  /\ readings' = Append(readings, position + 1)
  /\ step' = "lookup"
  /\ UNCHANGED <<db, identity, queue, native, history, topic>>

\* setFileOffset after the last event of a poll; if it fails, the next poll
\* reads the same lines again.
EndPoll ==
  /\ step = "idle" /\ checkpoint < position
  /\ \/ checkpoint' = position /\ UNCHANGED <<position, faults>>
     \/ position' = checkpoint /\ Fault /\ UNCHANGED checkpoint
  /\ UNCHANGED <<players, stored, readings, step, identity, queue, native, gone, queued, topic>>

\* handleExporterEvent: an event without a player is inserted as it is, and goes
\* out whether that worked or not.
InsertPlayerless ==
  /\ step = "lookup" /\ Author(Hand) = Nobody
  /\ step' = "publish"
  /\ \/ stored' = stored \cup {Row(Hand, Nobody)} /\ UNCHANGED history
     \/ gone' = gone \cup {Hand} /\ Fault /\ UNCHANGED <<stored, queued>>
  /\ UNCHANGED <<players, checkpoint, position, readings, identity, queue, native, topic>>

\* canonicalSteamID.
Canonical_Lua(u) == IF known[u] = Nobody THEN CHOOSE s \in Ids : TRUE ELSE known[u]
Canonical_InOrder(u) == IF Of(u) # {} THEN Nobody ELSE known[u]
Canonical(u) == known[u]

LookUp ==
  /\ step = "lookup" /\ Author(Hand) # Nobody
  /\ identity' = Canonical(Author(Hand))
  /\ step' = IF identity' = Nobody THEN "enqueue" ELSE "ingest"
  /\ UNCHANGED <<db, position, readings, queue, native, history, topic>>

\* The queue is full for this player or for all.
Full_Waiting(u, left, n) == Cardinality({r \in left : Author(r) = u}) >= PerUserMax
Full(u, left, n) ==
  Cardinality({r \in left : Author(r) = u}) >= PerUserMax \/ n >= GlobalMax

\* enqueuePendingExporterEvent.  It first drops what has waited too long; the
\* older an event, the sooner it has.
Enqueue ==
  /\ step = "enqueue"
  /\ \E k \in 0..(Hand - 1) :
       LET expired == {r \in waiting : r <= k}
           left == waiting \ expired
           n == total - Cardinality(expired)
       IN  IF Full(Author(Hand), left, n)
           THEN waiting' = left /\ total' = n /\ gone' = gone \cup expired \cup {Hand}
           ELSE waiting' = left \cup {Hand} /\ total' = n + 1 /\ gone' = gone \cup expired
  /\ queued' = TRUE /\ step' = "publish"
  /\ UNCHANGED <<db, position, readings, identity, known, native, topic, faults>>

IngestLine ==
  /\ step = "ingest"
  /\ Ingest(Hand, identity)
  /\ step' = "publish"
  /\ UNCHANGED <<checkpoint, position, readings, identity, queue, native, topic>>

\* publish: the event has been given its SteamID if it had one at the lookup,
\* and otherwise goes out with the one Lua wrote.
PublishedId_Unset == identity
PublishedId == IF identity = Nobody THEN LuaId(Author(Hand)) ELSE identity

Publish ==
  /\ step = "publish"
  /\ topic' = Append(topic, Row(Hand, PublishedId))
  /\ step' = "idle" /\ identity' = Nobody
  /\ UNCHANGED <<db, position, readings, queue, native, history>>

-----------------------------------------------------------------------------
(* The pipelines of the native logs.                                       *)

\* What rememberSteamID leaves in the queue: none of the player's events.
LeftBehind_All(u) == waiting
LeftBehind(u) == waiting \ Of(u)

\* rememberSteamID, its section under the mutex.
Remember(w, u, s) ==
  /\ told[w] = <<>> /\ <<u, s>> \in Accounts
  /\ known' = [known EXCEPT ![u] = s]
  /\ told' = [told EXCEPT ![w] = <<u, s>>]
  /\ flush' = [flush EXCEPT ![w] = Of(u)]
  /\ waiting' = LeftBehind(u)
  /\ total' = total - Cardinality(Of(u))
  /\ UNCHANGED <<db, worker, history, topic>>

\* ... and its loop, in the order of the queue.
Oldest(S) == CHOOSE r \in S : \A q \in S : r <= q

FlushOne(w) ==
  /\ flush[w] # {}
  /\ Ingest(Oldest(flush[w]), told[w][2])
  /\ flush' = [flush EXCEPT ![w] = @ \ {Oldest(@)}]
  /\ UNCHANGED <<checkpoint, worker, queue, told, topic>>

\* The rest of the native handler may touch the player's row; what it stores
\* has an identity of its own.
FinishNative(w) ==
  /\ told[w] # <<>> /\ flush[w] = {}
  /\ Upsert(told[w][1], told[w][2]) \/ UNCHANGED players
  /\ told' = [told EXCEPT ![w] = <<>>]
  /\ UNCHANGED <<stored, checkpoint, worker, queue, flush, history, topic>>

-----------------------------------------------------------------------------

\* Readings that are only in memory.
InHand == IF step \in {"lookup", "enqueue", "ingest"} THEN {Hand} ELSE {}
InMemory == InHand \cup waiting \cup UNION {flush[w] : w \in Native}

\* The exporter stops and starts again: newPgStore.
Crash ==
  /\ Fault
  /\ gone' = gone \cup InMemory
  /\ position' = checkpoint /\ step' = "idle" /\ identity' = Nobody
  /\ known' = Preloaded(players) /\ waiting' = {} /\ total' = 0
  /\ told' = [w \in Native |-> <<>>] /\ flush' = [w \in Native |-> {}]
  /\ UNCHANGED <<db, readings, queued, topic>>

ExporterStep == ReadLine \/ InsertPlayerless \/ LookUp \/ Enqueue \/ IngestLine \/ Publish

NativeStep ==
  \E w \in Native : \/ \E u \in Names, s \in Ids : Remember(w, u, s)
                    \/ FlushOne(w) \/ FinishNative(w)

StoreNext == ExporterStep \/ EndPoll \/ NativeStep \/ Crash

Spec == Init /\ [][StoreNext]_vars

-----------------------------------------------------------------------------

\* Readings of which a row was inserted.
InRows == {row.reading : row \in stored}

\* No event is inserted twice by a race, and none vanishes unseen: whatever
\* the interleaving of the worker and the flushes, each reading is in exactly
\* one place (handleExporterEvent, rememberSteamID).
EveryReadingAccounted ==
  /\ Readings = InMemory \cup InRows \cup gone
  /\ InMemory \cap InRows = {} /\ InMemory \cap gone = {} /\ InRows \cap gone = {}
  /\ InHand \cap waiting = {}
  /\ \A w \in Native : flush[w] \cap (waiting \cup InHand) = {}
  /\ \A w, v \in Native : w # v => flush[w] \cap flush[v] = {}
  /\ \A x, y \in stored : x.reading = y.reading => x = y

\* The counter agrees with the queue at all times, so that the two limits hold
\* and the queue does not fill up with events that are no longer in it
\* (enqueuePendingExporterEvent, evictExpiredPendingLocked, rememberSteamID).
QueueBounded ==
  /\ total = Cardinality(waiting) /\ total <= GlobalMax
  /\ \A u \in Names : Cardinality(Of(u)) <= PerUserMax

\* An event is stored under a SteamID that a native log has told for its
\* player's name, or without one if it has no player: never under the value
\* Lua wrote, also across a restart (the hard rule of rememberSteamID).
StoredAsNative ==
  \A row \in stored :
    LET u == Author(row.reading)
    IN  IF u = Nobody THEN row.id = Nobody ELSE <<u, row.id>> \in Accounts

\* A known player's event waits only if its lookup came before the SteamID was
\* told: at most one, the one that was in hand then.
StragglerOnly ==
  \A u \in Names : known[u] # Nobody =>
    Cardinality(Of(u) \cup {r \in InHand : step = "enqueue" /\ Author(r) = u}) <= 1

-----------------------------------------------------------------------------
(* Refinement.                                                             *)

Cursor == INSTANCE TailCursor
  WITH Logs <- {1}, read <- [l \in {1} |-> position], checkpoint <- [l \in {1} |-> checkpoint]

\* The worker of ExporterLog.txt follows it as LogTail follows any log.
FollowsCursor == Cursor!Spec
=============================================================================
