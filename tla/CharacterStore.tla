--------------------------- MODULE CharacterStore ---------------------------
(***************************************************************************)
(* The characters of one player in the event store.  The pipeline of       *)
(* PerkLog.txt creates characters and buries them, and meanwhile every     *)
(* pipeline books events on the character that activeCharacter finds (the  *)
(* native ones also when they learn an identity and flush the events that  *)
(* waited for it).  Each SQL statement and each section under the mutex is *)
(* an action of its own: there is no transaction around them.              *)
(*                                                                         *)
(* Players share nothing but the map, so that one of them is modelled.     *)
(* What is stored about the character that was found is left out here;     *)
(* CharacterStats takes it up.                                             *)
(*                                                                         *)
(* An operator A_B is a faulty variant of A, kept to show that the runs    *)
(* tell the two apart; no specification uses it.                           *)
(***************************************************************************)
EXTENDS Naturals, FiniteSets

CONSTANTS
  Workers,    \* the pipelines
  Perk,       \* the one that reads PerkLog.txt
  MaxLines,   \* bound on the creations and deaths in that log
  MaxFaults   \* bound on everything that goes wrong in a behaviour

ASSUME StoreAssumption == Perk \in Workers /\ MaxLines \in Nat /\ MaxFaults \in Nat

VARIABLES
  rows,        \* characters of the player: 1..rows are their numbers
  alive,       \* those with is_alive
  cache,       \* activeCharBySteamID of the player, 0 if there is none
  op, pc,      \* what each worker handles, and its next statement
  id,          \* the character it has found, or the number it has for a new one
  cold,        \* 1 if PerkLog.txt begins in the middle of a life
  line,        \* lines of it that have been begun
  checkpoint,  \* those behind the checkpoint when the process started
  adopted, stale, faults
               \* history: characters made up by activeCharacter, entries put in
               \* the cache that were out of date, failed statements and stops

db == <<rows, alive>>
work == <<op, pc, id>>
log == <<cold, line, checkpoint>>
history == <<adopted, stale, faults>>
vars == <<db, cache, work, log, history>>

Characters == 1..rows

TypeOK ==
  /\ rows \in Nat /\ alive \subseteq Characters
  /\ cache \in 0..rows
  /\ op \in [Workers -> {"none", "created", "died", "event"}]
  /\ pc \in [Workers -> {"idle", "cache", "alive", "recent", "max", "insert",
                         "remember", "update", "forget"}]
  /\ id \in [Workers -> 0..(rows + 1)]
  /\ cold \in {0, 1} /\ line \in Nat /\ checkpoint \in 0..line
  /\ adopted \in Nat /\ stale \in Nat /\ faults \in Nat

\* Lines of PerkLog.txt: after a creation comes a death.
Creates(n) == (n + cold) % 2 = 1

\* Before this process: no history, or one character.
Init ==
  /\ cold \in {0, 1} /\ rows \in {0, 1}
  /\ alive = (IF cold = 1 THEN 1..rows ELSE {})
  /\ cache = (IF cold = 1 THEN rows ELSE 0)
  /\ op = [w \in Workers |-> "none"] /\ pc = [w \in Workers |-> "idle"]
  /\ id = [w \in Workers |-> 0]
  /\ line = 0 /\ checkpoint = 0
  /\ adopted = 0 /\ stale = 0 /\ faults = 0

\* Highest number in a set of characters.
Last(S) == CHOOSE c \in S : \A d \in S : d <= c

\* The character an event belongs to: the last living one, or else the last.
Current == IF alive # {} THEN Last(alive) ELSE rows

Fault == faults < MaxFaults /\ faults' = faults + 1

\* A worker goes on to statement p with character c, or has handled its line.
Move(w, c, p) ==
  /\ pc' = [pc EXCEPT ![w] = p]
  /\ op' = [op EXCEPT ![w] = IF p = "idle" THEN "none" ELSE @]
  /\ id' = [id EXCEPT ![w] = IF p = "idle" THEN 0 ELSE c]

-----------------------------------------------------------------------------

Begin(w, o, p) ==
  /\ pc[w] = "idle"
  /\ op' = [op EXCEPT ![w] = o] /\ pc' = [pc EXCEPT ![w] = p]
  /\ UNCHANGED <<db, cache, id, cold, checkpoint, history>>

\* handleCreatedPlayer or handleDied.
ReadPerkLine ==
  /\ line < MaxLines
  /\ line' = line + 1
  /\ IF Creates(line + 1) THEN Begin(Perk, "created", "max") ELSE Begin(Perk, "died", "cache")

\* handleLogin, handleLevelChanged, handleSkills; handleExporterEvent or a flush
\* in rememberSteamID with ingestExporterEvent.
Ingest(w) == Begin(w, "event", "cache") /\ UNCHANGED line

\* activeCharacter looks in the cache, for a living character, for any, and makes
\* one up for a player without history.  A query that fails is taken for one that
\* found nothing.
Resume(o) == IF o = "died" THEN "update" ELSE "idle"

CacheLookup(w) ==
  /\ pc[w] = "cache"
  /\ IF cache # 0 THEN Move(w, cache, Resume(op[w])) ELSE Move(w, 0, "alive")
  /\ UNCHANGED <<db, cache, log, history>>

FindAlive(w) ==
  /\ pc[w] = "alive"
  /\ IF alive # {} THEN Move(w, Last(alive), "remember") ELSE Move(w, 0, "recent")
  /\ UNCHANGED <<db, cache, log, history>>

FindRecent_Next(w) ==
  /\ pc[w] = "recent"
  /\ IF rows # 0 THEN Move(w, rows + 1, "remember") ELSE Move(w, 0, "max")
  /\ UNCHANGED <<db, cache, log, history>>
FindRecent(w) ==
  /\ pc[w] = "recent"
  /\ IF rows # 0 THEN Move(w, rows, "remember") ELSE Move(w, 0, "max")
  /\ UNCHANGED <<db, cache, log, history>>

QueryFails(w) ==
  /\ pc[w] \in {"alive", "recent"} /\ Fault
  /\ Move(w, 0, IF pc[w] = "alive" THEN "recent" ELSE "max")
  /\ UNCHANGED <<db, cache, log, adopted, stale>>

\* The next free number, here and in handleCreatedPlayer ...
NextNumber(w) ==
  /\ pc[w] = "max"
  /\ Move(w, rows + 1, "insert")
  /\ UNCHANGED <<db, cache, log, history>>

\* ... and the INSERT of a living character, unless the number is no longer free.
InsertCharacter_Unannounced(w) ==
  /\ pc[w] = "insert" /\ id[w] = rows + 1
  /\ rows' = rows + 1 /\ alive' = alive \cup {rows + 1}
  /\ adopted' = (IF op[w] = "created" THEN adopted ELSE adopted + 1)
  /\ Move(w, id[w], Resume(op[w]))
  /\ UNCHANGED <<cache, log, stale, faults>>
InsertCharacter_NotAlive(w) ==
  /\ pc[w] = "insert" /\ id[w] = rows + 1
  /\ rows' = rows + 1 /\ alive' = alive
  /\ adopted' = (IF op[w] = "created" THEN adopted ELSE adopted + 1)
  /\ Move(w, id[w], "remember")
  /\ UNCHANGED <<cache, log, stale, faults>>
InsertCharacter(w) ==
  /\ pc[w] = "insert" /\ id[w] = rows + 1
  /\ rows' = rows + 1 /\ alive' = alive \cup {rows + 1}
  /\ adopted' = (IF op[w] = "created" THEN adopted ELSE adopted + 1)
  /\ Move(w, id[w], "remember")
  /\ UNCHANGED <<cache, log, stale, faults>>

NumberTaken(w) ==
  /\ pc[w] = "insert" /\ id[w] # rows + 1
  /\ Move(w, 0, "idle")
  /\ UNCHANGED <<db, cache, log, history>>

\* The cache is written under the mutex, but with what was read before.
RememberCharacter(w) ==
  /\ pc[w] = "remember"
  /\ cache' = id[w]
  /\ stale' = (IF id[w] = Current THEN stale ELSE stale + 1)
  /\ Move(w, id[w], Resume(op[w]))
  /\ UNCHANGED <<db, log, adopted, faults>>

\* handleDied: the UPDATE, and then the cache.
Bury ==
  /\ pc[Perk] = "update"
  /\ alive' = alive \ {id[Perk]}
  /\ Move(Perk, id[Perk], "forget")
  /\ UNCHANGED <<rows, cache, log, history>>

Forget ==
  /\ pc[Perk] = "forget"
  /\ cache' = 0
  /\ Move(Perk, 0, "idle")
  /\ UNCHANGED <<db, log, history>>

\* A statement fails: the handler logs it and returns, and the line counts as
\* handled.  ("cache" and "max": also upsertPlayer, which handleDied does not call.)
GiveUp(w) ==
  /\ pc[w] \in {"max", "insert", "update"} \/ (pc[w] = "cache" /\ op[w] # "died")
  /\ Fault
  /\ Move(w, 0, "idle")
  /\ UNCHANGED <<db, cache, log, adopted, stale>>

\* The process stops and starts again: loadActiveCharacters fills the cache with
\* a living character, the last one that the query returns.  PerkLog.txt is read
\* again from its checkpoint, which is behind any line that was handled.
Restart ==
  /\ Fault
  /\ cache' \in (IF alive = {} THEN {0} ELSE alive)
  /\ stale' = (IF cache' \in {0, Current} THEN stale ELSE stale + 1)
  /\ op' = [w \in Workers |-> "none"] /\ pc' = [w \in Workers |-> "idle"]
  /\ id' = [w \in Workers |-> 0]
  /\ \E n \in checkpoint..(IF op[Perk] \in {"created", "died"} THEN line - 1 ELSE line) :
       checkpoint' = n /\ line' = n
  /\ UNCHANGED <<db, cold, adopted>>

Lookup(w) == CacheLookup(w) \/ FindAlive(w) \/ FindRecent(w) \/ QueryFails(w)
Create(w) == NextNumber(w) \/ InsertCharacter(w) \/ NumberTaken(w) \/ RememberCharacter(w)

Next ==
  \/ \E w \in Workers : Ingest(w) \/ Lookup(w) \/ Create(w) \/ GiveUp(w)
  \/ ReadPerkLine \/ Bury \/ Forget
  \/ Restart

Spec == Init /\ [][Next]_vars

-----------------------------------------------------------------------------
(* Safety.                                                                 *)

\* Without any of them the database agrees with PerkLog.txt between two of its
\* lines, whatever the other pipelines are in the middle of: after a creation the
\* new character is the living one, and after a death nobody is.
AliveAsLogged ==
  adopted + stale + faults = 0 /\ op[Perk] \notin {"created", "died"} /\ line > 0 =>
    alive = (IF Creates(line) THEN {rows} ELSE {})

\* What the cache holds is the character events belong to now, except between the
\* two halves of a creation or a death.
CacheIsCurrent ==
  stale = 0 => \/ cache \in {0, Current}
               \/ pc[Perk] = "forget"
               \/ \E w \in Workers : pc[w] = "remember" /\ id[w] = Current

\* Where the handlers are: only the pipeline of PerkLog.txt creates and buries, and
\* what a handler remembers or buries is a character.
PlacesInv ==
  /\ \A w \in Workers : /\ op[w] = "none" <=> pc[w] = "idle"
                        /\ op[w] \in {"created", "died"} => w = Perk
                        /\ pc[w] \in {"update", "forget"} => op[w] = "died"
                        /\ pc[w] \in {"remember", "update"} => id[w] \in Characters
  /\ op[Perk] = "created" => pc[Perk] \in {"max", "insert", "remember"}

\* Without any fault: where PerkLog.txt and the database are while one of its lines
\* is handled, and what its handler holds.
Calm == adopted + stale + faults = 0

Logged(n) == IF Creates(n) /\ (n > 0 \/ rows > 0) THEN {rows} ELSE {}

CalmInv ==
  Calm =>
    /\ \/ cache \in {0, Current}
       \/ pc[Perk] = "forget"
       \/ pc[Perk] = "remember" /\ id[Perk] = Current
    /\ pc[Perk] = "insert" => id[Perk] = rows + 1
    /\ op[Perk] \in {"none", "event"} => alive = Logged(line)
    /\ op[Perk] = "created" =>
         /\ line > 0 /\ Creates(line)
         /\ IF pc[Perk] = "remember" THEN alive = {rows} /\ id[Perk] = rows ELSE alive = {}
    /\ op[Perk] = "died" =>
         /\ line > 0 /\ ~ Creates(line)
         /\ alive = (IF pc[Perk] = "forget" THEN {} ELSE Logged(line - 1))
         /\ pc[Perk] \in {"remember", "update"} => id[Perk] = rows

\* What activeCharacter, handleCreatedPlayer and handleDied may rely on between two of
\* their statements (store_postgres.go), while other pipelines run theirs.
HandlerInv == PlacesInv /\ CalmInv

\* Without any of the faults the player never has two living characters, not even in
\* the middle of a line: a creation follows a death, and the death is in the database
\* before the cache forgets it (handleCreatedPlayer, handleDied, activeCharacter).
OneLife == Calm => \A c, d \in alive : c = d

-----------------------------------------------------------------------------
(* Refinement.                                                             *)

Cursor == INSTANCE TailCursor
  WITH Logs <- {1}, read <- [l \in {1} |-> line], checkpoint <- [l \in {1} |-> checkpoint]

\* PerkLog.txt is followed as LogTail follows any log.
FollowsCursor == Cursor!Spec
=============================================================================
