# TLA+ for zomboid-exporter

Specifications of the parts of zomboid-exporter in which several actors meet a
database, files, a topic, a game server or an HTTP service that may each fail or
stop at any moment: the quest engine, the transport of its jobs into the game
and back, the tailing of the game's logs, the identity of players, their
characters and statistics in the event store, and in the Discord bot the
milestones, the providers of language models and who may do what. TLC checks
them on small instances (`*.cfg`), and TLAPS proves the safety invariants for
every value of the constants (`*Proofs.tla`).

Paths below are relative to the repository's root.

## 1. The system

One Go process, the **exporter**, runs next to a Project Zomboid server. It
reads the logs that the game and two Lua mods write, stores what happened in
PostgreSQL (or SQLite), and drives a quest engine whose results go back into
the game through files that a Lua mod polls. A second Go process, the
**Discord bot**, reads the same database and the exporter's MQTT events.

```
 game (Java)  --PerkLog, connections-->  +-- tail pipelines --> event store --> characters, stats
 mod ExporterLog --ExporterLog-------->  |                         |
 mod ThoseWhoRemain --ThoseWhoRemainLog> +-- receipts, results --> twr_* tables
      ^                                                            ^    |
      |  inbox/job-<id>.txt, manifest.txt                          |    v
      +---------------- quest dispatch <---- twr_jobs <------- quest engine
 Discord bot <-- MQTT, database
```

| Part | Code | State | Operations | Talks to | What makes it correct |
|---|---|---|---|---|---|
| Quest engine | `questengine.go` | `twr_step_instances`, `twr_quest_instances`, `twr_jobs`, `twr_signals`, `twr_signal_cursors` | `qeTick` = signals from events, arming of activation steps, evaluation of signals, reconciliation | database only | a step triggers once, for a reason, in graph order; a batch of jobs is whole; no signal is missed; proven steps complete |
| Quest dispatch | `questdispatch.go` | `twr_jobs.status`, leases, `inbox/`, `manifest.txt` | renew expired leases, claim QUEUED rows, write files, publish | database, files | every job reaches the game, however often a write fails |
| Mod: poller | `QuestEngine.lua` | ledger `twr_quest_job_seen` in the game's save | read the manifest, validate, request an action, emit receipts | files, pending actions, log | a job delivered twice is applied once |
| Mod: pending actions | `PendingActions.lua`, `Emit.lua` | global objects in the game's save | request, chunk loaded, sweep at boot, resolve | game map, log | an action is applied once, when its target is there, also after a restart |
| Mod: mechanics | `Mechanics/*.lua` | the game's map | one resolver per action type | game map | the change is made or an error reported |
| Receipts and results | `twrlog.go`, `handleTWRJob*` | `twr_job_attempts`, `twr_jobs.status` | accepted, result | log, database | a row never moves backwards, the first result wins |
| Log tailing | `perklog.go`, `connections.go`, `exporterlog.go`, `twrlog.go` | `processed_files`, the files already finished | poll: list, stat, read, handle, checkpoint | files, database | no line passed over, order kept, repeats only for a reason |
| Event store | `store_postgres.go`, `store_sqlite.go` | players, characters, events; caches of identities and living characters; queue of events without identity | one handler per event type | three pipelines, one mutex | an event is booked on the character that lived it; the database agrees with the log about who is alive |
| Character statistics | `characterstats.go` | columns and breakdown rows of a character, `stats_finalized` | increment, finalise, reconcile | event store | the row equals what its events add up to |
| Collector, MQTT, web pages | `main.go`, `mqtt.go`, `webui.go` | counters | read and publish | - | - |
| Mod: ExporterLog trackers | `ExporterLog/Trackers/*.lua` | last values per player | callbacks of the game | log | a delta is reported once |
| Bot: language model | `curator_llm*.go` | the table of providers, the list in use, health per provider, budget | refresh, reply with fallback, record | database, HTTP | a provider is left alone for its own failures and not longer than they ask for; the budget holds on every surface |
| Bot: conversation | `curator_*.go` | cooldowns, links to players, topics | routing, identity, wording | Discord, database | every question is answered; nobody is taken for somebody else |
| Bot: milestones | `milestones.go`, `events.go` | `discordbot_milestone_hits` | check, record, announce | MQTT, the exporter's events, Discord | announced at most once, and only if earned |
| Bot: roles and commands | `roles.go`, `commands.go` | `discordbot_user_roles` | bootstrap, authorize, block, unblock | database, Discord, RCON | a demotion survives restarts |

**What is hard here.** Every pipeline is a sequence of single SQL statements
without a surrounding transaction, so a stop or an error can fall between any
two of them. The database, the files, the game's memory and the game's save
are four memories with four different crash behaviours. Deliveries are
repeated on purpose (leases, replayed log lines, repeated receipts). The game
offers an action's target only as an event that is seen once. `PROJECT.json`
lists these as hazards, each with its line and with the properties that would
catch it; a note says where a property excepts what the code really does, or
covers it in part.

## 2. Modules

| Module | Models | Composes |
|---|---|---|
| `QuestEngine` | `qeTick` and everything below it, one action per statement | environment actions for what dispatch and receipts do to the rows |
| `JobLifecycle` | the promise of the transport, without the transport: no row goes back, one change in the world, the first result stays | - |
| `JobDelivery` | dispatch, dispatch directory, Lua poller, pending actions, game saves and crashes, log, receipts | implements `JobLifecycle` |
| `QuestSystem` | the quest engine and the transport of its jobs as one system | composes `QuestEngine` and `JobDelivery` |
| `TailCursor` | what following a log promises, whatever is done with its lines | - |
| `GameLogs` | the log files, as the game writes them | - |
| `LogTail` | one tail pipeline, in both disciplines | extends `GameLogs`, implements `TailCursor` |
| `PendingEvents` | identity in the event store: the map of names, the queue of events without identity, their publication | implements `TailCursor` |
| `Milestones` | the bot's handler of messages, with the exporter and the topic | extends `PendingEvents` |
| `CharacterStore` | the characters of one player, under the handlers of all pipelines | implements `TailCursor` |
| `CharacterStats` | the statistics of one character | - |
| `ProviderPool` | the providers of language models: table, refresh, health, requests | - |
| `Curator` | questions to the Curator on both surfaces, their pacing and budget | extends `ProviderPool` |
| `BotAccess` | roles, links between Discord users and players, the commands that change them | - |
| `MC*` | the instances that TLC checks | - |
| `*Proofs` | theorems and proofs | - |

An operator named `A_B` is a faulty variant of `A`: a mistake someone could
make in that code. No specification uses it; each is there because one of the
properties is known to fail with it in A's place.

### QuestEngine

The rows are functions over the constant sets `Steps`, `Quests` and `Jobs`; the
graph (`Edges`), the triggers, scopes and conditions are constants, since the
engine never writes them. `phase` is the function of `qeTick` being run, `at`
the statement in it, `todo`, `cur`, `adv`, `sig`, `last` its locals.

| Action | Code |
|---|---|
| `PollSignal`, `PollDone` | `qePollSleepSignals`, `qePollMediaPlaybackSignals`: a row of `twr_signals` |
| `ArmQuery`, `ArmLocked`, `TriggerActivated`, `ArmDone` | `qeArmCampaignActivationSteps` |
| `EvalQuery`, `NextSignal`, `TriggerMatched`, `SignalDone`, `SetCursor` | `qeEvaluateArmedSteps`, `qeEvaluateOneSignal` |
| `TriggerStep` (inside the two) | `qeTriggerStep`: one transaction for the step and its batch |
| `Advance`, `ArmSuccessor` | `qeAdvanceAfterCompletion` |
| `ReconcileApplied`, `MaybeComplete`, `ReconcileDone` | `qeReconcileAppliedJobs`, `qeMaybeCompleteStep` |
| `Error` | a statement fails: `qeTick` logs it and calls the next function |
| `Crash`, `Restart` | the process stops between two statements; `runQuestEnginePipeline` starts with a reconciliation |
| `EnvDispatch`, `EnvAccept`, `EnvAttempt` | what dispatch and receipts do to `twr_jobs` and `twr_job_attempts` |

A signal is `[type, steam, payload]`; a condition is the set of payloads it
accepts, whether this build knows its type, and whether it is negated. The
cursors of the two signal sources are left out (a signal is created once, at
any time); `cursor` is the evaluator's.

### JobDelivery

`status` and `attempt` are the rows, `at`/`work` the dispatcher, `inbox` and
`manifest` the shared directory, `polled` the poll in progress, `seen` the
ledger, `pending` the pending actions, `loaded` the targets in the map,
`effect` what is in the world, `saved` what the game would come back with, and
`log` the lines between the game and the checkpoint of the tail.

| Action | Code |
|---|---|
| `SelectStale`, `Renew` | `qdRedispatchStaleLeases` |
| `Claim`, `WriteJobFile`, `WriteFails` | `qdDispatchQueuedJobs`, `qdWriteJobFile` |
| `ListDispatched`, `Publish`, `TickAborted` | `qdPublishManifest`, `qdTick` |
| `Poll`, `SkipFile`, `RepeatReceipt`, `RequestAction` | `pollDispatch`, `processJobFile`, `PendingActions.request` |
| `TargetLoaded`, `SweepOnBoot` | `onObjectLoaded`, `sweepPendingOnBoot` |
| `TargetUnloaded`, `Save`, `GameRestart`, `GameCrash` | the game server (external) |
| `ReadAccepted`, `ReadResult` | `pollTWROnce` with `handleTWRJobAccepted`, `handleTWRJobResult`; the line may be read again. `JobLifecycle` has `attempt` too, so that a later result in place of the first, or a receipt in place of a result, is no step of it |
| `CreateJobs`, `Reconcile` | the quest engine's side |

Assumed of the game: the callbacks of one Lua state run one after the other,
and a save holds the map, the global objects and the mod data of one moment.
The order of log lines is left open here, so that everything holds for any
order; `LogTail` models the order.

### QuestSystem

The two modules above meet in the rows of `twr_jobs` and `twr_job_attempts` and
in nothing else. Each leaves the other side open: `EnvDispatch`, `EnvAccept` and
`EnvAttempt` let any job be dispatched, accepted and answered, `CreateJobs` and
`Reconcile` let any rows appear and be reconciled. Here the open ends are gone.
The rows are the same variables, every step is a step of one side, and what it
does to the other's variables is what the code does.

| Action | Code |
|---|---|
| `EngineMoves` | `runQuestEnginePipeline`: a statement of `qeTick`, or one that fails |
| `ExporterMoves` | `runQuestDispatchPipeline` and `runTWRLogPipeline`, goroutines of the same process (`main.go:374-378`), while it runs |
| `GameMoves` | the mod in the game server, its players, its saves and crashes |
| `ExporterStops` | the process ends: the engine between two statements, and the tick of the dispatcher with it |

### TailCursor, GameLogs and LogTail

`setFileOffset` overwrites the checkpoint with any number it is given
(`store_postgres.go:1027`, `store_sqlite.go:1066`), so that nothing but the loop
around it keeps a checkpoint from going back or from getting ahead.
`TailCursor` states that much and no more: `Advance` over a line, `Store` a
number between the last checkpoint and what was read, `GoBack` to such a number.
`LogTail` implements it with `ReadSoFar`. `PendingEvents` and `CharacterStore`
leave the loop out and have a position in their log instead, and they implement
it as well: `FollowsCursor` in each says that the lines they lose and repeat
are those `LogTail` can lose and repeat.


`lines[f]` and `tail[f]` are the complete lines of a session's file and
whether it ends in an unfinished one. Four pipelines run the same loop over
four kinds of files and share nothing but the database (the checkpoints have
different keys), so one pipeline is modelled, of either discipline: telemetry
goes on when a handler's INSERT fails, control lines (`pollTWROnce`) stop
their file there. A position in a file is counted in lines, its size in half
lines, so that "the size taken before reading" and "behind the last complete
line" differ.

| Action | Code |
|---|---|
| `ListFiles`, `SkipDone`, `CaughtUp`, `Grown` | the head of `pollOnce`, `pollConnectionsOnce`, `pollExporterOnce`, `pollTWROnce` |
| `ReadLines` | `readNewLines`, `readNewConnectionsLines`, `readNewExporterLines`, `readNewTWRLines` |
| `SkipMalformed`, `HandleEvent`, `StatementFails` | the loop over the lines and the handlers' outcome |
| `Checkpoint` | `setFileOffset`, which may fail, and `done` |
| `Unreadable` | `os.Stat`, `getFileOffset` or the read fails |
| `Restart` | the process stops, or its context is cancelled between two events |
| `GameStep` | the game writes on (external) |

### CharacterStore

`rows` and `alive` are the player's characters, `cache` his entry in
`activeCharBySteamID`. Each pipeline is a worker with the line it handles (`op`),
its next statement (`pc`) and the character it has found (`id`). PerkLog.txt is
an alternation of creations and deaths, which may begin in the middle of a life
(`cold`). The PostgreSQL and the SQLite store run the same statements in the
same order, and the module stands for both.

| Action | Code |
|---|---|
| `ReadPerkLine`, `Ingest` | a handler begins: `handleCreatedPlayer`, `handleDied`; any other one, or the flush of a waiting event |
| `CacheLookup`, `FindAlive`, `FindRecent`, `QueryFails` | the lookups of `activeCharacter` |
| `NextNumber`, `InsertCharacter`, `NumberTaken` | its cold start, and `handleCreatedPlayer` |
| `RememberCharacter` | the cache is written |
| `Bury`, `Forget` | `handleDied`: the UPDATE, then the cache |
| `GiveUp` | a statement fails, and the handler returns |
| `Restart` | stop and start: `loadActiveCharacters`, PerkLog.txt from its checkpoint |

### CharacterStats

`column` stands for the thirteen aggregate columns and `breakdown` for the rows
of `character_stat_breakdown`, both counted in events; `events` and `newest` are
what the events add up to. `rec` is the reconciliation: what it has read, and
where it is. `missed`, `torn` and `skewed` are history: they name the reasons
for which row and events may differ.

| Action | Code |
|---|---|
| `InsertEvent`, `AddToColumn`, `TooLate`, `AddToBreakdown` | `ingestExporterEvent`, `applyCharacterStatDelta` |
| `InsertPlain`, `SetLastAt` | the same for an event without statistics |
| `InsertOther` | the events of the other handlers |
| `Die`, `Finalize` | `handleDied`; `finalizeDeadCharacters`, `finalizeStaleCharacters` |
| `ReadEvents`, `RowAgrees`, `RowDrifted`, `RepairColumn`, `RepairBreakdown` | `reconcileCharacterStats` |
| `HandlerFails`, `ReconcileFails` | a statement fails |
| `Restart` | stop and start: `runStartupCharacterStatsBackfill` before the pipelines |

### PendingEvents

The Lua mod cannot write a SteamID exactly, so an event of ExporterLog.txt is
stored under the one that native logs have told for its player's name. `known`
is `steamIDByUsername`, `waiting` and `total` are `pendingByUsername` and
`pendingTotal`, `flush[w]` the events that native worker `w` has taken out of
the queue and inserts one by one without holding the mutex. `readings` numbers
each time a line is read, so that a line that is read again after a failed
checkpoint or a crash is a reading of its own, and a set of readings is a queue.
`gone` is history: the readings that were dropped, failed or lost.

| Action | Code |
|---|---|
| `ReadLine`, `EndPoll` | `pollExporterOnce`, and its checkpoint, which may fail |
| `InsertPlayerless`, `LookUp` | `handleExporterEvent`, `canonicalSteamID`; an event without a player goes out too, with an empty SteamID |
| `Enqueue` | `enqueuePendingExporterEvent` with `evictExpiredPendingLocked` |
| `IngestLine`, `Publish` | `ingestExporterEvent` with `upsertPlayer` in one step (its character is the matter of `CharacterStore`); `publish` |
| `Remember`, `FlushOne`, `FinishNative` | `rememberSteamID`: its locked section and its loop; the rest of a native handler |
| `Crash` | stop and start: `preloadCanonicalSteamIDs`, the log from its checkpoint |

### Milestones

The bot reads the exporter's `events` table when a message arrives, so the
module extends `PendingEvents` and takes its messages from `topic`. `hits` is
`discordbot_milestone_hits`; `message`, `todo` and `found` are the locals of the
handler; `posts` counts the announcements. The log is that of one type of event,
which passes the filters of the milestones of its type (`event_type`,
`filter_field`); a message without a SteamID has no candidates.

| Action | Code |
|---|---|
| `Receive` | `newMQTTHandler`, and the query of `checkMilestones` for candidates |
| `Evaluate` | its loop: the value of the event or the counting query, and the INSERT; after a statement that fails the loop continues |
| `QueryFails` | the query of the candidates fails or breaks off, or the five seconds of the context are over and with them all that is left |
| `Announce`, `HandlerReturns` | the loop of the handler over what was recorded |
| `MessageLost`, `BotRestart` | quality of service 0; stop and start of the bot |

### ProviderPool and Curator

`table` is `discordbot_llm_providers` as an operator edits it; `readRows`,
`phase` and `todo` are `refreshOnce`, which changes the health of each provider
by name, row by row, and replaces the list at the end. A question takes the list
and the time once (`list`, `start`), asks one provider after the other, and
books each result under the provider's name when it arrives. `blame` is history:
the configurations whose failures are booked at the moment; `late` says whether
a result came in that belongs to another configuration than the health it went
to, `partial` whether a refresh has failed half way and none has ended since.

| Action | Code |
|---|---|
| `Edit`, `Tick` | an operator's statement; the clock (external) |
| `ReadTable`, `HandleRow`, `Swap`, `RefreshFails` (also behind the last row) | `refreshOnce`, `resolveProvider`, `markMisconfigured`, `resetHealthIfFingerprintChanged` |
| `TakeList`, `Skip`, `Ask` | `Reply`, `availableAt` |
| `Succeed`, `Fail`, `GiveUp`, `Expire` | `recordSuccess`, `recordFailure`, the errors of the adapter; the context of the request |
| `Begin` | `handleMessageCreate` with the pacing of `curatorNaturalTrigger`; the interaction handler |
| `AskLimiter` | `askCurator` and `curatorLLMLimiter.allow`; the lookup before it may link the user, which is in `BotAccess` |
| `EnterPool`, `SemanticReturns`, `ChatReturns` | `resolveCuratorSemanticStatFact`, the reply |
| `FallBack` | the fact itself, or an authored line |

### BotAccess

`roles` and `links` are the two tables, `players` the names the exporter has
stored. An interaction is a goroutine with its next statement (`state`), the
names it still has to try and the player it found. Three commands stand for all:
a question, which resolves the asker's identity, and `/block` and `/unblock`.

| Action | Code |
|---|---|
| `Start`, `SeedAdmin`, `Seeded`, `Stop` | `main`, `bootstrapAdmins`; the process ends |
| `Authorize` | `authorize`, in which a lookup that fails counts as no role |
| `Act` | `handleBlockUser`: `setUserRole`, `clearUserRole` |
| `ReadLink`, `TryName`, `NoNameLeft` | `resolveCuratorIdentity` |
| `InsertLink`, `ReadBack`, `QueryFails` | `persistAutoLink`; a statement fails |
| `Rename`, `LinkByHand` | the exporter; an administrator's own INSERT (external) |

## 3. Runs

| Run | Instance | Shows |
|---|---|---|
| `QuestEngine` | a world quest a -> b -> c with 1, 0 and 2 jobs and a player's quest d -> e, conditions that exclude each other; 2 signals; 1 fault; fairness | whole batches, proven completion, no signal passed over, triggers justified, graph order; in the end armed steps trigger in spite of the fault, and without a fault proven steps complete and lead on |
| `QuestEngineStranded` | the chain; 1 fault; fairness | **violated**: a proven step can stay resolving for ever |
| `JobDelivery` | two jobs, one of which the poller rejects; 1 fault; fairness | no job lost, implements `JobLifecycle`, every job ends |
| `LogTail` | two sessions of two lines, one malformed; 2 faults; fairness | no line passed over, repeats have a reason, order, every line settled |
| `CharacterStore` | two pipelines; 4 lines of PerkLog.txt; 2 faults | agreement with the log about who is alive, a current cache |
| `CharacterStats` | two pipelines; 3 statistics events; 2 times; 2 faults; fairness | every event is in the columns or accounted for, and in the breakdown likewise; the columns converge |
| `PendingEvents` | 4 lines, of two players and of none; one player has two accounts, the other none that a native log knows; 2 native workers; limits 2 and 2; 1 fault; symmetry in accounts and workers | each reading in one place, the counter is the queue, only native SteamIDs, at most one straggler |
| `Milestones` | one player; 3 lines, one without a player; one milestone by count (2) and one by value; 1 fault; fairness | recorded, then announced, at most once per SteamID; nothing unearned; what is earned is announced |
| `MilestoneTwice` | the same | **violated**: one player gets a milestone twice |
| `Curator` | one provider with a free and a billed credential; a question by command and one by message; clock of 2; 1 edit; fairness | a provider is left alone only for its own failures; the budget; every question is answered |
| `ProviderSuppressed` | the same | **violated**: a late failure hits the corrected provider |
| `BotAccess` | two users with overlapping names, two players, two interactions of any kind; 1 fault; 1 change from outside | identity is the link, links by a unique name, demotions stay |

**Bounds.** `MaxFaults` bounds everything that goes wrong, `MaxSignals`,
`MaxFiles`, `MaxLines`, `MaxEvents`, `MaxTime`, `MaxEdits` and `MaxOutside` what
the world does. Two signals and a chain of three let one signal arrive before,
during and after the arming of the step it matches, and let a batch be
interrupted after its first signal. Jobs do not interact except through the
loops of the dispatcher and the poller, for which two are enough; one fault
there, since each way to fail is repaired by the next tick, and the proofs cover
any number. Two files of two lines have a file finished, one growing, a new
session opened in the middle of a poll, and a checkpoint in the middle of a
file. Four lines of PerkLog.txt are two lives, so that an entry of the cache can
be left over from one and used in the other. Three statistics events let one be
on its way, one be late for a final row and one come after a repair, with two
times so that they can be out of order. A third event meets a queue at the
limit of all, two of one player at his own, and the two accounts of one name make the preload ambiguous and the two
native workers contradict each other. Three lines let a count milestone be
reached before and after the SteamID is known. One cooldown is over at the
second time of the clock and the others are not, and two questions overlap in the pool, the budget and
the pacing. They have different askers, for whom the global cooldown is the one
that counts; with one asker, where the user's own counts, `BudgetKept` was checked
apart (189 500 states, and TLC finds it violated if `Permitted` leaves that
cooldown out), and `SharedBudget` proves both. Two users with the same nickname race for one player.

**Fairness.** `EngineStep`, `DispatchStep`, `PollStep` and the reading of the
log are weakly fair: each is a ticker in a goroutine (or the game's clock) that
keeps firing, and a stopped process is started again. Faults are bounded, so
that they end. Two things need strong fairness in `JobDelivery`: the lease of a
given job expires again and again whatever other jobs do, and the sweep at boot
or a chunk load gets its turn although polls keep coming. `Visits` says that
somebody comes to a target in the end; without it a pending action may rightly
wait for ever. In `CharacterStats` the handler of each pipeline is weakly fair,
and so is the reconciliation: a ticker of 24 hours, and the backfill of the next
start. In `Milestones` the worker of ExporterLog.txt and the handler of the bot
are weakly fair and the native logs are not: they may stay silent for ever, which
is why `EarnedIsAnnounced` excepts the behaviours in which an event had to wait.
In `Curator` each question is weakly fair, since a request ends with its context
at the latest; neither the refresh nor the clock has to move.

**Without a run.** Some properties are stated for the proofs only. Each was
checked with TLC before it was proved, by adding it to the configuration of its
module's run, or as said here: `QuestEnded` and `NothingStranded` (161 602
states), `RejectedUntouched`, `OnceUnlessQueued`, `OnlyListed` (one listed user,
983 104 states), `NeverBilledUnasked`, `AnswerStays` (with the global gate
closed, 889 568 states), `OneLife`, `LastAtReal`, `FollowsCursor` in its three modules, and `QuestInWorld` and
`WorldInOrder` of `QuestSystem` (two jobs; without faults 132 448 states, with
one of them rejected 45 024; with one fault TLC found nothing wrong in
1.7 million states, and did not finish). `SystemSpec` has no run of its own for that reason:
the composition adds no statement to the two modules, each of which has one.

**Deadlock** is checked where no part may stop. `PendingEvents`, `Milestones`,
`Curator` and `BotAccess` have a finite log, or finitely many questions and
interactions, and end when those are handled; their configurations say so.

## 4. What the violations say

* **Stranded steps** (`QuestEngineStranded`, `questengine.go:725`). Comments
  45-47 and 715-718 promise a reconciliation after a restart. It finds a step
  only through the jobs its UPDATE has just changed; if the process stops or a
  statement fails before the step is completed (760), no later pass finds it.
  The same holds between the completion of a step and `qeAdvanceAfterCompletion`,
  which leaves the successors locked. `QuestGoesOn` states what does hold, and
  excepts engines that were interrupted.
* **A milestone twice** (`MilestoneTwice`, `store_postgres.go:592`).
  `milestones.go:238-240` says that a milestone fires at most once per player.
  The first events of a player may go out under the value Lua wrote, since an
  event without identity is queued and published all the same; later ones carry
  the SteamID. To the bot these are two players. `AnnouncedOnce` states what
  does hold: once under each SteamID.
* **A corrected provider stays suppressed** (`ProviderSuppressed`,
  `curator_llm.go:474`). `curator_llm.go:438-441` says that a correction takes
  effect immediately. A request that began with the old credential and is
  refused after the correction was read marks the corrected provider as
  misconfigured, for which there is no time after which it is tried again.
  `SuppressedForCause` is the claim without such late results, and without the
  other way to get there, a refresh that fails after some of its rows.

Some safety properties hold as long as something the code really does has not
happened, and say so with a history variable or a count of faults. They do not
catch that case; they show that it is the only one:

| Property | Excepts |
|---|---|
| `InOrder` | across files, a file that could not be read while the loop went on (`skips`) |
| `AliveAsLogged` | faults, a character that an event made up (`adopted`), a stale entry of the cache (`stale`) |
| `CacheIsCurrent` | a stale entry of the cache (`stale`) |
| `ColumnAccounted`, `BreakdownAccounted` | a repair in the middle of an event (`torn`, `skewed`), events that were cut off or came too late (`missed`); `RowConverges` says that the columns are set right in the end |
| `EveryReadingAccounted` | nothing, but counts what a restart takes from memory as `gone` |

Seen while modelling, and shown by no run:

* A condition of an unknown type is said to fail closed (`questengine.go:495`);
  the negation is applied afterwards (482), so that negated it passes.
  `ConditionPasses` says what the code does.
* The receipt of a job is said to be durable (`questdispatch.go:52`); it is
  emitted when the pending action is in the game's memory
  (`QuestEngine.lua:344`), and a crash before the next save loses the action
  while the row waits for its result. `NoJobLost` therefore excepts crashes of
  the game.
* Events are stored one by one and the checkpoint once, behind the last
  (`perklog.go:256`): a stop in between stores them again. `RepeatsAreFaults`
  bounds how often.
* The daily repair compares the columns of a character and not its breakdown
  (`store_postgres.go:837`): an event cut off between the two stays so.
  `BreakdownAccounted` states what does hold.
* A player may have two living characters without any fault: his first event
  may be handled before his creation line, `activeCharacter` then makes up
  character 1, and the creation adds character 2. `AliveAsLogged` names the
  conditions under which log and table agree.
* `/unblock` deletes the row of any user, an administrator's too
  (`commands.go:243`). When it deletes the last one, the next start finds an
  empty table and seeds the configured administrators again (`roles.go:54`);
  `DemotedStays` excepts this.

## 5. Proofs

| Theorem | States |
|---|---|
| `QuestEngineProofs!TypeCorrect` | `TypeOK` |
| `QuestEngineProofs!Completion` | `CompletedIsProven` |
| `QuestEngineProofs!WholeBatches` | `BatchWithStep` |
| `QuestEngineProofs!GraphOrder` | `UnlockedByPredecessor` |
| `QuestEngineProofs!Justification` | `TriggerJustified` |
| `QuestEngineProofs!NoMissedSignal` | `NoSignalMissed` |
| `QuestEngineProofs!TickMeaning` | `TickInv` |
| `QuestEngineProofs!Monotonic` | `NeverBackwards` |
| `QuestEngineProofs!QuestEnd` | `QuestEnded` |
| `QuestEngineProofs!OnlyFaultsStrand` | `NothingStranded` |
| `QuestEngineProofs!Composition` | `PartsKept` |
| `QuestEngineProofs!EndToEnd` | `QuestInWorld` |
| `QuestEngineProofs!CauseBeforeChange` | `WorldInOrder` |
| `JobDeliveryProofs!TypeCorrect` | `TypeOK` |
| `JobDeliveryProofs!Delivery` | `DeliveryInv` |
| `JobDeliveryProofs!NoneLost` | `NoJobLost` |
| `JobDeliveryProofs!Implementation` | `ImplementsLifecycle` |
| `JobDeliveryProofs!RejectedNeverApplied` | `RejectedUntouched` |
| `LogTailProofs!TypeCorrect` | `TypeOK` |
| `LogTailProofs!NoneSkipped` | `NothingPassedOver` |
| `LogTailProofs!Repeats` | `RepeatsAreFaults` |
| `LogTailProofs!Order` | `InOrder` |
| `LogTailProofs!PollMeaning` | `PollInv` |
| `LogTailProofs!OneCursor` | `FollowsCursor` |
| `CharacterStoreProofs!TypeCorrect` | `TypeOK` |
| `CharacterStoreProofs!CurrentCache` | `CacheIsCurrent` |
| `CharacterStoreProofs!LogAgreement` | `AliveAsLogged` |
| `CharacterStoreProofs!HandlerMeaning` | `HandlerInv` |
| `CharacterStoreProofs!NeverTwoLives` | `OneLife` |
| `CharacterStoreProofs!PerkCursor` | `FollowsCursor` |
| `CharacterStatsProofs!TypeCorrect` | `TypeOK` |
| `CharacterStatsProofs!ColumnSum` | `ColumnAccounted` |
| `CharacterStatsProofs!BreakdownSum` | `BreakdownAccounted` |
| `CharacterStatsProofs!FinalStays` | `FinalIsFinal` |
| `CharacterStatsProofs!RepairMeaning` | `RepairInv` |
| `CharacterStatsProofs!LastEventIsReal` | `LastAtReal` |
| `MilestonesProofs!TypeCorrect` | `TypeOK` |
| `MilestonesProofs!NativeIdentity` | `StoredAsNative` |
| `MilestonesProofs!Accounting` | `EveryReadingAccounted` |
| `MilestonesProofs!Bounds` | `QueueBounded` |
| `MilestonesProofs!LeftInQueue` | `StragglerOnly` |
| `MilestonesProofs!BotTypeCorrect` | `BotTypeOK` |
| `MilestonesProofs!NotTwice` | `AnnouncedOnce` |
| `MilestonesProofs!ExporterCursor` | `FollowsCursor` |
| `MilestonesProofs!NothingUnearned` | `HitJustified` |
| `MilestonesProofs!OneIdentity` | `OnceUnlessQueued` |
| `BotAccessProofs!TypeCorrect` | `TypeOK` |
| `BotAccessProofs!LinkedIdentity` | `IdentityIsLink` |
| `BotAccessProofs!NoRepromotion` | `DemotedStays` |
| `BotAccessProofs!LinkIsUnique` | `LinkedByName` |
| `BotAccessProofs!AdminsAreListed` | `OnlyListed` |
| `CuratorProofs!TypeCorrect` | `CuratorTypeOK` |
| `CuratorProofs!OwnFailures` | `SuppressedForCause` |
| `CuratorProofs!SharedBudget` | `BudgetKept` |
| `CuratorProofs!NothingBilled` | `NeverBilledUnasked` |
| `CuratorProofs!FinalAnswer` | `AnswerStays` |

They hold for all sets of steps, quests, jobs, players, users and SteamIDs,
every graph, any logs and limits and any number of faults, from the assumptions
next to the constants (`ConstantTypes`, `ConstantShape`, `JobsAssumption`,
`LogBounds`, `TailAssumption`, `StoreAssumption`, `StatsAssumption`,
`EventsAssumption`, `MilestonesAssumption`, `AccessAssumption`). `BotAccess`
assumes that there are finitely many SteamIDs, which is needed to say that a
name has exactly one, and `Curator` adds `PoolAssumption`, `OffAssumption` and
`CuratorAssumption`. The theorems about `QuestSystem` assume that the
refused jobs are jobs, in their own ASSUME. The theorems of `PendingEvents` are in `MilestonesProofs`,
next to those that use them.

*QuestEngine.* None of the invariants is inductive alone: a step is triggered
because of what a query selected some statements ago. `TickInv` says what the
locals of an interrupted tick mean. `LoopInv`: what a loop still has to visit
was selected for a reason that still holds, so that triggers are justified and
successors have a completed predecessor. `EvalInv`: every step that was armed
before the current signal has been tried on the earlier ones, and is tried on
the current one or still in the loop, so that the cursor may be set behind the
batch. `NoSignalMissed` follows from `EvalInv`, `TriggerJustified` and
`UnlockedByPredecessor` from `LoopInv`.

`NothingStranded` is the part of the liveness properties that a proof can reach.
That every proven step completes rests on fairness; that, without a fault, no
proven step is ever out of reach of the statements to come is an invariant. It
needs two more facts (`OneAtATime`): a resolving step has a batch, so that the
reconciliation that proves its last job finds it through that job, and one step
is advanced at a time. The run `QuestEngineStranded` shows that one fault is
enough to break it.

*QuestSystem.* `SystemInv` is what the two sides rely on in each other: a batch
exists with its step (`BatchWithStep`), the transport is in order
(`DeliveryInv`). Under it (`BothSides`) every step of the system is a step or a
stutter of `QuestEngine` and of `JobDelivery` at once: a trigger is a
`CreateJobs` of rows that were not there, the engine's reconciliation takes just
the jobs the transport has proven, a claim, a receipt and a result are the Env
actions, and a stop is a crash of the engine and an aborted tick. That is
`Composition`, from which the theorems of both modules hold of the whole, since
each is cited as it stands. `QuestInWorld` is then `Completion`, `QuestEnd`,
`Delivery` and `RejectedNeverApplied` put together, which neither side can say:
the engine knows rows, not the world, and the transport jobs, not quests.
`WorldInOrder` is the converse: nothing changes in the world before its trigger.

*JobDelivery.* `DeliveryInv` is inductive as the conjunction of three parts
that need each other: the ledger, the pending actions and the world agree (in
the running game and in its save), nobody knows a job before it is dispatched,
and what is called applied did happen. `NoJobLost` rests on `HoldInv`: the
ledger only holds jobs that are in somebody's hands. The refinement maps the
row, its result, the world and its history to themselves: a receipt moves the
row or is a stutter, the first result of a job is a `Settle` and every other one
a stutter; saves, files and the ledger are stutters. `RejectedUntouched` is inductive together with
`DeliveryInv`: the poller's validation is the only gate, and the ledger, the
pending actions, the log and the results all lie behind it.

*LogTail.* The conjunction of the invariants with `PollInv` is inductive.
`VisitInv`: the poll is at a file it has not finished, and what lies before
the next line is settled, which is what lets `Checkpoint` move the offset and
finish the file. `FileInv`: an offset is inside its file, so that reading from
it returns each line once. `EarlierInv`: unless a file was skipped or stopped,
the files before the current one are settled, which gives the order across
files. `BudgetInv`: a line that will be read again was stored no more often
than there were reasons, and every reading of it adds at most one. `OneCursor`
maps what a poll has handled to `read`: handling a line is an `Advance`, a stored
checkpoint a `Store`, one that fails and a restart in the middle of a visit are a
`GoBack`, everything else is a stutter.

*CharacterStore.* `HandlerInv` says what the locals of the handlers mean.
`PlacesInv` holds under any faults: the characters are numbered without gaps,
what a handler or the cache names exists. `CalmInv` is about a process that met
neither a fault nor a log that begins in the middle of a life: then only the
handler of a PerkLog.txt line moves rows, the others write to the cache what
was alive when they looked, and a death cannot come between, since its handler
is the one that forgets. The agreement with the log, the current cache and
`OneLife` are its consequences.

*CharacterStats.* The sums over the handlers in flight are cardinalities of
sets of workers; each step takes one worker in or out of such a set. `RepairInv`
is what makes `RepairColumn` right: as long as no handler touched the row since
the events were read, what was read is all there is, and the row may be
overwritten with it. Without it the sum would not survive the repair.
`LastAtReal` is the part of `RowConverges` that an invariant can state: the repair
takes the GREATEST of the row's time and the events', so that a time ahead of
every event would be drift for ever.

*PendingEvents.* `Sound` is the type invariant with three parts: what the
worker's statement says of its locals (`Work`), every SteamID in a variable is
one a native log has told (`Identities`), and a native worker flushes events of
the name it was told (`Flushing`). With it `EveryReadingAccounted` is inductive:
each action moves one reading, or the set of a player's readings, from one place
to another, and the section of `Remember` under the mutex empties the queue of
just those readings it takes over. `QueueBounded` needs the finiteness of the
queue and one lemma about the cardinality of a difference; `StragglerOnly` rests
on the order of the worker, which has one event in hand, and on `Remember`
leaving no event of the player behind.

*Milestones.* The theorems of `PendingEvents` are used as lemmas: a step of the
bot leaves its variables alone except `topic` and `faults`. `Messages` says that
what is on the way is the event of a reading with a SteamID of its author.
`BotTypeCorrect` proves `BotTypeOK` together with `TypeOK`.
`AnnouncedOnce` needs its two parts about the handler: what is still to be
evaluated is not yet recorded, what is still to be announced is recorded and not
yet announced. In `HitJustified` rows of the table only ever grow in number.
`OnceUnlessQueued` draws the line around the finding `MilestoneTwice`: as long as
no event was queued, every message carries a SteamID that native logs have told
(`NativeOnly`), so that nothing is announced under any other value; if a name is
told for one SteamID only, that is the one value of this player. The value Lua
writes is a SteamID with its last digits rounded (`Utils.lua:16-21`), which may
be somebody else's; the property excepts that.

*BotAccess.* `IdentityIsLink` is inductive because a link, once there, is never
changed by the program, so that what was read stays true. `NamesInv` follows a
name from the list to the link: what is inserted was found to be the only player
of a name of the asker. `RolesInv` says that the bootstrap only runs over a table
that was empty when it began, and that a demoted administrator means that
commands have been carried out since. `OnlyListed` adds what a request has been
authorized as to what the table says: between `authorize` and the statement that
acts, the role may be taken away, but not have come from elsewhere than the list.

*Curator.* `Booked` says that, unless a result came late, what is booked under a
provider's name is about the configuration its health belongs to; `Refreshed`
says that a refresh has brought the health of the rows behind it up to date, and
once it has ended, that of the whole list. Together they give
`SuppressedForCause`. `Granted` says that the limiter remembers a time no earlier
than any grant, so that a new one is far enough from all of them; a question's
statement says whether it has its grant, so that it gets at most one.
`NeverBilledUnasked` follows a configuration from the table through
`readRows` and `providers` to the list a question holds: each of them is a
resolved one, and resolving is where the gates are. `AnswerStays` is what lets
`EveryQuestionEnds` say "again and again" and mean once and for all.

*Out of the provers' reach*, and checked by TLC only: the liveness properties
(`QuestGoesOn`, `EveryJobEnds`, `EveryLineSettled`, `RowConverges`,
`EarnedIsAnnounced`, `EveryQuestionEnds`), since they rest on fairness. Every
other property of the passing runs is proved. No theorem is about what a recursive definition computes; the
specifications have none.

## 6. Not modelled, and the plan

Not modelled because nothing in it can go wrong in a way a model would show:
`webui.go` (reads only), the collectors in `main.go`, the user interface and the
debug commands of the mod, the wording of the bot, the texts of events, the
seeding of the milestones table, and the commands that forward one call to the
game server. The mechanics of the mod are one effect each. The trackers of
ExporterLog are callbacks of one thread; what they write is the input of
`GameLogs` and `PendingEvents`. Pure functions of one question are left to tests:
the prompts, the topics, the recognition of a natural mention, and the
translation of a question into a validated query
(`curator_semantic_stats.go`), of which only the outcome, a fact or none, is in
`Curator`. Two processes of the bot at once, and answers Discord does not accept,
are left out; only an announcement of a milestone may fail to be sent. Time is left out except in `ProviderPool`: a lease, an expiry in the
queue or a delay may be over whenever it has begun.

Left open:

1. The sources of signals: identifiers of a serial column become visible in the
   order of commits, and the signal cursors read by identifier.
2. `LiveTail`: following the newest file without a database.
3. A pool with two providers in one model with two questions: it is checked with
   one provider, since the states with two exceed what TLC visits in a few
   minutes. The proofs of its safety properties cover any number; that every
   question ends is checked with one.
