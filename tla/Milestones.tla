----------------------------- MODULE Milestones -----------------------------
(***************************************************************************)
(* Milestones: the Discord bot hears of each event by MQTT, looks into the *)
(* exporter's event table for milestones that the event's player has       *)
(* reached, records them and announces them.  The module composes the bot  *)
(* with the exporter's side of the table and the topic (PendingEvents).    *)
(*                                                                         *)
(* The client hands the messages of its connection to one handler after    *)
(* the other.  Amounts are not modelled, a milestone of the kind sum is    *)
(* one of the kind count, and the log is that of one type of event, all of *)
(* which pass the filters of the milestones of that type.                  *)
(*                                                                         *)
(* An operator A_B is a faulty variant of A, kept to show that the runs    *)
(* tell the two apart; no specification uses it.                           *)
(***************************************************************************)
EXTENDS PendingEvents

CONSTANTS
  CountMilestones,  \* milestones reached by a number of events
  FieldMilestones,  \* milestones reached by a value in one event
  Threshold,        \* of each count milestone
  Large             \* lines of the log with a value that reaches the field
                    \* milestones

ASSUME MilestonesAssumption ==
  /\ CountMilestones \cap FieldMilestones = {}
  /\ Threshold \in [CountMilestones -> Nat \ {0}]
  /\ Large \subseteq 1..Len(Log)

VARIABLES
  hits,      \* discordbot_milestone_hits: <<milestone, id>>
  message,   \* message the handler is at, or <<>>
  todo,      \* candidates checkMilestones still has to evaluate
  found,     \* milestones it has recorded and the handler has to announce
  posts      \* history: how often each milestone was announced for each id

bot == <<message, todo, found>>
botVars == <<hits, bot, posts>>
allVars == <<vars, botVars>>

All == CountMilestones \cup FieldMilestones

BotTypeOK ==
  /\ hits \subseteq All \X PublishedIds
  /\ message \in [reading : Readings, id : PublishedIds] \cup {<<>>}
  /\ todo \subseteq All /\ found \subseteq All
  /\ message = <<>> => todo = {} /\ found = {}
  /\ posts \in [All \X PublishedIds -> Nat]

BotInit ==
  /\ Init
  /\ hits = {} /\ message = <<>> /\ todo = {} /\ found = {}
  /\ posts = [h \in All \X PublishedIds |-> 0]

-----------------------------------------------------------------------------

\* checkMilestones: enabled milestones the player has not hit; an event without a
\* player has none.
Candidates_All(id) == All
Candidates(id) == {m \in All : id # LuaId(Nobody) /\ <<m, id>> \notin hits}

\* newMQTTHandler takes the next message.
Receive ==
  /\ message = <<>> /\ topic # <<>>
  /\ message' = Head(topic)
  /\ topic' = Tail(topic)
  /\ todo' = Candidates(Head(topic).id)
  /\ UNCHANGED <<db, worker, queue, native, history, hits, found, posts>>

\* The query of the candidates fails or breaks off, or the five seconds are over
\* and every statement that is left fails: what was found is announced.
QueryFails ==
  /\ message # <<>> /\ todo # {}
  /\ Fault
  /\ todo' = {}
  /\ UNCHANGED <<db, worker, queue, native, topic, gone, queued, hits, message, found, posts>>

Rows(id) == {row \in stored : row.id = id}

Reached_Total(m, msg) == IF m \in CountMilestones THEN Cardinality(stored) >= Threshold[m]
                                                  ELSE readings[msg.reading] \in Large
Reached_Above(m, msg) == IF m \in CountMilestones THEN Cardinality(Rows(msg.id)) > Threshold[m]
                                                  ELSE readings[msg.reading] \in Large
Reached(m, msg) == IF m \in CountMilestones THEN Cardinality(Rows(msg.id)) >= Threshold[m]
                                            ELSE readings[msg.reading] \in Large

\* One candidate: it is evaluated, and recorded if it is reached; if a statement
\* fails, the loop continues without it.
Evaluate(m) ==
  /\ m \in todo
  /\ todo' = todo \ {m}
  /\ IF Reached(m, message)
     THEN \/ hits' = hits \cup {<<m, message.id>>} /\ found' = found \cup {m} /\ UNCHANGED faults
          \/ Fault /\ UNCHANGED <<hits, found>>
     ELSE UNCHANGED <<hits, found, faults>>
  /\ UNCHANGED <<db, worker, queue, native, topic, gone, queued, message, posts>>

\* What has been recorded is announced; a message that cannot be sent is not
\* sent again.
Announce(m) ==
  /\ message # <<>> /\ todo = {} /\ m \in found
  /\ found' = found \ {m}
  /\ \/ posts' = [posts EXCEPT ![<<m, message.id>>] = @ + 1] /\ UNCHANGED faults
     \/ Fault /\ UNCHANGED posts
  /\ UNCHANGED <<db, worker, queue, native, topic, gone, queued, hits, message, todo>>

HandlerReturns_Early ==
  /\ message # <<>> /\ todo = {}
  /\ message' = <<>>
  /\ UNCHANGED <<vars, hits, todo, found, posts>>
HandlerReturns ==
  /\ message # <<>> /\ todo = {} /\ found = {}
  /\ message' = <<>>
  /\ UNCHANGED <<vars, hits, todo, found, posts>>

\* A message published with quality of service 0 may get lost.
MessageLost ==
  /\ topic # <<>> /\ Fault
  /\ topic' = Tail(topic)
  /\ UNCHANGED <<db, worker, queue, native, gone, queued, botVars>>

\* The bot stops and starts again; what was on the way to it is lost.
BotRestart ==
  /\ Fault
  /\ message' = <<>> /\ todo' = {} /\ found' = {} /\ topic' = <<>>
  /\ UNCHANGED <<db, worker, queue, native, gone, queued, hits, posts>>

BotStep == Receive \/ (\E m \in All : Evaluate(m) \/ Announce(m)) \/ HandlerReturns

BotNext ==
  \/ StoreNext /\ UNCHANGED botVars
  \/ BotStep \/ QueryFails \/ MessageLost \/ BotRestart

BotSpec == BotInit /\ [][BotNext]_allVars

\* Pollers and handler go on; a native log may stay silent for ever.
Fairness == WF_allVars(ExporterStep /\ UNCHANGED botVars) /\ WF_allVars(BotStep)

FairSpec == BotSpec /\ Fairness

-----------------------------------------------------------------------------

\* A milestone is announced at most once under one SteamID, and only after it
\* was recorded, whatever is lost, read again or restarted (checkMilestones:
\* "recording each one as hit before returning it").
AnnouncedOnce ==
  /\ \A h \in All \X PublishedIds :
       posts[h] <= 1 /\ (posts[h] = 1 => h \in hits)
  /\ message # <<>> => \A m \in todo : <<m, message.id>> \notin hits
  /\ message # <<>> => \A m \in found : <<m, message.id>> \in hits /\ posts[<<m, message.id>>] = 0

\* A milestone of the kind count is hit under a SteamID that has that many
\* rows in the table; the others are hit by an event that really had the value.
HitJustified ==
  \A m \in All, id \in PublishedIds : <<m, id>> \in hits =>
    IF m \in CountMilestones THEN Cardinality(Rows(id)) >= Threshold[m]
    ELSE \E r \in Readings : /\ readings[r] \in Large
                             /\ id \in {LuaId(Author(r))} \cup {s \in Ids : <<Author(r), s>> \in Accounts}

\* As long as nothing fails and no event had to wait for its identity, a
\* player with enough events in the table gets the milestone.
EarnedIsAnnounced ==
  \A m \in CountMilestones, s \in Ids :
    Cardinality(Rows(s)) >= Threshold[m] ~> (posts[<<m, s>>] = 1 \/ queued \/ faults > 0)

\* checkMilestones: "a milestone fires at most once per player even if this
\* event type is seen again".
OncePerPlayer ==
  \A m \in All, u \in Names :
    Cardinality({s \in {LuaId(u)} \cup {t \in Ids : <<u, t>> \in Accounts} : posts[<<m, s>>] > 0}) <= 1

\* ... and it does as long as no event has had to wait for its identity, no name
\* is told for two SteamIDs, and what Lua writes for one player is not the SteamID
\* of another: these are the only ways in which one player's events go out under
\* different values (handleExporterEvent publishes an event that it has queued as
\* Lua wrote it).
OnceUnlessQueued ==
  /\ ~ queued
  /\ \A x, y \in Accounts : x[1] = y[1] => x = y
  /\ \A x \in Accounts, u \in Names : x[2] = LuaId(u) => x[1] = u
  => OncePerPlayer
=============================================================================
