---------------------------- MODULE ProviderPool ----------------------------
(***************************************************************************)
(* The pool of language model providers of the Discord bot                 *)
(* (curatorProviderPool).  Their configuration is in a table an operator   *)
(* edits and a goroutine reads once a minute; it replaces the list of      *)
(* providers as a whole, and the health of each provider by name, one      *)
(* after the other.  Questions take the list once and ask its providers    *)
(* one by one, each for as long as it takes, and book the result under the *)
(* provider's name when it arrives.                                        *)
(*                                                                         *)
(* An operator A_B is a faulty variant of A, kept to show that the runs    *)
(* tell the two apart; no specification uses it.                           *)
(***************************************************************************)
EXTENDS Integers, Sequences

CONSTANTS
  Providers,    \* names of providers in order of priority
  Slots,        \* credential slots (with adapter, model and address)
  FreeSlots,    \* those with a recognized free tier
  AllowPaid,    \* the global gate LLM_ALLOW_PAID
  Off,          \* no enabled row
  Tables,       \* contents the table may have at first
  Rows,         \* what an operator writes in a row, or Off
  Calls,        \* calls of Reply that may be in progress at a time
  Cooldown,     \* time a provider is left alone after each kind of failure, 0 if
                \* it is over before the clock has moved on
  MaxTime, MaxEdits
                \* bounds on the clock and on edits of the table

Names == {Providers[i] : i \in 1..Len(Providers)}
Kinds == {"transient", "rate limited", "billing"}

ASSUME PoolAssumption ==
  /\ Providers \in Seq(Names) /\ \A i, j \in 1..Len(Providers) : Providers[i] = Providers[j] => i = j
  /\ FreeSlots \subseteq Slots /\ AllowPaid \in BOOLEAN
  /\ Cooldown \in [Kinds -> Nat]
  /\ MaxTime \in Nat \ {0} /\ MaxEdits \in Nat

\* What a row says about a provider.
Configs == [slot : Slots, allowPaid : BOOLEAN]

ASSUME OffAssumption ==
  /\ Off \notin Configs /\ Rows \subseteq Configs \cup {Off}
  /\ Tables \subseteq [Names -> Rows]

VARIABLES
  table,     \* discordbot_llm_providers
  phase,     \* of refreshOnce: "idle" or "rows"
  readRows,  \* the rows as the last refresh has read them
  todo,      \* names it still has to handle
  providers, \* the list in use: the configuration behind each name
  health,    \* [fingerprint, until, misconfigured] by name; until is the
             \* latest of the three times, 0 if there is none
  list,      \* list each call has taken
  start,     \* time it was taken
  at,        \* position in it, 0 if the call has not begun
  asking,    \* is a request on the way?
  expired,   \* is the time of its context over?
  result,    \* "none", "reply" or "unavailable"
  clock,
  blame,     \* history: configurations whose failures are booked
  late,      \* history: was a result booked that is of another configuration
             \* than the health it went to?
  partial,   \* history: has no refresh come to its end since one has failed?
  edits

refresh == <<phase, readRows, todo>>
call == <<list, start, at, asking, expired, result>>
history == <<blame, late, partial>>
bounds == <<clock, edits>>
vars == <<table, refresh, providers, health, call, history, bounds>>

Healths == [fingerprint : Configs \cup {Off}, until : 0..MaxTime, misconfigured : BOOLEAN]

TypeOK ==
  /\ table \in [Names -> Configs \cup {Off}] /\ readRows \in [Names -> Configs \cup {Off}]
  /\ phase \in {"idle", "rows"} /\ todo \subseteq Names
  /\ providers \in [Names -> Configs \cup {Off}]
  /\ health \in [Names -> Healths]
  /\ list \in [Calls -> [Names -> Configs \cup {Off}]]
  /\ start \in [Calls -> 0..MaxTime] /\ at \in [Calls -> 0..(Len(Providers) + 1)]
  /\ asking \in [Calls -> BOOLEAN] /\ expired \in [Calls -> BOOLEAN]
  /\ result \in [Calls -> {"none", "reply", "unavailable"}]
  /\ clock \in 1..MaxTime
  /\ blame \in [Names -> SUBSET Configs] /\ late \in [Names -> BOOLEAN] /\ partial \in BOOLEAN
  /\ edits \in Nat

\* isProviderPaidEligible.
PaidEligible(c) == IF c.allowPaid THEN AllowPaid ELSE c.slot \in FreeSlots

\* resolveProvider: what is put in the list for a row.
Resolved(c) == IF c # Off /\ PaidEligible(c) THEN c ELSE Off

\* llmProviderRow.fingerprint.
Fingerprint_Slot(c) == [c EXCEPT !.allowPaid = FALSE]
Fingerprint(c) == c

Healthy(f) == [fingerprint |-> f, until |-> 0, misconfigured |-> FALSE]

\* The first refresh has not been made; there is no entry in the health map,
\* which counts as healthy.
Init ==
  /\ table \in Tables
  /\ phase = "idle" /\ readRows = [p \in Names |-> Off] /\ todo = {}
  /\ providers = [p \in Names |-> Off] /\ health = [p \in Names |-> Healthy(Off)]
  /\ list = [q \in Calls |-> providers] /\ start = [q \in Calls |-> 0]
  /\ at = [q \in Calls |-> 0] /\ asking = [q \in Calls |-> FALSE]
  /\ expired = [q \in Calls |-> FALSE] /\ result = [q \in Calls |-> "none"]
  /\ clock = 1
  /\ blame = [p \in Names |-> {}] /\ late = [p \in Names |-> FALSE]
  /\ partial = FALSE
  /\ edits = 0

-----------------------------------------------------------------------------
(* The operator and the refresh loop.                                      *)

Edit(p, c) ==
  /\ edits < MaxEdits /\ edits' = edits + 1
  /\ table[p] # c /\ table' = [table EXCEPT ![p] = c]
  /\ UNCHANGED <<refresh, providers, health, call, history, clock>>

\* markMisconfigured and resetHealthIfFingerprintChanged.
RefreshedHealth(p, c) ==
  IF Resolved(c) = Off
  THEN [fingerprint |-> Fingerprint(c), until |-> 0, misconfigured |-> TRUE]
  ELSE IF health[p].fingerprint = Fingerprint(c) THEN health[p] ELSE Healthy(Fingerprint(c))

\* refreshOnce runs its query.  A refresh that would change nothing is left
\* out.
ReadTable ==
  /\ phase = "idle"
  /\ \/ readRows # table
     \/ \E p \in Names : table[p] # Off /\ health[p] # RefreshedHealth(p, table[p])
     \/ providers # [p \in Names |-> Resolved(table[p])]
     \/ partial
  /\ readRows' = table
  /\ todo' = {p \in Names : table[p] # Off}
  /\ phase' = "rows"
  /\ UNCHANGED <<table, providers, health, call, history, bounds>>

\* It goes through the rows in order of priority ...
HandleRow(i) ==
  LET p == Providers[i]
      c == readRows[p]
      h == RefreshedHealth(p, c)
  IN
  /\ phase = "rows" /\ p \in todo /\ \A j \in 1..(i - 1) : Providers[j] \notin todo
  /\ todo' = todo \ {p}
  /\ health' = [health EXCEPT ![p] = h]
  /\ blame' = [blame EXCEPT ![p] = IF h = health[p] THEN @ ELSE IF h.misconfigured THEN {c} ELSE {}]
  /\ late' = [late EXCEPT ![p] = IF h = health[p] THEN @ ELSE FALSE]
  /\ UNCHANGED <<table, phase, readRows, providers, partial, call, bounds>>

\* ... and puts the new list in the place of the old one.
NewList == [p \in Names |-> Resolved(readRows[p])]

Swap ==
  /\ phase = "rows" /\ todo = {}
  /\ providers' = NewList
  /\ phase' = "idle" /\ partial' = FALSE
  /\ UNCHANGED <<table, readRows, todo, health, call, blame, late, bounds>>

\* A row that cannot be scanned ends the refresh, and so does an error the rows
\* end with; the list stays, the health of the rows before does not.
RefreshFails ==
  /\ phase = "rows"
  /\ todo' = {} /\ phase' = "idle" /\ partial' = TRUE
  /\ UNCHANGED <<table, readRows, providers, health, call, blame, late, bounds>>

-----------------------------------------------------------------------------
(* A call of Reply.                                                        *)

Running(q) == result[q] = "none" /\ at[q] # 0
Provider(q) == Providers[at[q]]

\* The list and the time are taken once.
TakeList(q) ==
  /\ list' = [list EXCEPT ![q] = providers]
  /\ start' = [start EXCEPT ![q] = clock]
  /\ at' = [at EXCEPT ![q] = 1]
  /\ result' = [result EXCEPT ![q] = "none"]
  /\ UNCHANGED <<table, refresh, providers, health, asking, expired, history, bounds>>

\* availableAt.
Available(p, t) == ~ health[p].misconfigured /\ t > health[p].until

\* A provider in the list that is not to be left alone.
Usable_Named(q) == Available(Provider(q), start[q])
Usable(q) == list[q][Provider(q)] # Off /\ Available(Provider(q), start[q])

Skip(q) ==
  /\ Running(q) /\ ~ asking[q] /\ at[q] <= Len(Providers)
  /\ ~ Usable(q)
  /\ at' = [at EXCEPT ![q] = @ + 1]
  /\ UNCHANGED <<table, refresh, providers, health, list, start, asking, expired, result, history, bounds>>

Ask(q) ==
  /\ Running(q) /\ ~ asking[q] /\ at[q] <= Len(Providers)
  /\ Usable(q)
  /\ asking' = [asking EXCEPT ![q] = TRUE]
  /\ UNCHANGED <<table, refresh, providers, health, list, start, at, expired, result, history, bounds>>

\* recordSuccess.
Cleared(p) == [health EXCEPT ![p].until = 0]

\* recordFailure.  Times beyond the end of the clock are all the same.
Until(kind) == IF clock + Cooldown[kind] > MaxTime THEN MaxTime ELSE clock + Cooldown[kind]

Failed(p, kind) ==
  IF kind = "auth" THEN [health EXCEPT ![p].misconfigured = TRUE]
  ELSE [health EXCEPT ![p].until = IF @ < Until(kind) THEN Until(kind) ELSE @]

\* The provider answers; once the time of the context is over, the only answer
\* is a failure of the request, which counts as transient.
Succeed(q) ==
  LET p == Provider(q) IN
  /\ asking[q] /\ ~ expired[q]
  /\ health' = Cleared(p)
  /\ blame' = [blame EXCEPT ![p] = IF health[p].misconfigured THEN @ ELSE {}]
  /\ asking' = [asking EXCEPT ![q] = FALSE]
  /\ result' = [result EXCEPT ![q] = "reply"]
  /\ UNCHANGED <<table, refresh, providers, list, start, at, expired, late, partial, bounds>>

Fail(q, kind) ==
  LET p == Provider(q) IN
  /\ asking[q] /\ (expired[q] => kind = "transient")
  /\ health' = Failed(p, kind)
  /\ blame' = [blame EXCEPT ![p] = @ \cup {list[q][p]}]
  /\ late' = [late EXCEPT ![p] = @ \/ Fingerprint(list[q][p]) # health[p].fingerprint]
  /\ asking' = [asking EXCEPT ![q] = FALSE]
  /\ at' = [at EXCEPT ![q] = @ + 1]
  /\ UNCHANGED <<table, refresh, providers, list, start, expired, result, partial, bounds>>

GiveUp(q) ==
  /\ Running(q) /\ ~ asking[q] /\ at[q] > Len(Providers)
  /\ result' = [result EXCEPT ![q] = "unavailable"]
  /\ UNCHANGED <<table, refresh, providers, health, list, start, at, asking, expired, history, bounds>>

\* The time of the whole chain of requests is up, which matters once there is
\* a request on the way.
Expire(q) ==
  /\ asking[q] /\ ~ expired[q]
  /\ expired' = [expired EXCEPT ![q] = TRUE]
  /\ UNCHANGED <<table, refresh, providers, health, list, start, at, asking, result, history, bounds>>

Tick ==
  /\ clock < MaxTime /\ clock' = clock + 1
  /\ UNCHANGED <<table, refresh, providers, health, call, history, edits>>

RefreshStep == ReadTable \/ (\E i \in 1..Len(Providers) : HandleRow(i)) \/ Swap

CallStep(q) ==
  \/ Skip(q) \/ Ask(q) \/ Succeed(q) \/ GiveUp(q)
  \/ \E kind \in Kinds \cup {"auth"} : Fail(q, kind)

PoolStep ==
  \/ \E p \in Names, c \in Rows : Edit(p, c)
  \/ RefreshStep \/ RefreshFails \/ Tick
  \/ \E q \in Calls : CallStep(q) \/ Expire(q)

-----------------------------------------------------------------------------

Suppressed(p) == health[p].misconfigured \/ health[p].until > 0

\* A provider in the list is left alone only for failures under its present
\* configuration: a changed configuration starts afresh (fingerprint,
\* resetHealthIfFingerprintChanged).  Two races apart: a result that comes in
\* when the health is another configuration's, and a refresh that has failed
\* half way, until the next one has come to its end.
SuppressedForCause ==
  \A p \in Names :
    phase = "idle" /\ ~ partial /\ providers[p] # Off /\ ~ late[p]
      => (Suppressed(p) => blame[p] = {providers[p]})

\* resetHealthIfFingerprintChanged: "an operator fixing a
\* misconfigured/unhealthy provider in Postgres must see the correction take
\* effect immediately".
CorrectionTakesEffect ==
  \A p \in Names :
    phase = "idle" /\ providers[p] # Off /\ providers[p] = table[p]
      => (health[p].misconfigured => providers[p] \in blame[p])

\* No request is on the way with a billed credential unless the row of its
\* provider and the global gate both allowed it when the list was made, however
\* rows and lists change meanwhile (isProviderPaidEligible: "a free-tier row must
\* NEVER auto-escalate to paid usage").
NeverBilledUnasked ==
  \A q \in Calls : asking[q] =>
    LET c == list[q][Provider(q)]
    IN  (c.slot \notin FreeSlots => c.allowPaid) /\ (c.allowPaid => AllowPaid)
=============================================================================
