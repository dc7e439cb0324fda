------------------------------- MODULE Curator -------------------------------
(***************************************************************************)
(* Questions to the Curator, by the slash command or by a message that     *)
(* names it.  Each is handled in a goroutine of its own; they share the    *)
(* pacing of replies to messages, the budget of language model calls and   *)
(* the provider pool.  What a question is about is left open, and so is    *)
(* whether the database has the fact it asks for.                          *)
(*                                                                         *)
(* An operator A_B is a faulty variant of A, kept to show that the runs    *)
(* tell the two apart; no specification uses it.                           *)
(***************************************************************************)
EXTENDS ProviderPool

CONSTANTS
  Users,
  Asker,          \* who asks each question
  Surface,        \* "command", "direct" message or "ambient" mention
  ReplyPace,      \* [user, global] cooldown of replies to messages
  Budget          \* [user, global] cooldown of language model calls

Questions == Calls
Paces == [user : Nat, global : Nat]

ASSUME CuratorAssumption ==
  /\ Asker \in [Questions -> Users]
  /\ Surface \in [Questions -> {"command", "direct", "ambient"}]
  /\ ReplyPace \in Paces /\ Budget \in Paces

VARIABLES
  state,     \* where askCurator or its caller is with each question
  fact,      \* has the fact been found?
  answer,    \* what was sent: "none", "silence", "refusal", "model", "fact", "canned"
  replied,   \* curatorNaturalTrigger: last reply, per user and global
  spent,     \* curatorLLMLimiter: last grant, per user and global
  grants     \* history: when each question was granted the language model

question == <<state, fact, answer>>
pacing == <<replied, spent>>
curatorVars == <<question, pacing, grants>>
allVars == <<vars, curatorVars>>

\* Long before the clock starts.
Never(pace) == 0 - pace.user - pace.global
Times == [user : [Users -> Int], global : Int]

CuratorTypeOK ==
  /\ TypeOK
  /\ state \in [Questions -> {"new", "limiter", "semantic", "chat", "sending", "done"}]
  /\ fact \in [Questions -> BOOLEAN]
  /\ answer \in [Questions -> {"none", "silence", "refusal", "model", "fact", "canned"}]
  /\ replied \in Times /\ spent \in Times
  /\ grants \in [Questions -> 0..MaxTime]

CuratorInit ==
  /\ Init
  /\ state = [q \in Questions |-> "new"]
  /\ fact = [q \in Questions |-> FALSE] /\ answer = [q \in Questions |-> "none"]
  /\ replied = [user |-> [u \in Users |-> Never(ReplyPace)], global |-> Never(ReplyPace)]
  /\ spent = [user |-> [u \in Users |-> Never(Budget)], global |-> Never(Budget)]
  /\ grants = [q \in Questions |-> 0]

\* allow and consumeCooldown: both times are tested and set under one lock.
Permitted_User(last, pace, u) == clock - last.user[u] >= pace.user
Permitted(last, pace, u) ==
  clock - last.user[u] >= pace.user /\ clock - last.global >= pace.global

Used(last, u) == [user |-> [last.user EXCEPT ![u] = clock], global |-> clock]

Goto(q, s) == state' = [state EXCEPT ![q] = s]
Done(q, a) == Goto(q, "done") /\ answer' = [answer EXCEPT ![q] = a]

-----------------------------------------------------------------------------

\* newInteractionHandler or handleMessageCreate: a blocked user, an ambient
\* mention the dice are against, and a message within the cooldown end here.
Begin(q) ==
  /\ state[q] = "new"
  /\ \/ Done(q, IF Surface[q] = "command" THEN "refusal" ELSE "silence") /\ UNCHANGED replied
     \/ /\ Surface[q] # "command" => Permitted(replied, ReplyPace, Asker[q])
        /\ replied' = IF Surface[q] = "command" THEN replied ELSE Used(replied, Asker[q])
        /\ Goto(q, "limiter") /\ UNCHANGED answer
  /\ UNCHANGED <<vars, fact, spent, grants>>

\* askCurator: the fact a question about the speaker asks for is looked up
\* first, which may link him to a player (BotAccess) and touches nothing here;
\* then the budget is asked, once for the whole question.  Any other question
\* gets its fact from a leaderboard once the model may be used, statistics by a
\* semantic query.
AskLimiter(q) ==
  LET ok == Permitted(spent, Budget, Asker[q]) IN
  /\ state[q] = "limiter"
  /\ spent' = IF ok THEN Used(spent, Asker[q]) ELSE spent
  /\ grants' = IF ok THEN [grants EXCEPT ![q] = clock] ELSE grants
  /\ \E found \in BOOLEAN :
       \/ ok /\ Goto(q, "chat") /\ fact' = [fact EXCEPT ![q] = found]
       \/ ok /\ Goto(q, "semantic") /\ UNCHANGED fact
       \/ ~ ok /\ Goto(q, "sending") /\ fact' = [fact EXCEPT ![q] = found]
  /\ UNCHANGED <<vars, answer, replied>>

\* The pool is entered, for the semantic query or for the reply itself ...
EnterPool(q) ==
  /\ state[q] \in {"semantic", "chat"} /\ at[q] = 0
  /\ TakeList(q)
  /\ UNCHANGED curatorVars

\* ... and left: the variables of the call are free again.
LeavePool(q) ==
  /\ result[q] # "none"
  /\ at' = [at EXCEPT ![q] = 0] /\ result' = [result EXCEPT ![q] = "none"]
  /\ list' = [list EXCEPT ![q] = [p \in Names |-> Off]] /\ start' = [start EXCEPT ![q] = 0]
  /\ UNCHANGED <<table, refresh, providers, health, asking, history, bounds>>

\* resolveCuratorSemanticStatFact: a reply may hold a plan that leads to a
\* fact; if not, the leaderboards may have one.  No query is answered when the
\* time of the question is over.
SemanticReturns(q) ==
  /\ state[q] = "semantic" /\ LeavePool(q)
  /\ \E found \in IF expired[q] THEN {FALSE} ELSE BOOLEAN : fact' = [fact EXCEPT ![q] = found]
  /\ Goto(q, "chat")
  /\ UNCHANGED <<expired, answer, pacing, grants>>

ChatReturns(q) ==
  /\ state[q] = "chat" /\ LeavePool(q)
  /\ IF result[q] = "reply" THEN Done(q, "model") ELSE Goto(q, "sending") /\ UNCHANGED answer
  /\ expired' = [expired EXCEPT ![q] = FALSE]
  /\ UNCHANGED <<fact, pacing, grants>>

\* The fact itself is the answer, or an authored line: every kind of question
\* has some.
Fallback_Canned(q) == "canned"
Fallback(q) == IF fact[q] THEN "fact" ELSE "canned"

FallBack(q) ==
  /\ state[q] = "sending"
  /\ Done(q, Fallback(q))
  /\ UNCHANGED <<vars, fact, pacing, grants>>

QuestionStep(q) ==
  \/ Begin(q) \/ AskLimiter(q) \/ EnterPool(q)
  \/ SemanticReturns(q) \/ ChatReturns(q) \/ FallBack(q)
  \/ CallStep(q) /\ UNCHANGED curatorVars

CuratorNext ==
  \/ PoolStep /\ UNCHANGED curatorVars
  \/ \E q \in Questions : QuestionStep(q)

CuratorSpec == CuratorInit /\ [][CuratorNext]_allVars

\* A request ends with its context at the latest.
Fairness == \A q \in Questions : WF_allVars(QuestionStep(q))

FairSpec == CuratorSpec /\ Fairness

-----------------------------------------------------------------------------

\* Two grants of the language model are as far apart as the budget says,
\* whoever asked on which surface, and no question is in the pool without one
\* (curatorLLMLimiter: "the single choke point both entry points share").
BudgetKept ==
  /\ \A q, r \in Questions : q # r /\ grants[q] # 0 /\ grants[r] >= grants[q] =>
       grants[r] - grants[q] >= (IF Asker[q] = Asker[r] /\ Budget.user > Budget.global
                                 THEN Budget.user ELSE Budget.global)
  /\ \A q \in Questions : at[q] # 0 => grants[q] # 0

\* A question that was begun is always answered in the end, and a fact that was
\* found is not lost with the providers: the answer is then the model's or the
\* fact itself (askCurator: a recognized question "must still get the real
\* number").  An answer is never replaced, so that "again and again" says it.
Ended(q) ==
  \/ state[q] = "new" \/ answer[q] \in {"silence", "refusal", "model"}
  \/ answer[q] = (IF fact[q] THEN "fact" ELSE "canned")

EveryQuestionEnds == \A q \in Questions : []<>Ended(q)

\* Nothing changes a question once it has been answered: late results of the
\* pool and the refresh pass it by.  (askCurator returns once.)
AnswerStays ==
  [][\A q \in Questions : answer[q] # "none" =>
       /\ answer'[q] = answer[q] /\ fact'[q] = fact[q] /\ grants'[q] = grants[q]
       /\ at'[q] = 0 /\ ~ asking'[q] /\ Ended(q)]_allVars
=============================================================================
