--------------------------- MODULE MCQuestEngine ---------------------------
(***************************************************************************)
(* The world quest q1 is a chain: an activation step a with one job, a     *)
(* sleep step b without actions, a second sleep step c with two jobs.  The *)
(* quest q2 belongs to the player p: an activation step d without actions, *)
(* then a sleep step e.  The conditions of b and of c and e exclude each   *)
(* other.                                                                  *)
(***************************************************************************)
EXTENDS QuestEngine

CONSTANTS q1, q2, a, b, c, d, e, ja, jc1, jc2, p, here, away

MCQuestOf == [s \in Steps |-> IF s \in {d, e} THEN q2 ELSE q1]
MCTriggerType == [s \in Steps |-> IF s \in {a, d} THEN "campaign_activation" ELSE "sleep"]
MCEdges == {<<a, b>>, <<b, c>>, <<d, e>>} \cap (Steps \X Steps)
MCStepOf == [j \in Jobs |-> IF j = ja THEN a ELSE c]
MCScopeRef == [q \in Quests |-> IF q = q2 THEN p ELSE World]
AtHere == [accepts |-> {here}, known |-> TRUE, negate |-> FALSE]
NotAtHere == [accepts |-> {here}, known |-> TRUE, negate |-> TRUE]
MCConditions == [s \in Steps |-> CASE s = b -> {AtHere} [] s \in {c, e} -> {NotAtHere} [] OTHER -> {}]
=============================================================================
