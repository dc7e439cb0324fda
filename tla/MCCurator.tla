----------------------------- MODULE MCCurator -----------------------------
(***************************************************************************)
(* Instance of Curator: one provider with a free and a billed credential;  *)
(* one user asks by the command and one by a message.                      *)
(***************************************************************************)
EXTENDS Curator

CONSTANTS p1, q1, q2, ann, bob, free, billed

MCProviders == <<p1>>
MCRows == {[slot |-> free, allowPaid |-> FALSE], [slot |-> free, allowPaid |-> TRUE],
           [slot |-> billed, allowPaid |-> FALSE]}
MCTables == {[p \in {p1} |-> [slot |-> free, allowPaid |-> FALSE]]}
MCCooldown == [k \in Kinds |-> IF k = "transient" THEN 0 ELSE 1]
MCAsker == [q \in {q1, q2} |-> IF q = q1 THEN ann ELSE bob]
MCSurface == [q \in {q1, q2} |-> IF q = q1 THEN "command" ELSE "direct"]
MCReplyPace == [user |-> 1, global |-> 1]
MCBudget == [user |-> 2, global |-> 1]
=============================================================================
