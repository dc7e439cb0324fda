---------------------------- MODULE MCMilestones ----------------------------
(***************************************************************************)
(* Instance of Milestones: one player, whose SteamID may be in the players *)
(* table already, and one milestone of each kind.  The first event has a   *)
(* value that reaches the field milestone; the second has no player.       *)
(***************************************************************************)
EXTENDS Milestones

CONSTANTS ann, s1, ten, big, perk

MCAccounts == {<<ann, s1>>}
MCLog == <<ann, Nobody, ann>>
MCThreshold == [m \in {ten} |-> 2]
=============================================================================
