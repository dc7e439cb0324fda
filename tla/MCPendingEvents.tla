--------------------------- MODULE MCPendingEvents ---------------------------
(***************************************************************************)
(* Instance of PendingEvents.  Two accounts use the first name, so that it *)
(* may be ambiguous in the players table and the two native logs may tell  *)
(* different SteamIDs for it; no native log knows the second name, and the *)
(* last event has no player.                                               *)
(***************************************************************************)
EXTENDS PendingEvents, TLC

CONSTANTS ann, bob, s1, s2, perk, conn

MCAccounts == {<<ann, s1>>, <<ann, s2>>}
MCLog == <<ann, ann, bob, Nobody>>

\* Nothing tells the two accounts apart, nor the two workers.
Interchangeable == Permutations({s1, s2}) \cup Permutations({perk, conn})
=============================================================================
