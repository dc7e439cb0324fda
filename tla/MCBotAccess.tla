---------------------------- MODULE MCBotAccess ----------------------------
(***************************************************************************)
(* Instance of BotAccess: two users, both to be administrators at first.   *)
(* Either may have the same nickname; their account names differ.          *)
(***************************************************************************)
EXTENDS BotAccess

CONSTANTS u1, u2, n1, n2

MCCandidates == [u \in {u1, u2} |->
                   {<<n1, IF u = u1 THEN Nobody ELSE n2>>, <<n2>>}]
MCBootstrapIds == <<u1, u2>>
=============================================================================
