-------------------------- MODULE MCCharacterStats --------------------------
(***************************************************************************)
(* Instance of CharacterStats: the pipeline of ExporterLog.txt and a       *)
(* native one that flushes events.                                         *)
(***************************************************************************)
EXTENDS CharacterStats

CONSTANTS perk, lua

=============================================================================
