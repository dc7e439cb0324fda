------------------------- MODULE MCCharacterStore -------------------------
(***************************************************************************)
(* Instance of CharacterStore: the pipeline of PerkLog.txt and the one of  *)
(* ExporterLog.txt.                                                        *)
(***************************************************************************)
EXTENDS CharacterStore

CONSTANTS perk, lua
=============================================================================
