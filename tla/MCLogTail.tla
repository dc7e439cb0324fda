----------------------------- MODULE MCLogTail -----------------------------
(***************************************************************************)
(* Two sessions of two lines: the second file may appear while the first   *)
(* is being read, and each may end in an unfinished line.  The second line *)
(* of the second file does not parse.                                      *)
(***************************************************************************)
EXTENDS LogTail

MCMalformed == [f \in Files |-> IF f = 2 THEN {2} ELSE {}]
=============================================================================
