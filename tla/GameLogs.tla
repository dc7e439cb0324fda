------------------------------ MODULE GameLogs ------------------------------
(***************************************************************************)
(* The log files of one kind that the game server leaves in Logs/, oldest  *)
(* first: each server session opens a new one and appends to it; the older *)
(* ones never change again, and when they are archived their base name,    *)
(* which is the key of their checkpoint, stays the same.                   *)
(*                                                                         *)
(* A line takes two writes, its text and its newline, so that a reader may *)
(* find an unfinished one at the end of a file, where it stays if the      *)
(* session died there.                                                     *)
(***************************************************************************)
EXTENDS Naturals

CONSTANTS
  MaxFiles,   \* bound on the sessions of a behaviour
  MaxLines    \* bound on the lines of a session

ASSUME LogBounds == MaxFiles \in Nat /\ MaxLines \in Nat

Files == 1..MaxFiles
Positions == 1..MaxLines

VARIABLES
  opened,   \* files that exist: 1..opened, the last one being written
  lines,    \* complete lines of each file
  tail      \* 1 if the file ends in an unfinished line

logs == <<opened, lines, tail>>

LogsTypeOK ==
  /\ opened \in 0..MaxFiles
  /\ lines \in [Files -> 0..MaxLines]
  /\ tail \in [Files -> {0, 1}]
  /\ \A f \in Files : lines[f] + tail[f] <= MaxLines

LogsInit ==
  /\ opened = 0
  /\ lines = [f \in Files |-> 0]
  /\ tail = [f \in Files |-> 0]

NewSession ==
  /\ opened < MaxFiles
  /\ opened' = opened + 1
  /\ UNCHANGED <<lines, tail>>

WriteText(f) ==
  /\ f = opened /\ tail[f] = 0 /\ lines[f] < MaxLines
  /\ tail' = [tail EXCEPT ![f] = 1]
  /\ UNCHANGED <<opened, lines>>

WriteNewline(f) ==
  /\ f = opened /\ tail[f] = 1
  /\ tail' = [tail EXCEPT ![f] = 0]
  /\ lines' = [lines EXCEPT ![f] = @ + 1]
  /\ UNCHANGED opened

GameWrites == NewSession \/ \E f \in Files : WriteText(f) \/ WriteNewline(f)

\* A file's size in half lines; a checkpoint is counted in whole lines.
Size(f) == 2 * lines[f] + tail[f]
=============================================================================
