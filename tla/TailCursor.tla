----------------------------- MODULE TailCursor -----------------------------
(***************************************************************************)
(* What the pipelines that follow a log promise about it, whatever they do *)
(* with its lines: it is read line by line; a checkpoint is stored only    *)
(* for lines that have been read and never goes back, although             *)
(* setFileOffset overwrites it with any number it is given; and what is    *)
(* read again begins at the checkpoint or after it.  So no line is behind  *)
(* a checkpoint that was not read before.                                  *)
(*                                                                         *)
(* LogTail implements this module with its poll loop; PendingEvents and    *)
(* CharacterStore, which leave that loop out, implement it too.            *)
(***************************************************************************)
EXTENDS Naturals

CONSTANT Logs

VARIABLES
  read,        \* lines of each log that have been read, this time
  checkpoint   \* lines behind its stored checkpoint

vars == <<read, checkpoint>>

Init == read = [l \in Logs |-> 0] /\ checkpoint = [l \in Logs |-> 0]

Advance(l) == read' = [read EXCEPT ![l] = @ + 1] /\ UNCHANGED checkpoint

Store(l) ==
  /\ \E n \in checkpoint[l]..read[l] : checkpoint' = [checkpoint EXCEPT ![l] = n]
  /\ UNCHANGED read

\* Lines are read again: a checkpoint was not stored, or the process has started
\* again, and finds the last one it stored.
GoBack(l) ==
  \E n \in checkpoint[l]..read[l] :
    read' = [read EXCEPT ![l] = n] /\ checkpoint' = [checkpoint EXCEPT ![l] = n]

Next == \E l \in Logs : Advance(l) \/ Store(l) \/ GoBack(l)

Spec == Init /\ [][Next]_vars
=============================================================================
