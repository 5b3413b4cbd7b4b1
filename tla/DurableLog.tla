---------------------------- MODULE DurableLog ----------------------------
(***************************************************************************)
(* What a database directory promises: a log that can be opened again, of  *)
(* which a prefix was acknowledged.  It changes only on behalf of an       *)
(* append: entries are added at its end, or a failure takes some from its  *)
(* end, but never an acknowledged one, and none is changed in place.       *)
(***************************************************************************)
EXTENDS Sequences, SequencesExt

VARIABLES
  entries,       \* what opening the directory would recover
  acknowledged,  \* what writers and readers were told is there
  unsettled      \* whether an append is under way, or has failed

Init == entries = <<>> /\ acknowledged = <<>> /\ unsettled = FALSE

Begin ==
  /\ ~unsettled
  /\ unsettled' = TRUE
  /\ UNCHANGED <<entries, acknowledged>>

\* A group of entries reaches the log.
Extend == IsPrefix(entries, entries')

\* A failure cuts the log behind what was acknowledged.
Lose == IsPrefix(entries', entries) /\ IsPrefix(acknowledged, entries')

\* The append goes on, or ends with the process.
Change ==
  /\ unsettled
  /\ unsettled' \in BOOLEAN
  /\ UNCHANGED acknowledged
  /\ Extend \/ Lose

\* Entries of the log are published.
Acknowledge ==
  /\ unsettled' = FALSE
  /\ IsStrictPrefix(acknowledged, acknowledged')
  /\ IsPrefix(acknowledged', entries)
  /\ UNCHANGED entries

Next == Begin \/ Change \/ Acknowledge

Spec == Init /\ [][Next]_<<entries, acknowledged, unsettled>>
===============================================================================
