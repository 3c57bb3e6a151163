---------------------------- MODULE MCStatusSyncer ----------------------------
(* Small instances of StatusSyncer for TLC.                                *)
EXTENDS StatusSyncer, TLC

\* Workers are interchangeable; safety runs only.
Symmetry == Permutations(Workers)
===============================================================================
