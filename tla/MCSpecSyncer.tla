---------------------------- MODULE MCSpecSyncer ----------------------------
(* Small instances of SpecSyncer for TLC.                                  *)
EXTENDS SpecSyncer, TLC

\* All objects are in the same namespace.
MCNamespaceOf == [k \in Keys |-> CHOOSE n \in Namespaces : TRUE]

\* Objects and workers are interchangeable; safety runs only.
Symmetry == Permutations(Keys) \cup Permutations(Workers)
=============================================================================
