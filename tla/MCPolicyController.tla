-------------------------- MODULE MCPolicyController --------------------------
(* Small instances of PolicyController for TLC.                            *)
EXTENDS PolicyController, TLC

\* Hubs and clusters are interchangeable; safety runs only.
Symmetry == Permutations(Hubs) \cup Permutations(Clusters)
===============================================================================
