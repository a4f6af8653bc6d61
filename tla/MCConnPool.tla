----------------------------- MODULE MCConnPool -----------------------------
(* Symmetry of the constants of ConnPool for TLC.  (Not of Sources: Asked   *)
(* tells them apart.)                                                       *)
EXTENDS ConnPool

Names == Permutations(Handles) \cup Permutations(Nodes) \cup Permutations(Links)
=============================================================================
