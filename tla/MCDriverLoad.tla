---------------------------- MODULE MCDriverLoad ----------------------------
(* Values of the constants of DriverLoad for TLC. *)
EXTENDS DriverLoad

CONSTANTS h1, h2, h3, A, B, g1, g2

Alike == Permutations(Envs) \cup Permutations({A, B}) \cup Permutations({h1, h2})
TwoGenvs == [h \in Handles |-> IF h = h3 THEN g2 ELSE g1]
=============================================================================
