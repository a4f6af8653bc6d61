--------------------------- MODULE MCConnOptions ---------------------------
(* The handles are interchangeable; the connections are not, one of them   *)
(* is to a data source that is pooled.                                     *)
EXTENDS ConnOptions, TLC
Symmetry == Permutations(Handles)
=============================================================================
