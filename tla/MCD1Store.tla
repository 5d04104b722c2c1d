------------------------------ MODULE MCD1Store ------------------------------
(* D1Store for TLC: callers and contents are interchangeable. *)
EXTENDS D1Store, TLC

Symmetry == Permutations(Txns) \cup Permutations(Data)
==============================================================================
