----------------------------- MODULE MCRealTime -----------------------------
(* Instances of RealTime for TLC. *)
EXTENDS RealTime

Interchangeable == Permutations(Action)

=============================================================================
