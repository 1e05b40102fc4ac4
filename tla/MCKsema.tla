------------------------------ MODULE MCKsema ------------------------------
(* Instance of Ksema for TLC. *)
EXTENDS Ksema

CreatedLater == Permutations(Thread \ {Idle, Kinit})

=============================================================================
