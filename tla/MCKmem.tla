------------------------------- MODULE MCKmem -------------------------------
(* Instance of Kmem for TLC. *)
EXTENDS Kmem

CONSTANTS Small, Dma, Huge

Classes == <<Small>>

Shapes ==
  (Small :> [size |-> 25, pages |-> 1, min |-> 0, onslab |-> FALSE])
  @@ (Dma :> [size |-> 45, pages |-> 2, min |-> 1, onslab |-> FALSE])
  @@ (Huge :> [size |-> 45, pages |-> 2, min |-> 3, onslab |-> FALSE])

=============================================================================
