--------------------------- MODULE MCDemandPaging ---------------------------
(* Instance of DemandPaging for TLC. *)
EXTENDS DemandPaging

CONSTANT Small

Classes == <<Small>>

Shapes == Small :> [size |-> 25, pages |-> 1, min |-> 0, onslab |-> FALSE]

=============================================================================
