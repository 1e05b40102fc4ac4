---------------------------- MODULE AddressSpace ----------------------------
(***************************************************************************)
(* What src/hwcore/paging.h promises: virtual pages that are mapped to     *)
(* physical pages, one by one and independently, and callers that hold     *)
(* references to physical pages.  No page table, no count: any mapping the *)
(* caller asks for is the only one that changes.                           *)
(***************************************************************************)
EXTENDS Naturals

CONSTANTS VPage, PPage, NoFrame

VARIABLES
  frame,   \* frame[v] = the page mapped at v and whether it can be written,
           \* or NoFrame
  held     \* held[p] = number of references the callers hold on page p

space_vars == <<frame, held>>

Frame == [page : PPage, write : BOOLEAN]

SpaceInit ==
  /\ frame \in [VPage -> Frame \union {NoFrame}]
  /\ held = [p \in PPage |-> 0]

Mapped(p) == \E v \in VPage : frame[v] # NoFrame /\ frame[v].page = p

(* A page nobody knows of is handed out, or a caller shares a known one. *)
Hold(p) ==
  /\ held' = [held EXCEPT ![p] = @ + 1]
  /\ UNCHANGED frame

Release(p) ==
  /\ held[p] > 0
  /\ held' = [held EXCEPT ![p] = @ - 1]
  /\ UNCHANGED frame

(* The caller maps a page that it holds. *)
MapAt(v, p, write) ==
  /\ held[p] > 0
  /\ frame' = [frame EXCEPT ![v] = [page |-> p, write |-> write]]
  /\ UNCHANGED held

UnmapAt(v) ==
  /\ frame[v] # NoFrame
  /\ frame' = [frame EXCEPT ![v] = NoFrame]
  /\ UNCHANGED held

SpaceNext ==
  \/ \E p \in PPage : Hold(p) \/ Release(p)
  \/ \E v \in VPage, p \in PPage, write \in BOOLEAN : MapAt(v, p, write)
  \/ \E v \in VPage : UnmapAt(v)

SpaceSpec == SpaceInit /\ [][SpaceNext]_space_vars

=============================================================================
