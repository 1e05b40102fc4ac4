---------------------------- MODULE DemandPaging ----------------------------
(***************************************************************************)
(* The areas of sos_kmem_vmm_alloc() without SOS_KMEM_VMM_MAP, whose pages *)
(* pgflt_ex() of src/os/kernel.c maps when they are first touched.         *)
(***************************************************************************)
EXTENDS Kmem

VARIABLE halted     \* an assertion of lookup_range() failed

demand_vars == <<kmem_vars, halted>>

DemandInit == KmemInit /\ halted = FALSE

LazyAlloc(nb, n) ==
  /\ Deliver(AndThen(ReserveRange(Granted(n), nb), BaseOf), nb * PageSize)
  /\ UNCHANGED halted

(* pgflt_ex() on an address of a range: the new page is mapped, and no     *)
(* range is recorded for it.                                               *)
PageFault(p) ==
  /\ p \notin DOMAIN k.owner /\ Lookup(k, p) # NULL
  /\ k' = [k EXCEPT !.owner = (p :> NULL) @@ @]
  /\ UNCHANGED <<owned, halted>>

(* lookup_range() expects a range for a page that is mapped. *)
Unexpected(addr) ==
  LET p == PageOf(addr) IN p \in DOMAIN k.owner /\ k.owner[p] = NULL

FreeOwned(addr) ==
  \/ Unexpected(addr) /\ halted' = TRUE /\ UNCHANGED kmem_vars
  \/ ~ Unexpected(addr) /\ Kfree(addr) /\ UNCHANGED halted

DemandNext ==
  /\ ~ halted
  /\ \/ \E size \in Request, n \in Grant : LazyAlloc(PagesFor(size), n)
     \/ \E p \in Pages : PageFault(p)
     \/ \E a \in owned : FreeOwned(a.addr)

DemandSpec == DemandInit /\ [][DemandNext]_demand_vars

(* A caller that frees an area it owns, and may have touched, does not     *)
(* halt the kernel: lookup_range() expects that a mapped page is           *)
(* associated with a range.                                                *)
FreeNeverHalts == ~ halted

=============================================================================
