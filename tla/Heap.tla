-------------------------------- MODULE Heap --------------------------------
(***************************************************************************)
(* What src/os/kmalloc.h, kmem_vmm.h and kmem_slab.h promise their         *)
(* callers: areas of kernel memory that belong to one caller from the call *)
(* that returns them to the call that frees them.  No range, no slab, no   *)
(* cache: an allocation that fails, or a cache that is created, destroyed, *)
(* grown or shrunk behind the scene, does nothing to any area.             *)
(***************************************************************************)
EXTENDS Integers

CONSTANTS HeapBase, HeapTop    \* the first address, and the one after the last

VARIABLE live                  \* the areas that belong to a caller

Apart(a, b) == a.addr + a.size <= b.addr \/ b.addr + b.size <= a.addr

HeapInit == live = {}

Acquire ==
  \E a \in live' :
    /\ live' = live \union {a}
    /\ HeapBase <= a.addr /\ a.size > 0 /\ a.addr + a.size <= HeapTop
    /\ \A b \in live : Apart(a, b)

Surrender == \E a \in live : live' = live \ {a}

HeapSpec == HeapInit /\ [][Acquire \/ Surrender]_live

=============================================================================
