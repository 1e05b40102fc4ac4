------------------------------ MODULE Physmem ------------------------------
(***************************************************************************)
(* The physical pages of src/os/physmem.c: a reference count per page, the *)
(* list of the free pages and the list of the pages in use.  The state is  *)
(* one record, and each function a transformation of it, since paging.c    *)
(* makes several of these calls in one operation.  The list of the used    *)
(* pages is a set: its order is never read.                                *)
(***************************************************************************)
EXTENDS Naturals, FiniteSets, SequencesExt

CONSTANTS
  Page,     \* the pages of RAM, by number; page 0 is never handed out
  Kernel,   \* those of the kernel's image and of the page descriptors
  Hwmap,    \* those of the video memory and the BIOS
  KmemRange,\* the struct sos_kmem_range a page may belong to
  NULL

NoPage == 0

ASSUME PhysmemAssumption ==
  /\ IsFiniteSet(Page) /\ Page \subseteq Nat \ {NoPage}
  /\ Kernel \subseteq Page /\ Hwmap \subseteq Page
  /\ NULL \notin KmemRange

PhysmemState ==
  [ref_cnt : [Page -> Nat], kernel_range : [Page -> KmemRange \union {NULL}],
   free_ppage : Seq(Page), used_ppage : SUBSET Page, physmem_used_pages : Nat]

(* sos_physmem_subsystem_setup() scans the pages upwards and puts each one *)
(* at the head of its list.                                                *)
Identity == Kernel \union Hwmap

FreeAtBoot_WithPageZero ==     \* mutant: physmem_base is address zero
  {s \in [1 .. Cardinality(Page \ Identity) + 1 -> (Page \ Identity) \union {NoPage}] :
     \A i, j \in DOMAIN s : i < j => s[i] > s[j]}

FreeAtBoot ==
  {s \in [1 .. Cardinality(Page \ Identity) -> Page \ Identity] :
     \A i, j \in DOMAIN s : i < j => s[i] > s[j]}

PhysmemSetup(free) ==
  [ref_cnt |-> [p \in Page |-> IF p \in Identity THEN 1 ELSE 0],
   kernel_range |-> [p \in Page |-> NULL],
   free_ppage |-> free,
   used_ppage |-> Identity,
   physmem_used_pages |-> Cardinality(Identity)]

-----------------------------------------------------------------------------
(* sos_physmem_ref_physpage_new(), when a page is free: NewPage is the     *)
(* page it returns.                                                        *)
NewPage(ph) == Head(ph.free_ppage)

RefNew(ph) ==
  [ph EXCEPT !.ref_cnt[NewPage(ph)] = @ + 1,
             !.kernel_range[NewPage(ph)] = NULL,
             !.free_ppage = Tail(@),
             !.used_ppage = @ \union {NewPage(ph)},
             !.physmem_used_pages = @ + 1]

(* sos_physmem_ref_physpage_at() *)
RefAt_ResetRange(ph, p) ==     \* mutant: every reference forgets the range
  LET first == ph.ref_cnt[p] = 0
  IN [ph EXCEPT !.ref_cnt[p] = @ + 1,
                !.kernel_range[p] = NULL,
                !.free_ppage = IF first THEN RemoveFirst(@, p) ELSE @,
                !.used_ppage = @ \union {p},
                !.physmem_used_pages = IF first THEN @ + 1 ELSE @]

RefAt(ph, p) ==
  IF ph.ref_cnt[p] = 0
    THEN [ph EXCEPT !.ref_cnt[p] = 1,
                    !.kernel_range[p] = NULL,
                    !.free_ppage = RemoveFirst(@, p),
                    !.used_ppage = @ \union {p},
                    !.physmem_used_pages = @ + 1]
    ELSE [ph EXCEPT !.ref_cnt[p] = @ + 1]

(* sos_physmem_unref_physpage(); it refuses a page that nobody references. *)
Unref(ph, p) ==
  CASE ph.ref_cnt[p] = 0 -> ph
    [] ph.ref_cnt[p] = 1 ->
         [ph EXCEPT !.ref_cnt[p] = 0,
                    !.kernel_range[p] = NULL,
                    !.free_ppage = <<p>> \o @,
                    !.used_ppage = @ \ {p},
                    !.physmem_used_pages = @ - 1]
    [] OTHER -> [ph EXCEPT !.ref_cnt[p] = @ - 1]

(* sos_physmem_set_kmem_range() *)
SetKmemRange(ph, p, r) == [ph EXCEPT !.kernel_range[p] = r]

-----------------------------------------------------------------------------
(* A page is in the free list, once, when its count is zero, and among the *)
(* used pages otherwise; the counter that sos_physmem_get_state() reports  *)
(* is the number of used pages.                                            *)
PagesAccounted(ph) ==
  /\ \A i, j \in DOMAIN ph.free_ppage :
       ph.free_ppage[i] = ph.free_ppage[j] => i = j
  /\ \A p \in Page :
       /\ (\E i \in DOMAIN ph.free_ppage : ph.free_ppage[i] = p) <=> (ph.ref_cnt[p] = 0)
       /\ (p \in ph.used_ppage) <=> (ph.ref_cnt[p] > 0)
  /\ ph.physmem_used_pages = Cardinality(ph.used_ppage)

(* Only a page in use belongs to a kernel range. *)
FreePagesHaveNoRange(ph) ==
  \A p \in Page : ph.ref_cnt[p] = 0 => ph.kernel_range[p] = NULL

=============================================================================
