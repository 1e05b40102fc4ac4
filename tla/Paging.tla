------------------------------- MODULE Paging -------------------------------
(***************************************************************************)
(* The page directory and the page tables of src/hwcore/paging.c over the  *)
(* physical pages of Physmem.  A virtual page is the pair of its indexes   *)
(* in the page directory and in a page table; a page table is the content  *)
(* of a physical page, so that one that is freed too early is overwritten  *)
(* by the next.  Pages are mapped and unmapped by callers such as          *)
(* kmem_vmm.c, which hold references to the pages they map.                *)
(***************************************************************************)
EXTENDS Physmem

CONSTANTS
  PDIndex,      \* the entries of the page directory
  PTIndex,      \* the entries of a page table
  MirrorIndex,  \* the entry of the mirroring
  MaxHeld       \* bound of the model on the references a caller holds

(* The identity mapped area lies in the first 4 MB. *)
ASSUME PagingAssumption ==
  /\ IsFiniteSet(PDIndex) /\ IsFiniteSet(PTIndex)
  /\ 0 \in PDIndex /\ MirrorIndex \in PDIndex \ {0}
  /\ Identity # {} /\ Identity \subseteq PTIndex
  /\ Cardinality(Page \ Identity) >= 2
  /\ MaxHeld \in Nat

VARIABLES
  phys,    \* the physical pages
  pd,      \* pd[d] = the page of page table d, NoPage when it is not present
  table,   \* table[p] = the page table entries written in page p
  held     \* held[p] = the references that callers hold on page p

paging_vars == <<phys, pd, table, held>>

VAddr == (PDIndex \ {MirrorIndex}) \X PTIndex

Entry == [paddr : Page \union {NoPage}, write : BOOLEAN]

NoEntry == [paddr |-> NoPage, write |-> FALSE]

(* What a page that is no page table contains: bytes of its owner, or of   *)
(* its last one, that would be read as page table entries.                 *)
Data == [t \in PTIndex |-> [paddr |-> CHOOSE p \in Identity : TRUE, write |-> TRUE]]

EmptyTable == [t \in PTIndex |-> NoEntry]

PagingTypeOK ==
  /\ phys \in PhysmemState
  /\ pd \in [PDIndex -> Page \union {NoPage}]
  /\ table \in [Page -> [PTIndex -> Entry]]
  /\ held \in [Page -> Nat]

(* The page table entry of a virtual page, as the mirroring shows it. *)
PTE(v) == IF pd[v[1]] = NoPage THEN NoEntry ELSE table[pd[v[1]]][v[2]]

(* sos_paging_get_paddr(); sos_paging_get_prot() adds the write bit, that  *)
(* every page directory entry grants.                                      *)
GetPaddr(v) == PTE(v).paddr

GetProt(v) ==
  IF GetPaddr(v) = NoPage THEN {}
  ELSE {"READ"} \union (IF PTE(v).write THEN {"WRITE"} ELSE {})

(* sos_paging_subsystem_setup() on the memory of                           *)
(* sos_physmem_subsystem_setup(): the first free page becomes the page     *)
(* directory, the second one the page table of the identity mapping, with  *)
(* one reference for each of its entries.                                  *)
PagingInit ==
  \E free \in FreeAtBoot :
    LET directory == free[1]
        pt == free[2]
    IN /\ phys = [RefNew(RefNew(PhysmemSetup(free)))
                    EXCEPT !.ref_cnt[pt] = Cardinality(Identity)]
       /\ pd = [d \in PDIndex |-> CASE d = 0 -> pt
                                    [] d = MirrorIndex -> directory
                                    [] OTHER -> NoPage]
       /\ table = [p \in Page |-> [t \in PTIndex |->
                     CASE p # pt -> Data[t]
                       [] t \in Identity -> [paddr |-> t, write |-> TRUE]
                       [] OTHER -> NoEntry]]
       /\ held = [p \in Page |-> 0]

-----------------------------------------------------------------------------
(* THE CALLERS' REFERENCES                                                 *)

(* sos_physmem_ref_physpage_new() *)
TakePage ==
  /\ phys.free_ppage # <<>>
  /\ phys' = RefNew(phys)
  /\ held' = [held EXCEPT ![NewPage(phys)] = @ + 1]
  /\ UNCHANGED <<pd, table>>

(* sos_physmem_ref_physpage_at() on a page that holds no page table. *)
ReferencePage(p) ==
  /\ \A d \in PDIndex : pd[d] # p
  /\ held[p] < MaxHeld
  /\ phys' = RefAt(phys, p)
  /\ held' = [held EXCEPT ![p] = @ + 1]
  /\ UNCHANGED <<pd, table>>

(* sos_physmem_unref_physpage() *)
DropPage(p) ==
  /\ held[p] > 0
  /\ phys' = Unref(phys, p)
  /\ held' = [held EXCEPT ![p] = @ - 1]
  /\ UNCHANGED <<pd, table>>

(* sos_physmem_set_kmem_range() for a page that was just mapped. *)
RecordRange(v, r) ==
  /\ GetPaddr(v) # NoPage
  /\ phys' = SetKmemRange(phys, GetPaddr(v), r)
  /\ UNCHANGED <<pd, table, held>>

-----------------------------------------------------------------------------
(* sos_paging_map(): the caller holds page p.  A page table is allocated   *)
(* (or -SOS_ENOMEM is returned and nothing changes), an entry is added to  *)
(* a page table, or the page that was mapped there is implicitly unmapped. *)
WriteEntry(v, pt, content, p, write) ==
  table' = [table EXCEPT ![pt] = [content EXCEPT ![v[2]] = [paddr |-> p, write |-> write]]]

MapInNewTable_NoReset(v, p, write) == \* mutant: the page table is not cleared
  /\ pd[v[1]] = NoPage /\ phys.free_ppage # <<>>
  /\ phys' = RefAt(RefNew(phys), p)
  /\ pd' = [pd EXCEPT ![v[1]] = NewPage(phys)]
  /\ WriteEntry(v, NewPage(phys), table[NewPage(phys)], p, write)
  /\ UNCHANGED held

MapInNewTable(v, p, write) ==
  /\ pd[v[1]] = NoPage /\ phys.free_ppage # <<>>
  /\ phys' = RefAt(RefNew(phys), p)
  /\ pd' = [pd EXCEPT ![v[1]] = NewPage(phys)]
  /\ WriteEntry(v, NewPage(phys), EmptyTable, p, write)
  /\ UNCHANGED held

MapNewEntry_NoCount(v, p, write) ==   \* mutant: the entry is not counted
  /\ pd[v[1]] # NoPage /\ GetPaddr(v) = NoPage
  /\ phys' = RefAt(phys, p)
  /\ WriteEntry(v, pd[v[1]], table[pd[v[1]]], p, write)
  /\ UNCHANGED <<pd, held>>

MapNewEntry(v, p, write) ==
  /\ pd[v[1]] # NoPage /\ GetPaddr(v) = NoPage
  /\ phys' = RefAt(RefAt(phys, pd[v[1]]), p)
  /\ WriteEntry(v, pd[v[1]], table[pd[v[1]]], p, write)
  /\ UNCHANGED <<pd, held>>

MapOver(v, p, write) ==
  /\ GetPaddr(v) # NoPage
  /\ phys' = RefAt(Unref(phys, GetPaddr(v)), p)
  /\ WriteEntry(v, pd[v[1]], table[pd[v[1]]], p, write)
  /\ UNCHANGED <<pd, held>>

Map(v, p, write) ==
  /\ held[p] > 0
  /\ \/ MapInNewTable(v, p, write)
     \/ MapNewEntry(v, p, write)
     \/ MapOver(v, p, write)

(* sos_paging_unmap(): the page loses a reference, then its page table,    *)
(* which leaves the page directory when that was the last one.             *)
Unmap_KeepTable(v) ==                 \* mutant: the page directory entry is kept
  /\ GetPaddr(v) # NoPage
  /\ phys' = Unref(Unref(phys, GetPaddr(v)), pd[v[1]])
  /\ table' = [table EXCEPT ![pd[v[1]]][v[2]] = NoEntry]
  /\ UNCHANGED <<pd, held>>

Unmap(v) ==
  LET pt == pd[v[1]]
  IN /\ GetPaddr(v) # NoPage
     /\ phys' = Unref(Unref(phys, GetPaddr(v)), pt)
     /\ IF phys'.ref_cnt[pt] = 0
          THEN /\ pd' = [pd EXCEPT ![v[1]] = NoPage]
               /\ table' = [table EXCEPT ![pt] = Data]
          ELSE /\ table' = [table EXCEPT ![pt][v[2]] = NoEntry]
               /\ UNCHANGED pd
     /\ UNCHANGED held

(* Callers leave the identity mapping of the kernel alone. *)
CallerVAddr == {v \in VAddr : ~ (v[1] = 0 /\ v[2] \in Identity)}

PagingNext ==
  \/ TakePage
  \/ \E p \in Page : ReferencePage(p) \/ DropPage(p)
  \/ \E v \in CallerVAddr, r \in KmemRange : RecordRange(v, r)
  \/ \E v \in CallerVAddr, p \in Page, write \in BOOLEAN : Map(v, p, write)
  \/ \E v \in CallerVAddr : Unmap(v)

PagingSpec == PagingInit /\ [][PagingNext]_paging_vars

-----------------------------------------------------------------------------
(* PROPERTIES                                                              *)

MappedAt(p) == {v \in VAddr : GetPaddr(v) = p}

EntriesIn(p) == {v \in VAddr : pd[v[1]] = p /\ GetPaddr(v) # NoPage}

(* The count of a page is the number of references that callers hold on    *)
(* it, of virtual pages it is mapped at, and of entries of the page table  *)
(* it contains; the page directory counts for one.  The free list holds    *)
(* exactly the pages whose count is zero, without any kernel range: a page *)
(* is freed when, and only when, the last reference to it goes.            *)
CountsExact ==
  /\ \A p \in Page :
       phys.ref_cnt[p] = held[p] + Cardinality(MappedAt(p)) + Cardinality(EntriesIn(p))
                           + (IF p = pd[MirrorIndex] THEN 1 ELSE 0)
  /\ PagesAccounted(phys)
  /\ FreePagesHaveNoRange(phys)

(* A page table is present exactly while it has an entry, and each page    *)
(* directory entry has a page table of its own, that no virtual page maps. *)
TablesInUse ==
  \A d \in PDIndex \ {MirrorIndex} : pd[d] # NoPage =>
    /\ \E t \in PTIndex : GetPaddr(<<d, t>>) # NoPage
    /\ \A other \in PDIndex \ {d} : pd[other] # pd[d]
    /\ MappedAt(pd[d]) = {}

(* A page keeps the kernel range recorded for it as long as it is mapped:  *)
(* mapping a page over itself takes it to count zero and back only when    *)
(* nobody else holds it, which paging.h excludes.                          *)
RangeKept ==
  [][\A v \in VAddr :
       GetPaddr(v) # NoPage /\ GetPaddr(v)' = GetPaddr(v)
         => LET p == GetPaddr(v)
            IN \/ phys'.kernel_range[p] = phys.kernel_range[p]
               \/ \E w \in CallerVAddr, r \in KmemRange : RecordRange(w, r)]_paging_vars

(* The page tables implement an address space in which every virtual page  *)
(* is mapped and unmapped alone.                                           *)
Space == INSTANCE AddressSpace WITH
  VPage <- VAddr,
  PPage <- Page,
  NoFrame <- [page |-> NoPage, write |-> FALSE],
  frame <- [v \in VAddr |-> [page |-> GetPaddr(v), write |-> "WRITE" \in GetProt(v)]]

ImplementsAddressSpace == Space!SpaceSpec

=============================================================================
