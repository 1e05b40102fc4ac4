---------------------------- MODULE PagingProofs ----------------------------
(***************************************************************************)
(* The reference counts of the physical pages, the page tables and the     *)
(* address space they implement, for any number of pages and any indexes.  *)
(* First what the functions of physmem.c do to the pages, then what an     *)
(* operation of paging.c on one virtual page does to the counts, then the  *)
(* inductive invariant.                                                    *)
(***************************************************************************)
EXTENDS Paging, SequenceLemmas, FiniteSetTheorems

-----------------------------------------------------------------------------
(* THE PHYSICAL PAGES                                                      *)

PhysOK(ph) ==
  /\ ph \in PhysmemState
  /\ PagesAccounted(ph)
  /\ FreePagesHaveNoRange(ph)

(* NoPage is not a page. *)
LEMMA NoPageIsNone == NoPage \notin Page
  BY PhysmemAssumption

(* There are finitely many pages. *)
LEMMA FinitePage == IsFiniteSet(Page)
  BY PhysmemAssumption

(* The state of the physical memory is made of its five fields. *)
LEMMA PhysOKRecord ==
  ASSUME NEW STATE ph, PhysOK(ph)
  PROVE  ph = [ref_cnt |-> ph.ref_cnt, kernel_range |-> ph.kernel_range,
               free_ppage |-> ph.free_ppage, used_ppage |-> ph.used_ppage,
               physmem_used_pages |-> ph.physmem_used_pages]
  BY DEF PhysOK, PhysmemState

(* The same, in terms of what the free list contains. *)
PhysParts(cnt, range, free, used, number) ==
  /\ cnt \in [Page -> Nat] /\ range \in [Page -> KmemRange \union {NULL}]
  /\ free \in Seq(Page) /\ used \in SUBSET Page
  /\ IsInjective(free)
  /\ \A p \in Page : Contains(free, p) <=> cnt[p] = 0
  /\ \A p \in Page : p \in used <=> cnt[p] > 0
  /\ number = Cardinality(used)
  /\ \A p \in Page : cnt[p] = 0 => range[p] = NULL

(* The invariant of the physical memory, field by field. *)
LEMMA PhysOKParts ==
  ASSUME NEW STATE ph, PhysOK(ph)
  PROVE  PhysParts(ph.ref_cnt, ph.kernel_range, ph.free_ppage, ph.used_ppage,
                   ph.physmem_used_pages)
  <1>1. ph.free_ppage \in Seq(Page) /\ DOMAIN ph.free_ppage = 1 .. Len(ph.free_ppage)
    BY LenProperties DEF PhysOK, PhysmemState
  <1>2. IsInjective(ph.free_ppage)
    BY DEF PhysOK, PagesAccounted, IsInjective
  <1>3. \A p \in Page : Contains(ph.free_ppage, p) <=> ph.ref_cnt[p] = 0
    BY <1>1 DEF PhysOK, PagesAccounted, Contains
  <1> QED
    BY <1>1, <1>2, <1>3 DEF PhysOK, PhysmemState, PagesAccounted, FreePagesHaveNoRange, PhysParts

(* The fields make the invariant again. *)
LEMMA PartsPhysOK ==
  ASSUME NEW STATE cnt, NEW STATE range, NEW STATE free, NEW STATE used, NEW STATE number,
         PhysParts(cnt, range, free, used, number)
  PROVE  PhysOK([ref_cnt |-> cnt, kernel_range |-> range, free_ppage |-> free,
                 used_ppage |-> used, physmem_used_pages |-> number])
  <1> DEFINE ph == [ref_cnt |-> cnt, kernel_range |-> range, free_ppage |-> free,
                    used_ppage |-> used, physmem_used_pages |-> number]
  <1>1. number \in Nat
    BY FinitePage, FS_Subset, FS_CardinalityType DEF PhysParts
  <1>2. ph \in PhysmemState
    BY <1>1 DEF PhysParts, PhysmemState
  <1>3. free \in Seq(Page) /\ DOMAIN free = 1 .. Len(free)
    BY LenProperties DEF PhysParts
  <1>4. \A p \in Page : (\E i \in DOMAIN free : free[i] = p) <=> cnt[p] = 0
    BY <1>3 DEF PhysParts, Contains
  <1>5. PagesAccounted(ph)
    BY <1>4 DEF PhysParts, PagesAccounted, IsInjective
  <1> QED  BY <1>2, <1>5 DEF PhysOK, FreePagesHaveNoRange, PhysParts

(* A free page that gets a reference leaves the free list, and counts as   *)
(* one more used page.                                                     *)
LEMMA PageTaken ==
  ASSUME NEW STATE ph, PhysOK(ph), NEW STATE p, p \in Page, ph.ref_cnt[p] = 0,
         NEW STATE free, free \in Seq(Page), IsInjective(free),
         \A t \in Page : Contains(free, t) <=> Contains(ph.free_ppage, t) /\ t # p
  PROVE  PhysParts([ph.ref_cnt EXCEPT ![p] = 1], [ph.kernel_range EXCEPT ![p] = NULL], free,
                   ph.used_ppage \union {p}, ph.physmem_used_pages + 1)
  <1>1. PhysParts(ph.ref_cnt, ph.kernel_range, ph.free_ppage, ph.used_ppage,
                  ph.physmem_used_pages)
    BY PhysOKParts
  <1>2. IsFiniteSet(ph.used_ppage) /\ p \notin ph.used_ppage
    BY <1>1, FinitePage, FS_Subset DEF PhysParts
  <1>3. Cardinality(ph.used_ppage \union {p}) = Cardinality(ph.used_ppage) + 1
    BY <1>2, FS_AddElement
  <1> QED  BY <1>1, <1>3 DEF PhysParts

(* sos_physmem_ref_physpage_new() returns a page that nobody references. *)
LEMMA RefNewPage ==
  ASSUME NEW STATE ph, PhysOK(ph), ph.free_ppage # <<>>
  PROVE  /\ PhysOK(RefNew(ph))
         /\ NewPage(ph) \in Page /\ ph.ref_cnt[NewPage(ph)] = 0
         /\ RefNew(ph).ref_cnt = [ph.ref_cnt EXCEPT ![NewPage(ph)] = 1]
         /\ RefNew(ph).kernel_range = ph.kernel_range
         /\ RefNew(ph).free_ppage = Tail(ph.free_ppage)
  <1> DEFINE p == NewPage(ph)
  <1>1. PhysParts(ph.ref_cnt, ph.kernel_range, ph.free_ppage, ph.used_ppage,
                  ph.physmem_used_pages)
    BY PhysOKParts
  <1>2. ph.free_ppage \in Seq(Page) /\ IsInjective(ph.free_ppage)
    BY <1>1 DEF PhysParts
  <1>3. /\ p \in Page /\ Tail(ph.free_ppage) \in Seq(Page)
        /\ IsInjective(Tail(ph.free_ppage))
        /\ \A t \in Page : Contains(Tail(ph.free_ppage), t)
                             <=> Contains(ph.free_ppage, t) /\ t # p
        /\ Contains(ph.free_ppage, p)
    BY <1>2, TailPlaces, TailContains DEF NewPage
  <1>4. ph.ref_cnt[p] = 0 /\ ph.kernel_range[p] = NULL
    BY <1>1, <1>3 DEF PhysParts
  <1> DEFINE cnt == [ph.ref_cnt EXCEPT ![p] = 1]
             range == [ph.kernel_range EXCEPT ![p] = NULL]
  <1>5. RefNew(ph) = [ref_cnt |-> cnt, kernel_range |-> range,
                      free_ppage |-> Tail(ph.free_ppage),
                      used_ppage |-> ph.used_ppage \union {p},
                      physmem_used_pages |-> ph.physmem_used_pages + 1]
    <2>1. RefNew(ph) = [ph EXCEPT !.ref_cnt = [ph.ref_cnt EXCEPT ![p] = ph.ref_cnt[p] + 1],
                                  !.kernel_range = range,
                                  !.free_ppage = Tail(ph.free_ppage),
                                  !.used_ppage = ph.used_ppage \union {p},
                                  !.physmem_used_pages = ph.physmem_used_pages + 1]
      BY DEF RefNew
    <2>2. ph.ref_cnt[p] + 1 = 1
      BY <1>4
    <2> QED  BY <2>1, <2>2, PhysOKRecord
  <1> HIDE DEF p
  <1>6. PhysParts(cnt, range, Tail(ph.free_ppage), ph.used_ppage \union {p},
                  ph.physmem_used_pages + 1)
    BY <1>3, <1>4, PageTaken
  <1>7. range = ph.kernel_range
    BY <1>1, <1>3, <1>4 DEF PhysParts
  <1>8. RefNew(ph).ref_cnt = cnt /\ RefNew(ph).kernel_range = range
        /\ RefNew(ph).free_ppage = Tail(ph.free_ppage)
    BY <1>5
  <1> HIDE DEF cnt, range
  <1>9. PhysOK(RefNew(ph))
    BY <1>5, <1>6, PartsPhysOK
  <1> QED  BY <1>3, <1>4, <1>7, <1>8, <1>9 DEF p, cnt

(* sos_physmem_ref_physpage_at() *)
LEMMA RefAtPage ==
  ASSUME NEW STATE ph, PhysOK(ph), NEW STATE p, p \in Page
  PROVE  /\ PhysOK(RefAt(ph, p))
         /\ RefAt(ph, p).ref_cnt = [ph.ref_cnt EXCEPT ![p] = @ + 1]
         /\ RefAt(ph, p).kernel_range = ph.kernel_range
  <1>1. PhysParts(ph.ref_cnt, ph.kernel_range, ph.free_ppage, ph.used_ppage,
                  ph.physmem_used_pages)
    BY PhysOKParts
  <1>2. CASE ph.ref_cnt[p] = 0
    <2>1. Contains(ph.free_ppage, p) /\ ph.kernel_range[p] = NULL
          /\ ph.free_ppage \in Seq(Page) /\ IsInjective(ph.free_ppage)
      BY <1>1, <1>2 DEF PhysParts
    <2>2. /\ RemoveFirst(ph.free_ppage, p) \in Seq(Page)
          /\ IsInjective(RemoveFirst(ph.free_ppage, p))
          /\ \A t \in Page : Contains(RemoveFirst(ph.free_ppage, p), t)
                               <=> Contains(ph.free_ppage, t) /\ t # p
      BY <2>1, RemoveFirstContains
    <2> DEFINE cnt == [ph.ref_cnt EXCEPT ![p] = 1]
               range == [ph.kernel_range EXCEPT ![p] = NULL]
    <2>3. RefAt(ph, p) = [ref_cnt |-> cnt, kernel_range |-> range,
                          free_ppage |-> RemoveFirst(ph.free_ppage, p),
                          used_ppage |-> ph.used_ppage \union {p},
                          physmem_used_pages |-> ph.physmem_used_pages + 1]
      <3>1. RefAt(ph, p) = [ph EXCEPT !.ref_cnt = cnt, !.kernel_range = range,
                                      !.free_ppage = RemoveFirst(@, p),
                                      !.used_ppage = @ \union {p},
                                      !.physmem_used_pages = @ + 1]
        BY <1>2 DEF RefAt
      <3> HIDE DEF cnt, range
      <3> QED  BY <3>1, PhysOKRecord
    <2>4. PhysParts(cnt, range, RemoveFirst(ph.free_ppage, p), ph.used_ppage \union {p},
                    ph.physmem_used_pages + 1)
      BY <1>2, <2>2, PageTaken
    <2>5. range = ph.kernel_range
      BY <1>1, <2>1 DEF PhysParts
    <2>6. cnt = [ph.ref_cnt EXCEPT ![p] = @ + 1]
      BY <1>2
    <2> HIDE DEF cnt, range
    <2>7. PhysOK(RefAt(ph, p))
      BY <2>3, <2>4, PartsPhysOK
    <2> QED  BY <2>3, <2>5, <2>6, <2>7
  <1>3. CASE ph.ref_cnt[p] # 0
    <2>1. RefAt(ph, p) = [ref_cnt |-> [ph.ref_cnt EXCEPT ![p] = @ + 1],
                          kernel_range |-> ph.kernel_range,
                          free_ppage |-> ph.free_ppage,
                          used_ppage |-> ph.used_ppage,
                          physmem_used_pages |-> ph.physmem_used_pages]
      BY <1>3 DEF RefAt, PhysOK, PhysmemState
    <2>2. PhysParts([ph.ref_cnt EXCEPT ![p] = @ + 1], ph.kernel_range, ph.free_ppage,
                    ph.used_ppage, ph.physmem_used_pages)
      BY <1>1, <1>3 DEF PhysParts
    <2> QED  BY <2>1, <2>2, PartsPhysOK
  <1> QED  BY <1>2, <1>3

(* sos_physmem_unref_physpage(): the range of the page is forgotten with   *)
(* the last reference, and never before.                                   *)
LEMMA UnrefPage ==
  ASSUME NEW STATE ph, PhysOK(ph), NEW STATE p, p \in Page, ph.ref_cnt[p] > 0
  PROVE  /\ PhysOK(Unref(ph, p))
         /\ Unref(ph, p).ref_cnt = [ph.ref_cnt EXCEPT ![p] = @ - 1]
         /\ \A q \in Page : q # p \/ ph.ref_cnt[q] > 1
              => Unref(ph, p).kernel_range[q] = ph.kernel_range[q]
  <1>1. PhysParts(ph.ref_cnt, ph.kernel_range, ph.free_ppage, ph.used_ppage,
                  ph.physmem_used_pages)
    BY PhysOKParts
  <1>2. CASE ph.ref_cnt[p] = 1
    <2> DEFINE free == <<p>> \o ph.free_ppage
    <2>1. ~ Contains(ph.free_ppage, p)
          /\ ph.free_ppage \in Seq(Page) /\ IsInjective(ph.free_ppage)
      BY <1>1, <1>2 DEF PhysParts
    <2>2. /\ free \in Seq(Page) /\ IsInjective(free)
          /\ \A t \in Page : Contains(free, t) <=> Contains(ph.free_ppage, t) \/ t = p
      BY <2>1, PrependContains
    <2>3. IsFiniteSet(ph.used_ppage) /\ p \in ph.used_ppage
      BY <1>1, <1>2, FinitePage, FS_Subset DEF PhysParts
    <2>4. Cardinality(ph.used_ppage \ {p}) = Cardinality(ph.used_ppage) - 1
      BY <2>3, FS_RemoveElement
    <2> DEFINE cnt == [ph.ref_cnt EXCEPT ![p] = 0]
               range == [ph.kernel_range EXCEPT ![p] = NULL]
    <2>5. Unref(ph, p) = [ref_cnt |-> cnt, kernel_range |-> range, free_ppage |-> free,
                          used_ppage |-> ph.used_ppage \ {p},
                          physmem_used_pages |-> ph.physmem_used_pages - 1]
      <3>1. Unref(ph, p) = [ph EXCEPT !.ref_cnt = cnt, !.kernel_range = range,
                                      !.free_ppage = free, !.used_ppage = @ \ {p},
                                      !.physmem_used_pages = @ - 1]
        BY <1>2 DEF Unref
      <3> HIDE DEF cnt, range, free
      <3> QED  BY <3>1, PhysOKRecord
    <2> HIDE DEF free
    <2>6. PhysParts(cnt, range, free, ph.used_ppage \ {p}, ph.physmem_used_pages - 1)
      BY <1>1, <1>2, <2>2, <2>4 DEF PhysParts
    <2>7. cnt = [ph.ref_cnt EXCEPT ![p] = @ - 1]
      BY <1>2
    <2>8. \A q \in Page : q # p => range[q] = ph.kernel_range[q]
      BY <1>1 DEF PhysParts
    <2> HIDE DEF cnt, range
    <2>9. PhysOK(Unref(ph, p))
      BY <2>5, <2>6, PartsPhysOK
    <2>10. /\ Unref(ph, p).ref_cnt = [ph.ref_cnt EXCEPT ![p] = @ - 1]
           /\ Unref(ph, p).kernel_range = range
      BY <2>5, <2>7
    <2> QED  BY <1>2, <2>8, <2>9, <2>10
  <1>3. CASE ph.ref_cnt[p] > 1
    <2> DEFINE cnt == [ph.ref_cnt EXCEPT ![p] = @ - 1]
    <2>1. Unref(ph, p) = [ref_cnt |-> cnt, kernel_range |-> ph.kernel_range,
                          free_ppage |-> ph.free_ppage, used_ppage |-> ph.used_ppage,
                          physmem_used_pages |-> ph.physmem_used_pages]
      <3>1. Unref(ph, p) = [ph EXCEPT !.ref_cnt = cnt]
        <4>1. ph.ref_cnt[p] # 0 /\ ph.ref_cnt[p] # 1
          BY <1>3
        <4> QED  BY <4>1 DEF Unref
      <3> HIDE DEF cnt
      <3> QED  BY <3>1, PhysOKRecord
    <2>2. PhysParts(cnt, ph.kernel_range, ph.free_ppage, ph.used_ppage, ph.physmem_used_pages)
      BY <1>1, <1>3 DEF PhysParts
    <2> HIDE DEF cnt
    <2>3. PhysOK(Unref(ph, p))
      BY <2>1, <2>2, PartsPhysOK
    <2> QED  BY <2>1, <2>3 DEF cnt
  <1>4. ph.ref_cnt[p] = 1 \/ ph.ref_cnt[p] > 1
    BY <1>1 DEF PhysParts
  <1> QED  BY <1>2, <1>3, <1>4

(* sos_physmem_set_kmem_range() of a page in use *)
LEMMA SetRangePage ==
  ASSUME NEW STATE ph, PhysOK(ph), NEW STATE p, p \in Page, ph.ref_cnt[p] > 0,
         NEW r \in KmemRange
  PROVE  /\ PhysOK(SetKmemRange(ph, p, r))
         /\ SetKmemRange(ph, p, r).ref_cnt = ph.ref_cnt
  <1>1. PhysParts(ph.ref_cnt, ph.kernel_range, ph.free_ppage, ph.used_ppage,
                  ph.physmem_used_pages)
    BY PhysOKParts
  <1>2. SetKmemRange(ph, p, r) = [ref_cnt |-> ph.ref_cnt,
                                  kernel_range |-> [ph.kernel_range EXCEPT ![p] = r],
                                  free_ppage |-> ph.free_ppage,
                                  used_ppage |-> ph.used_ppage,
                                  physmem_used_pages |-> ph.physmem_used_pages]
    BY PhysOKRecord DEF SetKmemRange
  <1>3. PhysParts(ph.ref_cnt, [ph.kernel_range EXCEPT ![p] = r], ph.free_ppage,
                  ph.used_ppage, ph.physmem_used_pages)
    BY <1>1 DEF PhysParts
  <1> QED  BY <1>2, <1>3, PartsPhysOK

-----------------------------------------------------------------------------
(* COUNTING REFERENCES                                                     *)

Ind(b) == IF b THEN 1 ELSE 0

(* Sets that agree but for one element *)
LEMMA SameButOne ==
  ASSUME NEW S, NEW T, NEW x, IsFiniteSet(S), IsFiniteSet(T), S \ {x} = T \ {x}
  PROVE  /\ Cardinality(S) \in Nat /\ Cardinality(T) \in Nat
         /\ Cardinality(T) + Ind(x \in S) = Cardinality(S) + Ind(x \in T)
  <1>1. Cardinality(S) \in Nat /\ Cardinality(T) \in Nat
    BY FS_CardinalityType
  <1>2. /\ Cardinality(S \ {x}) = IF x \in S THEN Cardinality(S) - 1 ELSE Cardinality(S)
        /\ Cardinality(T \ {x}) = IF x \in T THEN Cardinality(T) - 1 ELSE Cardinality(T)
    BY FS_RemoveElement
  <1> QED  BY <1>1, <1>2 DEF Ind

(* Sets of virtual pages can be counted. *)
LEMMA FiniteAddresses ==
  ASSUME NEW S, S \subseteq VAddr
  PROVE  /\ IsFiniteSet(S) /\ Cardinality(S) \in Nat
         /\ Cardinality(S) = 0 <=> S = {}
  <1>1. IsFiniteSet(PDIndex \ {MirrorIndex}) /\ IsFiniteSet(PTIndex)
    BY PagingAssumption, FS_RemoveElement
  <1>2. IsFiniteSet(VAddr)
    BY <1>1, FS_Product DEF VAddr
  <1> QED  BY <1>2, FS_Subset, FS_CardinalityType, FS_EmptySet

(* A step that changes the page table entry of v only *)
OnlyAt(v) ==
  \A w \in VAddr \ {v} :
    /\ GetPaddr(w)' = GetPaddr(w)
    /\ GetPaddr(w) # NoPage => PTE(w)' = PTE(w) /\ pd'[w[1]] = pd[w[1]]

(* A change of one page table entry moves the two counts of a page by one, *)
(* at most.                                                                *)
LEMMA OnlyAtCounts ==
  ASSUME NEW v \in VAddr, OnlyAt(v), NEW p \in Page
  PROVE  /\ Cardinality(MappedAt(p)) \in Nat /\ Cardinality(MappedAt(p)') \in Nat
         /\ Cardinality(EntriesIn(p)) \in Nat /\ Cardinality(EntriesIn(p)') \in Nat
         /\ Cardinality(MappedAt(p)') + Ind(GetPaddr(v) = p)
              = Cardinality(MappedAt(p)) + Ind(GetPaddr(v)' = p)
         /\ Cardinality(EntriesIn(p)') + Ind(pd[v[1]] = p /\ GetPaddr(v) # NoPage)
              = Cardinality(EntriesIn(p)) + Ind(pd'[v[1]] = p /\ GetPaddr(v)' # NoPage)
  <1>1. /\ IsFiniteSet(MappedAt(p)) /\ IsFiniteSet(MappedAt(p)')
        /\ IsFiniteSet(EntriesIn(p)) /\ IsFiniteSet(EntriesIn(p)')
    BY FiniteAddresses DEF MappedAt, EntriesIn
  <1>2. MappedAt(p) \ {v} = MappedAt(p)' \ {v}
    BY DEF OnlyAt, MappedAt
  <1>3. EntriesIn(p) \ {v} = EntriesIn(p)' \ {v}
    BY DEF OnlyAt, EntriesIn
  <1>4. /\ v \in MappedAt(p) <=> GetPaddr(v) = p
        /\ v \in MappedAt(p)' <=> GetPaddr(v)' = p
        /\ v \in EntriesIn(p) <=> (pd[v[1]] = p /\ GetPaddr(v) # NoPage)
        /\ v \in EntriesIn(p)' <=> (pd'[v[1]] = p /\ GetPaddr(v)' # NoPage)
    BY DEF MappedAt, EntriesIn
  <1>5. /\ Cardinality(MappedAt(p)) \in Nat /\ Cardinality(MappedAt(p)') \in Nat
        /\ Cardinality(MappedAt(p)') + Ind(v \in MappedAt(p))
             = Cardinality(MappedAt(p)) + Ind(v \in MappedAt(p)')
    BY <1>1, <1>2, SameButOne
  <1>6. /\ Cardinality(EntriesIn(p)) \in Nat /\ Cardinality(EntriesIn(p)') \in Nat
        /\ Cardinality(EntriesIn(p)') + Ind(v \in EntriesIn(p))
             = Cardinality(EntriesIn(p)) + Ind(v \in EntriesIn(p)')
    BY <1>1, <1>3, SameButOne
  <1> QED  BY <1>4, <1>5, <1>6 DEF Ind

-----------------------------------------------------------------------------
(* THE INDUCTIVE INVARIANT                                                 *)

(* Nobody but the page directory references a page table, and nobody holds *)
(* the page of the page directory.                                         *)
TablesNotHeld == \A d \in PDIndex : pd[d] # NoPage => held[pd[d]] = 0

PagingInv ==
  /\ PagingTypeOK
  /\ CountsExact
  /\ TablesInUse
  /\ TablesNotHeld
  /\ pd[MirrorIndex] # NoPage

(* The reference counts are numbers, and the two lists match them. *)
LEMMA PhysFacts ==
  ASSUME PagingInv
  PROVE  PhysOK(phys) /\ phys.ref_cnt \in [Page -> Nat]
  BY DEF PagingInv, PagingTypeOK, CountsExact, PhysOK, PhysmemState

(* The page table entry of a virtual page *)
LEMMA EntryFacts ==
  ASSUME PagingTypeOK, NEW v \in VAddr
  PROVE  /\ v[1] \in PDIndex \ {MirrorIndex} /\ v[2] \in PTIndex /\ v = <<v[1], v[2]>>
         /\ pd[v[1]] \in Page \union {NoPage}
         /\ PTE(v) \in Entry /\ GetPaddr(v) \in Page \union {NoPage}
         /\ GetPaddr(v) # NoPage => pd[v[1]] \in Page /\ GetPaddr(v) \in Page
         /\ pd[v[1]] \in Page => PTE(v) = table[pd[v[1]]][v[2]]
  <1>1. v[1] \in PDIndex \ {MirrorIndex} /\ v[2] \in PTIndex /\ v = <<v[1], v[2]>>
    BY DEF VAddr
  <1>2. pd[v[1]] \in Page \union {NoPage}
    BY <1>1 DEF PagingTypeOK
  <1>3. CASE pd[v[1]] = NoPage
    <2>1. PTE(v) = [paddr |-> NoPage, write |-> FALSE]
      BY <1>3 DEF PTE, NoEntry
    <2> QED  BY <1>1, <1>3, <2>1, NoPageIsNone DEF GetPaddr, Entry
  <1>4. CASE pd[v[1]] \in Page
    <2>1. PTE(v) = table[pd[v[1]]][v[2]]
      BY <1>4, NoPageIsNone DEF PTE
    <2>2. table[pd[v[1]]][v[2]] \in Entry
      BY <1>1, <1>4 DEF PagingTypeOK
    <2> QED  BY <1>1, <1>4, <2>1, <2>2 DEF GetPaddr, Entry
  <1> QED  BY <1>2, <1>3, <1>4

(* What the counts say of a page: one that is mapped is counted for its    *)
(* callers and for the mapping, one that contains a page table is counted, *)
(* and one without references is neither.                                  *)
LEMMA CountFacts ==
  ASSUME PagingInv
  PROVE  /\ \A p \in Page : held[p] \in Nat /\ phys.ref_cnt[p] \in Nat
                              /\ phys.ref_cnt[p] >= held[p]
         /\ \A v \in VAddr : GetPaddr(v) # NoPage =>
              /\ phys.ref_cnt[GetPaddr(v)] >= held[GetPaddr(v)] + 1
              /\ phys.ref_cnt[pd[v[1]]] >= 1
              /\ \A d \in PDIndex \ {MirrorIndex} : pd[d] # GetPaddr(v)
         /\ \A d \in PDIndex : pd[d] # NoPage => pd[d] \in Page /\ phys.ref_cnt[pd[d]] >= 1
  <1>1. ASSUME NEW p \in Page
        PROVE  /\ held[p] \in Nat /\ Cardinality(MappedAt(p)) \in Nat
               /\ Cardinality(EntriesIn(p)) \in Nat
               /\ MappedAt(p) # {} => Cardinality(MappedAt(p)) >= 1
               /\ EntriesIn(p) # {} => Cardinality(EntriesIn(p)) >= 1
    <2>1. MappedAt(p) \subseteq VAddr /\ EntriesIn(p) \subseteq VAddr
      BY DEF MappedAt, EntriesIn
    <2>2. held[p] \in Nat
      BY DEF PagingInv, PagingTypeOK
    <2> QED  BY <2>1, <2>2, FiniteAddresses
  <1>2. ASSUME NEW p \in Page
        PROVE  /\ phys.ref_cnt[p] \in Nat
               /\ phys.ref_cnt[p] >= held[p]
               /\ MappedAt(p) # {} => phys.ref_cnt[p] >= held[p] + 1
               /\ EntriesIn(p) # {} => phys.ref_cnt[p] >= 1
               /\ p = pd[MirrorIndex] => phys.ref_cnt[p] >= 1
    <2>1. phys.ref_cnt[p] = held[p] + Cardinality(MappedAt(p)) + Cardinality(EntriesIn(p))
                              + (IF p = pd[MirrorIndex] THEN 1 ELSE 0)
      BY DEF PagingInv, CountsExact
    <2> QED  BY <1>1, <2>1
  <1>3. ASSUME NEW v \in VAddr, GetPaddr(v) # NoPage
        PROVE  /\ phys.ref_cnt[GetPaddr(v)] >= held[GetPaddr(v)] + 1
               /\ phys.ref_cnt[pd[v[1]]] >= 1
               /\ \A d \in PDIndex \ {MirrorIndex} : pd[d] # GetPaddr(v)
    <2>1. GetPaddr(v) \in Page /\ pd[v[1]] \in Page
      BY <1>3, EntryFacts DEF PagingInv
    <2>2. v \in MappedAt(GetPaddr(v)) /\ v \in EntriesIn(pd[v[1]])
      BY <1>3 DEF MappedAt, EntriesIn
    <2>3. \A d \in PDIndex \ {MirrorIndex} : pd[d] # GetPaddr(v)
      BY <1>3, <2>2 DEF PagingInv, TablesInUse
    <2> QED  BY <1>2, <2>1, <2>2, <2>3
  <1>4. ASSUME NEW d \in PDIndex, pd[d] # NoPage
        PROVE  pd[d] \in Page /\ phys.ref_cnt[pd[d]] >= 1
    <2>1. pd[d] \in Page
      BY <1>4 DEF PagingInv, PagingTypeOK
    <2>2. CASE d = MirrorIndex
      BY <1>2, <2>1, <2>2
    <2>3. CASE d # MirrorIndex
      <3>1. PICK t \in PTIndex : GetPaddr(<<d, t>>) # NoPage
        BY <1>4, <2>3 DEF PagingInv, TablesInUse
      <3>2. <<d, t>> \in VAddr /\ <<d, t>>[1] = d
        BY <2>3 DEF VAddr
      <3> QED  BY <1>3, <2>1, <3>1, <3>2
    <2> QED  BY <2>2, <2>3
  <1> QED  BY <1>1, <1>2, <1>3, <1>4

-----------------------------------------------------------------------------
(* THE STEPS OF THE CALLERS                                                *)

(* What the callers do to their references alone keeps the invariant, when *)
(* it moves the counts of the pages as much.                               *)
LEMMA CallerStep ==
  ASSUME PagingInv, UNCHANGED <<pd, table>>, PhysOK(phys'), held' \in [Page -> Nat],
         \A q \in Page : phys'.ref_cnt[q] + held[q] = phys.ref_cnt[q] + held'[q],
         \A d \in PDIndex : pd[d] # NoPage => held'[pd[d]] = 0
  PROVE  PagingInv'
  <1>1. /\ \A v : PTE(v)' = PTE(v) /\ GetPaddr(v)' = GetPaddr(v)
        /\ \A p : MappedAt(p)' = MappedAt(p) /\ EntriesIn(p)' = EntriesIn(p)
    BY DEF PTE, GetPaddr, MappedAt, EntriesIn
  <1>2. PagingTypeOK'
    BY DEF PagingInv, PagingTypeOK, PhysOK
  <1>3. ASSUME NEW p \in Page
        PROVE  phys'.ref_cnt[p] = held'[p] + Cardinality(MappedAt(p)') + Cardinality(EntriesIn(p)')
                                    + (IF p = pd'[MirrorIndex] THEN 1 ELSE 0)
    <2>1. /\ held[p] \in Nat /\ held'[p] \in Nat
          /\ phys.ref_cnt[p] \in Nat /\ phys'.ref_cnt[p] \in Nat
      BY <1>2 DEF PagingInv, PagingTypeOK, PhysmemState
    <2>2. Cardinality(MappedAt(p)) \in Nat /\ Cardinality(EntriesIn(p)) \in Nat
      BY FiniteAddresses DEF MappedAt, EntriesIn
    <2>3. phys.ref_cnt[p] = held[p] + Cardinality(MappedAt(p)) + Cardinality(EntriesIn(p))
                              + (IF p = pd[MirrorIndex] THEN 1 ELSE 0)
      BY DEF PagingInv, CountsExact
    <2> QED  BY <1>1, <2>1, <2>2, <2>3
  <1>4. CountsExact'
    BY <1>3 DEF CountsExact, PhysOK
  <1>5. TablesInUse'
    BY <1>1 DEF PagingInv, TablesInUse
  <1> QED  BY <1>2, <1>4, <1>5 DEF PagingInv, TablesNotHeld

(* A caller that takes a free page keeps the invariant. *)
LEMMA TakePageStep ==
  ASSUME PagingInv, TakePage
  PROVE  /\ PagingInv' /\ phys'.kernel_range = phys.kernel_range
         /\ \E p \in Page : held' = [held EXCEPT ![p] = @ + 1]
  <1> DEFINE np == NewPage(phys)
  <1>1. /\ PhysOK(phys') /\ np \in Page /\ phys.ref_cnt[np] = 0
        /\ phys'.ref_cnt = [phys.ref_cnt EXCEPT ![np] = 1]
        /\ phys'.kernel_range = phys.kernel_range
    BY PhysFacts, RefNewPage DEF TakePage
  <1>2. /\ UNCHANGED <<pd, table>> /\ held' = [held EXCEPT ![np] = @ + 1]
    BY DEF TakePage
  <1> HIDE DEF np
  <1>3. held \in [Page -> Nat] /\ phys.ref_cnt \in [Page -> Nat]
    BY PhysFacts DEF PagingInv, PagingTypeOK
  <1>4. held' \in [Page -> Nat]
    BY <1>1, <1>2, <1>3
  <1>5. \A q \in Page : phys'.ref_cnt[q] + held[q] = phys.ref_cnt[q] + held'[q]
    BY <1>1, <1>2, <1>3
  <1>6. ASSUME NEW d \in PDIndex, pd[d] # NoPage PROVE held'[pd[d]] = 0
    <2>1. pd[d] \in Page /\ phys.ref_cnt[pd[d]] >= 1
      BY <1>6, CountFacts
    <2>2. pd[d] # np
      BY <1>1, <2>1
    <2> QED  BY <1>2, <1>3, <1>6, <2>1, <2>2 DEF PagingInv, TablesNotHeld
  <1>7. PagingInv'
    BY <1>1, <1>2, <1>4, <1>5, <1>6, CallerStep
  <1> QED  BY <1>1, <1>2, <1>7

(* A caller that references a page once more keeps the invariant. *)
LEMMA ReferencePageStep ==
  ASSUME PagingInv, NEW p \in Page, ReferencePage(p)
  PROVE  PagingInv' /\ phys'.kernel_range = phys.kernel_range
  <1>1. /\ PhysOK(phys') /\ phys'.ref_cnt = [phys.ref_cnt EXCEPT ![p] = @ + 1]
        /\ phys'.kernel_range = phys.kernel_range
    BY PhysFacts, RefAtPage DEF ReferencePage
  <1>2. /\ UNCHANGED <<pd, table>> /\ held' = [held EXCEPT ![p] = @ + 1]
        /\ \A d \in PDIndex : pd[d] # p
    BY DEF ReferencePage
  <1>3. held \in [Page -> Nat] /\ phys.ref_cnt \in [Page -> Nat]
    BY PhysFacts DEF PagingInv, PagingTypeOK
  <1>4. held' \in [Page -> Nat]
    BY <1>2, <1>3
  <1>5. \A q \in Page : phys'.ref_cnt[q] + held[q] = phys.ref_cnt[q] + held'[q]
    BY <1>1, <1>2, <1>3
  <1>6. ASSUME NEW d \in PDIndex, pd[d] # NoPage PROVE held'[pd[d]] = 0
    BY <1>2, <1>3, <1>6 DEF PagingInv, PagingTypeOK, TablesNotHeld
  <1>7. PagingInv'
    BY <1>1, <1>2, <1>4, <1>5, <1>6, CallerStep
  <1> QED  BY <1>1, <1>7

(* A caller that drops a reference keeps the invariant, and no mapped page *)
(* loses its kernel range.                                                 *)
LEMMA DropPageStep ==
  ASSUME PagingInv, NEW p \in Page, DropPage(p)
  PROVE  /\ PagingInv'
         /\ \A q \in Page : MappedAt(q) # {} => phys'.kernel_range[q] = phys.kernel_range[q]
  <1>1. phys.ref_cnt[p] >= held[p] /\ held[p] > 0 /\ held[p] \in Nat /\ phys.ref_cnt[p] \in Nat
    BY CountFacts DEF DropPage
  <1>2. /\ PhysOK(phys') /\ phys'.ref_cnt = [phys.ref_cnt EXCEPT ![p] = @ - 1]
        /\ \A q \in Page : q # p \/ phys.ref_cnt[q] > 1
             => phys'.kernel_range[q] = phys.kernel_range[q]
    <2>1. phys.ref_cnt[p] > 0
      BY <1>1
    <2> QED  BY <2>1, PhysFacts, UnrefPage DEF DropPage
  <1>3. UNCHANGED <<pd, table>> /\ held' = [held EXCEPT ![p] = @ - 1]
    BY DEF DropPage
  <1>4. held \in [Page -> Nat] /\ phys.ref_cnt \in [Page -> Nat]
    BY PhysFacts DEF PagingInv, PagingTypeOK
  <1>5. held' \in [Page -> Nat]
    BY <1>1, <1>3, <1>4
  <1>6. \A q \in Page : phys'.ref_cnt[q] + held[q] = phys.ref_cnt[q] + held'[q]
    BY <1>1, <1>2, <1>3, <1>4
  <1>7. ASSUME NEW d \in PDIndex, pd[d] # NoPage PROVE held'[pd[d]] = 0
    BY <1>1, <1>3, <1>4, <1>7 DEF PagingInv, PagingTypeOK, TablesNotHeld
  <1>8. PagingInv'
    BY <1>2, <1>3, <1>5, <1>6, <1>7, CallerStep
  <1>9. ASSUME NEW v \in VAddr, GetPaddr(v) = p PROVE phys.ref_cnt[p] > 1
    <2>1. p # NoPage
      BY NoPageIsNone
    <2>2. phys.ref_cnt[p] >= held[p] + 1
      BY <1>9, <2>1, CountFacts
    <2> QED  BY <1>1, <2>2
  <1> QED  BY <1>2, <1>8, <1>9 DEF MappedAt

(* Recording the kernel range of a mapped page keeps the invariant. *)
LEMMA RecordRangeStep ==
  ASSUME PagingInv, NEW v \in VAddr, NEW r \in KmemRange, RecordRange(v, r)
  PROVE  PagingInv'
  <1>1. GetPaddr(v) \in Page /\ phys.ref_cnt[GetPaddr(v)] > 0
    <2>1. GetPaddr(v) \in Page
      BY EntryFacts DEF RecordRange, PagingInv
    <2>2. phys.ref_cnt[GetPaddr(v)] >= held[GetPaddr(v)] + 1
      BY CountFacts DEF RecordRange
    <2>3. held[GetPaddr(v)] \in Nat /\ phys.ref_cnt[GetPaddr(v)] \in Nat
      BY <2>1, CountFacts
    <2> QED  BY <2>1, <2>2, <2>3
  <1>2. /\ PhysOK(phys') /\ phys'.ref_cnt = phys.ref_cnt
    BY <1>1, PhysFacts, SetRangePage DEF RecordRange
  <1> QED
    BY <1>2, CallerStep DEF RecordRange, PagingInv, PagingTypeOK, TablesNotHeld

-----------------------------------------------------------------------------
(* THE STEPS OF sos_paging_map()                                           *)

(* The counts stay exact when they follow the page table entry of v. *)
LEMMA EntryStepCounts ==
  ASSUME PagingInv, NEW v \in VAddr, OnlyAt(v), held' = held,
         pd'[MirrorIndex] = pd[MirrorIndex], PhysOK(phys'),
         \A q \in Page :
           phys'.ref_cnt[q] + Ind(GetPaddr(v) = q) + Ind(pd[v[1]] = q /\ GetPaddr(v) # NoPage)
             = phys.ref_cnt[q] + Ind(GetPaddr(v)' = q)
                 + Ind(pd'[v[1]] = q /\ GetPaddr(v)' # NoPage)
  PROVE  CountsExact'
  <1>1. ASSUME NEW q \in Page
        PROVE  phys'.ref_cnt[q] = held[q] + Cardinality(MappedAt(q)') + Cardinality(EntriesIn(q)')
                                    + (IF q = pd[MirrorIndex] THEN 1 ELSE 0)
    <2> DEFINE m == Cardinality(MappedAt(q))
               m1 == Cardinality(MappedAt(q)')
               e == Cardinality(EntriesIn(q))
               e1 == Cardinality(EntriesIn(q)')
               a == Ind(GetPaddr(v) = q)
               a1 == Ind(GetPaddr(v)' = q)
               b == Ind(pd[v[1]] = q /\ GetPaddr(v) # NoPage)
               b1 == Ind(pd'[v[1]] = q /\ GetPaddr(v)' # NoPage)
               x == IF q = pd[MirrorIndex] THEN 1 ELSE 0
    <2>1. m \in Nat /\ m1 \in Nat /\ e \in Nat /\ e1 \in Nat
          /\ m1 + a = m + a1 /\ e1 + b = e + b1
      BY OnlyAtCounts
    <2>2. phys.ref_cnt[q] = held[q] + m + e + x
      BY DEF PagingInv, CountsExact
    <2>3. a \in Nat /\ a1 \in Nat /\ b \in Nat /\ b1 \in Nat /\ x \in Nat
      BY DEF Ind
    <2>4. phys'.ref_cnt[q] + a + b = phys.ref_cnt[q] + a1 + b1
      OBVIOUS
    <2>5. held[q] \in Nat /\ phys.ref_cnt[q] \in Nat /\ phys'.ref_cnt[q] \in Nat
      BY DEF PagingInv, PagingTypeOK, PhysmemState, PhysOK
    <2> HIDE DEF m, m1, e, e1, a, a1, b, b1, x
    <2>6. phys'.ref_cnt[q] = held[q] + m1 + e1 + x
      BY <2>1, <2>2, <2>3, <2>4, <2>5
    <2> QED  BY <2>6 DEF m1, e1, x
  <1> QED  BY <1>1 DEF CountsExact, PhysOK

(* The page tables of the other entries of the page directory are not      *)
(* touched.                                                                *)
LEMMA OtherTables ==
  ASSUME PagingInv, NEW v \in VAddr,
         \A d \in PDIndex \ {MirrorIndex, v[1]} :
           /\ pd'[d] = pd[d]
           /\ pd[d] # NoPage => table'[pd[d]] = table[pd[d]],
         \A t \in PTIndex \ {v[2]} :
           /\ GetPaddr(<<v[1], t>>)' = GetPaddr(<<v[1], t>>)
           /\ GetPaddr(<<v[1], t>>) # NoPage
                => PTE(<<v[1], t>>)' = PTE(<<v[1], t>>) /\ pd'[v[1]] = pd[v[1]]
  PROVE  OnlyAt(v)
  <1> SUFFICES ASSUME NEW w \in VAddr \ {v}
               PROVE  /\ GetPaddr(w)' = GetPaddr(w)
                      /\ GetPaddr(w) # NoPage
                           => PTE(w)' = PTE(w) /\ pd'[w[1]] = pd[w[1]]
    BY DEF OnlyAt
  <1>1. /\ w[1] \in PDIndex \ {MirrorIndex} /\ w[2] \in PTIndex /\ w = <<w[1], w[2]>>
        /\ v = <<v[1], v[2]>>
    BY EntryFacts DEF PagingInv
  <1>2. CASE w[1] = v[1]
    <2>1. w[2] \in PTIndex \ {v[2]} /\ w = <<v[1], w[2]>>
      BY <1>1, <1>2
    <2> QED  BY <1>2, <2>1
  <1>3. CASE w[1] # v[1]
    <2>1. PTE(w)' = PTE(w) /\ pd'[w[1]] = pd[w[1]]
      BY <1>1, <1>3 DEF PTE
    <2> QED  BY <2>1 DEF GetPaddr
  <1> QED  BY <1>2, <1>3

(* The page that is mapped at v is one that the caller holds, and the page *)
(* table it is mapped by the one of v, or a page that was free.            *)
LEMMA MapTables ==
  ASSUME PagingInv, NEW v \in VAddr, NEW p \in Page, held[p] > 0,
         OnlyAt(v), GetPaddr(v)' = p, held' = held,
         \/ pd' = pd /\ pd[v[1]] # NoPage
         \/ \E np \in Page : phys.ref_cnt[np] = 0 /\ pd' = [pd EXCEPT ![v[1]] = np]
  PROVE  /\ TablesInUse' /\ TablesNotHeld' /\ pd'[v[1]] # NoPage
         /\ pd'[MirrorIndex] = pd[MirrorIndex] /\ pd' \in [PDIndex -> Page \union {NoPage}]
  <1>1. /\ v[1] \in PDIndex \ {MirrorIndex} /\ v[2] \in PTIndex /\ v = <<v[1], v[2]>>
        /\ pd \in [PDIndex -> Page \union {NoPage}]
    BY EntryFacts DEF PagingInv, PagingTypeOK
  <1>2. \A d \in PDIndex \ {v[1]} : pd'[d] = pd[d]
    BY <1>1
  <1>3. pd'[v[1]] \in Page /\ (pd'[v[1]] = pd[v[1]] \/ phys.ref_cnt[pd'[v[1]]] = 0)
    BY <1>1, NoPageIsNone
  <1>4. /\ held[pd'[v[1]]] = 0
        /\ \A d \in PDIndex \ {v[1]} : pd[d] # pd'[v[1]]
        /\ \A w \in VAddr : GetPaddr(w) # pd'[v[1]]
    <2>1. CASE pd'[v[1]] = pd[v[1]]
      <3>1. pd[v[1]] # NoPage
        BY <1>3, <2>1, NoPageIsNone
      <3>2. MappedAt(pd[v[1]]) = {} /\ \A d \in PDIndex \ {v[1]} : pd[d] # pd[v[1]]
        BY <1>1, <3>1 DEF PagingInv, TablesInUse
      <3> QED  BY <1>1, <2>1, <3>1, <3>2 DEF PagingInv, TablesNotHeld, MappedAt
    <2>2. CASE phys.ref_cnt[pd'[v[1]]] = 0
      <3> DEFINE np == pd'[v[1]]
      <3>1. np \in Page /\ phys.ref_cnt[np] = 0 /\ np # NoPage
        BY <1>3, <2>2, NoPageIsNone
      <3> HIDE DEF np
      <3>2. held[np] \in Nat /\ phys.ref_cnt[np] >= held[np]
        BY <3>1, CountFacts
      <3>3. held[np] = 0
        BY <3>1, <3>2
      <3>4. ASSUME NEW d \in PDIndex PROVE pd[d] # np
        BY <3>1, CountFacts
      <3>5. ASSUME NEW w \in VAddr PROVE GetPaddr(w) # np
        <4>1. SUFFICES ASSUME GetPaddr(w) = np PROVE FALSE
          OBVIOUS
        <4>2. phys.ref_cnt[np] >= held[np] + 1
          BY <3>1, <4>1, CountFacts
        <4> QED  BY <3>1, <3>3, <4>2
      <3> QED  BY <3>3, <3>4, <3>5 DEF np
    <2> QED  BY <1>3, <2>1, <2>2
  <1>5. TablesNotHeld'
    BY <1>2, <1>4 DEF PagingInv, TablesNotHeld
  <1>6. ASSUME NEW d \in PDIndex \ {MirrorIndex}, pd'[d] # NoPage
        PROVE  /\ \E t \in PTIndex : GetPaddr(<<d, t>>)' # NoPage
               /\ \A other \in PDIndex \ {d} : pd'[other] # pd'[d]
               /\ MappedAt(pd[d])' = {}
    <2>1. \E t \in PTIndex : GetPaddr(<<d, t>>)' # NoPage
      <3>1. CASE d = v[1]
        BY <1>1, <3>1, NoPageIsNone
      <3>2. CASE d # v[1]
        <4>1. PICK t \in PTIndex : GetPaddr(<<d, t>>) # NoPage
          BY <1>2, <1>6, <3>2 DEF PagingInv, TablesInUse
        <4>2. <<d, t>> \in VAddr \ {v}
          BY <1>1, <3>2 DEF VAddr
        <4> QED  BY <4>1, <4>2 DEF OnlyAt
      <3> QED  BY <3>1, <3>2
    <2>2. ASSUME NEW other \in PDIndex \ {d} PROVE pd'[other] # pd'[d]
      BY <1>1, <1>2, <1>4, <1>6, <2>2 DEF PagingInv, TablesInUse
    <2>3. ASSUME NEW w \in VAddr PROVE GetPaddr(w)' # pd'[d]
      <3>1. held[pd'[d]] = 0
        BY <1>5, <1>6 DEF TablesNotHeld
      <3>2. CASE w = v
        BY <3>1, <3>2
      <3>3. CASE w # v
        <4>1. GetPaddr(w)' = GetPaddr(w)
          BY <3>3 DEF OnlyAt
        <4>2. CASE d = v[1]
          BY <1>4, <4>1, <4>2
        <4>3. CASE d # v[1]
          BY <1>2, <1>6, <4>1, <4>3 DEF PagingInv, TablesInUse, MappedAt
        <4> QED  BY <4>2, <4>3
      <3> QED  BY <3>2, <3>3
    <2>4. MappedAt(pd[d])' = {}
      BY <2>3 DEF MappedAt
    <2> QED  BY <2>1, <2>2, <2>4
  <1>7. TablesInUse'
    BY <1>6 DEF TablesInUse
  <1>8. pd' \in [PDIndex -> Page \union {NoPage}]
    BY <1>1
  <1>9. pd'[v[1]] # NoPage /\ pd'[MirrorIndex] = pd[MirrorIndex]
    BY <1>1, <1>2, <1>3, NoPageIsNone, PagingAssumption
  <1> QED  BY <1>5, <1>7, <1>8, <1>9

(* What a step that maps p at v does to the rest *)
MapsOnly(v, p, write) ==
  /\ OnlyAt(v)
  /\ PTE(v)' = [paddr |-> p, write |-> write]
  /\ pd'[v[1]] # NoPage
  /\ \A q \in Page : (\E w \in VAddr : GetPaddr(w) = q /\ GetPaddr(w)' = q)
                       => phys'.kernel_range[q] = phys.kernel_range[q]

(* The parts of a mapping step that do not depend on the page table *)
LEMMA MapStep ==
  ASSUME PagingInv, NEW v \in VAddr, NEW p \in Page, NEW write \in BOOLEAN, held[p] > 0,
         OnlyAt(v), PTE(v)' = [paddr |-> p, write |-> write], held' = held,
         \/ pd' = pd /\ pd[v[1]] # NoPage
         \/ \E np \in Page : phys.ref_cnt[np] = 0 /\ pd' = [pd EXCEPT ![v[1]] = np],
         PhysOK(phys'),
         \A q \in Page :
           phys'.ref_cnt[q] + Ind(GetPaddr(v) = q) + Ind(pd[v[1]] = q /\ GetPaddr(v) # NoPage)
             = phys.ref_cnt[q] + Ind(p = q) + Ind(pd'[v[1]] = q),
         table' \in [Page -> [PTIndex -> Entry]]
  PROVE  PagingInv' /\ pd'[v[1]] # NoPage
  <1>1. GetPaddr(v)' = p /\ p # NoPage
    BY NoPageIsNone DEF GetPaddr
  <1>2. /\ TablesInUse' /\ TablesNotHeld' /\ pd'[v[1]] # NoPage
        /\ pd'[MirrorIndex] = pd[MirrorIndex] /\ pd' \in [PDIndex -> Page \union {NoPage}]
    BY <1>1, MapTables
  <1>3. \A q \in Page :
           phys'.ref_cnt[q] + Ind(GetPaddr(v) = q) + Ind(pd[v[1]] = q /\ GetPaddr(v) # NoPage)
             = phys.ref_cnt[q] + Ind(GetPaddr(v)' = q)
                 + Ind(pd'[v[1]] = q /\ GetPaddr(v)' # NoPage)
    BY <1>1 DEF Ind
  <1>4. CountsExact'
    BY <1>2, <1>3, EntryStepCounts
  <1>5. PagingTypeOK'
    BY <1>2 DEF PagingInv, PagingTypeOK, PhysOK
  <1> QED  BY <1>2, <1>4, <1>5 DEF PagingInv

(* A mapping that needs a new page table keeps the invariant and maps its  *)
(* virtual page only.                                                      *)
LEMMA MapInNewTableStep ==
  ASSUME PagingInv, NEW v \in VAddr, NEW p \in Page, NEW write \in BOOLEAN, held[p] > 0,
         MapInNewTable(v, p, write)
  PROVE  PagingInv' /\ MapsOnly(v, p, write)
  <1> DEFINE np == NewPage(phys)
             entries == [EmptyTable EXCEPT ![v[2]] = [paddr |-> p, write |-> write]]
  <1>1. /\ PhysOK(RefNew(phys)) /\ np \in Page /\ phys.ref_cnt[np] = 0
        /\ RefNew(phys).ref_cnt = [phys.ref_cnt EXCEPT ![np] = 1]
        /\ RefNew(phys).kernel_range = phys.kernel_range
    BY PhysFacts, RefNewPage DEF MapInNewTable
  <1>2. /\ PhysOK(phys') /\ phys'.ref_cnt = [RefNew(phys).ref_cnt EXCEPT ![p] = @ + 1]
        /\ phys'.kernel_range = phys.kernel_range
    BY <1>1, RefAtPage DEF MapInNewTable
  <1>3. /\ pd[v[1]] = NoPage /\ held' = held
        /\ pd' = [pd EXCEPT ![v[1]] = np]
        /\ table' = [table EXCEPT ![np] = entries]
    BY DEF MapInNewTable, WriteEntry
  <1>4. /\ v[1] \in PDIndex \ {MirrorIndex} /\ v[2] \in PTIndex
        /\ pd \in [PDIndex -> Page \union {NoPage}]
        /\ table \in [Page -> [PTIndex -> Entry]]
        /\ phys.ref_cnt \in [Page -> Nat]
    BY EntryFacts, PhysFacts DEF PagingInv, PagingTypeOK
  <1>5. /\ entries \in [PTIndex -> Entry] /\ entries[v[2]] = [paddr |-> p, write |-> write]
        /\ \A t \in PTIndex \ {v[2]} : entries[t] = NoEntry
    BY <1>4 DEF EmptyTable, NoEntry, Entry
  <1> HIDE DEF np, entries
  <1>6. /\ pd'[v[1]] = np /\ \A d \in PDIndex \ {v[1]} : pd'[d] = pd[d]
        /\ table'[np] = entries
        /\ table' \in [Page -> [PTIndex -> Entry]]
        /\ \A q \in Page \ {np} : table'[q] = table[q]
    BY <1>1, <1>3, <1>4, <1>5
  <1>7. np # NoPage
    BY <1>1, NoPageIsNone
  <1>8. OnlyAt(v)
    <2>1. ASSUME NEW d \in PDIndex \ {MirrorIndex, v[1]}
          PROVE  /\ pd'[d] = pd[d]
                 /\ pd[d] # NoPage => table'[pd[d]] = table[pd[d]]
      <3>1. pd[d] # NoPage => pd[d] \in Page /\ phys.ref_cnt[pd[d]] >= 1
        BY CountFacts
      <3> QED  BY <1>1, <1>6, <3>1
    <2>2. ASSUME NEW t \in PTIndex \ {v[2]}
          PROVE  GetPaddr(<<v[1], t>>)' = NoPage /\ GetPaddr(<<v[1], t>>) = NoPage
      <3>1. PTE(<<v[1], t>>) = NoEntry
        BY <1>3 DEF PTE
      <3>2. PTE(<<v[1], t>>)' = NoEntry
        BY <1>5, <1>6, <1>7 DEF PTE
      <3> QED  BY <3>1, <3>2 DEF GetPaddr, NoEntry
    <2> QED  BY <2>1, <2>2, OtherTables
  <1>9. PTE(v)' = [paddr |-> p, write |-> write]
    BY <1>5, <1>6, <1>7 DEF PTE
  <1>10. GetPaddr(v) = NoPage
    BY <1>3 DEF GetPaddr, PTE, NoEntry
  <1>11. phys.ref_cnt[p] >= held[p] /\ held[p] \in Nat
    BY CountFacts
  <1>12. p # np
    BY <1>1, <1>11
  <1>13. ASSUME NEW q \in Page
         PROVE  phys'.ref_cnt[q] + Ind(GetPaddr(v) = q)
                    + Ind(pd[v[1]] = q /\ GetPaddr(v) # NoPage)
                  = phys.ref_cnt[q] + Ind(p = q) + Ind(pd'[v[1]] = q)
    <2>1. Ind(GetPaddr(v) = q) = 0 /\ Ind(pd[v[1]] = q /\ GetPaddr(v) # NoPage) = 0
      BY <1>10, NoPageIsNone DEF Ind
    <2>2. phys'.ref_cnt[q] = IF q = p THEN phys.ref_cnt[q] + 1
                             ELSE IF q = np THEN 1 ELSE phys.ref_cnt[q]
      BY <1>1, <1>2, <1>4, <1>12
    <2> QED  BY <1>1, <1>4, <1>6, <1>12, <2>1, <2>2 DEF Ind
  <1>14. PagingInv' /\ pd'[v[1]] # NoPage
    <2>1. \E new \in Page : phys.ref_cnt[new] = 0 /\ pd' = [pd EXCEPT ![v[1]] = new]
      BY <1>1, <1>3
    <2>2. PhysOK(phys') /\ held' = held /\ table' \in [Page -> [PTIndex -> Entry]]
      BY <1>2, <1>3, <1>6
    <2> QED  BY <1>8, <1>9, <1>13, <2>1, <2>2, MapStep
  <1> QED  BY <1>2, <1>8, <1>9, <1>14 DEF MapsOnly

(* An entry is written in the page table of v, which is that of v only. *)
LEMMA WriteEntryStep ==
  ASSUME PagingInv, NEW v \in VAddr, NEW e \in Entry, pd[v[1]] # NoPage, pd' = pd,
         table' = [table EXCEPT ![pd[v[1]]] = [table[pd[v[1]]] EXCEPT ![v[2]] = e]]
  PROVE  OnlyAt(v) /\ PTE(v)' = e /\ table' \in [Page -> [PTIndex -> Entry]]
  <1> DEFINE pt == pd[v[1]]
             entries == [table[pt] EXCEPT ![v[2]] = e]
  <1>1. /\ v[1] \in PDIndex \ {MirrorIndex} /\ v[2] \in PTIndex
        /\ table \in [Page -> [PTIndex -> Entry]]
        /\ pt \in Page
        /\ \A d \in PDIndex \ {v[1]} : pd[d] # pt
    BY EntryFacts DEF PagingInv, PagingTypeOK, TablesInUse
  <1>2. /\ entries \in [PTIndex -> Entry] /\ entries[v[2]] = e
        /\ \A t \in PTIndex \ {v[2]} : entries[t] = table[pt][t]
    BY <1>1
  <1>3. table' = [table EXCEPT ![pt] = entries] /\ pt # NoPage
    OBVIOUS
  <1> HIDE DEF entries
  <1>4. /\ table' \in [Page -> [PTIndex -> Entry]]
        /\ table'[pt] = entries
        /\ \A q \in Page \ {pt} : table'[q] = table[q]
    BY <1>1, <1>2, <1>3
  <1>5. \A d \in PDIndex \ {MirrorIndex, v[1]} :
          pd'[d] = pd[d] /\ (pd[d] # NoPage => table'[pd[d]] = table[pd[d]])
    BY <1>1, <1>4 DEF PagingInv, PagingTypeOK
  <1>6. \A t \in PTIndex \ {v[2]} : PTE(<<v[1], t>>)' = PTE(<<v[1], t>>)
    BY <1>2, <1>3, <1>4 DEF PTE
  <1>7. OnlyAt(v)
    BY <1>5, <1>6, OtherTables DEF GetPaddr
  <1>8. PTE(v)' = e
    BY <1>2, <1>3, <1>4 DEF PTE
  <1> QED  BY <1>4, <1>7, <1>8

(* So does a mapping in a page table that exists. *)
LEMMA MapNewEntryStep ==
  ASSUME PagingInv, NEW v \in VAddr, NEW p \in Page, NEW write \in BOOLEAN, held[p] > 0,
         MapNewEntry(v, p, write)
  PROVE  PagingInv' /\ MapsOnly(v, p, write)
  <1> DEFINE pt == pd[v[1]]
  <1>1. pt \in Page /\ GetPaddr(v) = NoPage /\ pd' = pd /\ held' = held
    BY EntryFacts DEF MapNewEntry, PagingInv
  <1>2. /\ OnlyAt(v) /\ PTE(v)' = [paddr |-> p, write |-> write]
        /\ table' \in [Page -> [PTIndex -> Entry]]
    <2> DEFINE e == [paddr |-> p, write |-> write]
    <2>1. e \in Entry
      BY DEF Entry
    <2>2. table' = [table EXCEPT ![pd[v[1]]] = [table[pd[v[1]]] EXCEPT ![v[2]] = e]]
      BY DEF MapNewEntry, WriteEntry
    <2>3. pd[v[1]] # NoPage /\ pd' = pd
      BY <1>1, NoPageIsNone
    <2> HIDE DEF e
    <2>4. OnlyAt(v) /\ PTE(v)' = e /\ table' \in [Page -> [PTIndex -> Entry]]
      BY <2>1, <2>2, <2>3, WriteEntryStep
    <2> QED  BY <2>4 DEF e
  <1>3. /\ PhysOK(RefAt(phys, pt))
        /\ RefAt(phys, pt).ref_cnt = [phys.ref_cnt EXCEPT ![pt] = @ + 1]
        /\ RefAt(phys, pt).kernel_range = phys.kernel_range
    BY <1>1, PhysFacts, RefAtPage
  <1>4. /\ PhysOK(phys')
        /\ phys'.ref_cnt = [RefAt(phys, pt).ref_cnt EXCEPT ![p] = @ + 1]
        /\ phys'.kernel_range = phys.kernel_range
    BY <1>3, RefAtPage DEF MapNewEntry
  <1>5. ASSUME NEW q \in Page
        PROVE  phys'.ref_cnt[q] + Ind(GetPaddr(v) = q)
                    + Ind(pd[v[1]] = q /\ GetPaddr(v) # NoPage)
                  = phys.ref_cnt[q] + Ind(p = q) + Ind(pd'[v[1]] = q)
    <2>1. Ind(GetPaddr(v) = q) = 0 /\ Ind(pd[v[1]] = q /\ GetPaddr(v) # NoPage) = 0
      BY <1>1, NoPageIsNone DEF Ind
    <2>2. phys.ref_cnt \in [Page -> Nat]
      BY PhysFacts
    <2>3. phys'.ref_cnt[q] = phys.ref_cnt[q] + Ind(p = q) + Ind(pt = q)
      BY <1>1, <1>3, <1>4, <2>2 DEF Ind
    <2> QED  BY <1>1, <2>1, <2>2, <2>3 DEF Ind
  <1>6. pd' = pd /\ pd[v[1]] # NoPage
    BY <1>1, NoPageIsNone
  <1>7. PagingInv' /\ pd'[v[1]] # NoPage
    BY <1>1, <1>2, <1>4, <1>5, <1>6, MapStep
  <1> QED  BY <1>2, <1>4, <1>7 DEF MapsOnly

(* So does a mapping over another one. *)
LEMMA MapOverStep ==
  ASSUME PagingInv, NEW v \in VAddr, NEW p \in Page, NEW write \in BOOLEAN, held[p] > 0,
         MapOver(v, p, write)
  PROVE  PagingInv' /\ MapsOnly(v, p, write)
  <1> DEFINE old == GetPaddr(v)
  <1>1. /\ old \in Page /\ old # NoPage /\ pd[v[1]] \in Page
        /\ pd' = pd /\ held' = held
    BY EntryFacts DEF MapOver, PagingInv
  <1>2. /\ OnlyAt(v) /\ PTE(v)' = [paddr |-> p, write |-> write]
        /\ table' \in [Page -> [PTIndex -> Entry]]
    <2> DEFINE e == [paddr |-> p, write |-> write]
    <2>1. e \in Entry
      BY DEF Entry
    <2>2. table' = [table EXCEPT ![pd[v[1]]] = [table[pd[v[1]]] EXCEPT ![v[2]] = e]]
      BY DEF MapOver, WriteEntry
    <2>3. pd[v[1]] # NoPage /\ pd' = pd
      BY <1>1, NoPageIsNone
    <2> HIDE DEF e
    <2>4. OnlyAt(v) /\ PTE(v)' = e /\ table' \in [Page -> [PTIndex -> Entry]]
      BY <2>1, <2>2, <2>3, WriteEntryStep
    <2> QED  BY <2>4 DEF e
  <1>3. /\ phys.ref_cnt \in [Page -> Nat] /\ held[old] \in Nat
        /\ phys.ref_cnt[old] >= held[old] + 1
    BY <1>1, PhysFacts, CountFacts
  <1>4. phys.ref_cnt[old] > 0
    BY <1>1, <1>3
  <1>5. /\ PhysOK(Unref(phys, old))
        /\ Unref(phys, old).ref_cnt = [phys.ref_cnt EXCEPT ![old] = @ - 1]
        /\ \A q \in Page : q # old \/ phys.ref_cnt[q] > 1
             => Unref(phys, old).kernel_range[q] = phys.kernel_range[q]
    BY <1>1, <1>4, PhysFacts, UnrefPage
  <1>6. /\ PhysOK(phys')
        /\ phys'.ref_cnt = [Unref(phys, old).ref_cnt EXCEPT ![p] = @ + 1]
        /\ phys'.kernel_range = Unref(phys, old).kernel_range
    BY <1>5, RefAtPage DEF MapOver
  <1>7. \A q \in Page : phys'.ref_cnt[q] + Ind(old = q) = phys.ref_cnt[q] + Ind(p = q)
    BY <1>1, <1>3, <1>4, <1>5, <1>6 DEF Ind
  <1>8. ASSUME NEW q \in Page
        PROVE  phys'.ref_cnt[q] + Ind(GetPaddr(v) = q)
                    + Ind(pd[v[1]] = q /\ GetPaddr(v) # NoPage)
                  = phys.ref_cnt[q] + Ind(p = q) + Ind(pd'[v[1]] = q)
    BY <1>1, <1>7 DEF Ind
  <1>9. pd' = pd /\ pd[v[1]] # NoPage
    BY <1>1, NoPageIsNone
  <1>10. PagingInv' /\ pd'[v[1]] # NoPage
    BY <1>1, <1>2, <1>6, <1>8, <1>9, MapStep
  <1>11. ASSUME NEW q \in Page, NEW w \in VAddr, GetPaddr(w) = q, GetPaddr(w)' = q
         PROVE  phys'.kernel_range[q] = phys.kernel_range[q]
    <2>1. held[q] \in Nat /\ phys.ref_cnt[q] \in Nat /\ phys.ref_cnt[q] >= held[q] + 1
      BY <1>11, CountFacts, NoPageIsNone
    <2>2. phys'.ref_cnt[q] >= held'[q] + 1
      <3>1. phys'.ref_cnt[q] = held'[q] + Cardinality(MappedAt(q)') + Cardinality(EntriesIn(q)')
                                 + (IF q = pd'[MirrorIndex] THEN 1 ELSE 0)
        BY <1>10 DEF PagingInv, CountsExact
      <3>2. w \in MappedAt(q)'
        BY <1>11 DEF MappedAt
      <3>3. /\ Cardinality(MappedAt(q)') \in Nat /\ Cardinality(MappedAt(q)') # 0
            /\ Cardinality(EntriesIn(q)') \in Nat
        BY <3>2, FiniteAddresses DEF MappedAt, EntriesIn
      <3> QED  BY <1>1, <2>1, <3>1, <3>3
    <2>3. q # old \/ phys.ref_cnt[q] > 1
      <3>1. phys'.ref_cnt[q] + Ind(old = q) = phys.ref_cnt[q] + Ind(p = q)
        BY <1>7
      <3>2. held'[q] = held[q] /\ phys'.ref_cnt[q] \in Nat
        BY <1>1, <1>10 DEF PagingInv, PagingTypeOK, PhysmemState
      <3>3. q = p => held[q] > 0
        OBVIOUS
      <3> QED  BY <2>1, <2>2, <3>1, <3>2, <3>3 DEF Ind
    <2> QED  BY <1>5, <1>6, <2>3
  <1> QED  BY <1>2, <1>10, <1>11 DEF MapsOnly

-----------------------------------------------------------------------------
(* THE STEP OF sos_paging_unmap()                                          *)

(* What a step that unmaps v does to the rest *)
UnmapsOnly(v) ==
  /\ OnlyAt(v)
  /\ GetPaddr(v)' = NoPage
  /\ \A q \in Page : (\E w \in VAddr : GetPaddr(w) = q /\ GetPaddr(w)' = q)
                       => phys'.kernel_range[q] = phys.kernel_range[q]

(* Anything may be read in a page that is no page table. *)
LEMMA DataIsEntries == Data \in [PTIndex -> Entry]
  <1>1. Identity # {} /\ Identity \subseteq Page
    BY PagingAssumption, PhysmemAssumption DEF Identity
  <1>2. (CHOOSE p \in Identity : TRUE) \in Page
    BY <1>1
  <1> QED  BY <1>2 DEF Data, Entry

(* A page table that is counted once has the entry of v only. *)
LEMMA LastEntry ==
  ASSUME PagingInv, NEW v \in VAddr, GetPaddr(v) # NoPage, phys.ref_cnt[pd[v[1]]] = 1,
         NEW t \in PTIndex \ {v[2]}
  PROVE  GetPaddr(<<v[1], t>>) = NoPage
  <1> DEFINE pt == pd[v[1]]
             w == <<v[1], t>>
  <1>1. pt \in Page /\ v[1] \in PDIndex \ {MirrorIndex}
    BY EntryFacts DEF PagingInv
  <1>2. w \in VAddr /\ w # v /\ w[1] = v[1]
    BY <1>1, EntryFacts DEF VAddr
  <1>3. v \in EntriesIn(pt) /\ EntriesIn(pt) \subseteq VAddr /\ MappedAt(pt) \subseteq VAddr
    BY DEF EntriesIn, MappedAt
  <1>4. /\ IsFiniteSet(EntriesIn(pt)) /\ Cardinality(EntriesIn(pt)) \in Nat
        /\ Cardinality(EntriesIn(pt)) # 0 /\ Cardinality(MappedAt(pt)) \in Nat
    BY <1>3, FiniteAddresses
  <1>5. /\ phys.ref_cnt[pt] = held[pt] + Cardinality(MappedAt(pt)) + Cardinality(EntriesIn(pt))
                                + (IF pt = pd[MirrorIndex] THEN 1 ELSE 0)
        /\ held[pt] \in Nat
    BY <1>1 DEF PagingInv, CountsExact, PagingTypeOK
  <1>6. Cardinality(EntriesIn(pt)) = 1
    BY <1>4, <1>5
  <1>7. \E x : EntriesIn(pt) = {x}
    BY <1>4, <1>6, FS_Singleton
  <1>8. w \notin EntriesIn(pt)
    BY <1>2, <1>3, <1>7
  <1> QED  BY <1>2, <1>8 DEF EntriesIn

(* The page table entry is cleared, and with the last one the page table   *)
(* leaves the page directory.                                              *)
LEMMA UnmapEntry ==
  ASSUME PagingInv, NEW v \in VAddr, Unmap(v),
         \A q \in Page : phys'.ref_cnt[q] + Ind(GetPaddr(v) = q) + Ind(pd[v[1]] = q)
                           = phys.ref_cnt[q]
  PROVE  /\ OnlyAt(v) /\ GetPaddr(v)' = NoPage
         /\ table' \in [Page -> [PTIndex -> Entry]]
         /\ \/ pd' = pd /\ phys'.ref_cnt[pd[v[1]]] # 0
            \/ pd' = [pd EXCEPT ![v[1]] = NoPage]
  <1> DEFINE pt == pd[v[1]]
  <1>1. /\ v[1] \in PDIndex \ {MirrorIndex} /\ v[2] \in PTIndex
        /\ pt \in Page /\ pt # NoPage /\ GetPaddr(v) # NoPage
        /\ pd \in [PDIndex -> Page \union {NoPage}]
        /\ table \in [Page -> [PTIndex -> Entry]]
    BY EntryFacts, NoPageIsNone DEF Unmap, PagingInv, PagingTypeOK
  <1>2. CASE phys'.ref_cnt[pt] = 0
    <2>1. pd' = [pd EXCEPT ![v[1]] = NoPage] /\ table' = [table EXCEPT ![pt] = Data]
      BY <1>2 DEF Unmap
    <2>2. phys.ref_cnt[pt] = 1
      <3>1. \A d \in PDIndex \ {MirrorIndex} : pd[d] # GetPaddr(v)
        BY <1>1, CountFacts
      <3> QED  BY <1>1, <1>2, <3>1 DEF Ind
    <2>3. /\ table' \in [Page -> [PTIndex -> Entry]]
          /\ \A q \in Page \ {pt} : table'[q] = table[q]
          /\ pd'[v[1]] = NoPage /\ \A d \in PDIndex \ {v[1]} : pd'[d] = pd[d]
      BY <1>1, <2>1, DataIsEntries
    <2>4. \A d \in PDIndex \ {MirrorIndex, v[1]} :
            pd'[d] = pd[d] /\ (pd[d] # NoPage => table'[pd[d]] = table[pd[d]])
      BY <1>1, <2>3 DEF PagingInv, TablesInUse
    <2>5. \A w : w[1] = v[1] => GetPaddr(w)' = NoPage
      BY <2>3 DEF GetPaddr, PTE, NoEntry
    <2>6. \A t \in PTIndex \ {v[2]} :
            GetPaddr(<<v[1], t>>) = NoPage /\ GetPaddr(<<v[1], t>>)' = NoPage
      BY <1>1, <2>2, <2>5, LastEntry
    <2>7. OnlyAt(v)
      BY <2>4, <2>6, OtherTables
    <2> QED  BY <2>1, <2>3, <2>5, <2>7
  <1>3. CASE phys'.ref_cnt[pt] # 0
    <2>1. pd' = pd /\ table' = [table EXCEPT ![pt][v[2]] = NoEntry]
      BY <1>3 DEF Unmap
    <2>2. NoEntry \in Entry /\ NoEntry.paddr = NoPage
      BY DEF NoEntry, Entry
    <2>3. table' = [table EXCEPT ![pd[v[1]]] = [table[pd[v[1]]] EXCEPT ![v[2]] = NoEntry]]
      BY <2>1
    <2>4. OnlyAt(v) /\ PTE(v)' = NoEntry /\ table' \in [Page -> [PTIndex -> Entry]]
      BY <1>1, <2>1, <2>2, <2>3, WriteEntryStep
    <2> QED  BY <1>3, <2>1, <2>2, <2>4 DEF GetPaddr
  <1> QED  BY <1>2, <1>3

(* Unmapping, with or without the page table, keeps the invariant and      *)
(* unmaps its virtual page only.                                           *)
LEMMA UnmapStep ==
  ASSUME PagingInv, NEW v \in VAddr, Unmap(v)
  PROVE  PagingInv' /\ UnmapsOnly(v)
  <1> DEFINE p == GetPaddr(v)
             pt == pd[v[1]]
  <1>1. /\ v[1] \in PDIndex \ {MirrorIndex} /\ v[2] \in PTIndex
        /\ pt \in Page /\ pt # NoPage /\ p \in Page /\ p # NoPage /\ held' = held
        /\ pd \in [PDIndex -> Page \union {NoPage}]
    BY EntryFacts, NoPageIsNone DEF Unmap, PagingInv, PagingTypeOK
  <1>2. /\ phys.ref_cnt \in [Page -> Nat] /\ p # pt
        /\ held[p] \in Nat /\ phys.ref_cnt[p] >= held[p] + 1 /\ phys.ref_cnt[pt] >= 1
    BY <1>1, PhysFacts, CountFacts
  <1>3. phys.ref_cnt[p] > 0 /\ phys.ref_cnt[pt] > 0
    BY <1>1, <1>2
  <1>4. /\ PhysOK(Unref(phys, p))
        /\ Unref(phys, p).ref_cnt = [phys.ref_cnt EXCEPT ![p] = @ - 1]
        /\ \A q \in Page : q # p \/ phys.ref_cnt[q] > 1
             => Unref(phys, p).kernel_range[q] = phys.kernel_range[q]
    BY <1>1, <1>3, PhysFacts, UnrefPage
  <1>5. Unref(phys, p).ref_cnt[pt] > 0
    BY <1>1, <1>2, <1>3, <1>4
  <1>6. /\ PhysOK(phys')
        /\ phys'.ref_cnt = [Unref(phys, p).ref_cnt EXCEPT ![pt] = @ - 1]
        /\ \A q \in Page : q # pt => phys'.kernel_range[q] = Unref(phys, p).kernel_range[q]
    <2>1. phys' = Unref(Unref(phys, p), pt)
      BY DEF Unmap
    <2> DEFINE ph == Unref(phys, p)
    <2>2. PhysOK(ph) /\ pt \in Page /\ ph.ref_cnt[pt] > 0 /\ phys' = Unref(ph, pt)
      BY <1>1, <1>4, <1>5, <2>1
    <2> HIDE DEF p, pt
    <2>3. /\ PhysOK(Unref(ph, pt))
          /\ Unref(ph, pt).ref_cnt = [ph.ref_cnt EXCEPT ![pt] = @ - 1]
          /\ \A q \in Page : q # pt \/ ph.ref_cnt[q] > 1
               => Unref(ph, pt).kernel_range[q] = ph.kernel_range[q]
      BY <2>2, UnrefPage
    <2> QED  BY <2>2, <2>3
  <1>7. \A q \in Page : phys'.ref_cnt[q] + Ind(p = q) + Ind(pt = q) = phys.ref_cnt[q]
    BY <1>1, <1>2, <1>4, <1>6 DEF Ind
  <1>8. /\ OnlyAt(v) /\ GetPaddr(v)' = NoPage
        /\ table' \in [Page -> [PTIndex -> Entry]]
        /\ \/ pd' = pd /\ phys'.ref_cnt[pt] # 0
           \/ pd' = [pd EXCEPT ![v[1]] = NoPage]
    BY <1>7, UnmapEntry
  <1>9. /\ pd' \in [PDIndex -> Page \union {NoPage}]
        /\ \A d \in PDIndex \ {v[1]} : pd'[d] = pd[d]
        /\ pd'[v[1]] = NoPage \/ (pd'[v[1]] = pt /\ phys'.ref_cnt[pt] # 0)
    BY <1>1, <1>8
  <1>10. PagingTypeOK'
    BY <1>1, <1>6, <1>8, <1>9 DEF PagingInv, PagingTypeOK, PhysOK
  <1>11. pd'[MirrorIndex] = pd[MirrorIndex]
    BY <1>1, <1>9, PagingAssumption
  <1>12. CountsExact'
    <2>1. ASSUME NEW q \in Page
          PROVE  phys'.ref_cnt[q] + Ind(p = q) + Ind(pd[v[1]] = q /\ p # NoPage)
                   = phys.ref_cnt[q] + Ind(GetPaddr(v)' = q)
                       + Ind(pd'[v[1]] = q /\ GetPaddr(v)' # NoPage)
      <3>1. /\ Ind(GetPaddr(v)' = q) = 0 /\ Ind(pd'[v[1]] = q /\ GetPaddr(v)' # NoPage) = 0
            /\ Ind(pd[v[1]] = q /\ p # NoPage) = Ind(pt = q)
        BY <1>1, <1>8, NoPageIsNone DEF Ind
      <3> QED  BY <1>2, <1>7, <3>1
    <2> QED  BY <1>1, <1>6, <1>8, <1>11, <2>1, EntryStepCounts
  <1>13. TablesNotHeld'
    BY <1>1, <1>9 DEF PagingInv, TablesNotHeld
  <1>14. ASSUME NEW d \in PDIndex \ {MirrorIndex}, pd'[d] # NoPage
         PROVE  /\ pd'[d] = pd[d]
                /\ \A other \in PDIndex \ {d} : pd'[other] # pd'[d]
                /\ MappedAt(pd[d])' = {}
    <2>1. pd'[d] = pd[d]
      BY <1>9, <1>14
    <2>2. /\ \A other \in PDIndex \ {d} : pd[other] # pd[d]
          /\ MappedAt(pd[d]) = {}
      BY <1>14, <2>1 DEF PagingInv, TablesInUse
    <2>3. \A other \in PDIndex \ {d} : pd'[other] # pd'[d]
      BY <1>9, <1>14, <2>1, <2>2
    <2>4. ASSUME NEW w \in VAddr PROVE GetPaddr(w)' # pd'[d]
      <3>1. CASE w = v
        BY <1>8, <1>14, <3>1
      <3>2. CASE w # v
        BY <1>8, <2>1, <2>2, <3>2 DEF OnlyAt, MappedAt
      <3> QED  BY <3>1, <3>2
    <2> QED  BY <2>1, <2>3, <2>4 DEF MappedAt
  <1>15. ASSUME NEW d \in PDIndex \ {MirrorIndex}, pd'[d] # NoPage
         PROVE  \E t \in PTIndex : GetPaddr(<<d, t>>)' # NoPage
    <2>1. CASE d # v[1]
      <3>1. PICK t \in PTIndex : GetPaddr(<<d, t>>) # NoPage
        BY <1>14, <1>15 DEF PagingInv, TablesInUse
      <3>2. <<d, t>> \in VAddr \ {v}
        BY <2>1, EntryFacts DEF VAddr, PagingInv
      <3> QED  BY <1>8, <3>1, <3>2 DEF OnlyAt
    <2>2. CASE d = v[1]
      <3>1. /\ pd'[d] \in Page /\ phys'.ref_cnt[pd'[d]] # 0 /\ pd'[d] # pd'[MirrorIndex]
        BY <1>1, <1>9, <1>14, <1>15, <2>2, PagingAssumption
      <3>2. phys'.ref_cnt[pd'[d]] = held'[pd'[d]] + Cardinality(MappedAt(pd[d])')
                                      + Cardinality(EntriesIn(pd[d])')
                                      + (IF pd'[d] = pd'[MirrorIndex] THEN 1 ELSE 0)
        BY <1>12, <3>1 DEF CountsExact
      <3>3. held'[pd'[d]] = 0 /\ MappedAt(pd[d])' = {}
        BY <1>13, <1>14, <1>15 DEF TablesNotHeld
      <3>4. /\ Cardinality(MappedAt(pd[d])') = 0 /\ Cardinality(EntriesIn(pd[d])') \in Nat
            /\ EntriesIn(pd[d])' = {} => Cardinality(EntriesIn(pd[d])') = 0
        BY <3>3, FiniteAddresses, FS_EmptySet DEF EntriesIn
      <3>5. PICK w \in VAddr : pd'[w[1]] = pd'[d] /\ GetPaddr(w)' # NoPage
        <4>1. EntriesIn(pd[d])' # {}
          BY <3>1, <3>2, <3>3, <3>4
        <4> QED  BY <4>1 DEF EntriesIn
      <3>6. /\ w[1] \in PDIndex \ {MirrorIndex} /\ w[2] \in PTIndex /\ w = <<w[1], w[2]>>
        BY EntryFacts DEF PagingInv
      <3>7. w[1] = d
        BY <1>14, <1>15, <3>5, <3>6
      <3> QED  BY <3>5, <3>6, <3>7
    <2> QED  BY <2>1, <2>2
  <1>16. TablesInUse'
    BY <1>14, <1>15 DEF TablesInUse
  <1>17. PagingInv'
    BY <1>10, <1>11, <1>12, <1>13, <1>16 DEF PagingInv
  <1>18. ASSUME NEW q \in Page, NEW w \in VAddr, GetPaddr(w) = q, GetPaddr(w)' = q
         PROVE  phys'.kernel_range[q] = phys.kernel_range[q]
    <2>1. q # pt
      BY <1>1, <1>18, CountFacts, NoPageIsNone
    <2>2. q # p \/ phys.ref_cnt[q] > 1
      <3>1. phys'.ref_cnt[q] = held'[q] + Cardinality(MappedAt(q)') + Cardinality(EntriesIn(q)')
                                 + (IF q = pd'[MirrorIndex] THEN 1 ELSE 0)
        BY <1>12 DEF CountsExact
      <3>2. w \in MappedAt(q)'
        BY <1>18 DEF MappedAt
      <3>3. /\ Cardinality(MappedAt(q)') \in Nat /\ Cardinality(MappedAt(q)') # 0
            /\ Cardinality(EntriesIn(q)') \in Nat
        BY <3>2, FiniteAddresses DEF MappedAt, EntriesIn
      <3>4. held'[q] \in Nat /\ phys.ref_cnt[q] \in Nat
        BY <1>2, <1>10 DEF PagingTypeOK
      <3>5. phys'.ref_cnt[q] >= 1
        BY <3>1, <3>3, <3>4
      <3>6. phys'.ref_cnt[q] + Ind(p = q) = phys.ref_cnt[q] /\ phys'.ref_cnt[q] \in Nat
        BY <1>7, <1>10, <2>1 DEF Ind, PagingTypeOK, PhysmemState
      <3> QED  BY <3>4, <3>5, <3>6 DEF Ind
    <2> QED  BY <1>4, <1>6, <2>1, <2>2
  <1> QED  BY <1>8, <1>17, <1>18 DEF UnmapsOnly

-----------------------------------------------------------------------------
(* THE MEMORY AT BOOT                                                      *)

(* The free list at boot holds every page that is not identity mapped: it  *)
(* has as many places as there are such pages, with a page in one place at *)
(* most.                                                                   *)
LEMMA FreeAtBootFacts ==
  ASSUME NEW free \in FreeAtBoot
  PROVE  /\ free \in Seq(Page) /\ IsInjective(free) /\ Len(free) >= 2 /\ Len(free) \in Nat
         /\ \A p \in Page : Contains(free, p) <=> p \notin Identity
  <1> DEFINE F == Page \ Identity
             n == Cardinality(F)
  <1>1. IsFiniteSet(F) /\ n \in Nat /\ n >= 2
    BY FinitePage, FS_Subset, FS_CardinalityType, PagingAssumption
  <1>2. /\ free \in [1 .. n -> F]
        /\ \A i, j \in DOMAIN free : i < j => free[i] > free[j]
    BY DEF FreeAtBoot
  <1>3. F \subseteq Nat /\ F \subseteq Page
    BY PhysmemAssumption
  <1> HIDE DEF n, F
  <1>4. free \in Seq(F) /\ Len(free) = n /\ DOMAIN free = 1 .. n
    BY <1>1, <1>2, SeqDef
  <1>5. ASSUME NEW i \in 1 .. n, NEW j \in 1 .. n, free[i] = free[j]
        PROVE  i = j
    <2>1. free[i] \in Nat /\ free[j] \in Nat
      BY <1>2, <1>3
    <2>2. ~ (i < j) /\ ~ (j < i)
      BY <1>2, <1>5, <2>1
    <2> QED  BY <1>1, <2>2
  <1>6. free \in Injection(1 .. n, F)
    BY <1>2, <1>5 DEF Injection, IsInjective
  <1>7. IsFiniteSet(1 .. n) /\ Cardinality(1 .. n) = n
    BY <1>1, FS_Interval
  <1>8. free \in Surjection(1 .. n, F)
    BY <1>1, <1>6, <1>7, FS_Injection DEF n
  <1>9. \A p \in F : \E i \in 1 .. n : free[i] = p
    BY <1>8 DEF Surjection
  <1>10. free \in Seq(Page)
    <2>1. free \in [1 .. n -> Page]
      BY <1>2, <1>3
    <2> QED  BY <1>1, <2>1, SeqDef
  <1>11. \A p \in Page : Contains(free, p) <=> p \notin Identity
    BY <1>2, <1>4, <1>9 DEF Contains, F
  <1> QED  BY <1>1, <1>4, <1>5, <1>10, <1>11 DEF IsInjective

(* At the end of sos_physmem_setup(), the pages of the kernel are used and *)
(* the others free.                                                        *)
LEMMA PhysmemSetupOK ==
  ASSUME NEW free \in FreeAtBoot
  PROVE  /\ PhysOK(PhysmemSetup(free))
         /\ PhysmemSetup(free).free_ppage = free
         /\ PhysmemSetup(free).ref_cnt = [p \in Page |-> IF p \in Identity THEN 1 ELSE 0]
  <1> DEFINE cnt == [p \in Page |-> IF p \in Identity THEN 1 ELSE 0]
             range == [p \in Page |-> NULL]
  <1>1. Identity \subseteq Page
    BY PhysmemAssumption DEF Identity
  <1>2. PhysParts(cnt, range, free, Identity, Cardinality(Identity))
    BY <1>1, FreeAtBootFacts DEF PhysParts
  <1>3. PhysmemSetup(free) = [ref_cnt |-> cnt, kernel_range |-> range, free_ppage |-> free,
                              used_ppage |-> Identity,
                              physmem_used_pages |-> Cardinality(Identity)]
    BY DEF PhysmemSetup
  <1> HIDE DEF cnt, range
  <1>4. PhysOK(PhysmemSetup(free))
    BY <1>2, <1>3, PartsPhysOK
  <1> QED  BY <1>3, <1>4 DEF cnt

(* A page in use whose count is set *)
LEMMA SetCountPage ==
  ASSUME NEW STATE ph, PhysOK(ph), NEW STATE p, p \in Page, ph.ref_cnt[p] > 0,
         NEW n \in Nat \ {0}
  PROVE  /\ PhysOK([ph EXCEPT !.ref_cnt[p] = n])
         /\ [ph EXCEPT !.ref_cnt[p] = n].ref_cnt = [ph.ref_cnt EXCEPT ![p] = n]
  <1> DEFINE cnt == [ph.ref_cnt EXCEPT ![p] = n]
             after == [ph EXCEPT !.ref_cnt[p] = n]
  <1>1. PhysParts(ph.ref_cnt, ph.kernel_range, ph.free_ppage, ph.used_ppage,
                  ph.physmem_used_pages)
    BY PhysOKParts
  <1>2. after = [ref_cnt |-> cnt, kernel_range |-> ph.kernel_range,
                 free_ppage |-> ph.free_ppage, used_ppage |-> ph.used_ppage,
                 physmem_used_pages |-> ph.physmem_used_pages]
    <2>1. after = [ph EXCEPT !.ref_cnt = cnt]
      OBVIOUS
    <2> HIDE DEF after, cnt
    <2> QED  BY <2>1, PhysOKRecord
  <1>3. PhysParts(cnt, ph.kernel_range, ph.free_ppage, ph.used_ppage, ph.physmem_used_pages)
    BY <1>1 DEF PhysParts
  <1> HIDE DEF cnt, after
  <1>4. PhysOK(after) /\ after.ref_cnt = cnt
    BY <1>2, <1>3, PartsPhysOK
  <1> QED  BY <1>4 DEF after, cnt

(* The counts of the pages once the identity mapping is in place *)
LEMMA BootCounts ==
  ASSUME NEW free \in FreeAtBoot,
         phys = [RefNew(RefNew(PhysmemSetup(free)))
                   EXCEPT !.ref_cnt[free[2]] = Cardinality(Identity)]
  PROVE  /\ PhysOK(phys)
         /\ free[1] \in Page \ Identity /\ free[2] \in Page \ Identity /\ free[1] # free[2]
         /\ \A p \in Page : phys.ref_cnt[p] = CASE p = free[2] -> Cardinality(Identity)
                                                [] p = free[1] -> 1
                                                [] p \in Identity -> 1
                                                [] OTHER -> 0
  <1> DEFINE ph0 == PhysmemSetup(free)
             ph1 == RefNew(ph0)
             ph2 == RefNew(ph1)
  <1>1. /\ free \in Seq(Page) /\ IsInjective(free) /\ Len(free) >= 2 /\ Len(free) \in Nat
        /\ \A p \in Page : Contains(free, p) <=> p \notin Identity
    BY FreeAtBootFacts
  <1>2. free[1] \in Page \ Identity /\ free[2] \in Page \ Identity /\ free[1] # free[2]
    <2>1. 1 \in 1 .. Len(free) /\ 2 \in 1 .. Len(free)
      BY <1>1
    <2>2. Contains(free, free[1]) /\ Contains(free, free[2])
      BY <2>1 DEF Contains
    <2> QED  BY <1>1, <2>1, <2>2, LenProperties DEF IsInjective
  <1>3. /\ PhysOK(ph0) /\ ph0.free_ppage = free
        /\ ph0.ref_cnt = [p \in Page |-> IF p \in Identity THEN 1 ELSE 0]
    BY PhysmemSetupOK
  <1>4. /\ free # <<>> /\ Head(free) = free[1]
        /\ Tail(free) # <<>> /\ Head(Tail(free)) = free[2]
    BY <1>1, TwoHeads
  <1> HIDE DEF ph0
  <1>5. NewPage(ph0) = free[1]
    BY <1>3, <1>4 DEF NewPage
  <1>6. /\ PhysOK(ph1) /\ ph1.free_ppage = Tail(free)
        /\ ph1.ref_cnt = [ph0.ref_cnt EXCEPT ![free[1]] = 1]
    BY <1>3, <1>4, <1>5, RefNewPage
  <1> HIDE DEF ph1
  <1>7. NewPage(ph1) = free[2]
    BY <1>4, <1>6 DEF NewPage
  <1>8. PhysOK(ph2) /\ ph2.ref_cnt = [ph1.ref_cnt EXCEPT ![free[2]] = 1]
    BY <1>4, <1>6, <1>7, RefNewPage
  <1>9. phys = [ph2 EXCEPT !.ref_cnt[free[2]] = Cardinality(Identity)]
    BY DEF ph2, ph1, ph0
  <1> HIDE DEF ph2
  <1>10. Cardinality(Identity) \in Nat \ {0}
    <2>1. Identity \subseteq Page /\ Identity # {}
      BY PhysmemAssumption, PagingAssumption DEF Identity
    <2> QED  BY <2>1, FinitePage, FS_Subset, FS_CardinalityType, FS_EmptySet
  <1>11. /\ ph2.ref_cnt[free[2]] > 0 /\ free[2] \in Page
         /\ \A p \in Page : ph2.ref_cnt[p] = IF p = free[2] \/ p = free[1] \/ p \in Identity
                                              THEN 1 ELSE 0
    BY <1>2, <1>3, <1>6, <1>8
  <1>12. /\ PhysOK(phys)
         /\ phys.ref_cnt = [ph2.ref_cnt EXCEPT ![free[2]] = Cardinality(Identity)]
    <2> DEFINE n == Cardinality(Identity)
               last == free[2]
    <2>1. n \in Nat \ {0} /\ last \in Page /\ ph2.ref_cnt[last] > 0 /\ PhysOK(ph2)
          /\ phys = [ph2 EXCEPT !.ref_cnt[last] = n]
      BY <1>8, <1>9, <1>10, <1>11
    <2> HIDE DEF n, last
    <2>2. /\ PhysOK([ph2 EXCEPT !.ref_cnt[last] = n])
          /\ [ph2 EXCEPT !.ref_cnt[last] = n].ref_cnt = [ph2.ref_cnt EXCEPT ![last] = n]
      BY <2>1, SetCountPage
    <2> QED  BY <2>1, <2>2 DEF n, last
  <1>13. ph2.ref_cnt \in [Page -> Nat]
    BY <1>8 DEF PhysOK, PhysmemState
  <1> QED  BY <1>2, <1>11, <1>12, <1>13

(* The invariant holds once paging is set up. *)
LEMMA PagingInitInv == PagingInit => PagingInv
  <1> SUFFICES ASSUME NEW free \in FreeAtBoot,
                      phys = [RefNew(RefNew(PhysmemSetup(free)))
                                EXCEPT !.ref_cnt[free[2]] = Cardinality(Identity)],
                      pd = [d \in PDIndex |-> CASE d = 0 -> free[2]
                                                [] d = MirrorIndex -> free[1]
                                                [] OTHER -> NoPage],
                      table = [p \in Page |-> [t \in PTIndex |->
                                 CASE p # free[2] -> Data[t]
                                   [] t \in Identity -> [paddr |-> t, write |-> TRUE]
                                   [] OTHER -> NoEntry]],
                      held = [p \in Page |-> 0]
               PROVE  PagingInv
    BY DEF PagingInit
  <1> DEFINE pt == free[2]
  <1>1. /\ PhysOK(phys)
        /\ free[1] \in Page \ Identity /\ pt \in Page \ Identity /\ free[1] # pt
        /\ \A p \in Page : phys.ref_cnt[p] = CASE p = pt -> Cardinality(Identity)
                                               [] p = free[1] -> 1
                                               [] p \in Identity -> 1
                                               [] OTHER -> 0
    BY BootCounts
  <1>2. /\ Identity \subseteq Page /\ Identity \subseteq PTIndex /\ Identity # {}
        /\ 0 \in PDIndex /\ MirrorIndex \in PDIndex /\ MirrorIndex # 0
    BY PhysmemAssumption, PagingAssumption DEF Identity
  <1>3. /\ pd[0] = pt /\ pd[MirrorIndex] = free[1]
        /\ \A d \in PDIndex \ {0, MirrorIndex} : pd[d] = NoPage
        /\ pd \in [PDIndex -> Page \union {NoPage}]
    BY <1>1, <1>2
  <1> HIDE DEF pt
  <1>4. \A t \in PTIndex : table[pt][t] = IF t \in Identity THEN [paddr |-> t, write |-> TRUE]
                                                            ELSE NoEntry
    BY <1>1 DEF pt
  <1>5. table \in [Page -> [PTIndex -> Entry]]
    <2> SUFFICES ASSUME NEW p \in Page, NEW t \in PTIndex
                 PROVE  (CASE p # pt -> Data[t]
                           [] t \in Identity -> [paddr |-> t, write |-> TRUE]
                           [] OTHER -> NoEntry) \in Entry
      BY DEF pt
    <2>1. Data[t] \in Entry
      BY DataIsEntries
    <2>2. NoEntry \in Entry
      BY DEF NoEntry, Entry
    <2>3. t \in Identity => [paddr |-> t, write |-> TRUE] \in Entry
      BY <1>2 DEF Entry
    <2> QED  BY <2>1, <2>2, <2>3
  <1>6. ASSUME NEW v \in VAddr
        PROVE  GetPaddr(v) = IF v[1] = 0 /\ v[2] \in Identity THEN v[2] ELSE NoPage
    <2>1. v[1] \in PDIndex \ {MirrorIndex} /\ v[2] \in PTIndex
      BY DEF VAddr
    <2>2. CASE v[1] = 0
      <3>1. PTE(v) = table[pt][v[2]]
        BY <1>1, <1>3, <2>2, NoPageIsNone DEF PTE
      <3>2. table[pt][v[2]] = IF v[2] \in Identity THEN [paddr |-> v[2], write |-> TRUE]
                                                     ELSE [paddr |-> NoPage, write |-> FALSE]
        BY <1>4, <2>1 DEF NoEntry
      <3>3. table[pt][v[2]].paddr = IF v[2] \in Identity THEN v[2] ELSE NoPage
        BY <3>2
      <3> QED  BY <2>2, <3>1, <3>3 DEF GetPaddr
    <2>3. CASE v[1] # 0
      BY <1>3, <2>1, <2>3 DEF GetPaddr, PTE, NoEntry
    <2> QED  BY <2>2, <2>3
  <1>7. \A t \in PTIndex : <<0, t>> \in VAddr /\ <<0, t>>[1] = 0 /\ <<0, t>>[2] = t
    BY <1>2 DEF VAddr
  <1>8. ASSUME NEW p \in Page
        PROVE  Cardinality(MappedAt(p)) = (IF p \in Identity THEN 1 ELSE 0)
    <2>1. CASE p \in Identity
      <3>1. MappedAt(p) = {<<0, p>>}
        <4>1. ASSUME NEW v \in VAddr, GetPaddr(v) = p PROVE v = <<0, p>>
          BY <1>6, <4>1, NoPageIsNone DEF VAddr
        <4>2. <<0, p>> \in VAddr /\ GetPaddr(<<0, p>>) = p
          BY <1>2, <1>6, <1>7, <2>1
        <4> QED  BY <4>1, <4>2 DEF MappedAt
      <3> QED  BY <2>1, <3>1, FS_Singleton
    <2>2. CASE p \notin Identity
      <3>1. MappedAt(p) = {}
        BY <1>6, <2>2, NoPageIsNone DEF MappedAt
      <3> QED  BY <2>2, <3>1, FS_EmptySet
    <2> QED  BY <2>1, <2>2
  <1>9. ASSUME NEW p \in Page
        PROVE  Cardinality(EntriesIn(p)) = (IF p = pt THEN Cardinality(Identity) ELSE 0)
    <2>1. CASE p = pt
      <3>1. EntriesIn(p) = {0} \X Identity
        <4>1. ASSUME NEW v \in VAddr, GetPaddr(v) # NoPage PROVE v \in {0} \X Identity
          BY <1>6, <4>1 DEF VAddr
        <4>2. ASSUME NEW t \in Identity
              PROVE  <<0, t>> \in VAddr /\ pd[<<0, t>>[1]] = pt /\ GetPaddr(<<0, t>>) # NoPage
          BY <1>2, <1>3, <1>6, <1>7, NoPageIsNone
        <4> QED  BY <2>1, <4>1, <4>2 DEF EntriesIn
      <3>2. IsFiniteSet({0}) /\ Cardinality({0}) = 1
        BY FS_Singleton
      <3>3. IsFiniteSet(Identity) /\ Cardinality(Identity) \in Nat
        BY <1>2, FinitePage, FS_Subset, FS_CardinalityType
      <3>4. Cardinality({0} \X Identity) = 1 * Cardinality(Identity)
        BY <3>2, <3>3, FS_Product
      <3> QED  BY <2>1, <3>1, <3>3, <3>4
    <2>2. CASE p # pt
      <3>1. EntriesIn(p) = {}
        BY <1>3, <1>6, <2>2 DEF EntriesIn
      <3> QED  BY <2>2, <3>1, FS_EmptySet
    <2> QED  BY <2>1, <2>2
  <1>10. PagingTypeOK
    BY <1>1, <1>3, <1>5 DEF PagingTypeOK, PhysOK
  <1>11. ASSUME NEW p \in Page
         PROVE  phys.ref_cnt[p] = held[p] + Cardinality(MappedAt(p)) + Cardinality(EntriesIn(p))
                                    + (IF p = pd[MirrorIndex] THEN 1 ELSE 0)
    <2>1. Cardinality(Identity) \in Nat
      BY <1>2, FinitePage, FS_Subset, FS_CardinalityType
    <2>2. held[p] = 0
      OBVIOUS
    <2> QED  BY <1>1, <1>3, <1>8, <1>9, <2>1, <2>2
  <1>12. CountsExact
    BY <1>1, <1>11 DEF CountsExact, PhysOK
  <1>13. ASSUME NEW d \in PDIndex \ {MirrorIndex}, pd[d] # NoPage
         PROVE  /\ \E t \in PTIndex : GetPaddr(<<d, t>>) # NoPage
                /\ \A other \in PDIndex \ {d} : pd[other] # pd[d]
                /\ MappedAt(pd[d]) = {}
    <2>1. d = 0 /\ pd[d] = pt
      BY <1>3, <1>13
    <2>2. PICK t \in Identity : TRUE
      BY <1>2
    <2>3. GetPaddr(<<0, t>>) # NoPage
      BY <1>2, <1>6, <1>7, NoPageIsNone
    <2>4. MappedAt(pt) = {}
      BY <1>1, <1>6, NoPageIsNone DEF MappedAt
    <2>5. \A other \in PDIndex \ {0} : pd[other] # pt
      BY <1>1, <1>3, NoPageIsNone
    <2> QED  BY <1>2, <2>1, <2>3, <2>4, <2>5
  <1>14. TablesNotHeld
    BY <1>3 DEF TablesNotHeld
  <1> QED
    BY <1>1, <1>3, <1>10, <1>12, <1>13, <1>14, NoPageIsNone DEF PagingInv, TablesInUse

-----------------------------------------------------------------------------
(* THEOREMS                                                                *)

(* The virtual pages of the callers are virtual pages. *)
LEMMA CallerVAddrFacts == CallerVAddr \subseteq VAddr
  BY DEF CallerVAddr

(* A step that changes nothing keeps the invariant. *)
LEMMA PagingStutterInv ==
  ASSUME PagingInv, UNCHANGED paging_vars
  PROVE  PagingInv'
  <1>1. /\ \A v : PTE(v)' = PTE(v) /\ GetPaddr(v)' = GetPaddr(v)
        /\ \A p : MappedAt(p)' = MappedAt(p) /\ EntriesIn(p)' = EntriesIn(p)
    BY DEF paging_vars, PTE, GetPaddr, MappedAt, EntriesIn
  <1> QED
    BY <1>1 DEF paging_vars, PagingInv, PagingTypeOK, CountsExact, TablesInUse, TablesNotHeld

(* The three ways to map, together. *)
LEMMA MapAnyStep ==
  ASSUME PagingInv, NEW v \in VAddr, NEW p \in Page, NEW write \in BOOLEAN, Map(v, p, write)
  PROVE  PagingInv' /\ MapsOnly(v, p, write) /\ held[p] > 0 /\ held' = held
  BY MapInNewTableStep, MapNewEntryStep, MapOverStep
     DEF Map, MapInNewTable, MapNewEntry, MapOver

(* Every step keeps the invariant. *)
LEMMA PagingNextInv ==
  ASSUME PagingInv, [PagingNext]_paging_vars
  PROVE  PagingInv'
  <1>1. CASE TakePage
    BY <1>1, TakePageStep
  <1>2. ASSUME NEW p \in Page, ReferencePage(p) \/ DropPage(p)
        PROVE  PagingInv'
    BY <1>2, ReferencePageStep, DropPageStep
  <1>3. ASSUME NEW v \in CallerVAddr, NEW r \in KmemRange, RecordRange(v, r)
        PROVE  PagingInv'
    BY <1>3, CallerVAddrFacts, RecordRangeStep
  <1>4. ASSUME NEW v \in CallerVAddr, NEW p \in Page, NEW write \in BOOLEAN, Map(v, p, write)
        PROVE  PagingInv'
    BY <1>4, CallerVAddrFacts, MapAnyStep
  <1>5. ASSUME NEW v \in CallerVAddr, Unmap(v)
        PROVE  PagingInv'
    BY <1>5, CallerVAddrFacts, UnmapStep
  <1>6. CASE UNCHANGED paging_vars
    BY <1>6, PagingStutterInv
  <1> QED  BY <1>1, <1>2, <1>3, <1>4, <1>5, <1>6 DEF PagingNext

(* The inductive invariant holds in every reachable state. *)
THEOREM PagingInvariance == PagingSpec => []PagingInv
  <1>1. PagingInv /\ [PagingNext]_paging_vars => PagingInv'
    BY PagingNextInv
  <1> QED  BY <1>1, PagingInitInv, PTL DEF PagingSpec

(* The pages, the page directory and the page tables are well formed. *)
THEOREM PagingTypeCorrect == PagingSpec => []PagingTypeOK
  <1>1. PagingInv => PagingTypeOK
    BY DEF PagingInv
  <1> QED  BY <1>1, PagingInvariance, PTL

(* The count of a page is the number of the references to it that exist,   *)
(* and the free list holds the pages that have none: no page in use is     *)
(* handed out again, and none is lost.                                     *)
THEOREM CountsStayExact == PagingSpec => []CountsExact
  <1>1. PagingInv => CountsExact
    BY DEF PagingInv
  <1> QED  BY <1>1, PagingInvariance, PTL

(* A page table is present exactly while it has an entry, is shared by no  *)
(* two entries of the page directory, and is mapped nowhere.               *)
THEOREM TablesStayInUse == PagingSpec => []TablesInUse
  <1>1. PagingInv => TablesInUse
    BY DEF PagingInv
  <1> QED  BY <1>1, PagingInvariance, PTL

(* A page that stays mapped keeps the kernel range recorded for it, unless *)
(* the owner of a range records another one.                               *)
THEOREM RangesAreKept == PagingSpec => RangeKept
  <1> DEFINE Kept ==
        \A v \in VAddr :
          GetPaddr(v) # NoPage /\ GetPaddr(v)' = GetPaddr(v)
            => LET p == GetPaddr(v)
               IN \/ phys'.kernel_range[p] = phys.kernel_range[p]
                  \/ \E w \in CallerVAddr, r \in KmemRange : RecordRange(w, r)
  <1>1. ASSUME PagingInv, PagingNext PROVE Kept
    <2> SUFFICES ASSUME NEW v \in VAddr, GetPaddr(v) # NoPage, GetPaddr(v)' = GetPaddr(v),
                        ~ \E w \in CallerVAddr, r \in KmemRange : RecordRange(w, r)
                 PROVE  phys'.kernel_range[GetPaddr(v)] = phys.kernel_range[GetPaddr(v)]
      OBVIOUS
    <2>1. GetPaddr(v) \in Page /\ v \in MappedAt(GetPaddr(v))
      BY <1>1, EntryFacts DEF PagingInv, MappedAt
    <2>2. CASE TakePage
      BY <1>1, <2>2, TakePageStep
    <2>3. ASSUME NEW p \in Page, ReferencePage(p) \/ DropPage(p)
          PROVE  phys'.kernel_range[GetPaddr(v)] = phys.kernel_range[GetPaddr(v)]
      BY <1>1, <2>1, <2>3, ReferencePageStep, DropPageStep
    <2>4. ASSUME NEW w \in CallerVAddr, NEW p \in Page, NEW write \in BOOLEAN, Map(w, p, write)
          PROVE  phys'.kernel_range[GetPaddr(v)] = phys.kernel_range[GetPaddr(v)]
      <3>1. MapsOnly(w, p, write)
        BY <1>1, <2>4, CallerVAddrFacts, MapAnyStep
      <3> QED  BY <2>1, <3>1 DEF MapsOnly
    <2>5. ASSUME NEW w \in CallerVAddr, Unmap(w)
          PROVE  phys'.kernel_range[GetPaddr(v)] = phys.kernel_range[GetPaddr(v)]
      <3>1. UnmapsOnly(w)
        BY <1>1, <2>5, CallerVAddrFacts, UnmapStep
      <3> QED  BY <2>1, <3>1 DEF UnmapsOnly
    <2> QED  BY <1>1, <2>2, <2>3, <2>4, <2>5 DEF PagingNext
  <1>2. PagingInv /\ [PagingNext]_paging_vars => [Kept]_paging_vars
    BY <1>1
  <1>3. RangeKept <=> [][Kept]_paging_vars
    BY DEF RangeKept
  <1> HIDE DEF Kept
  <1> QED  BY <1>2, <1>3, PagingInvariance, PTL DEF PagingSpec

-----------------------------------------------------------------------------
(* THE ADDRESS SPACE                                                       *)

(* The frame of a virtual page, as the callers see it *)
FrameOf(v) == [page |-> GetPaddr(v), write |-> "WRITE" \in GetProt(v)]

NoFrame == [page |-> NoPage, write |-> FALSE]

Frames == [w \in VAddr |-> FrameOf(w)]

(* What a virtual page shows of its page table entry. *)
LEMMA FrameFacts ==
  ASSUME PagingTypeOK, NEW v \in VAddr
  PROVE  /\ GetPaddr(v) = NoPage => FrameOf(v) = NoFrame
         /\ GetPaddr(v) # NoPage =>
              FrameOf(v) = [page |-> PTE(v).paddr, write |-> PTE(v).write]
         /\ FrameOf(v) = NoFrame => GetPaddr(v) = NoPage
  <1>1. PTE(v) \in Entry
    BY EntryFacts
  <1>2. "WRITE" \in GetProt(v) <=> GetPaddr(v) # NoPage /\ PTE(v).write
    BY <1>1 DEF GetProt, Entry
  <1>3. PTE(v).write \in BOOLEAN
    BY <1>1 DEF Entry
  <1>4. ("WRITE" \in GetProt(v)) \in BOOLEAN
    OBVIOUS
  <1>5. GetPaddr(v) # NoPage => ("WRITE" \in GetProt(v)) = PTE(v).write
    BY <1>2, <1>3, <1>4
  <1>6. GetPaddr(v) = NoPage => ("WRITE" \in GetProt(v)) = FALSE
    BY <1>2, <1>4
  <1>7. GetPaddr(v) = NoPage => FrameOf(v) = NoFrame
    BY <1>6 DEF FrameOf, NoFrame
  <1>8. GetPaddr(v) # NoPage => FrameOf(v) = [page |-> PTE(v).paddr, write |-> PTE(v).write]
    BY <1>5 DEF FrameOf, GetPaddr
  <1>9. FrameOf(v).page = GetPaddr(v) /\ NoFrame.page = NoPage
    BY DEF FrameOf, NoFrame
  <1> QED  BY <1>7, <1>8, <1>9

(* A mapping step gives v its frame, and no other virtual page another one. *)
LEMMA OnlyAtFrames ==
  ASSUME PagingTypeOK, PagingTypeOK', NEW v \in VAddr, OnlyAt(v),
         NEW w \in VAddr \ {v}
  PROVE  FrameOf(w)' = FrameOf(w)
  <1>1. GetPaddr(w)' = GetPaddr(w)
    BY DEF OnlyAt
  <1>2. CASE GetPaddr(w) = NoPage
    <2>1. GetProt(w) = {} /\ GetProt(w)' = {}
      BY <1>1, <1>2 DEF GetProt
    <2> QED  BY <1>1, <2>1 DEF FrameOf
  <1>3. CASE GetPaddr(w) # NoPage
    <2>1. PTE(w)' = PTE(w)
      BY <1>3 DEF OnlyAt
    <2>2. GetProt(w)' = GetProt(w)
      BY <1>1, <2>1 DEF GetProt
    <2> QED  BY <1>1, <2>2 DEF FrameOf
  <1> QED  BY <1>2, <1>3

(* The frames after a map *)
LEMMA MapFrames ==
  ASSUME PagingInv, PagingInv', NEW v \in VAddr, NEW p \in Page, NEW write \in BOOLEAN,
         MapsOnly(v, p, write)
  PROVE  Frames' = [Frames EXCEPT ![v] = [page |-> p, write |-> write]]
  <1>1. OnlyAt(v) /\ PTE(v)' = [paddr |-> p, write |-> write]
    BY DEF MapsOnly
  <1>2. GetPaddr(v)' = p /\ p # NoPage
    BY <1>1, NoPageIsNone DEF GetPaddr
  <1>3. "WRITE" \in GetProt(v)' <=> write
    BY <1>1, <1>2 DEF GetProt
  <1>4. ("WRITE" \in GetProt(v)') = write
    BY <1>3
  <1>5. FrameOf(v)' = [page |-> p, write |-> write]
    BY <1>2, <1>4 DEF FrameOf
  <1>6. \A w \in VAddr \ {v} : FrameOf(w)' = FrameOf(w)
    BY <1>1, OnlyAtFrames DEF PagingInv
  <1> QED  BY <1>5, <1>6 DEF Frames

(* Unmapping is unmapping in AddressSpace, too. *)
LEMMA UnmapFrames ==
  ASSUME PagingInv, PagingInv', NEW v \in VAddr, UnmapsOnly(v)
  PROVE  Frames' = [Frames EXCEPT ![v] = NoFrame]
  <1>1. OnlyAt(v) /\ GetPaddr(v)' = NoPage
    BY DEF UnmapsOnly
  <1>2. GetProt(v)' = {}
    BY <1>1 DEF GetProt
  <1>3. ("WRITE" \in GetProt(v)') = FALSE
    BY <1>2
  <1>4. FrameOf(v)' = NoFrame
    BY <1>1, <1>3 DEF FrameOf, NoFrame
  <1>5. \A w \in VAddr \ {v} : FrameOf(w)' = FrameOf(w)
    BY <1>1, OnlyAtFrames DEF PagingInv
  <1> QED  BY <1>4, <1>5 DEF Frames

(* The actions of the address space, in terms of the frames *)
LEMMA SpaceActions ==
  /\ Space!SpaceInit <=> /\ Frames \in [VAddr -> [page : Page, write : BOOLEAN] \union {NoFrame}]
                         /\ held = [p \in Page |-> 0]
  /\ \A p \in Page : held' = [held EXCEPT ![p] = @ + 1] /\ Frames' = Frames
                       => Space!SpaceNext
  /\ \A p \in Page : held[p] > 0 /\ held' = [held EXCEPT ![p] = @ - 1] /\ Frames' = Frames
                       => Space!SpaceNext
  /\ \A v \in VAddr, p \in Page, write \in BOOLEAN :
       held[p] > 0 /\ held' = held
         /\ Frames' = [Frames EXCEPT ![v] = [page |-> p, write |-> write]]
         => Space!SpaceNext
  /\ \A v \in VAddr : Frames[v] # NoFrame /\ held' = held
                        /\ Frames' = [Frames EXCEPT ![v] = NoFrame]
                        => Space!SpaceNext
  /\ Frames' = Frames /\ held' = held <=> UNCHANGED Space!space_vars
  <1>1. Space!SpaceInit <=>
          /\ Frames \in [VAddr -> [page : Page, write : BOOLEAN] \union {NoFrame}]
          /\ held = [p \in Page |-> 0]
    BY DEF Space!SpaceInit, Space!Frame, Frames, FrameOf, NoFrame
  <1>2. ASSUME NEW p \in Page, held' = [held EXCEPT ![p] = @ + 1], Frames' = Frames
        PROVE  Space!SpaceNext
    <2>1. Space!Hold(p)
      BY <1>2 DEF Space!Hold, Frames, FrameOf
    <2> QED  BY <2>1 DEF Space!SpaceNext
  <1>3. ASSUME NEW p \in Page, held[p] > 0, held' = [held EXCEPT ![p] = @ - 1],
               Frames' = Frames
        PROVE  Space!SpaceNext
    <2>1. Space!Release(p)
      BY <1>3 DEF Space!Release, Frames, FrameOf
    <2> QED  BY <2>1 DEF Space!SpaceNext
  <1>4. ASSUME NEW v \in VAddr, NEW p \in Page, NEW write \in BOOLEAN,
               held[p] > 0, held' = held,
               Frames' = [Frames EXCEPT ![v] = [page |-> p, write |-> write]]
        PROVE  Space!SpaceNext
    <2>1. Space!MapAt(v, p, write)
      BY <1>4 DEF Space!MapAt, Frames, FrameOf
    <2> QED  BY <2>1 DEF Space!SpaceNext
  <1>5. ASSUME NEW v \in VAddr, Frames[v] # NoFrame, held' = held,
               Frames' = [Frames EXCEPT ![v] = NoFrame]
        PROVE  Space!SpaceNext
    <2>1. Space!UnmapAt(v)
      BY <1>5 DEF Space!UnmapAt, Frames, FrameOf, NoFrame
    <2> QED  BY <2>1 DEF Space!SpaceNext
  <1>6. Frames' = Frames /\ held' = held <=> UNCHANGED Space!space_vars
    BY DEF Space!space_vars, Frames, FrameOf
  <1> QED  BY <1>1, <1>2, <1>3, <1>4, <1>5, <1>6

(* The mappings set up at boot are an initial state of AddressSpace. *)
LEMMA PagingInitRefines == PagingInit => Space!SpaceInit
  <1> SUFFICES ASSUME PagingInit PROVE Space!SpaceInit
    OBVIOUS
  <1>1. PagingTypeOK
    BY PagingInitInv DEF PagingInv
  <1>2. held = [p \in Page |-> 0]
    BY DEF PagingInit
  <1>3. ASSUME NEW v \in VAddr
        PROVE  FrameOf(v) \in [page : Page, write : BOOLEAN] \union {NoFrame}
    <2>1. CASE GetPaddr(v) = NoPage
      BY <1>1, <2>1, FrameFacts
    <2>2. CASE GetPaddr(v) # NoPage
      <3>1. PTE(v) \in Entry /\ GetPaddr(v) \in Page
        BY <1>1, <2>2, EntryFacts
      <3>2. PTE(v).paddr \in Page /\ PTE(v).write \in BOOLEAN
        BY <3>1 DEF Entry, GetPaddr
      <3> QED  BY <1>1, <2>2, <3>2, FrameFacts
    <2> QED  BY <2>1, <2>2
  <1>4. Frames \in [VAddr -> [page : Page, write : BOOLEAN] \union {NoFrame}]
    BY <1>3 DEF Frames
  <1> QED  BY <1>2, <1>4, SpaceActions

(* Every step of the page tables is one step of the address space, or none *)
(* that its callers see.                                                   *)
LEMMA PagingNextRefines ==
  ASSUME PagingInv, PagingNext
  PROVE  Space!SpaceNext \/ UNCHANGED Space!space_vars
  <1>1. PagingInv'
    BY PagingNextInv
  <1>2. ASSUME UNCHANGED <<pd, table>> PROVE Frames' = Frames
    BY <1>2 DEF Frames, FrameOf, GetPaddr, GetProt, PTE
  <1>3. CASE TakePage
    <2>1. PICK p \in Page : held' = [held EXCEPT ![p] = @ + 1]
      BY <1>3, TakePageStep
    <2>2. Frames' = Frames
      BY <1>2, <1>3 DEF TakePage
    <2> QED  BY <2>1, <2>2, SpaceActions
  <1>4. ASSUME NEW p \in Page, ReferencePage(p) \/ DropPage(p)
        PROVE  Space!SpaceNext
    <2>1. Frames' = Frames
      BY <1>2, <1>4 DEF ReferencePage, DropPage
    <2>2. CASE ReferencePage(p)
      BY <2>1, <2>2, SpaceActions DEF ReferencePage
    <2>3. CASE DropPage(p)
      BY <2>1, <2>3, SpaceActions DEF DropPage
    <2> QED  BY <1>4, <2>2, <2>3
  <1>5. ASSUME NEW v \in CallerVAddr, NEW r \in KmemRange, RecordRange(v, r)
        PROVE  UNCHANGED Space!space_vars
    <2>1. Frames' = Frames /\ held' = held
      BY <1>2, <1>5 DEF RecordRange
    <2> QED  BY <2>1, SpaceActions
  <1>6. ASSUME NEW v \in CallerVAddr, NEW p \in Page, NEW write \in BOOLEAN, Map(v, p, write)
        PROVE  Space!SpaceNext
    <2>1. v \in VAddr /\ MapsOnly(v, p, write) /\ held[p] > 0 /\ held' = held
      BY <1>6, CallerVAddrFacts, MapAnyStep
    <2>2. Frames' = [Frames EXCEPT ![v] = [page |-> p, write |-> write]]
      BY <1>1, <2>1, MapFrames
    <2> QED  BY <2>1, <2>2, SpaceActions
  <1>7. ASSUME NEW v \in CallerVAddr, Unmap(v)
        PROVE  Space!SpaceNext
    <2>1. v \in VAddr /\ UnmapsOnly(v) /\ held' = held /\ GetPaddr(v) # NoPage
      BY <1>7, CallerVAddrFacts, UnmapStep DEF Unmap
    <2>2. Frames' = [Frames EXCEPT ![v] = NoFrame]
      BY <1>1, <2>1, UnmapFrames
    <2>3. Frames[v] # NoFrame
      BY <2>1, FrameFacts DEF PagingInv, Frames
    <2> QED  BY <2>1, <2>2, <2>3, SpaceActions
  <1> QED  BY <1>3, <1>4, <1>5, <1>6, <1>7 DEF PagingNext

(* The page tables implement the address space that paging.h promises:     *)
(* each virtual page is mapped and unmapped alone, whatever the physical   *)
(* pages that are allocated, shared and freed on the way.                  *)
THEOREM PagingImplementsAddressSpace == PagingSpec => ImplementsAddressSpace
  <1>1. PagingInv /\ [PagingNext]_paging_vars => [Space!SpaceNext]_Space!space_vars
    <2>1. ASSUME UNCHANGED paging_vars PROVE UNCHANGED Space!space_vars
      <3>1. Frames' = Frames /\ held' = held
        BY <2>1 DEF paging_vars, Frames, FrameOf, GetPaddr, GetProt, PTE
      <3> QED  BY <3>1, SpaceActions
    <2> QED  BY <2>1, PagingNextRefines
  <1> QED
    BY <1>1, PagingInitRefines, PagingInvariance, PTL
       DEF PagingSpec, ImplementsAddressSpace, Space!SpaceSpec
=============================================================================
