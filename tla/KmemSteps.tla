----------------------------- MODULE KmemSteps -----------------------------
(***************************************************************************)
(* The steps of the allocation of kernel virtual memory: the ranges of     *)
(* pages of src/os/kmem_vmm.c and the slabs of src/os/kmem_slab.c, without *)
(* the calls they make of each other (in KmemSlab).  The state is one      *)
(* record, and each function transforms it; `ret' is what it returned.     *)
(* Addresses and sizes are counted in words, and pages by their number: a  *)
(* slab, an object, a descriptor of a range is known by its address, as in *)
(* the code.                                                               *)
(*                                                                         *)
(* The free objects of a slab are a set, from which the lowest is taken.   *)
(***************************************************************************)
EXTENDS Naturals, FiniteSets, SequencesExt

CONSTANTS
  PageSize,
  KslabSize, RangeSize, CacheSize,  \* sizes of the three structures
  TopPage,       \* the last page of the kernel virtual memory
  KmallocClass,  \* the caches of kmalloc, by increasing size of object
  Driver,        \* the caches that drivers create
  Shape,         \* the parameters of these caches
  MaxPagesPerSlab

NULL == 0

(* The pages after the kernel's image and constant mappings. *)
Pages == 1 .. TopPage

(* cache_initialize(): the objects a slab holds, and whether its structure *)
(* lies at its end.                                                        *)
Geometry(p) ==
  LET small == p.onslab \/ p.size <= KslabSize
      space == p.pages * PageSize - (IF small THEN KslabSize ELSE 0)
  IN [size |-> p.size, pages |-> p.pages, min |-> p.min,
      objects |-> space \div p.size,
      onslab |-> small \/ space % p.size >= KslabSize]

Parameters(c) ==
  CASE c = "caches" -> [size |-> CacheSize, pages |-> 1, min |-> 0, onslab |-> TRUE]
    [] c = "ranges" -> [size |-> RangeSize, pages |-> 1, min |-> 2, onslab |-> TRUE]
    [] c = "kslabs" -> [size |-> KslabSize, pages |-> 1, min |-> 0, onslab |-> FALSE]
    [] OTHER -> Shape[c]

Cache == [c \in {"caches", "ranges", "kslabs"} \union DOMAIN Shape |-> Geometry(Parameters(c))]

CacheRefused(c) ==
  \/ Cache[c].size > Cache[c].pages * PageSize
  \/ Cache[c].pages > MaxPagesPerSlab
  \/ Cache[c].objects < Cache[c].min

ASSUME KmemAssumption ==
  /\ PageSize \in Nat \ {0}
  /\ KslabSize \in Nat \ {0} /\ RangeSize \in Nat \ {0} /\ CacheSize \in Nat \ {0}
  /\ Shape \in [ToSet(KmallocClass) \union Driver ->
                  [size : Nat \ {0}, pages : Nat \ {0}, min : Nat, onslab : {FALSE}]]
  (* What sos_kmem_vmm_subsystem_setup() needs before any range is free. *)
  /\ Cache["caches"].objects >= 3 /\ Cache["ranges"].objects >= 5
  (* A page holds the structure of a slab and an object as small. *)
  /\ 2 * KslabSize <= PageSize
  /\ TopPage \in Nat /\ TopPage >= 3 /\ MaxPagesPerSlab \in Nat \ {0}
  /\ {"caches", "ranges", "kslabs"} \intersect (ToSet(KmallocClass) \union Driver) = {}

(* sos_kmalloc_subsystem_setup() creates a cache for each entry of a list. *)
ASSUME ClassesAssumption ==
  KmallocClass \in Seq(ToSet(KmallocClass)) /\ IsInjective(KmallocClass)

Return(state, value) == [state EXCEPT !.ret = value]

(* The function f with one more pair (TLC's @@, which no prover expands). *)
With(f, x, v) == [y \in DOMAIN f \union {x} |-> IF y = x THEN v ELSE f[y]]

Fail(state) == Return(state, NULL)

(* What follows a call that may fail. *)
AndThen(state, Step(_)) == IF state.ret = NULL THEN state ELSE Step(state)

PageOf(addr) == addr \div PageSize

End(state, d) == state.range[d].base + state.range[d].nb_pages

PagesOf(state, d) == state.range[d].base .. End(state, d) - 1

-----------------------------------------------------------------------------
(* THE LISTS OF RANGES                                                     *)

(* get_closest_preceding_kmem_range(), as an index; 0 when there is none.  *)
Preceding(state, list, page) ==
  Cardinality({i \in DOMAIN list : \A j \in 1 .. i : state.range[list[j]].base <= page})

(* find_suitable_free_range(), as an index too *)
FirstFit_NotEmpty(state, nb) ==      \* mutant: the size is not compared
  SelectInSeq(state.free, LAMBDA d : state.range[d].nb_pages > 0)

FirstFit(state, nb) == SelectInSeq(state.free, LAMBDA d : state.range[d].nb_pages >= nb)

(* insert_range() *)
InsertRange(state, list, d) ==
  InsertAt(list, Preceding(state, list, state.range[d].base) + 1, d)

(* lookup_range(): through the physical page, or else the used ranges. *)
UsedAt(state, i, page) ==
  IF i > 0 /\ page < End(state, state.used[i]) THEN state.used[i] ELSE NULL

Lookup(state, page) ==
  IF page \in DOMAIN state.owner THEN state.owner[page]
                                 ELSE UsedAt(state, Preceding(state, state.used, page), page)

(* sos_kmem_vmm_resolve_slab() *)
SlabOf(state, d) == IF d = NULL THEN NULL ELSE state.range[d].slab

ResolveSlab(state, page) == SlabOf(state, Lookup(state, page))

(* The two ways sos_kmem_vmm_new_range() makes the used range d out of the *)
(* free range r: all of it, or its first pages.                            *)
TakeRange(state, r) ==
  [state EXCEPT !.free = RemoveFirst(@, r),
                !.used = InsertRange(state, @, r),
                !.range[r].slab = NULL,
                !.ret = r]

Cut(table, r, nb, d) ==
  With([table EXCEPT ![r].base = @ + nb, ![r].nb_pages = @ - nb],
       d, [base |-> table[r].base, nb_pages |-> nb, slab |-> NULL])

SplitRange(state, r, nb, d) ==
  LET cut == [state EXCEPT !.range = Cut(@, r, nb, d)]
  IN [cut EXCEPT !.used = InsertRange(cut, @, d), !.ret = d]

-----------------------------------------------------------------------------
(* THE OBJECTS OF A SLAB                                                   *)

ObjectsAt(c, base) == {base * PageSize + i * Cache[c].size : i \in 0 .. Cache[c].objects - 1}

Objects(state, s) == ObjectsAt(state.slab[s].cache, state.slab[s].base)

(* cache_add_slab(), at the head of the list, and the rest of cache_grow(). *)
AddSlab(state, c, base, d, s) ==
  [state EXCEPT
     !.slab = With(@, s, [cache |-> c, free |-> ObjectsAt(c, base), range |-> d, base |-> base]),
     !.cache[c] = [slab_list |-> <<s>> \o @.slab_list, nb_free |-> @.nb_free + Cache[c].objects,
                   addr |-> @.addr],
     !.range = IF d = NULL THEN @ ELSE [@ EXCEPT ![d].slab = s],
     !.ret = s]

OnSlab(c, base) == (base + Cache[c].pages) * PageSize - KslabSize

(* The object sos_kmem_cache_alloc() takes, from the slab at the head; a   *)
(* slab that gets full goes to the tail.                                   *)
TakeObject(state, c) ==
  LET s == Head(state.cache[c].slab_list)
      object == Min(state.slab[s].free)
  IN [state EXCEPT !.slab[s].free = @ \ {object},
                   !.cache[c].nb_free = @ - 1,
                   !.cache[c].slab_list = IF state.slab[s].free = {object} THEN Tail(@) \o <<s>> ELSE @,
                   !.ret = object]

(* free_object(): the object at addr returns to its slab, and `ret' is the *)
(* slab to release, if it becomes empty and the cache can spare it.        *)
ObjectIn(state, s, addr) == s # NULL /\ addr \in Objects(state, s)

IsObject(state, addr) == ObjectIn(state, ResolveSlab(state, PageOf(addr)), addr)

PutBack(state, s, addr) ==
  LET c == state.slab[s].cache
  IN [state EXCEPT
        !.slab[s].free = @ \union {addr},
        !.cache[c].nb_free = @ + 1,
        !.cache[c].slab_list = IF state.slab[s].free = {} THEN <<s>> \o RemoveFirst(@, s) ELSE @]

CanBeSpared_NoReserve(state, s) ==  \* mutant: min_free_objects is forgotten
  state.slab[s].free = Objects(state, s)

CanBeSpared(state, s) ==
  LET c == state.slab[s].cache
  IN /\ state.slab[s].free = Objects(state, s)
     /\ state.cache[c].nb_free - Cardinality(state.slab[s].free) >= Cache[c].min

Spared(state, s) == Return(state, IF CanBeSpared(state, s) THEN s ELSE NULL)

FreeObjectIn(state, s, addr) ==
  IF ObjectIn(state, s, addr) THEN Spared(PutBack(state, s, addr), s) ELSE Fail(state)

FreeObject(state, addr) == FreeObjectIn(state, ResolveSlab(state, PageOf(addr)), addr)

(* The first slab of a cache has a free object, if any of them has.       *)
HasFreeObject(state, c) ==
  LET list == state.cache[c].slab_list IN list # <<>> /\ state.slab[Head(list)].free # {}

(* sos_kmem_cache_release_struct_range(): the slab that the descriptor     *)
(* leaves empty is released, and `ret' is the range to delete later.       *)
DropSlab(state, s) ==
  LET c == state.slab[s].cache
  IN [state EXCEPT !.cache[c].slab_list = RemoveFirst(@, s),
                   !.cache[c].nb_free = @ - Cache[c].objects]

UnbindRange(state, s) ==
  LET d == state.slab[s].range
  IN [state EXCEPT !.slab = Restrict(@, DOMAIN @ \ {s}),
                   !.range[d].slab = NULL,
                   !.ret = d]

Forget(state, d) == [state EXCEPT !.range = Restrict(@, DOMAIN @ \ {d})]

ReleaseStructRange(state, d) ==
  AndThen(FreeObject(Forget(state, d), d),
          LAMBDA freed : UnbindRange(DropSlab(freed, freed.ret), freed.ret))

(* The merge of the free range `next' into `prev'.  The range of the slab  *)
(* that this empties leaves the used ranges, to be freed later.            *)
Queued(state) ==
  [state EXCEPT !.used = RemoveFirst(@, state.ret),
                !.ranges_to_free = Append(@, state.ret)]

Join(state, prev, next) ==
  [state EXCEPT !.range[prev].nb_pages = @ + state.range[next].nb_pages,
                !.free = RemoveFirst(@, next)]

Merge(state, prev, next) ==
  AndThen(ReleaseStructRange(Join(state, prev, next), next), Queued)

(* The i-th free range and the next one; the list is circular, but its     *)
(* tail never ends where its head begins.                                  *)
Touch(state, i) ==
  /\ i \in 1 .. Len(state.free) - 1
  /\ End(state, state.free[i]) = state.range[state.free[i + 1]].base

MergeTouching(state, i) ==
  IF Touch(state, i) THEN Merge(state, state.free[i], state.free[i + 1]) ELSE state

MergePrevious(state, page) == MergeTouching(state, Preceding(state, state.free, page) - 1)

MergeNext(state, page) == MergeTouching(state, Preceding(state, state.free, page))

(* The loop of sos_kmem_vmm_del_range() from range d on. *)
FreeRange(state, d) ==
  [state EXCEPT !.free = InsertRange(state, @, d),
                !.owner = Restrict(@, DOMAIN @ \ PagesOf(state, d))]

(* The body of that loop; what the merges leave to free comes next. *)
FreedAndMerged(state, d) ==
  LET page == state.range[d].base
  IN MergeNext(MergePrevious(FreeRange(state, d), page), page)

(* Where the ranges come from: the used ranges, or that queue. *)
Unused(state, d) == [state EXCEPT !.used = RemoveFirst(@, d)]

Dequeued(state) == [state EXCEPT !.ranges_to_free = Tail(@)]

(* The pages of a new range are mapped one by one, until physical memory   *)
(* or a page table is missing.                                             *)
MapFirst(state, d, nb) ==
  [state EXCEPT
     !.avail = @ - nb,
     !.owner = LET first == state.range[d].base .. state.range[d].base + nb - 1
               IN [p \in DOMAIN @ \union first |-> IF p \in first THEN d ELSE @[p]]]

-----------------------------------------------------------------------------
(* WHAT THE STEPS KEEP                                                     *)

Apart(state, d, e) ==
  \/ End(state, d) <= state.range[e].base
  \/ End(state, e) <= state.range[d].base

(* No two ranges overlap, those of the lists and those that an operation   *)
(* has in hand.  A free range may be left empty, when the allocation of a  *)
(* descriptor takes the end of the range that its caller has chosen.       *)
RangesApart(state) ==
  /\ \A d, e \in DOMAIN state.range : d # e => Apart(state, d, e)
  /\ \A d \in DOMAIN state.range \ ToSet(state.free) : state.range[d].nb_pages > 0

(* A range is in one list, once, and the two main lists are sorted.        *)
Sorted(state, list) ==
  /\ IsInjective(list)
  /\ \A i, j \in 1 .. Len(list) : i < j => End(state, list[i]) <= state.range[list[j]].base

ListsSorted(state) ==
  /\ Sorted(state, state.used) /\ Sorted(state, state.free)
  /\ IsInjective(state.ranges_to_free)
  /\ ToSet(state.used) \intersect ToSet(state.free) = {}
  /\ ToSet(state.ranges_to_free) \intersect (ToSet(state.used) \union ToSet(state.free)) = {}

(* A mapped page records the range it lies in, which is not free.          *)
OwnersKnown(state) ==
  \A p \in DOMAIN state.owner :
    /\ state.owner[p] \in DOMAIN state.range \ ToSet(state.free)
    /\ p \in PagesOf(state, state.owner[p])

(* A slab and its used range point at each other. *)
SlabsBound(state) ==
  /\ \A s \in DOMAIN state.slab :
       /\ state.slab[s].range \in ToSet(state.used)
       /\ state.range[state.slab[s].range].slab = s
  /\ \A d \in DOMAIN state.range :
       state.range[d].slab # NULL =>
         /\ state.range[d].slab \in DOMAIN state.slab
         /\ state.slab[state.range[d].slab].range = d

(* It holds the whole slab, its objects and the structure at its end.      *)
SlabsFit(state) ==
  \A s \in DOMAIN state.slab :
    LET d == state.slab[s].range
    IN /\ state.range[d].base = state.slab[s].base
       /\ state.range[d].nb_pages = Cache[state.slab[s].cache].pages

RangesKept(state) ==
  /\ RangesApart(state) /\ ListsSorted(state) /\ OwnersKnown(state)
  /\ SlabsBound(state) /\ SlabsFit(state)

(* The fields of the state, and what they hold. *)
Field == {"range", "free", "used", "ranges_to_free", "slab", "cache", "owner", "avail", "ret"}

Shaped(st) == st = [f \in Field |-> st[f]]

RangeRecord == [base : Nat, nb_pages : Nat, slab : Nat]

SlabRecord == [cache : DOMAIN Cache, free : SUBSET Nat, range : Nat, base : Nat]

KmemShape(st) ==
  /\ Shaped(st)
  /\ DOMAIN st.range \subseteq Nat \ {NULL}
  /\ st.range \in [DOMAIN st.range -> RangeRecord]
  /\ st.free \in Seq(DOMAIN st.range)
  /\ st.used \in Seq(DOMAIN st.range)
  /\ st.ranges_to_free \in Seq(DOMAIN st.range)
  /\ DOMAIN st.slab \subseteq Nat \ {NULL}
  /\ st.slab \in [DOMAIN st.slab -> SlabRecord]
  /\ DOMAIN st.owner \subseteq Nat
  /\ st.owner \in [DOMAIN st.owner -> DOMAIN st.range]

(* What every step keeps, whatever the step before it. *)
KmemKept(st) == KmemShape(st) /\ RangesKept(st)

(* Free ranges that touch are merged. *)
Coalesced(state) == \A i \in 1 .. Len(state.free) - 1 : ~ Touch(state, i)

=============================================================================
