-------------------------------- MODULE Kmem --------------------------------
(***************************************************************************)
(* The operations of src/os/kmalloc.c, kmem_slab.c and kmem_vmm.h over the *)
(* ranges and slabs of KmemSlab, their state after                         *)
(* sos_kmem_vmm_subsystem_setup() and sos_kmalloc_subsystem_setup(), and   *)
(* what must hold between two of them.  Each runs to its end before        *)
(* another begins: the threads that call them are cooperative and give the *)
(* CPU away in none of them, and no interrupt handler allocates or frees.  *)
(* Physical memory gives each of them a number of pages, then no more.     *)
(***************************************************************************)
EXTENDS KmemSlab

CONSTANTS
  Request,       \* sizes asked of kmalloc
  Grant,         \* pages that physical memory still gives during an operation
  MaxOwned       \* bound of the model on the areas that callers hold

ASSUME RequestAssumption == MaxOwned \in Nat /\ Grant \subseteq Nat /\ Request \subseteq Nat \ {0}

VARIABLES
  k,      \* the state of the allocators
  owned   \* the areas that callers hold

kmem_vars == <<k, owned>>

Address == 0 .. (TopPage + 1) * PageSize - 1

KmemTypeOK ==
  /\ DOMAIN k.range \subseteq Address
  /\ \A d \in DOMAIN k.range :
       k.range[d] \in [base : Pages \union {TopPage + 1}, nb_pages : 0 .. TopPage, slab : Address]
  /\ k.free \in Seq(Address) /\ k.used \in Seq(Address)
  /\ DOMAIN k.slab \subseteq Address
  /\ \A s \in DOMAIN k.slab :
       k.slab[s] \in [cache : DOMAIN Cache, free : SUBSET Address, range : Address, base : Pages]
  /\ DOMAIN k.cache \subseteq DOMAIN Cache
  /\ \A c \in DOMAIN k.cache :
       k.cache[c] \in [slab_list : Seq(Address), nb_free : Nat, addr : Address]
  /\ DOMAIN k.owner \subseteq Pages /\ \A p \in DOMAIN k.owner : k.owner[p] \in Address
  /\ k.ranges_to_free = <<>> /\ k.avail = 0 /\ k.ret = NULL
  /\ owned \subseteq [addr : Address, size : Nat]

-----------------------------------------------------------------------------
(* CACHES                                                                  *)

(* The structure of cache c is initialized, without any slab. *)
NewCache(state, c, addr) ==
  [state EXCEPT !.cache = With(@, c, [slab_list |-> <<>>, nb_free |-> 0, addr |-> addr])]

(* sos_kmem_cache_destroy(), once it has checked that no object of c is    *)
(* allocated.                                                              *)
InUse_FirstSlab(state, c) ==   \* mutant: only the first slab is checked
  LET list == state.cache[c].slab_list
  IN list # <<>> /\ state.slab[Head(list)].free # Objects(state, Head(list))

InUse(state, c) ==
  \E i \in DOMAIN state.cache[c].slab_list :
    LET s == state.cache[c].slab_list[i] IN state.slab[s].free # Objects(state, s)

WithoutCache(state, c) ==
  CacheFree([state EXCEPT !.cache = Restrict(@, DOMAIN @ \ {c})], state.cache[c].addr)

HeadReleased(state, c) == ReleaseSlab(state, Head(state.cache[c].slab_list))

SlabsReleased(state, c, nb) ==
  LET after[n \in 0 .. nb] == IF n = 0 THEN state ELSE HeadReleased(after[n - 1], c)
  IN after[nb]

CacheDestroyed(state, c) ==
  WithoutCache(SlabsReleased(state, c, Len(state.cache[c].slab_list)), c)

(* sos_kmem_cache_create(); `ret' is the structure of the cache. *)
FirstGrowth(grown, c, struct) ==
  IF grown.ret = NULL THEN Fail(CacheDestroyed(grown, c)) ELSE Return(grown, struct)

Preallocated(state, c) ==
  IF Cache[c].min = 0 THEN state ELSE FirstGrowth(CacheGrow(state, c), c, state.ret)

Initialized(new, c) ==
  IF CacheRefused(c) THEN Fail(CacheFree(new, new.ret))
                     ELSE Preallocated(NewCache(new, c, new.ret), c)

CacheCreated(state, c) ==
  AndThen(CacheAlloc(state, "caches"), LAMBDA new : Initialized(new, c))

-----------------------------------------------------------------------------
(* SETUP                                                                   *)

(* The first slab of a cache, before there are ranges. *)
FirstSlab(state, c, addr, base) ==
  AddSlab(NewCache(state, c, addr), c, base, NULL, OnSlab(c, base))

Blank ==
  [range |-> <<>>, free |-> <<>>, used |-> <<>>, ranges_to_free |-> <<>>,
   slab |-> <<>>, cache |-> <<>>,
   owner |-> <<>>, avail |-> TopPage, ret |-> NULL]

(* sos_kmem_cache_alloc() of the structure of a cache, in the first slab.  *)
SetupAlloc(state) ==
  AndThen(WithFree(state, "caches", TooDeep),
          LAMBDA ready : KeepReserve(TakeObject(ready, "caches"), "caches", TooDeep))

(* create_cache_of_caches(): the structure of a cache is an object of the  *)
(* cache of caches, that of this cache too.                                *)
SelfAllocated(state) == [state EXCEPT !.cache["caches"].addr = state.ret]

CachesSetup ==
  AndThen(SetupAlloc(FirstSlab(Blank, "caches", NULL, 1)), SelfAllocated)

(* create_cache_of_ranges() *)
RangesReady(state) == FirstSlab(state, "ranges", state.ret, 2)

RangesSetup == AndThen(SetupAlloc(CachesSetup), RangesReady)

(* sos_kmem_cache_subsystem_setup_prepare() *)
CachesPrepared == AndThen(SetupAlloc(RangesSetup), LAMBDA new : Initialized(new, "kslabs"))

(* create_range() *)
Described(state, area) ==
  [state EXCEPT !.range = With(@, state.ret, area)]

ListedFree(state) == [state EXCEPT !.free = Append(@, state.ret)]

ListedUsed(state, area) ==
  LET pages == area.base .. area.base + area.nb_pages - 1
  IN [state EXCEPT !.used = Append(@, state.ret),
                   !.owner = [p \in DOMAIN @ \union pages |->
                                IF p \in pages THEN state.ret ELSE @[p]],
                   !.slab[area.slab].range = state.ret]

Listed(state, area) ==
  IF area.slab = NULL THEN ListedFree(state) ELSE ListedUsed(state, area)

CreateRange(state, area) == Listed(Described(Describe(state), area), area)

(* sos_kmem_vmm_subsystem_setup() for the two first slabs and the pages    *)
(* that follow, and sos_kmem_cache_subsystem_setup_commit().               *)
Areas ==
  <<[base |-> 1, nb_pages |-> 1, slab |-> OnSlab("caches", 1)],
    [base |-> 2, nb_pages |-> 1, slab |-> OnSlab("ranges", 2)],
    [base |-> 3, nb_pages |-> TopPage - 2, slab |-> NULL]>>

VmmSetup(state) ==
  CreateRange(CreateRange(CreateRange(state, Areas[1]), Areas[2]), Areas[3])

(* Then sos_kmalloc_subsystem_setup(), class by class. *)
KmemSetup ==
  LET after[n \in 0 .. Len(KmallocClass)] ==
        IF n = 0 THEN VmmSetup(CachesPrepared)
                 ELSE CacheCreated(after[n - 1], KmallocClass[n])
  IN after[Len(KmallocClass)]

Finish(state) == k' = [state EXCEPT !.avail = 0, !.ret = NULL]

KmemInit ==
  /\ k = [KmemSetup EXCEPT !.avail = 0, !.ret = NULL]
  /\ owned = {}

-----------------------------------------------------------------------------
(* OPERATIONS                                                              *)

Granted(n) == [k EXCEPT !.avail = n]

(* The caller gets an area of that size at `ret', or nothing. *)
Deliver(state, size) ==
  /\ Cardinality(owned) < MaxOwned
  /\ Finish(state)
  /\ owned' = IF state.ret = NULL THEN owned
              ELSE owned \union {[addr |-> state.ret, size |-> size]}

(* sos_kmem_cache_alloc(), for a driver or for sos_kmalloc(). *)
ObjectAlloc(c, n) ==
  /\ c \in DOMAIN k.cache
  /\ Deliver(CacheAlloc(Granted(n), c), Cache[c].size)

(* sos_kmalloc(): an object of the first cache whose objects are large     *)
(* enough, or else whole pages of sos_kmem_vmm_alloc().                    *)
PagesFor(size) == (size + PageSize - 1) \div PageSize

ClassFor(size) == SelectInSeq(KmallocClass, LAMBDA c : Cache[c].size >= size)

KmallocCaches == {KmallocClass[ClassFor(size)] : size \in {r \in Request : ClassFor(r) # 0}}

BaseOf(state) == Return(state, state.range[state.ret].base * PageSize)

PageAlloc(nb, n) == Deliver(AndThen(NewRange(Granted(n), nb), BaseOf), nb * PageSize)

KmallocPages(size, n) == ClassFor(size) = 0 /\ PageAlloc(PagesFor(size), n)

(* sos_kmem_vmm_free(): the range is deleted, unless addr is not its first *)
(* address (-SOS_EINVAL) or a slab lies in it (-SOS_EBUSY).                *)
Freeable_WithSlab(state, addr) ==   \* mutant: the range of a slab is deleted
  LET d == Lookup(state, PageOf(addr))
  IN d # NULL /\ state.range[d].base * PageSize = addr

Freeable(state, addr) ==
  LET d == Lookup(state, PageOf(addr))
  IN d # NULL /\ state.range[d].base * PageSize = addr /\ state.range[d].slab = NULL

Disowned(addr) == {a \in owned : a.addr # addr}

VmmFree(addr) ==
  \/ /\ Freeable(k, addr)
     /\ Finish(DelRange(k, Lookup(k, PageOf(addr))))
     /\ owned' = Disowned(addr)
  \/ ~ Freeable(k, addr) /\ UNCHANGED kmem_vars

(* sos_kfree(), or sos_kmem_cache_free() for an object: it is given an     *)
(* address that its caller owns.                                           *)
Kfree(addr) ==
  \/ /\ IsObject(k, addr)
     /\ Finish(CacheFree(k, addr))
     /\ owned' = Disowned(addr)
  \/ ~ IsObject(k, addr) /\ VmmFree(addr)

CacheCreate(c, n) ==
  /\ c \notin DOMAIN k.cache
  /\ Finish(CacheCreated(Granted(n), c))
  /\ UNCHANGED owned

CacheDestroy(c) ==
  /\ c \in DOMAIN k.cache /\ ~ InUse(k, c)
  /\ Finish(CacheDestroyed(k, c))
  /\ UNCHANGED owned

KmemNext ==
  \/ \E c \in KmallocCaches \union Driver, n \in Grant : ObjectAlloc(c, n)
  \/ \E size \in Request, n \in Grant : KmallocPages(size, n)
  \/ \E c \in Driver, n \in Grant : CacheCreate(c, n)
  \/ \E c \in Driver : CacheDestroy(c)
  \/ \E a \in owned : Kfree(a.addr)
  \/ \E p \in Pages : VmmFree(p * PageSize)

KmemSpec == KmemInit /\ [][KmemNext]_kmem_vars

-----------------------------------------------------------------------------
(* PROPERTIES                                                              *)

Used == ToSet(k.used)

Free == ToSet(k.free)

(* The two lists share the kernel virtual memory without overlap or hole.  *)
EachPageOnce ==
  \A p \in Pages : Cardinality({d \in Used \union Free : p \in PagesOf(k, d)}) = 1

(* The pages of the used ranges, and no other, are mapped, and the owner   *)
(* recorded for each is the range it lies in.                              *)
OwnersRecorded ==
  /\ DOMAIN k.owner = UNION {PagesOf(k, d) : d \in Used}
  /\ \A d \in Used : \A p \in PagesOf(k, d) : k.owner[p] = d

(* The ranges are apart and in their lists, as every step keeps them; free *)
(* ranges that touch are merged; and nothing is missing from the tiling.   *)
RangesTile == KmemKept(k) /\ Coalesced(k) /\ EachPageOnce /\ OwnersRecorded

(* The objects allocated in the cache of ranges are the ranges of the two  *)
(* lists, those of the cache of caches are the caches, and those of the    *)
(* cache of slab structures are the slabs whose structure lies outside.    *)
SlabsOf(c) == {s \in DOMAIN k.slab : k.slab[s].cache = c}

AllocatedIn(c) == UNION {Objects(k, s) \ k.slab[s].free : s \in SlabsOf(c)}

StructuresAllocated ==
  /\ Used \union Free = AllocatedIn("ranges") /\ DOMAIN k.range = Used \union Free
  /\ {k.cache[c].addr : c \in DOMAIN k.cache} = AllocatedIn("caches")
  /\ {s \in DOMAIN k.slab : ~ Cache[k.slab[s].cache].onslab} = AllocatedIn("kslabs")

(* A cache lists its slabs, the full ones after the others, and counts     *)
(* their free objects.                                                     *)
CachesExact ==
  \A c \in DOMAIN k.cache :
    LET list == k.cache[c].slab_list
    IN /\ ToSet(list) = SlabsOf(c) /\ Len(list) = Cardinality(SlabsOf(c))
       /\ k.cache[c].nb_free = Cardinality(UNION {k.slab[s].free : s \in SlabsOf(c)})
       /\ \A i, j \in DOMAIN list :
            i < j /\ k.slab[list[i]].free = {} => k.slab[list[j]].free = {}

(* A cache without reserve returns a slab with its last object. *)
EmptySlabsReturned ==
  \A s \in DOMAIN k.slab :
    Cache[k.slab[s].cache].min = 0 => k.slab[s].free # Objects(k, s)

NothingLost == StructuresAllocated /\ CachesExact /\ EmptySlabsReturned

(* Every cache keeps its reserve between two operations, whether they      *)
(* succeed or fail: the cache of ranges keeps the two descriptors without  *)
(* which it could never grow again.                                        *)
ReserveKept == \A c \in DOMAIN k.cache : k.cache[c].nb_free >= Cache[c].min

(* What callers hold is what the allocators take for allocated: the        *)
(* objects of their caches and the used ranges that no slab lies in.       *)
OwnedIsAllocated ==
  owned =
    (UNION {{[addr |-> a, size |-> Cache[c].size] : a \in AllocatedIn(c)} : c \in DOMAIN Shape})
    \union {[addr |-> k.range[d].base * PageSize, size |-> k.range[d].nb_pages * PageSize] :
              d \in {u \in Used : k.range[u].slab = NULL}}

(* Callers see a heap: an area is given to one of them, apart from all     *)
(* others, until it is freed, and nothing else happens to it.              *)
HeapSeen == INSTANCE Heap WITH
  HeapBase <- PageSize, HeapTop <- (TopPage + 1) * PageSize, live <- owned

ImplementsHeap == HeapSeen!HeapSpec

=============================================================================
