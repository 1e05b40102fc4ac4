------------------------------ MODULE KmemSlab ------------------------------
(***************************************************************************)
(* The ranges of kernel virtual memory and the slab caches over each other *)
(* (src/os/kmem_vmm.c, src/os/kmem_slab.c): a range is described by an     *)
(* object of a slab cache, a slab lies in a range, and the functions of    *)
(* the two call each other.  A function that may end in a call of itself   *)
(* is defined once for each level of calls, and none is entered deeper     *)
(* than the levels below, as the comment of sos_kmem_cache_alloc() argues. *)
(* What these definitions share takes as an argument the state that a call *)
(* returns; the argument counts only where the code makes that call.       *)
(***************************************************************************)
EXTENDS KmemSteps

TooDeep == Assert(FALSE, "a level of calls that the code never enters")

-----------------------------------------------------------------------------
(* DELETION                                                                *)

(* sos_kmem_vmm_del_range(): the range is the first to free; each turn of  *)
(* the loop frees one of the used ranges, so that it takes no more turns   *)
(* than there are of them.                                                 *)
ToFree(state, d) == [Unused(state, d) EXCEPT !.ranges_to_free = <<d>>]

Turn(state) ==
  IF state.ranges_to_free = <<>> THEN state
  ELSE FreedAndMerged(Dequeued(state), Head(state.ranges_to_free))

Turns(first, bound) ==
  LET turn[n \in 0 .. bound] == IF n = 0 THEN first ELSE Turn(turn[n - 1]) IN turn[bound]

DelRange(state, d) == Turns(ToFree(state, d), Len(state.used))

(* cache_release_slab(), with its range: a slab holds its structure, or    *)
(* has it freed from the cache of structures.                              *)
Dropped(state, s, freed) ==
  IF Cache[state.slab[s].cache].onslab THEN DropSlab(state, s) ELSE freed

DelBoundRange(state) == DelRange(state, state.ret)

(* The slab of a structure, which holds its own. *)
ReleaseOnSlab(state, s) == DelBoundRange(UnbindRange(Dropped(state, s, TooDeep), s))

StructureFree(state, addr) ==
  AndThen(FreeObject(state, addr), LAMBDA freed : ReleaseOnSlab(freed, freed.ret))

(* Any slab. *)
ReleaseSlab(state, s) ==
  DelBoundRange(UnbindRange(Dropped(state, s, StructureFree(DropSlab(state, s), s)), s))

(* sos_kmem_cache_free() *)
CacheFree(state, addr) ==
  AndThen(FreeObject(state, addr), LAMBDA freed : ReleaseSlab(freed, freed.ret))

-----------------------------------------------------------------------------
(* ALLOCATION                                                              *)

(* sos_kmem_cache_alloc(): the cache grows when it has no free object, and *)
(* when the object taken, in `ret', starts its reserve; when this second   *)
(* growth fails, the object is put back.                                   *)
WithFree(state, c, grown) ==
  IF HasFreeObject(state, c) THEN Return(state, Head(state.cache[c].slab_list)) ELSE grown

Replenished_KeepObject(grown, object) ==  \* mutant: the object is not put back
  IF grown.ret = NULL THEN grown ELSE Return(grown, object)

Replenished(grown, object) ==
  IF grown.ret = NULL THEN Fail(CacheFree(grown, object)) ELSE Return(grown, object)

StartsReserve(state, c) == Cache[c].min > 0 /\ state.cache[c].nb_free = Cache[c].min - 1

KeepReserve(state, c, replenished) == IF StartsReserve(state, c) THEN replenished ELSE state

(* sos_kmem_vmm_new_range(): the free range is chosen before its           *)
(* descriptor is allocated, and that allocation may take pages of it.      *)
ReserveAt_ReadBefore(state, i, nb, described) ==   \* mutant: its bounds are read before, too
  CASE i = 0 -> Fail(state)
    [] i > 0 /\ state.range[state.free[i]].nb_pages = nb -> TakeRange(state, state.free[i])
    [] OTHER -> AndThen(described,
                  LAMBDA new : SplitRange([new EXCEPT !.range[state.free[i]] = state.range[state.free[i]]],
                                          state.free[i], nb, new.ret))

ReserveAt(state, i, nb, described) ==
  CASE i = 0 -> Fail(state)
    [] i > 0 /\ state.range[state.free[i]].nb_pages = nb -> TakeRange(state, state.free[i])
    [] OTHER -> AndThen(described, LAMBDA new : SplitRange(new, state.free[i], nb, new.ret))

Reserve(state, nb, described) == ReserveAt(state, FirstFit(state, nb), nb, described)

MapPages(state, d) ==
  IF state.range[d].nb_pages <= state.avail
    THEN Return(MapFirst(state, d, state.range[d].nb_pages), d)
    ELSE Fail(DelRange(MapFirst(state, d, state.avail), d))

(* With SOS_KMEM_VMM_MAP, as all callers in the kernel ask. *)
Mapped(reserved) == AndThen(reserved, LAMBDA new : MapPages(new, new.ret))

(* cache_grow(), once the slab has its range *)
AddOnSlab(state, c, d) ==
  AddSlab(state, c, state.range[d].base, d, OnSlab(c, state.range[d].base))

GrowOffSlab(state, c, d) ==
  IF state.ret = NULL THEN Fail(DelRange(state, d))
                      ELSE AddSlab(state, c, state.range[d].base, d, state.ret)

GrowIn(state, c, grown) == IF Cache[c].onslab THEN AddOnSlab(state, c, state.ret) ELSE grown

-----------------------------------------------------------------------------
(* THE LEVELS OF CALLS                                                     *)

(* The descriptor of a range.  The cache of ranges grows when it starts    *)
(* its reserve, in a range whose descriptor comes from that reserve.       *)
DescribeFromReserve(state) ==
  AndThen(WithFree(state, "ranges", TooDeep),
          LAMBDA ready : KeepReserve(TakeObject(ready, "ranges"), "ranges", TooDeep))

GrowRanges(state) ==
  AndThen(Mapped(Reserve(state, Cache["ranges"].pages, DescribeFromReserve(state))),
          LAMBDA new : GrowIn(new, "ranges", TooDeep))

TakeDescriptor(state) ==
  KeepReserve(state, "ranges", Replenished(GrowRanges(state), state.ret))

Describe(state) ==
  AndThen(WithFree(state, "ranges", GrowRanges(state)),
          LAMBDA ready : TakeDescriptor(TakeObject(ready, "ranges")))

ReserveRange(state, nb) == Reserve(state, nb, Describe(state))

NewRange(state, nb) == Mapped(ReserveRange(state, nb))

(* The structure of a slab, in a slab that holds its own; their cache has  *)
(* no reserve.                                                             *)
GrowStructures(state) ==
  AndThen(NewRange(state, Cache["kslabs"].pages), LAMBDA new : GrowIn(new, "kslabs", TooDeep))

Structure(state) ==
  AndThen(WithFree(state, "kslabs", GrowStructures(state)),
          LAMBDA ready : KeepReserve(TakeObject(ready, "kslabs"), "kslabs", TooDeep))

(* Any cache. *)
CacheGrow(state, c) ==
  AndThen(NewRange(state, Cache[c].pages),
          LAMBDA new : GrowIn(new, c, GrowOffSlab(Structure(new), c, new.ret)))

TakeAny(state, c) == KeepReserve(state, c, Replenished(CacheGrow(state, c), state.ret))

CacheAlloc(state, c) ==
  AndThen(WithFree(state, c, CacheGrow(state, c)), LAMBDA ready : TakeAny(TakeObject(ready, c), c))

=============================================================================
