--------------------------- MODULE KmemInvariant ---------------------------
(***************************************************************************)
(* The operations of Kmem keep KmemInv, for any sizes, any number of pages *)
(* and any caches, whatever physical memory gives to each of them; and the *)
(* state that the setup reaches has it.  What every run checks of Kmem,    *)
(* and the refinement of Heap, follow.                                     *)
(*                                                                         *)
(* KmemInv is what Kmem's properties say, and where the structures of the  *)
(* allocators lie (Placed): without it, the structure of a new slab could  *)
(* be one that is in use.  NewRangeReady, CacheGrowReady and               *)
(* CacheAllocReady unfold the calls that the allocators make of each other *)
(* to get a descriptor: the reserve of two in the cache of ranges bounds   *)
(* their depth.                                                            *)
(***************************************************************************)
EXTENDS KmemProofs, Kmem, TLAPS

-----------------------------------------------------------------------------
(* THE DESTRUCTION OF A CACHE                                              *)

(* The states between the slabs that sos_kmem_cache_destroy() releases. *)
LEMMA ReleasesAre ==
  ASSUME NEW first, NEW c, NEW bound \in Nat
  PROVE  \E g : /\ g[0] = first /\ SlabsReleased(first, c, bound) = g[bound]
                /\ \A m \in 1 .. bound : g[m] = HeadReleased(g[m - 1], c)
  <1> DEFINE Is(g, n) == g = [m \in 0 .. n |-> IF m = 0 THEN first ELSE HeadReleased(g[m - 1], c)]
             Bad == {n \in 0 .. bound : ~ \E g : Is(g, n)}
  <1>1. Bad = {}
    <2>1. SUFFICES ASSUME Bad # {} PROVE FALSE
      OBVIOUS
    <2>2. Bad \in SUBSET Nat
      OBVIOUS
    <2> DEFINE n == Min(Bad)
    <2>3. n \in Bad /\ \A j \in Bad : n <= j
      <3> HIDE DEF Bad
      <3> QED BY <2>1, <2>2, MinOfNaturals
    <2>4. n \in 0 .. bound /\ ~ \E g : Is(g, n)
      BY <2>3
    <2> HIDE DEF n
    <2>5. CASE n = 0
      <3> DEFINE g == [m \in 0 .. n |-> first]
      <3>1. Is(g, n)
        BY <2>5
      <3> QED BY <3>1, <2>4
    <2>6. CASE n # 0
      <3>1. n - 1 \in 0 .. bound
        BY <2>4, <2>6
      <3>2. PICK g : Is(g, n - 1)
        <4>1. n \in Nat
          BY <2>4
        <4>2. n - 1 \notin Bad
          <5> HIDE DEF Bad
          <5> QED BY <4>1, <2>3
        <4> HIDE DEF Is
        <4> QED BY <3>1, <4>2
      <3> DEFINE h == [m \in 0 .. n |-> IF m = n THEN HeadReleased(g[n - 1], c) ELSE g[m]]
      <3>3. \A m \in 0 .. n - 1 : g[m] = IF m = 0 THEN first ELSE HeadReleased(g[m - 1], c)
        BY <3>2
      <3>4. \A m \in 0 .. n : h[m] = IF m = 0 THEN first ELSE HeadReleased(h[m - 1], c)
        <4>1. ASSUME NEW m \in 0 .. n PROVE h[m] = IF m = 0 THEN first ELSE HeadReleased(h[m - 1], c)
          <5>1. CASE m = n
            <6>1. n - 1 \in 0 .. n /\ n - 1 # n
              BY <2>4, <2>6
            <6>2. h[n - 1] = g[n - 1] /\ h[n] = HeadReleased(g[n - 1], c)
              BY <6>1, <2>4
            <6> HIDE DEF h
            <6> QED BY <5>1, <6>2, <2>6
          <5>2. CASE m # n
            <6>1. m \in 0 .. n - 1 /\ (m # 0 => m - 1 \in 0 .. n /\ m - 1 # n)
              BY <5>2, <2>4
            <6>2. h[m] = g[m] /\ (m # 0 => h[m - 1] = g[m - 1])
              BY <5>2, <6>1
            <6> HIDE DEF h
            <6> QED BY <6>1, <6>2, <3>3
          <5> QED BY <5>1, <5>2
        <4> QED BY <4>1
      <3>5. h = [m \in 0 .. n |-> h[m]]
        OBVIOUS
      <3> HIDE DEF h
      <3>6. Is(h, n)
        BY <3>4, <3>5
      <3> QED BY <3>6, <2>4
    <2> QED BY <2>5, <2>6
  <1>2. \E g : Is(g, bound)
    <2>1. bound \in 0 .. bound
      OBVIOUS
    <2>2. bound \notin Bad
      <3> HIDE DEF Bad
      <3> QED BY <1>1
    <2> HIDE DEF Is
    <2> QED BY <2>1, <2>2
  <1> DEFINE t == CHOOSE g : Is(g, bound)
  <1>3. SlabsReleased(first, c, bound) = t[bound]
    BY DEF SlabsReleased
  <1>4. Is(t, bound)
    BY <1>2
  <1> HIDE DEF t
  <1>5. t[0] = first /\ \A m \in 1 .. bound : t[m] = HeadReleased(t[m - 1], c)
    BY <1>4
  <1> QED BY <1>3, <1>5

(* sos_kmem_cache_destroy() has that many slabs of c left to release. *)
DrainedAt(st, x, c, left) ==
  /\ Ready(x, {}) /\ Frame(st, {}, x, {}, {c}) /\ LooseLess(st, x, {}) /\ x.avail = st.avail
  /\ \A s \in SlabsIn(x, c) : x.slab[s].free = Objects(x, s)
  /\ Len(x.cache[c].slab_list) = left

(* It releases the first of them. *)
LEMMA HeadReleasedDrains ==
  ASSUME NEW st, Firm(st, {}), NEW x, NEW c \in DOMAIN st.cache, c \notin OwnNames, NEW left \in Nat, left # 0,
         DrainedAt(st, x, c, left)
  PROVE  DrainedAt(st, HeadReleased(x, c), c, left - 1)
  <1> DEFINE n == HeadReleased(x, c)
             list == x.cache[c].slab_list
             s == Head(list)
  <1>1. /\ Ready(x, {}) /\ Frame(st, {}, x, {}, {c}) /\ LooseLess(st, x, {}) /\ x.avail = st.avail
        /\ \A t \in SlabsIn(x, c) : x.slab[t].free = Objects(x, t)
        /\ Len(list) = left
    BY DEF DrainedAt
  <1>2. CachesOK(x, {}) /\ c \in DOMAIN x.cache
    BY <1>1, FirmHas DEF Frame
  <1>3. /\ list \in Seq(Nat) /\ IsInjective(list)
        /\ \A i \in 1 .. Len(list) : list[i] \in SlabsIn(x, c)
    BY <1>2, ListFacts
  <1>4. s \in SlabsIn(x, c) /\ s \in ToSet(list)
    <2> HIDE DEF list
    <2>1. list # <<>> /\ s = list[1] /\ 1 \in 1 .. Len(list)
      BY <1>1, <1>3, HeadTailProperties, EmptySeq
    <2> HIDE DEF s
    <2> QED BY <2>1, <1>3, ElementsAreContained
  <1>5. n = ReleaseSlab(x, s)
    BY DEF HeadReleased
  <1> HIDE DEF n, list, s
  <1>6. Released(x, n, {}, c, s)
    BY <1>1, <1>4, <1>5, ReleaseSlabReady
  <1>7. /\ Ready(n, {}) /\ Frame(x, {}, n, {}, {c}) /\ LooseLess(x, n, {}) /\ n.avail = x.avail
        /\ n.cache[c].slab_list = RemoveFirst(list, s)
        /\ SlabsIn(n, c) = SlabsIn(x, c) \ {s} /\ \A t \in SlabsIn(n, c) : n.slab[t] = x.slab[t]
    BY <1>6 DEF Released, list
  <1>8. Frame(st, {}, n, {}, {c})
    <2>1. Firm(x, {}) /\ Firm(n, {})
      BY <1>1, <1>7 DEF Ready
    <2>2. Frame(st, {}, n, {}, {c} \union {c})
      BY <2>1, <1>1, <1>7, FrameComposed
    <2> QED BY <2>2
  <1>9. LooseLess(st, n, {})
    <2>1. LooseLess(st, n, {} \union {})
      BY <1>1, <1>7, LooseLessComposed
    <2> QED BY <2>1
  <1>10. Len(RemoveFirst(list, s)) = left - 1
    BY <1>1, <1>3, <1>4, Removed
  <1>11. \A t \in SlabsIn(n, c) : n.slab[t].free = Objects(n, t)
    <2>1. \A t \in SlabsIn(n, c) : Objects(n, t) = Objects(x, t)
      BY <1>7 DEF Objects
    <2> QED BY <2>1, <1>1, <1>7
  <1>12. DrainedAt(st, n, c, left - 1)
    BY <1>1, <1>7, <1>8, <1>9, <1>10, <1>11 DEF DrainedAt
  <1> QED BY <1>12 DEF n

(* The slabs of a cache that is destroyed are released, all of them. *)
LEMMA SlabsReleasedDrain ==
  ASSUME NEW st, Ready(st, {}), NEW c \in DOMAIN st.cache, c \notin OwnNames, ~ InUse(st, c)
  PROVE  DrainedAt(st, SlabsReleased(st, c, Len(st.cache[c].slab_list)), c, 0)
  <1> DEFINE list == st.cache[c].slab_list
             bound == Len(list)
             n == SlabsReleased(st, c, bound)
  <1>1. CachesOK(st, {}) /\ Firm(st, {})
    BY FirmHas
  <1>2. /\ list \in Seq(Nat) /\ bound \in Nat
        /\ \A t \in SlabsIn(st, c) : \E i \in 1 .. bound : list[i] = t
    BY <1>1, ListFacts
  <1>3. DrainedAt(st, st, c, bound)
    <2>1. \A t \in SlabsIn(st, c) : st.slab[t].free = Objects(st, t)
      <3>1. DOMAIN list = 1 .. bound
        <4> HIDE DEF list
        <4> QED BY <1>2, ElementsAreContained
      <3> QED BY <3>1, <1>2 DEF InUse
    <2>2. Frame(st, {}, st, {}, {c})
      <3>1. \A e \in DOMAIN st.cache : Stocked(st, st, e)
        <4>1. \A e \in DOMAIN st.cache : st.cache[e].nb_free \in Nat
          BY <1>1, ListFacts
        <4> QED BY <4>1 DEF Stocked
      <3> QED BY <3>1 DEF Frame
    <2>3. LooseLess(st, st, {})
      BY DEF LooseLess
    <2> QED BY <2>1, <2>2, <2>3 DEF DrainedAt
  <1> HIDE DEF bound, n
  <1>4. PICK g : /\ g[0] = st /\ n = g[bound]
                 /\ \A m \in 1 .. bound : g[m] = HeadReleased(g[m - 1], c)
    <2>1. n = SlabsReleased(st, c, bound)
      BY DEF n
    <2> QED BY <2>1, <1>2, ReleasesAre
  <1>5. \A m \in 0 .. bound : DrainedAt(st, g[m], c, bound - m)
    <2> DEFINE Bad == {m \in 0 .. bound : ~ DrainedAt(st, g[m], c, bound - m)}
    <2>1. SUFFICES ASSUME Bad # {} PROVE FALSE
      OBVIOUS
    <2> DEFINE m == Min(Bad)
    <2>2. m \in Bad /\ \A k0 \in Bad : m <= k0
      <3>1. Bad \in SUBSET Nat
        BY <1>2
      <3> HIDE DEF Bad
      <3> QED BY <2>1, <3>1, MinOfNaturals
    <2>3. m \in 0 .. bound /\ ~ DrainedAt(st, g[m], c, bound - m)
      BY <2>2
    <2> HIDE DEF m
    <2>4. CASE m = 0
      <3>1. bound - m = bound /\ g[m] = st
        BY <2>4, <1>2, <1>4
      <3> QED BY <3>1, <2>3, <1>3
    <2>5. CASE m # 0
      <3>1. m - 1 \in 0 .. bound /\ m - 1 \notin Bad
        BY <2>2, <2>3, <2>5, <1>2
      <3>2. DrainedAt(st, g[m - 1], c, bound - (m - 1))
        BY <3>1
      <3>3. /\ bound - (m - 1) \in Nat /\ bound - (m - 1) # 0
            /\ (bound - (m - 1)) - 1 = bound - m /\ m \in 1 .. bound
        BY <2>3, <2>5, <1>2
      <3> HIDE DEF Bad
      <3>4. DrainedAt(st, HeadReleased(g[m - 1], c), c, (bound - (m - 1)) - 1)
        BY <3>2, <3>3, <1>1, HeadReleasedDrains
      <3>5. g[m] = HeadReleased(g[m - 1], c)
        BY <3>3, <1>4
      <3> QED BY <2>3, <3>3, <3>4, <3>5
    <2> QED BY <2>4, <2>5
  <1>6. bound \in 0 .. bound /\ bound - bound = 0
    BY <1>2
  <1>7. DrainedAt(st, n, c, 0)
    BY <1>4, <1>5, <1>6
  <1> QED BY <1>7 DEF n, bound

(* What the creation or the destruction of a cache leaves of the others. *)
Others(st, n, c) ==
  /\ DOMAIN n.cache \ {c} = DOMAIN st.cache \ {c}
  /\ \A e \in DOMAIN st.cache \ {c} :
       /\ n.cache[e].addr = st.cache[e].addr
       /\ Held(n, {}, e) = Held(st, {}, e) /\ Stocked(st, n, e) /\ (Tidy(st, {}, e) => Tidy(n, {}, e))

(* The cache c is taken from the list of caches. *)
CacheGone(y, c) == [y EXCEPT !.cache = Restrict(@, DOMAIN @ \ {c})]

(* A cache without slab is forgotten, but for its structure. *)
Forgotten(y, z, c) ==
  /\ Ready(z, {}) /\ LooseLess(y, z, {}) /\ z.avail = y.avail
  /\ DOMAIN z.cache = DOMAIN y.cache \ {c}
  /\ \A e \in DOMAIN z.cache :
       /\ z.cache[e] = y.cache[e] /\ (Tidy(y, {}, e) => Tidy(z, {}, e))
       /\ e # "caches" => Held(z, {}, e) = Held(y, {}, e)
  /\ Held(z, {}, "caches") = Held(y, {}, "caches") \union {y.cache[c].addr}
  /\ y.cache[c].addr \notin Held(y, {}, "caches")

(* A cache without slab may be forgotten: only its structure remains, that *)
(* callers do not hold.                                                    *)
LEMMA CacheForgotten ==
  ASSUME NEW y, Ready(y, {}), NEW c \in DOMAIN y.cache, c \notin OwnNames, SlabsIn(y, c) = {}
  PROVE  Forgotten(y, CacheGone(y, c), c)
  <1> DEFINE a == y.cache[c].addr
             z == CacheGone(y, c)
  <1>1. /\ KmemKept(y) /\ CachesOK(y, {}) /\ Placed(y, {}) /\ Descriptors(y) /\ AllListed(y)
        /\ Tiled(y) /\ Coalesced(y) /\ AllMapped(y) /\ y.ranges_to_free = <<>> /\ Shaped(y)
        /\ OwnNames \subseteq DOMAIN y.cache
    BY FirmHas
  <1>2. /\ z.range = y.range /\ z.free = y.free /\ z.used = y.used /\ z.ranges_to_free = y.ranges_to_free
        /\ z.owner = y.owner /\ z.slab = y.slab /\ z.avail = y.avail
        /\ z.cache = [e \in DOMAIN y.cache \ {c} |-> y.cache[e]]
        /\ Shaped(z)
    <2>1. /\ z.range = y.range /\ z.free = y.free /\ z.used = y.used /\ z.ranges_to_free = y.ranges_to_free
          /\ z.owner = y.owner /\ z.slab = y.slab /\ z.avail = y.avail /\ Shaped(z)
      BY <1>1 DEF Shaped, Field, CacheGone
    <2>2. z.cache = Restrict(y.cache, DOMAIN y.cache \ {c})
      BY <1>1 DEF Shaped, Field, CacheGone
    <2> QED BY <2>1, <2>2 DEF Restrict
  <1> HIDE DEF z
  <1>3. SameRanges(y, z) /\ DOMAIN z.cache = DOMAIN y.cache \ {c}
        /\ \A e \in DOMAIN z.cache : z.cache[e] = y.cache[e]
    BY <1>2 DEF SameRanges
  <1>4. /\ Tiled(z) /\ AllListed(z) /\ AllMapped(z) /\ LooseLess(y, z, {})
        /\ \A U : Outside(z, U) = Outside(y, U)
    BY <1>1, <1>3, SameRangesFirm
  <1>5. /\ \A e : SlabsIn(z, e) = SlabsIn(y, e)
        /\ \A t : Objects(z, t) = Objects(y, t)
        /\ \A e : TakenIn(z, e) = TakenIn(y, e)
        /\ \A U, e : FreeIn(z, U, e) = FreeIn(y, U, e)
    BY <1>2 DEF SlabsIn, Objects, TakenIn, FreeIn
  <1>6. KmemKept(z) /\ Coalesced(z)
    <2>1. KmemShape(z)
      BY <1>1, <1>2 DEF KmemKept, KmemShape
    <2>2. z.slab \in [DOMAIN z.slab -> SlabRecord]
      BY <2>1 DEF KmemShape
    <2> QED BY <2>2, <1>1, <1>2, <1>3, SameRangesKept
  <1>7. CachesOK(z, {})
    <2>1. Tabled(z)
      BY <1>1, <1>2, <1>3 DEF CachesOK, Tabled
    <2>2. Slabbed(z, {})
      <3>1. \A t \in DOMAIN y.slab : y.slab[t].cache # c
        BY DEF SlabsIn
      <3> QED BY <3>1, <1>1, <1>2, <1>3, <1>5 DEF CachesOK, Slabbed
    <2>3. ASSUME NEW e \in DOMAIN z.cache PROVE CacheExact(z, {}, e)
      <3>1. CacheExact(y, {}, e) /\ z.cache[e] = y.cache[e]
        BY <1>1, <1>3, <2>3 DEF CachesOK
      <3> QED BY <3>1, <1>2, <1>5 DEF CacheExact
    <2> QED BY <2>1, <2>2, <2>3 DEF CachesOK
  <1>8. Placed(z, {})
    <2>1. \A e \in DOMAIN z.cache : e \in DOMAIN y.cache /\ z.cache[e] = y.cache[e]
      BY <1>3
    <2>2. OwnNames \subseteq DOMAIN z.cache
      BY <1>1, <1>3
    <2> QED BY <2>1, <2>2, <1>1, <1>2, <1>5 DEF Placed
  <1>9. Ready(z, {})
    BY <1>1, <1>2, <1>4, <1>5, <1>6, <1>7, <1>8 DEF Ready, Firm, Descriptors
  <1>10. \A e : e # "caches" => Need(z, {}, e) = Need(y, {}, e)
    BY <1>2, <1>4 DEF Need
  <1>11. Need(z, {}, "caches") = Need(y, {}, "caches") \ {a} /\ a \in Need(y, {}, "caches")
    <2>1. \A e \in DOMAIN y.cache : e # c => y.cache[e].addr # a
      BY <1>1 DEF Placed
    <2>2. ASSUME NEW x
          PROVE  x \in {z.cache[e].addr : e \in DOMAIN z.cache}
                   <=> x \in {y.cache[e].addr : e \in DOMAIN y.cache} /\ x # a
      <3>1. x \in {z.cache[e].addr : e \in DOMAIN z.cache} <=> \E e \in DOMAIN z.cache : x = z.cache[e].addr
        OBVIOUS
      <3>2. x \in {y.cache[e].addr : e \in DOMAIN y.cache} <=> \E e \in DOMAIN y.cache : x = y.cache[e].addr
        OBVIOUS
      <3> QED BY <3>1, <3>2, <2>1, <1>3 DEF a
    <2>3. {z.cache[e].addr : e \in DOMAIN z.cache} = {y.cache[e].addr : e \in DOMAIN y.cache} \ {a}
      BY <2>2
    <2> QED BY <2>3 DEF Need
  <1>12. a \in TakenIn(y, "caches")
    BY <1>1 DEF Placed
  <1>13. Held(z, {}, "caches") = Held(y, {}, "caches") \union {a} /\ a \notin Held(y, {}, "caches")
    BY <1>5, <1>11, <1>12 DEF Held
  <1>14. \A e : e # "caches" => Held(z, {}, e) = Held(y, {}, e)
    BY <1>5, <1>10 DEF Held
  <1>15. \A e : Tidy(y, {}, e) => Tidy(z, {}, e)
    BY <1>2, SameSlabsTidy
  <1> QED BY <1>2, <1>3, <1>4, <1>9, <1>13, <1>14, <1>15 DEF Forgotten, z

(* sos_kmem_cache_destroy() of a cache with no object in use returns its   *)
(* slabs and its structure; no other cache loses an object, and no caller  *)
(* a range.                                                                *)
THEOREM CacheDestroyedReady ==
  ASSUME NEW st, Ready(st, {}), NEW c \in DOMAIN st.cache, c \notin OwnNames, ~ InUse(st, c),
         NEW n, n = CacheDestroyed(st, c)
  PROVE  /\ Ready(n, {}) /\ LooseLess(st, n, {}) /\ DOMAIN n.cache = DOMAIN st.cache \ {c}
         /\ Others(st, n, c) /\ n.avail = st.avail
  <1> DEFINE y == SlabsReleased(st, c, Len(st.cache[c].slab_list))
             z == CacheGone(y, c)
             a == y.cache[c].addr
  <1>1. n = CacheFree(z, a)
    BY DEF CacheDestroyed, WithoutCache, CacheGone
  <1>2. DrainedAt(st, y, c, 0)
    BY SlabsReleasedDrain
  <1> HIDE DEF y
  <1>3. /\ Ready(y, {}) /\ Frame(st, {}, y, {}, {c}) /\ LooseLess(st, y, {}) /\ y.avail = st.avail
        /\ Len(y.cache[c].slab_list) = 0 /\ c \in DOMAIN y.cache
    BY <1>2 DEF DrainedAt, Frame
  <1>4. SlabsIn(y, c) = {}
    <2>1. \A t \in SlabsIn(y, c) : \E i \in 1 .. 0 : y.cache[c].slab_list[i] = t
      BY <1>3, FirmHas, ListFacts
    <2> QED BY <2>1
  <1>5. /\ Ready(z, {}) /\ LooseLess(y, z, {}) /\ z.avail = y.avail
        /\ DOMAIN z.cache = DOMAIN y.cache \ {c}
        /\ \A e \in DOMAIN z.cache :
             /\ z.cache[e] = y.cache[e] /\ (Tidy(y, {}, e) => Tidy(z, {}, e))
             /\ e # "caches" => Held(z, {}, e) = Held(y, {}, e)
        /\ Held(z, {}, "caches") = Held(y, {}, "caches") \union {a}
        /\ a \notin Held(y, {}, "caches")
    BY <1>3, <1>4, CacheForgotten DEF Forgotten
  <1> HIDE DEF z, a
  <1>6. a \in Held(z, {}, "caches") /\ "caches" \in DOMAIN z.cache
    BY <1>5, FirmHas DEF OwnNames
  <1>7. CacheFreed(z, n, {}, "caches", a)
    BY <1>1, <1>5, <1>6, CacheFreeReady
  <1>8. /\ Ready(n, {}) /\ Frame(z, {}, n, {}, {"caches"})
        /\ Held(n, {}, "caches") = Held(z, {}, "caches") \ {a}
        /\ Tidy(z, {}, "caches") => Tidy(n, {}, "caches")
        /\ LooseLess(z, n, {}) /\ n.avail = z.avail
        /\ n.cache["caches"].nb_free >= z.cache["caches"].nb_free + 1
             \/ n.cache["caches"].nb_free >= Cache["caches"].min
    BY <1>7 DEF CacheFreed
  <1>9. /\ DOMAIN y.cache = DOMAIN st.cache /\ DOMAIN n.cache = DOMAIN z.cache
        /\ \A e \in DOMAIN st.cache : y.cache[e].addr = st.cache[e].addr
        /\ \A e \in DOMAIN z.cache : n.cache[e].addr = z.cache[e].addr
    BY <1>3, <1>8 DEF Frame
  <1>10. ASSUME NEW e \in DOMAIN st.cache \ {c}
         PROVE  /\ Held(n, {}, e) = Held(st, {}, e) /\ Stocked(st, n, e)
                /\ Tidy(st, {}, e) => Tidy(n, {}, e)
    <2>1. Held(y, {}, e) = Held(st, {}, e) /\ Stocked(st, y, e) /\ (Tidy(st, {}, e) => Tidy(y, {}, e))
      BY <1>3, <1>10 DEF Frame
    <2>2. e \in DOMAIN z.cache /\ z.cache[e] = y.cache[e] /\ (Tidy(y, {}, e) => Tidy(z, {}, e))
      BY <1>5, <1>9, <1>10
    <2>3. Held(n, {}, e) = Held(y, {}, e) /\ (Tidy(z, {}, e) => Tidy(n, {}, e))
      <3>1. CASE e = "caches"
        BY <3>1, <1>5, <1>8
      <3>2. CASE e # "caches"
        BY <3>2, <2>2, <1>5, <1>8 DEF Frame
      <3> QED BY <3>1, <3>2
    <2>4. Stocked(st, n, e)
      <3>1. /\ z.cache[e].nb_free \in Nat /\ n.cache[e].nb_free \in Nat /\ Cache[e].min \in Nat
            /\ st.cache[e].nb_free \in Nat
        BY <1>5, <1>8, <1>9, <1>10, <2>2, FirmHas, Counts
      <3>2. Stocked(z, n, e)
        <4>1. CASE e = "caches"
          BY <4>1, <3>1, <1>8 DEF Stocked
        <4>2. CASE e # "caches"
          BY <4>2, <2>2, <1>8 DEF Frame
        <4> QED BY <4>1, <4>2
      <3> QED BY <3>1, <3>2, <2>1, <2>2 DEF Stocked
    <2> QED BY <2>1, <2>2, <2>3, <2>4
  <1>11. Others(st, n, c)
    BY <1>5, <1>9, <1>10 DEF Others
  <1>12. LooseLess(st, n, {})
    <2>1. LooseLess(st, z, {} \union {})
      BY <1>3, <1>5, LooseLessComposed
    <2>2. LooseLess(st, n, ({} \union {}) \union {})
      BY <2>1, <1>8, LooseLessComposed
    <2> QED BY <2>2
  <1> QED BY <1>3, <1>5, <1>8, <1>9, <1>11, <1>12

-----------------------------------------------------------------------------
(* AN OBJECT IS TAKEN                                                      *)

(* No object is at address NULL. *)
LEMMA ObjectPositive ==
  ASSUME NEW st, KmemKept(st), Tiled(st), NEW s \in DOMAIN st.slab, NEW a \in Objects(st, s)
  PROVE  a \in Nat \ {NULL}
  <1> DEFINE d == st.slab[s].range
             base == st.range[d].base
  <1>1. a \in Nat /\ base * PageSize <= a /\ d \in DOMAIN st.range
    BY ObjectLies, SlabLies
  <1>2. base \in Nat /\ 1 <= base
    BY <1>1, ShapeFacts DEF Tiled, KmemKept
  <1> HIDE DEF d, base
  <1>3. PageSize \in Nat \ {0}
    BY KmemAssumption
  <1>4. 1 * PageSize <= base * PageSize
    BY <1>2, <1>3, ProductGrows
  <1>5. base * PageSize \in Nat
    BY <1>2, <1>3
  <1> QED BY <1>1, <1>3, <1>4, <1>5 DEF NULL

(* What the allocators need is allocated. *)
LEMMA NeedTaken ==
  ASSUME NEW st, NEW U, Ready(st, U), NEW e
  PROVE  Need(st, U, e) \subseteq TakenIn(st, e)
  <1>1. Placed(st, U) /\ Descriptors(st)
    BY FirmHas
  <1>2. CASE e = "ranges"
    BY <1>1, <1>2 DEF Need, Descriptors
  <1>3. CASE e = "caches"
    BY <1>1, <1>3 DEF Need, Placed
  <1>4. CASE e = "kslabs"
    BY <1>1, <1>4 DEF Need, Placed, Outside
  <1>5. CASE e \notin OwnNames
    BY <1>5 DEF Need, OwnNames
  <1> QED BY <1>2, <1>3, <1>4, <1>5 DEF OwnNames

(* The object that sos_kmem_cache_alloc() takes. *)
TakenReady(st, n, c) ==
  /\ Ready(n, {}) /\ Frame(st, {}, n, {}, {c})
  /\ n.ret \in Nat \ {NULL} /\ n.ret \notin TakenIn(st, c)
  /\ Held(n, {}, c) = Held(st, {}, c) \union {n.ret}
  /\ n.cache[c].nb_free = st.cache[c].nb_free - 1
  /\ Tidy(st, {Head(st.cache[c].slab_list)}, c) => Tidy(n, {}, c)
  /\ LooseLess(st, n, {}) /\ n.avail = st.avail /\ Only(st, n, {c}) /\ SameRanges(st, n)

(* Taking a free object of a cache keeps what holds between the operations *)
(* on ranges.                                                              *)
LEMMA TakeObjectReady ==
  ASSUME NEW st, Ready(st, {}), NEW c \in DOMAIN st.cache, HasFreeObject(st, c),
         NEW n, n = TakeObject(st, c)
  PROVE  TakenReady(st, n, c)
  <1> DEFINE s == Head(st.cache[c].slab_list)
  <1>1. /\ KmemKept(st) /\ KmemShape(st) /\ CachesOK(st, {}) /\ Placed(st, {}) /\ Descriptors(st) /\ AllListed(st)
        /\ Tiled(st) /\ Coalesced(st) /\ AllMapped(st) /\ st.ranges_to_free = <<>> /\ Disjoint(st)
    BY FirmHas
  <1>2. ObjectTaken(st, n, {}, c)
    BY <1>1, TakeObjectCaches
  <1>3. s \in SlabsIn(st, c) /\ s \in DOMAIN st.slab /\ st.slab[s].free # {}
    BY <1>1, HasFreeFound
  <1>4. KmemKept(n) /\ Coalesced(n)
    <2> HIDE DEF s
    <2>1. s = Head(st.cache[c].slab_list)
      BY DEF s
    <2> QED BY <2>1, <1>1, <1>3, TakeObjectKeeps
  <1>5. /\ SameRanges(st, n) /\ CachesOK(n, {}) /\ Only(st, n, {c})
        /\ n.ret \notin TakenIn(st, c) /\ TakenIn(n, c) = TakenIn(st, c) \union {n.ret}
        /\ n.cache[c].nb_free = st.cache[c].nb_free - 1 /\ n.avail = st.avail
        /\ n.ret \in st.slab[s].free /\ n.slab[s].free = st.slab[s].free \ {n.ret}
        /\ n.ret \in Objects(st, s)
        /\ \A e \in DOMAIN st.slab : e # s => n.slab[e] = st.slab[e]
    BY <1>2 DEF ObjectTaken
  <1> HIDE DEF s
  <1>6. /\ Tiled(n) /\ AllListed(n) /\ AllMapped(n) /\ LooseLess(st, n, {})
        /\ Outside(n, {}) = Outside(st, {}) /\ \A e : SlabsIn(n, e) = SlabsIn(st, e)
        /\ \A t \in DOMAIN st.slab : Objects(n, t) = Objects(st, t)
    BY <1>1, <1>5, SameRangesFirm
  <1>7. /\ n.range = st.range /\ n.ranges_to_free = <<>> /\ DOMAIN n.slab = DOMAIN st.slab
        /\ \A t \in DOMAIN st.slab : n.slab[t].base = st.slab[t].base /\ n.slab[t].cache = st.slab[t].cache
    BY <1>1, <1>5 DEF SameRanges
  <1>8. DOMAIN n.cache = DOMAIN st.cache /\ \A e \in DOMAIN st.cache : n.cache[e].addr = st.cache[e].addr
    BY <1>5 DEF Only
  <1>9. \A e : Need(n, {}, e) = Need(st, {}, e)
    <2>1. {n.cache[e].addr : e \in DOMAIN n.cache} = {st.cache[e].addr : e \in DOMAIN st.cache}
      BY <1>8
    <2> QED BY <2>1, <1>6, <1>7 DEF Need
  <1>10. \A e : e # c => TakenIn(n, e) = TakenIn(st, e)
    BY <1>5, OnlyOthers
  <1>11. \A e : TakenIn(st, e) \subseteq TakenIn(n, e)
    BY <1>5, <1>10
  <1>12. Placed(n, {})
    <2>1. \A e \in DOMAIN st.cache : st.cache[e].addr \in TakenIn(n, "caches")
      BY <1>1, <1>11 DEF Placed
    <2>2. \A t \in DOMAIN st.slab :
            IF Cache[st.slab[t].cache].onslab THEN t = OnSlab(st.slab[t].cache, st.slab[t].base)
                                              ELSE t \in TakenIn(n, "kslabs")
      BY <1>1, <1>11 DEF Placed
    <2> QED BY <2>1, <2>2, <1>1, <1>7, <1>8 DEF Placed
  <1>13. Ready(n, {})
    <2>1. Descriptors(n)
      BY <1>1, <1>7, <1>11 DEF Descriptors
    <2> QED BY <2>1, <1>4, <1>5, <1>6, <1>7, <1>12 DEF Ready, Firm
  <1>14. n.ret \in Nat \ {NULL}
    BY <1>1, <1>3, <1>5, ObjectPositive
  <1>15. Held(n, {}, c) = Held(st, {}, c) \union {n.ret}
    <2>1. n.ret \notin Need(st, {}, c)
      BY <1>5, NeedTaken
    <2> QED BY <2>1, <1>5, <1>9 DEF Held
  <1>16. ASSUME NEW e \in DOMAIN st.cache \ {c}
         PROVE  Held(n, {}, e) = Held(st, {}, e) /\ Stocked(st, n, e) /\ (Tidy(st, {}, e) => Tidy(n, {}, e))
    <2>1. SlabsIn(n, e) \ {} = SlabsIn(st, e) \ {}
      BY <1>6
    <2>2. e \in DOMAIN st.cache /\ e \notin {c}
      BY <1>16
    <2> QED BY <2>1, <2>2, <1>1, <1>5, <1>6, <1>7, OnlyHeld
  <1>17. Frame(st, {}, n, {}, {c})
    BY <1>8, <1>16 DEF Frame
  <1>18. ASSUME Tidy(st, {s}, c) PROVE Tidy(n, {}, c)
    <2>1. SUFFICES ASSUME Cache[c].min = 0, NEW t \in SlabsIn(n, c) PROVE n.slab[t].free # Objects(n, t)
      BY DEF Tidy
    <2>2. t \in DOMAIN st.slab /\ t \in SlabsIn(st, c) /\ Objects(n, t) = Objects(st, t)
      <3>1. t \in SlabsIn(st, c)
        BY <2>1, <1>6
      <3>2. t \in DOMAIN st.slab
        BY <3>1 DEF SlabsIn
      <3> QED BY <3>1, <3>2, <1>6
    <2>3. CASE t = s
      BY <2>2, <2>3, <1>5
    <2>4. CASE t # s
      BY <2>1, <2>2, <2>4, <1>5, <1>18 DEF Tidy
    <2> QED BY <2>3, <2>4
  <1> QED BY <1>5, <1>6, <1>13, <1>14, <1>15, <1>17, <1>18 DEF TakenReady, s

(* States that differ by what a call returned, and by the pages that       *)
(* physical memory gives.                                                  *)
Alike(a, b) ==
  /\ Shaped(a) /\ Shaped(b)
  /\ b.range = a.range /\ b.free = a.free /\ b.used = a.used /\ b.ranges_to_free = a.ranges_to_free
  /\ b.slab = a.slab /\ b.cache = a.cache /\ b.owner = a.owner

(* What an operation returns does not matter to the state. *)
LEMMA ReturnAlike ==
  ASSUME NEW a, Shaped(a), NEW v
  PROVE  Alike(a, Return(a, v)) /\ Return(a, v).ret = v /\ Return(a, v).avail = a.avail
  BY DEF Alike, Return, Shaped, Field

(* What holds of a state does not depend on what was returned, nor on the  *)
(* physical memory that is left.                                           *)
LEMMA AlikeReady ==
  ASSUME NEW a, NEW b, Alike(a, b), NEW U
  PROVE  (Ready(a, U) => Ready(b, U)) /\ (Firm(a, U) => Firm(b, U))
  <1>1. /\ Shaped(b) /\ b.range = a.range /\ b.free = a.free /\ b.used = a.used
        /\ b.ranges_to_free = a.ranges_to_free /\ b.slab = a.slab /\ b.cache = a.cache /\ b.owner = a.owner
    BY DEF Alike
  <1>2. SameRanges(a, b) /\ Cached(a, b)
    BY <1>1 DEF SameRanges, Cached
  <1>3. ASSUME Firm(a, U) PROVE Firm(b, U) /\ (Coalesced(a) <=> Coalesced(b)) /\ (AllMapped(a) => AllMapped(b))
    <2>1. KmemKept(a) /\ CachesOK(a, U) /\ Placed(a, U) /\ Descriptors(a) /\ AllListed(a) /\ Tiled(a)
      BY <1>3 DEF Firm
    <2>2. b.slab \in [DOMAIN b.slab -> SlabRecord]
      BY <1>1, <2>1 DEF KmemKept, KmemShape
    <2>3. KmemKept(b) /\ (Coalesced(a) <=> Coalesced(b))
      BY <1>1, <1>2, <2>1, <2>2, SameRangesKept
    <2>4. Tiled(b) /\ AllListed(b) /\ (AllMapped(a) => AllMapped(b))
      BY <1>2, <2>1, SameRangesFirm
    <2>5. CachesOK(b, U) /\ Placed(b, U) /\ Descriptors(b)
      BY <1>1, <1>2, <2>1, CachedFirm
    <2> QED BY <2>3, <2>4, <2>5 DEF Firm
  <1>4. Ready(a, U) => Ready(b, U)
    BY <1>1, <1>3 DEF Ready
  <1> QED BY <1>3, <1>4

(* States with the same tables of ranges, slabs and caches. *)
Level(a, b) ==
  /\ b.range = a.range /\ b.free = a.free /\ b.used = a.used
  /\ b.slab = a.slab /\ b.cache = a.cache

(* States alike have the same caches, slabs and ranges. *)
LEMMA AlikeLevel ==
  ASSUME NEW a, NEW b, Alike(a, b)
  PROVE  Level(a, b)
  BY DEF Alike, Level

(* What only depends on caches, slabs and ranges is the same. *)
LEMMA LevelParts ==
  ASSUME NEW a, NEW b, Level(a, b)
  PROVE  /\ \A e : SlabsIn(b, e) = SlabsIn(a, e) /\ TakenIn(b, e) = TakenIn(a, e)
         /\ \A U, e : Held(b, U, e) = Held(a, U, e) /\ (Tidy(b, U, e) <=> Tidy(a, U, e))
         /\ \A t : Objects(b, t) = Objects(a, t)
         /\ \A e : HasFreeObject(b, e) <=> HasFreeObject(a, e)
         /\ Loose(b) = Loose(a)
         /\ NbRanges(b) = NbRanges(a)
         /\ \A d : Beside(a, d) <=> Beside(b, d)
  <1>1. /\ b.range = a.range /\ b.free = a.free /\ b.used = a.used
        /\ b.slab = a.slab /\ b.cache = a.cache
    BY DEF Level
  <1>2. Cached(a, b)
    BY <1>1 DEF Cached
  <1>3. \A e : SlabsIn(b, e) = SlabsIn(a, e) /\ TakenIn(b, e) = TakenIn(a, e)
    BY <1>2, CachedKept
  <1>4. \A t : Objects(b, t) = Objects(a, t)
    BY <1>2, CachedKept
  <1>5. \A U : Outside(b, U) = Outside(a, U)
    BY <1>1 DEF Outside
  <1>6. \A U, e : Need(b, U, e) = Need(a, U, e)
    BY <1>1, <1>5 DEF Need
  <1>7. \A U, e : Held(b, U, e) = Held(a, U, e)
    BY <1>3, <1>6 DEF Held
  <1>8. \A U, e : Tidy(b, U, e) <=> Tidy(a, U, e)
    BY <1>1, SameSlabsTidy
  <1>9. \A e : HasFreeObject(b, e) <=> HasFreeObject(a, e)
    BY <1>2, CachedKept
  <1>10. Loose(b) = Loose(a) /\ NbRanges(b) = NbRanges(a)
    BY <1>1 DEF Loose, NbRanges
  <1>11. \A d : Beside(a, d) <=> Beside(b, d)
    BY <1>1 DEF Beside, End
  <1> QED BY <1>3, <1>4, <1>7, <1>8, <1>9, <1>10, <1>11

(* What is said of a step holds of the step to a state alike. *)
LEMMA LevelAfter ==
  ASSUME NEW a, NEW b, Level(a, b), NEW x
  PROVE  /\ \A U, V, C : Frame(x, U, a, V, C) => Frame(x, U, b, V, C)
         /\ \A X : LooseLess(x, a, X) => LooseLess(x, b, X)
         /\ \A C : Only(x, a, C) => Only(x, b, C)
  <1>1. b.range = a.range /\ b.slab = a.slab /\ b.cache = a.cache
    BY DEF Level
  <1>2. /\ \A U, e : Held(b, U, e) = Held(a, U, e) /\ (Tidy(b, U, e) <=> Tidy(a, U, e))
        /\ Loose(b) = Loose(a)
    BY LevelParts
  <1>3. \A U, V, C : Frame(x, U, a, V, C) => Frame(x, U, b, V, C)
    BY <1>1, <1>2 DEF Frame, Stocked
  <1>4. \A X : LooseLess(x, a, X) => LooseLess(x, b, X)
    BY <1>1, <1>2 DEF LooseLess
  <1>5. \A C : Only(x, a, C) => Only(x, b, C)
    BY <1>1 DEF Only
  <1> QED BY <1>3, <1>4, <1>5

(* And of the step from it. *)
LEMMA LevelBefore ==
  ASSUME NEW a, NEW b, Level(a, b), NEW x
  PROVE  /\ \A U, V, C : Frame(b, U, x, V, C) => Frame(a, U, x, V, C)
         /\ \A X : LooseLess(b, x, X) => LooseLess(a, x, X)
         /\ \A C : Only(b, x, C) => Only(a, x, C)
  <1>1. b.range = a.range /\ b.slab = a.slab /\ b.cache = a.cache
    BY DEF Level
  <1>2. /\ \A U, e : Held(b, U, e) = Held(a, U, e) /\ (Tidy(b, U, e) <=> Tidy(a, U, e))
        /\ Loose(b) = Loose(a)
    BY LevelParts
  <1>3. \A U, V, C : Frame(b, U, x, V, C) => Frame(a, U, x, V, C)
    BY <1>1, <1>2 DEF Frame, Stocked
  <1>4. \A X : LooseLess(b, x, X) => LooseLess(a, x, X)
    BY <1>1, <1>2 DEF LooseLess
  <1>5. \A C : Only(b, x, C) => Only(a, x, C)
    BY <1>1 DEF Only
  <1> QED BY <1>3, <1>4, <1>5

-----------------------------------------------------------------------------
(* THE CHOICE OF A RANGE                                                   *)

(* A new range d, before its pages are mapped. *)
Unmapped(n, d) ==
  /\ Firm(n, {}) /\ Coalesced(n) /\ n.ranges_to_free = <<>>
  /\ d \in ToSet(n.used) /\ n.range[d].slab = NULL
  /\ \A e \in ToSet(n.used) \ {d} : PagesOf(n, e) \subseteq DOMAIN n.owner

(* The free ranges larger than what is taken stay free. *)
FreeLess(st, n, nb) ==
  \A r \in ToSet(st.free) :
    st.range[r].nb_pages > nb => /\ r \in ToSet(n.free)
                                 /\ n.range[r].nb_pages >= st.range[r].nb_pages - nb

(* The used ranges without slab, and one more. *)
LooseMore(st, n, d) ==
  /\ d \notin Loose(st) /\ Loose(n) = Loose(st) \union {d}
  /\ \A e \in Loose(st) :
       n.range[e].base = st.range[e].base /\ n.range[e].nb_pages = st.range[e].nb_pages

(* The range d of nb pages is used, without slab and still unmapped, and   *)
(* was taken from a free range.                                            *)
Chosen(st, n, d, nb) ==
  /\ Unmapped(n, d) /\ LooseMore(st, n, d) /\ FreeLess(st, n, nb)
  /\ Cached(st, n) /\ n.avail = st.avail /\ n.ret = d /\ d # NULL
  /\ n.range[d].nb_pages = nb /\ DOMAIN n.range = DOMAIN st.range \union {d}

(* sos_kmem_vmm_new_range() takes a free range of the right size as it is. *)
LEMMA TakeRangeReady ==
  ASSUME NEW st, Ready(st, {}), NEW r \in ToSet(st.free), NEW nb \in Nat \ {0}, st.range[r].nb_pages = nb,
         NEW n, n = TakeRange(st, r)
  PROVE  Chosen(st, n, r, nb)
  <1>1. /\ KmemKept(st) /\ KmemShape(st) /\ CachesOK(st, {}) /\ Placed(st, {}) /\ Descriptors(st) /\ AllListed(st)
        /\ Tiled(st) /\ Coalesced(st) /\ AllMapped(st) /\ st.ranges_to_free = <<>> /\ Shaped(st)
    BY FirmHas
  <1>2. /\ KmemKept(n) /\ n.ret = r /\ r \in ToSet(n.used) /\ n.range[r].slab = NULL
        /\ SameBounds(st, n) /\ ToSet(n.free) = ToSet(st.free) \ {r}
        /\ ToSet(n.used) = ToSet(st.used) \union {r} /\ Coalesced(n)
    <2>1. st.range[r].nb_pages > 0
      OBVIOUS
    <2> QED BY <2>1, <1>1, TakeRangeKeeps
  <1>3. /\ n.range = [st.range EXCEPT ![r].slab = NULL] /\ n.ranges_to_free = st.ranges_to_free
        /\ n.slab = st.slab /\ n.cache = st.cache /\ n.owner = st.owner /\ n.avail = st.avail
    BY <1>1 DEF TakeRange, Shaped, Field
  <1>4. /\ r \in DOMAIN st.range /\ r # NULL /\ r \notin ToSet(st.used)
        /\ ToSet(st.used) \subseteq DOMAIN st.range
    BY <1>1, ShapeFacts DEF KmemKept, RangesKept, ListsSorted
  <1>5. /\ \A e \in DOMAIN st.range : PagesOf(n, e) = PagesOf(st, e) /\ End(n, e) = End(st, e)
        /\ Covered(n) = Covered(st) /\ DOMAIN n.range = DOMAIN st.range
    BY <1>2, SameBoundsSame DEF SameBounds
  <1>6. Cached(st, n)
    BY <1>3 DEF Cached
  <1>7. CachesOK(n, {}) /\ Descriptors(n)
    BY <1>1, <1>5, <1>6, CachedKept DEF Descriptors
  <1>8. Placed(n, {})
    <2>1. \A e : TakenIn(n, e) = TakenIn(st, e)
      BY <1>6, CachedKept
    <2> QED BY <2>1, <1>1, <1>3 DEF Placed
  <1>9. AllListed(n)
    BY <1>1, <1>2, <1>3, <1>5 DEF AllListed, Pending
  <1>10. Tiled(n)
    BY <1>1, <1>2, <1>5 DEF Tiled, SameBounds
  <1>11. \A e \in ToSet(n.used) \ {r} : PagesOf(n, e) \subseteq DOMAIN n.owner
    BY <1>1, <1>2, <1>3, <1>4, <1>5 DEF AllMapped
  <1>12. Unmapped(n, r)
    BY <1>1, <1>2, <1>3, <1>7, <1>8, <1>9, <1>10, <1>11 DEF Unmapped, Firm
  <1>13. \A e \in DOMAIN st.range : e # r => n.range[e] = st.range[e]
    BY <1>3
  <1>14. LooseMore(st, n, r)
    <2>1. r \notin Loose(st)
      BY <1>4 DEF Loose
    <2>2. Loose(n) = Loose(st) \union {r}
      BY <1>2, <1>4, <1>13 DEF Loose
    <2>3. \A e \in Loose(st) : e \in DOMAIN st.range /\ e # r
      BY <1>4 DEF Loose
    <2> QED BY <2>1, <2>2, <2>3, <1>13 DEF LooseMore
  <1>15. FreeLess(st, n, nb)
    <2>1. SUFFICES ASSUME NEW e \in ToSet(st.free), st.range[e].nb_pages > nb
          PROVE  e \in ToSet(n.free) /\ n.range[e].nb_pages >= st.range[e].nb_pages - nb
      BY DEF FreeLess
    <2>2. e # r
      BY <2>1
    <2>3. e \in DOMAIN st.range /\ st.range[e].nb_pages \in Nat
      BY <1>1, ShapeFacts
    <2>4. n.range[e] = st.range[e]
      BY <2>2, <2>3, <1>13
    <2> QED BY <2>2, <2>3, <2>4, <1>2
  <1>16. n.range[r].nb_pages = nb
    BY <1>2, <1>4 DEF SameBounds
  <1> QED BY <1>2, <1>3, <1>4, <1>5, <1>6, <1>12, <1>14, <1>15, <1>16 DEF Chosen

(* It takes the first pages of a larger one, with the descriptor it has for *)
(* them; what is left of that one follows.                                 *)
LEMMA SplitRangeReady ==
  ASSUME NEW st, Ready(st, {}), NEW r \in ToSet(st.free), NEW nb \in 1 .. st.range[r].nb_pages,
         NEW d \in Held(st, {}, "ranges"), NEW n, n = SplitRange(st, r, nb, d)
  PROVE  Chosen(st, n, d, nb) /\ Beside(n, d) /\ d \notin DOMAIN st.range
  <1>1. /\ KmemKept(st) /\ KmemShape(st) /\ CachesOK(st, {}) /\ Placed(st, {}) /\ Descriptors(st) /\ AllListed(st)
        /\ Tiled(st) /\ Coalesced(st) /\ AllMapped(st) /\ st.ranges_to_free = <<>> /\ Shaped(st)
    BY FirmHas
  <1>2. d \in TakenIn(st, "ranges") /\ d \notin DOMAIN st.range
    BY DEF Held, Need
  <1>3. d \in Nat \ {NULL}
    <2>1. PICK s \in DOMAIN st.slab : d \in Objects(st, s)
      BY <1>2 DEF TakenIn, SlabsIn
    <2> QED BY <2>1, <1>1, ObjectPositive
  <1>4. /\ KmemKept(n)
        /\ n.ret = d /\ d \in ToSet(n.used) /\ n.range[d].slab = NULL
        /\ n.range[d].base = st.range[r].base /\ n.range[d].nb_pages = nb
        /\ IsCut(st.range, r, nb, d, n.range) /\ ToSet(n.used) = ToSet(st.used) \union {d}
        /\ Covered(n) = Covered(st) /\ n.free = st.free /\ Coalesced(n)
    BY <1>1, <1>2, <1>3, SplitRangeKeeps
  <1>5. /\ n.ranges_to_free = st.ranges_to_free
        /\ n.slab = st.slab /\ n.cache = st.cache /\ n.owner = st.owner /\ n.avail = st.avail
    BY <1>1 DEF SplitRange, Shaped, Field
  <1>6. /\ r \in DOMAIN st.range /\ r \notin ToSet(st.used) /\ r # d /\ d \notin ToSet(st.used)
        /\ ToSet(st.used) \subseteq DOMAIN st.range
        /\ st.range[r].base \in Nat /\ st.range[r].nb_pages \in Nat /\ End(st, r) \in Nat
        /\ nb \in Nat /\ nb <= st.range[r].nb_pages /\ nb # 0
    BY <1>1, <1>2, ShapeFacts DEF KmemKept, RangesKept, ListsSorted
  <1>7. /\ DOMAIN n.range = DOMAIN st.range \union {d}
        /\ \A e \in DOMAIN st.range : e # r => n.range[e] = st.range[e]
        /\ n.range[r].base = st.range[r].base + nb /\ n.range[r].nb_pages = st.range[r].nb_pages - nb
    BY <1>4 DEF IsCut
  <1>8. /\ \A e \in DOMAIN st.range : End(n, e) = End(st, e)
        /\ \A e \in DOMAIN st.range : e # r => PagesOf(n, e) = PagesOf(st, e)
        /\ End(n, d) = n.range[r].base /\ End(n, d) <= End(st, r)
    <2>1. \A e \in DOMAIN st.range : e # r => End(n, e) = End(st, e) /\ PagesOf(n, e) = PagesOf(st, e)
      BY <1>7 DEF End, PagesOf
    <2>2. End(n, r) = End(st, r)
      BY <1>6, <1>7 DEF End
    <2>3. End(n, d) = st.range[r].base + nb
      BY <1>4 DEF End
    <2>4. End(st, r) = st.range[r].base + st.range[r].nb_pages
      BY DEF End
    <2> QED BY <2>1, <2>2, <2>3, <2>4, <1>6, <1>7
  <1>9. Cached(st, n)
    BY <1>5 DEF Cached
  <1>10. CachesOK(n, {}) /\ Descriptors(n)
    BY <1>1, <1>2, <1>7, <1>9, CachedKept DEF Descriptors
  <1>11. Placed(n, {})
    <2>1. \A e : TakenIn(n, e) = TakenIn(st, e)
      BY <1>9, CachedKept
    <2> QED BY <2>1, <1>1, <1>5 DEF Placed
  <1>12. AllListed(n)
    BY <1>1, <1>4, <1>5, <1>7 DEF AllListed, Pending
  <1>13. Tiled(n)
    <2>1. \A e \in DOMAIN st.range : 1 <= n.range[e].base /\ End(n, e) <= TopPage + 1
      <3>1. 1 <= st.range[r].base + nb
        BY <1>1, <1>6 DEF Tiled
      <3> QED BY <3>1, <1>1, <1>7, <1>8 DEF Tiled
    <2>2. 1 <= n.range[d].base /\ End(n, d) <= TopPage + 1
      <3>1. 1 <= st.range[r].base /\ End(st, r) <= TopPage + 1 /\ TopPage + 1 \in Nat /\ End(n, d) \in Nat
        BY <1>1, <1>6, <1>7, <1>8, KmemAssumption DEF Tiled
      <3> QED BY <3>1, <1>4, <1>6, <1>8
    <2> QED BY <2>1, <2>2, <1>1, <1>4, <1>7 DEF Tiled
  <1>14. \A e \in ToSet(n.used) \ {d} : PagesOf(n, e) \subseteq DOMAIN n.owner
    BY <1>1, <1>4, <1>5, <1>6, <1>8 DEF AllMapped
  <1>15. Unmapped(n, d)
    BY <1>1, <1>4, <1>5, <1>10, <1>11, <1>12, <1>13, <1>14 DEF Unmapped, Firm
  <1>16. LooseMore(st, n, d)
    <2>1. d \notin Loose(st)
      BY <1>6 DEF Loose
    <2>2. \A e \in ToSet(st.used) : e \in DOMAIN st.range /\ e # r
      BY <1>6
    <2>3. Loose(n) = Loose(st) \union {d}
      BY <2>2, <1>4, <1>7 DEF Loose
    <2>4. \A e \in Loose(st) : e \in ToSet(st.used)
      BY DEF Loose
    <2> QED BY <2>1, <2>2, <2>3, <2>4, <1>7 DEF LooseMore
  <1>17. FreeLess(st, n, nb)
    <2>1. SUFFICES ASSUME NEW e \in ToSet(st.free), st.range[e].nb_pages > nb
          PROVE  e \in ToSet(n.free) /\ n.range[e].nb_pages >= st.range[e].nb_pages - nb
      BY DEF FreeLess
    <2>2. e \in DOMAIN st.range /\ st.range[e].nb_pages \in Nat
      BY <1>1, ShapeFacts
    <2>3. CASE e = r
      BY <2>3, <1>4, <1>6, <1>7
    <2>4. CASE e # r
      BY <2>2, <2>4, <1>4, <1>6, <1>7
    <2> QED BY <2>3, <2>4
  <1>18. Beside(n, d)
    BY <1>4, <1>8 DEF Beside
  <1> QED BY <1>2, <1>3, <1>4, <1>5, <1>7, <1>9, <1>15, <1>16, <1>17, <1>18 DEF Chosen

(* The pages of a new range are mapped, or the range is deleted. *)
MapResult(m, n, d) ==
  /\ n.avail \in Nat /\ Ready(n, {})
  /\ \/ n.ret = d /\ d # NULL /\ Level(m, n)
     \/ /\ n.ret = NULL /\ Frame(m, {}, n, {}, {}) /\ LooseLess(m, n, {d}) /\ Only(m, n, {"ranges"})
        /\ Grows(m, n) /\ (Beside(m, d) => Grown(m, n))

(* The first pages of a new range are mapped. *)
LEMMA MapFirstFirm ==
  ASSUME NEW m, NEW d, Unmapped(m, d), NEW nb \in 0 .. m.range[d].nb_pages, NEW x, x = MapFirst(m, d, nb)
  PROVE  /\ Unmapped(x, d) /\ Level(m, x) /\ Shaped(x)
         /\ x.avail = m.avail - nb
         /\ nb = m.range[d].nb_pages => AllMapped(x)
  <1>1. /\ KmemKept(m) /\ KmemShape(m) /\ Shaped(m) /\ CachesOK(m, {}) /\ Placed(m, {}) /\ Descriptors(m)
        /\ AllListed(m) /\ Tiled(m) /\ Coalesced(m) /\ m.ranges_to_free = <<>>
        /\ d \in ToSet(m.used) /\ m.range[d].slab = NULL
        /\ \A e \in ToSet(m.used) \ {d} : PagesOf(m, e) \subseteq DOMAIN m.owner
    BY DEF Unmapped, Firm, KmemKept, KmemShape
  <1>2. d \in DOMAIN m.range \ ToSet(m.free) /\ m.range[d].base \in Nat /\ m.range[d].nb_pages \in Nat
    BY <1>1, ShapeFacts DEF KmemKept, RangesKept, ListsSorted
  <1>3. /\ KmemKept(x) /\ x.range = m.range /\ x.free = m.free /\ x.used = m.used
        /\ DOMAIN x.owner = DOMAIN m.owner \union m.range[d].base .. m.range[d].base + nb - 1
    BY <1>1, <1>2, MapFirstKeeps
  <1>4. /\ x.ranges_to_free = m.ranges_to_free /\ x.slab = m.slab /\ x.cache = m.cache
        /\ x.avail = m.avail - nb
    BY <1>1 DEF MapFirst, Shaped, Field
  <1>5. Shaped(x)
    BY <1>3 DEF KmemKept, KmemShape
  <1>6. Cached(m, x) /\ Level(m, x)
    BY <1>3, <1>4 DEF Cached, Level
  <1>7. /\ CachesOK(x, {}) /\ Placed(x, {}) /\ Descriptors(x) /\ Tiled(x)
        /\ \A e : PagesOf(x, e) = PagesOf(m, e)
    BY <1>1, <1>3, <1>6, CachedFirm
  <1>8. AllListed(x)
    BY <1>1, <1>3, <1>4 DEF AllListed, Pending
  <1>9. Coalesced(x)
    BY <1>1, <1>3 DEF Coalesced, Touch, End
  <1>10. Unmapped(x, d)
    BY <1>1, <1>3, <1>4, <1>7, <1>8, <1>9 DEF Unmapped, Firm
  <1>11. ASSUME nb = m.range[d].nb_pages PROVE AllMapped(x)
    <2>1. PagesOf(m, d) = m.range[d].base .. m.range[d].base + nb - 1
      BY <1>2, <1>11 DEF PagesOf, End
    <2> QED BY <2>1, <1>1, <1>3, <1>7 DEF AllMapped
  <1> QED BY <1>4, <1>5, <1>6, <1>10, <1>11

(* All are mapped, or the physical memory lacks some and the range is      *)
(* deleted again.                                                          *)
LEMMA MapPagesReady ==
  ASSUME NEW m, NEW d, Unmapped(m, d), m.avail \in Nat, NEW n, n = MapPages(m, d)
  PROVE  MapResult(m, n, d)
  <1> DEFINE nb == m.range[d].nb_pages
  <1>1. nb \in Nat /\ d # NULL /\ d \in DOMAIN m.range
    BY ShapeFacts DEF Unmapped, Firm, KmemKept
  <1>2. CASE nb <= m.avail
    <2> DEFINE x == MapFirst(m, d, nb)
    <2>1. n = Return(x, d)
      BY <1>2 DEF MapPages
    <2>2. nb \in 0 .. nb
      BY <1>1
    <2>3. /\ Unmapped(x, d) /\ Level(m, x) /\ Shaped(x) /\ x.avail = m.avail - nb /\ AllMapped(x)
      BY <2>2, MapFirstFirm
    <2> HIDE DEF x
    <2>4. Ready(x, {})
      BY <2>3 DEF Unmapped, Ready
    <2>5. Alike(x, n) /\ n.ret = d /\ n.avail = x.avail
      BY <2>1, <2>3, ReturnAlike
    <2>6. Ready(n, {}) /\ Level(m, n)
      BY <2>3, <2>4, <2>5, AlikeReady, AlikeLevel DEF Level
    <2>7. n.avail \in Nat
      BY <1>1, <1>2, <2>3, <2>5
    <2> QED BY <1>1, <2>5, <2>6, <2>7 DEF MapResult
  <1>3. CASE ~ (nb <= m.avail)
    <2> DEFINE x == MapFirst(m, d, m.avail)
               y == DelRange(x, d)
    <2>1. n = Return(y, NULL)
      BY <1>3 DEF MapPages, Fail
    <2>2. m.avail \in 0 .. nb
      BY <1>1, <1>3
    <2>3. /\ Unmapped(x, d) /\ Level(m, x) /\ x.avail = m.avail - m.avail
      BY <2>2, MapFirstFirm
    <2> HIDE DEF x
    <2>4. Deleted(x, y, {}, d)
      BY <2>3, DelRangeDeletes DEF Unmapped
    <2> HIDE DEF y
    <2>5. /\ Ready(y, {}) /\ Frame(x, {}, y, {}, {}) /\ LooseLess(x, y, {d}) /\ y.avail = x.avail
          /\ Only(x, y, {"ranges"}) /\ Grows(x, y) /\ (Beside(x, d) => Grown(x, y))
      BY <2>3, <2>4, DeletedFrame DEF Unmapped, Deleted
    <2>6. /\ Frame(m, {}, y, {}, {}) /\ LooseLess(m, y, {d}) /\ Only(m, y, {"ranges"})
      BY <2>3, <2>5, LevelBefore
    <2>7. NbRanges(x) = NbRanges(m) /\ (Beside(m, d) <=> Beside(x, d))
      BY <2>3, LevelParts
    <2>8. Shaped(y)
      BY <2>5, FirmHas
    <2>9. Alike(y, n) /\ n.ret = NULL /\ n.avail = y.avail
      BY <2>1, <2>8, ReturnAlike
    <2>10. Level(y, n) /\ NbRanges(n) = NbRanges(y)
      BY <2>9, AlikeLevel, LevelParts
    <2>11. Ready(n, {}) /\ Frame(m, {}, n, {}, {}) /\ LooseLess(m, n, {d}) /\ Only(m, n, {"ranges"})
      BY <2>5, <2>6, <2>9, <2>10, AlikeReady, LevelAfter
    <2>12. Grows(m, n) /\ (Beside(m, d) => Grown(m, n))
      BY <2>5, <2>7, <2>10 DEF Grows, Grown
    <2>13. n.avail \in Nat
      BY <2>3, <2>5, <2>9
    <2> QED BY <2>9, <2>11, <2>12, <2>13 DEF MapResult
  <1> QED BY <1>2, <1>3

-----------------------------------------------------------------------------
(* A SLAB IN A RANGE                                                       *)

(* The words from address a on, in the pages of a range. *)
Within(st, d, a, len) ==
  /\ a \in Nat /\ len \in Nat \ {0}
  /\ st.range[d].base * PageSize <= a /\ a + len <= End(st, d) * PageSize

(* Two ranges have no address in common. *)
LEMMA WithinApart ==
  ASSUME NEW st, KmemKept(st), NEW d \in DOMAIN st.range, NEW e \in DOMAIN st.range, d # e,
         NEW a, NEW len, Within(st, d, a, len), NEW l2
  PROVE  ~ Within(st, e, a, l2)
  <1>1. SUFFICES ASSUME Within(st, e, a, l2) PROVE FALSE
    OBVIOUS
  <1>2. Apart(st, d, e)
    BY DEF KmemKept, RangesKept, RangesApart
  <1>3. /\ st.range[d].base \in Nat /\ st.range[e].base \in Nat
        /\ End(st, d) \in Nat /\ End(st, e) \in Nat /\ PageSize \in Nat
    BY ShapeFacts, KmemAssumption DEF KmemKept
  <1> DEFINE b == st.range[d].base
             f == End(st, d)
             b2 == st.range[e].base
             f2 == End(st, e)
  <1>4. /\ a \in Nat /\ len \in Nat \ {0} /\ l2 \in Nat \ {0}
        /\ b * PageSize <= a /\ a + len <= f * PageSize
        /\ b2 * PageSize <= a /\ a + l2 <= f2 * PageSize
    BY <1>1 DEF Within
  <1>5. f <= b2 \/ f2 <= b
    BY <1>2 DEF Apart
  <1>6. b \in Int /\ f \in Int /\ b2 \in Int /\ f2 \in Int
    BY <1>3
  <1> HIDE DEF b, f, b2, f2
  <1>7. /\ b * PageSize \in Int /\ f * PageSize \in Int /\ b2 * PageSize \in Int /\ f2 * PageSize \in Int
    BY <1>3, <1>6
  <1>8. f * PageSize <= b2 * PageSize \/ f2 * PageSize <= b * PageSize
    BY <1>3, <1>5, <1>6, ProductGrows
  <1> QED BY <1>4, <1>7, <1>8

(* The structure at the end of a slab. *)
LEMMA StructureLies ==
  ASSUME NEW c \in DOMAIN Cache, NEW base \in Nat
  PROVE  /\ OnSlab(c, base) \in Nat
         /\ base * PageSize + KslabSize <= OnSlab(c, base)
         /\ OnSlab(c, base) + KslabSize = (base + Cache[c].pages) * PageSize
  <1>1. Cache[c].pages \in Nat \ {0}
    BY GeometryFits
  <1> DEFINE last == base + Cache[c].pages
             next == base + 1
  <1>2. last \in Int /\ next \in Int /\ next <= last /\ base \in Int
    BY <1>1
  <1>3. OnSlab(c, base) = last * PageSize - KslabSize
    BY DEF OnSlab
  <1>4. PageSize \in Nat /\ KslabSize \in Nat /\ 2 * KslabSize <= PageSize
    BY KmemAssumption
  <1>5. next * PageSize = base * PageSize + PageSize
    BY <1>4
  <1> HIDE DEF last, next
  <1>6. next * PageSize <= last * PageSize
    BY <1>2, <1>4, ProductGrows
  <1>7. last * PageSize \in Int /\ base * PageSize \in Nat
    BY <1>2, <1>4
  <1> QED BY <1>3, <1>4, <1>5, <1>6, <1>7 DEF last

(* An object lies within the range of its slab. *)
LEMMA ObjectWithin ==
  ASSUME NEW st, KmemKept(st), NEW s \in DOMAIN st.slab, NEW a \in Objects(st, s)
  PROVE  /\ st.slab[s].range \in DOMAIN st.range
         /\ Within(st, st.slab[s].range, a, Cache[st.slab[s].cache].size)
  <1>1. st.slab[s].range \in DOMAIN st.range /\ Cache[st.slab[s].cache].size \in Nat \ {0}
    BY SlabLies
  <1> QED BY <1>1, ObjectLies DEF Within

(* The structure at the end of a slab lies within its range. *)
LEMMA StructureWithin ==
  ASSUME NEW st, KmemKept(st), NEW c \in DOMAIN Cache, NEW d \in DOMAIN st.range,
         st.range[d].nb_pages = Cache[c].pages
  PROVE  Within(st, d, OnSlab(c, st.range[d].base), KslabSize)
  <1>1. st.range[d].base \in Nat /\ PageSize \in Nat
    BY ShapeFacts, KmemAssumption DEF KmemKept
  <1>2. End(st, d) = st.range[d].base + Cache[c].pages
    BY DEF End
  <1>3. KslabSize \in Nat \ {0}
    BY KmemAssumption
  <1>4. st.range[d].base * PageSize \in Nat
    BY <1>1
  <1>5. st.range[d].base * PageSize <= OnSlab(c, st.range[d].base)
    <2>1. /\ OnSlab(c, st.range[d].base) \in Nat
          /\ st.range[d].base * PageSize + KslabSize <= OnSlab(c, st.range[d].base)
      BY <1>1, StructureLies
    <2> QED BY <2>1, <1>3, <1>4
  <1>6. OnSlab(c, st.range[d].base) + KslabSize <= End(st, d) * PageSize
    <2>1. /\ OnSlab(c, st.range[d].base) \in Nat
          /\ OnSlab(c, st.range[d].base) + KslabSize = (st.range[d].base + Cache[c].pages) * PageSize
      BY <1>1, StructureLies
    <2>2. OnSlab(c, st.range[d].base) + KslabSize \in Nat
      BY <2>1, <1>3
    <2> QED BY <2>1, <2>2, <1>2
  <1>7. OnSlab(c, st.range[d].base) \in Nat
    BY <1>1, StructureLies
  <1> QED BY <1>3, <1>5, <1>6, <1>7 DEF Within

(* Where the structure of a slab lies: in the slab, or in one of the cache *)
(* of structures.                                                          *)
LEMMA SlabWhere ==
  ASSUME NEW st, NEW U, Ready(st, U), NEW t \in DOMAIN st.slab, t \notin U
  PROVE  \/ /\ Cache[st.slab[t].cache].onslab
            /\ t = OnSlab(st.slab[t].cache, st.slab[t].base)
            /\ Within(st, st.slab[t].range, t, KslabSize)
         \/ /\ ~ Cache[st.slab[t].cache].onslab
            /\ \E u \in SlabsIn(st, "kslabs") : t \in Objects(st, u)
  <1>1. KmemKept(st) /\ Placed(st, U)
    BY FirmHas
  <1> DEFINE c == st.slab[t].cache
             d == st.slab[t].range
  <1>2. CASE Cache[c].onslab
    <2>1. t = OnSlab(c, st.slab[t].base)
      BY <1>1, <1>2 DEF Placed
    <2>2. c \in DOMAIN Cache /\ d \in DOMAIN st.range /\ st.range[d].base = st.slab[t].base
      BY <1>1, SlabLies
    <2>3. st.range[d].nb_pages = Cache[c].pages
      BY <1>1 DEF KmemKept, RangesKept, SlabsFit
    <2>4. Within(st, d, OnSlab(c, st.range[d].base), KslabSize)
      <3> HIDE DEF c, d
      <3> QED BY <2>2, <2>3, <1>1, StructureWithin
    <2> QED BY <2>1, <2>2, <2>4, <1>2
  <1>3. CASE ~ Cache[c].onslab
    <2>1. t \in TakenIn(st, "kslabs")
      BY <1>1, <1>3 DEF Placed
    <2> QED BY <2>1, <1>3 DEF TakenIn
  <1> QED BY <1>2, <1>3

(* The structure of a new slab of cache c in range d. *)
SlabFor(st, c, d, s) ==
  IF Cache[c].onslab THEN s = OnSlab(c, st.range[d].base) ELSE s \in Held(st, {}, "kslabs")

(* The structure of a new slab, at its end or an object of its own, is the *)
(* structure of no other slab.                                             *)
LEMMA SlabIsNew ==
  ASSUME NEW st, Ready(st, {}), NEW c \in DOMAIN Cache, NEW d \in Loose(st),
         st.range[d].nb_pages = Cache[c].pages, NEW s, SlabFor(st, c, d, s)
  PROVE  s \in Nat \ {NULL} /\ s \notin DOMAIN st.slab
  <1>1. KmemKept(st) /\ Tiled(st) /\ Placed(st, {}) /\ KmemShape(st)
    BY FirmHas
  <1>2. d \in DOMAIN st.range /\ st.range[d].slab = NULL
    BY <1>1, ShapeFacts DEF Loose
  <1>3. \A t \in DOMAIN st.slab : t # NULL /\ st.slab[t].range # d /\ st.slab[t].range \in DOMAIN st.range
    <2>1. \A t \in DOMAIN st.slab : t # NULL
      BY <1>1 DEF KmemShape
    <2>2. \A t \in DOMAIN st.slab : st.range[st.slab[t].range].slab = t /\ st.slab[t].range \in DOMAIN st.range
      BY <1>1, SlabLies
    <2> QED BY <2>1, <2>2, <1>2
  <1>4. ASSUME NEW t \in DOMAIN st.slab
        PROVE  \/ Cache[st.slab[t].cache].onslab /\ Within(st, st.slab[t].range, t, KslabSize)
               \/ \E u \in SlabsIn(st, "kslabs") : t \in Objects(st, u)
    <2>1. t \notin {}
      OBVIOUS
    <2> QED BY <2>1, SlabWhere
  <1>5. ASSUME NEW u \in SlabsIn(st, "kslabs"), NEW a \in Objects(st, u)
        PROVE  /\ u \in DOMAIN st.slab /\ st.slab[u].range \in DOMAIN st.range
               /\ Within(st, st.slab[u].range, a, Cache["kslabs"].size)
    <2>1. u \in DOMAIN st.slab /\ st.slab[u].cache = "kslabs"
      BY DEF SlabsIn
    <2>2. /\ st.slab[u].range \in DOMAIN st.range
          /\ Within(st, st.slab[u].range, a, Cache[st.slab[u].cache].size)
      BY <2>1, <1>1, ObjectWithin
    <2> QED BY <2>1, <2>2
  <1>6. CASE Cache[c].onslab
    <2>1. Within(st, d, s, KslabSize)
      <3>1. s = OnSlab(c, st.range[d].base)
        BY <1>6 DEF SlabFor
      <3> QED BY <3>1, <1>1, <1>2, StructureWithin
    <2>2. s \in Nat \ {NULL}
      <3>1. 1 <= st.range[d].base /\ st.range[d].base \in Nat /\ PageSize \in Nat \ {0}
        BY <1>1, <1>2, ShapeFacts, KmemAssumption DEF Tiled
      <3>2. st.range[d].base * PageSize # 0 /\ st.range[d].base * PageSize \in Nat
        <4> DEFINE b == st.range[d].base
        <4>1. b \in Int /\ 1 <= b /\ 1 \in Int /\ PageSize \in Nat
          BY <3>1
        <4> HIDE DEF b
        <4>2. 1 * PageSize <= b * PageSize
          BY <4>1, ProductGrows
        <4>3. b * PageSize \in Int
          BY <4>1
        <4> QED BY <4>2, <4>3, <3>1 DEF b
      <3> QED BY <3>2, <2>1 DEF Within, NULL
    <2>3. ASSUME s \in DOMAIN st.slab PROVE FALSE
      <3>1. CASE Within(st, st.slab[s].range, s, KslabSize)
        BY <3>1, <2>1, <2>3, <1>1, <1>2, <1>3, WithinApart
      <3>2. CASE \E u \in SlabsIn(st, "kslabs") : s \in Objects(st, u)
        <4>1. PICK u \in SlabsIn(st, "kslabs") : s \in Objects(st, u)
          BY <3>2
        <4>2. /\ u \in DOMAIN st.slab /\ st.slab[u].range \in DOMAIN st.range
              /\ Within(st, st.slab[u].range, s, Cache["kslabs"].size)
          BY <4>1, <1>5
        <4> QED BY <4>2, <2>1, <1>1, <1>2, <1>3, WithinApart
      <3> QED BY <3>1, <3>2, <2>3, <1>4
    <2> QED BY <2>2, <2>3
  <1>7. CASE ~ Cache[c].onslab
    <2>1. s \in TakenIn(st, "kslabs") /\ s \notin Outside(st, {})
      BY <1>7 DEF SlabFor, Held, Need
    <2>2. PICK u \in SlabsIn(st, "kslabs") : s \in Objects(st, u)
      BY <2>1 DEF TakenIn
    <2>3. /\ u \in DOMAIN st.slab /\ st.slab[u].range \in DOMAIN st.range
          /\ Within(st, st.slab[u].range, s, Cache["kslabs"].size)
      BY <2>2, <1>5
    <2>4. s \in Nat \ {NULL}
      BY <2>2, <2>3, <1>1, ObjectPositive
    <2>5. ASSUME s \in DOMAIN st.slab PROVE FALSE
      <3>1. Cache[st.slab[s].cache].onslab
        BY <2>1, <2>5 DEF Outside
      <3>2. s = OnSlab(st.slab[s].cache, st.slab[s].base)
        BY <2>5, <3>1, <1>1 DEF Placed
      <3>3. Within(st, st.slab[s].range, s, KslabSize)
        <4>1. s \notin {}
          OBVIOUS
        <4> QED BY <4>1, <3>1, <2>5, SlabWhere
      <3>4. st.slab[s].range = st.slab[u].range
        BY <3>3, <2>3, <2>5, <1>1, <1>3, WithinApart
      <3>5. s = u
        BY <3>4, <2>3, <2>5, <1>1, SlabLies
      <3>6. st.slab[u].cache = "kslabs"
        BY DEF SlabsIn
      <3>7. s \in ObjectsAt("kslabs", st.slab[u].base) /\ st.slab[u].base \in Nat
        BY <3>6, <2>2, <2>3, <1>1, SlabLies
      <3>8. s + Cache["kslabs"].size <= OnSlab("kslabs", st.slab[u].base)
        BY <3>7, OwnCaches, ObjectsApart
      <3>9. Cache["kslabs"].size \in Nat \ {0}
        BY OwnCaches, GeometryFits
      <3> QED BY <3>2, <3>5, <3>6, <3>8, <3>9, <2>4
    <2> QED BY <2>4, <2>5
  <1> QED BY <1>6, <1>7

(* cache_add_slab() in a range that is used without slab. *)
SlabBuilt(st, n, c, d, s) ==
  /\ Ready(n, {}) /\ Frame(st, {}, n, {}, {c, "kslabs"})
  /\ Held(n, {}, "kslabs") = Held(st, {}, "kslabs") \ {s}
  /\ c # "kslabs" => /\ Held(n, {}, c) = Held(st, {}, c)
                     /\ n.cache["kslabs"] = st.cache["kslabs"]
                     /\ Tidy(st, {}, "kslabs") => Tidy(n, {}, "kslabs")
  /\ c = "kslabs" \/ Cache[c].onslab => Held(n, {}, "kslabs") = Held(st, {}, "kslabs")
  /\ n.cache[c].nb_free = st.cache[c].nb_free + Cache[c].objects
  /\ n.cache[c].slab_list # <<>> /\ Head(n.cache[c].slab_list) = s
  /\ Tidy(st, {}, c) => Tidy(n, {s}, c)
  /\ LooseLess(st, n, {d}) /\ n.avail = st.avail /\ Only(st, n, {c})
  /\ n.ret = s /\ s \in Nat \ {NULL} /\ n.free = st.free /\ SameBounds(st, n)

(* A slab is built in a used range that had none. *)
LEMMA AddSlabReady ==
  ASSUME NEW st, Ready(st, {}), NEW c \in DOMAIN st.cache, NEW d \in Loose(st),
         st.range[d].nb_pages = Cache[c].pages, NEW s, SlabFor(st, c, d, s),
         NEW n, n = AddSlab(st, c, st.range[d].base, d, s)
  PROVE  SlabBuilt(st, n, c, d, s)
  <1> DEFINE base == st.range[d].base
  <1>1. /\ KmemKept(st) /\ KmemShape(st) /\ CachesOK(st, {}) /\ Placed(st, {}) /\ Descriptors(st)
        /\ AllListed(st) /\ Tiled(st) /\ Coalesced(st) /\ AllMapped(st) /\ st.ranges_to_free = <<>>
    BY FirmHas
  <1>2. /\ d \in ToSet(st.used) /\ d \in DOMAIN st.range /\ st.range[d].slab = NULL /\ base \in Nat /\ d # NULL
    BY <1>1, ShapeFacts DEF Loose
  <1>3. c \in DOMAIN Cache /\ Cache[c].objects \in Nat \ {0} /\ Cache[c].min \in Nat /\ st.cache[c].nb_free \in Nat
    BY <1>1, Counts
  <1>4. s \in Nat \ {NULL} /\ s \notin DOMAIN st.slab
    BY <1>3, SlabIsNew
  <1>5. KmemKept(n) /\ Coalesced(n) /\ SameBounds(st, n)
    BY <1>1, <1>2, <1>3, <1>4, AddSlabKeeps
  <1>6. SlabAdded(st, n, {}, c, s, d, base)
    <2>1. Disjoint(n)
      BY <1>5, KeptDisjoint
    <2> QED BY <2>1, <1>1, <1>2, <1>3, <1>4, AddSlabCaches
  <1> HIDE DEF base
  <1>7. /\ n.avail = st.avail /\ n.ret = s
        /\ DOMAIN n.slab = DOMAIN st.slab \union {s}
        /\ n.slab[s] = [cache |-> c, free |-> ObjectsAt(c, base), range |-> d, base |-> base]
        /\ \A e \in DOMAIN st.slab : n.slab[e] = st.slab[e]
        /\ CachesOK(n, {}) /\ Only(st, n, {c})
        /\ \A e : TakenIn(n, e) = TakenIn(st, e)
        /\ n.cache[c].nb_free = st.cache[c].nb_free + Cache[c].objects
        /\ n.cache[c].slab_list # <<>> /\ Head(n.cache[c].slab_list) = s
        /\ n.range = [st.range EXCEPT ![d].slab = s]
        /\ n.free = st.free /\ n.used = st.used
        /\ n.ranges_to_free = st.ranges_to_free /\ n.owner = st.owner
    BY <1>2, <1>6 DEF SlabAdded
  <1>8. /\ DOMAIN n.range = DOMAIN st.range
        /\ \A e \in DOMAIN st.range : End(n, e) = End(st, e) /\ PagesOf(n, e) = PagesOf(st, e)
        /\ Covered(n) = Covered(st)
        /\ \A e \in DOMAIN st.range : n.range[e].base = st.range[e].base /\ n.range[e].nb_pages = st.range[e].nb_pages
    BY <1>5, SameBoundsSame DEF SameBounds
  <1>9. \A e \in DOMAIN st.range : n.range[e].slab = IF e = d THEN s ELSE st.range[e].slab
    BY <1>1, <1>2, <1>7 DEF KmemShape, RangeRecord
  <1>10. DOMAIN n.cache = DOMAIN st.cache /\ \A e \in DOMAIN st.cache : n.cache[e].addr = st.cache[e].addr
    BY <1>7 DEF Only
  <1>11. Placed(n, {})
    <2>1. n.slab[s].cache = c /\ n.slab[s].base = base
      BY <1>7
    <2>2. IF Cache[c].onslab THEN s = OnSlab(c, base) ELSE s \in TakenIn(n, "kslabs")
      BY <1>7 DEF SlabFor, Held, base
    <2>3. \A t \in DOMAIN st.slab :
            IF Cache[st.slab[t].cache].onslab THEN t = OnSlab(st.slab[t].cache, st.slab[t].base)
                                              ELSE t \in TakenIn(n, "kslabs")
      BY <1>1, <1>7 DEF Placed
    <2>4. \A t \in DOMAIN n.slab :
            IF Cache[n.slab[t].cache].onslab THEN t = OnSlab(n.slab[t].cache, n.slab[t].base)
                                             ELSE t \in {} \/ t \in TakenIn(n, "kslabs")
      <3>1. ASSUME NEW t \in DOMAIN n.slab
            PROVE  IF Cache[n.slab[t].cache].onslab THEN t = OnSlab(n.slab[t].cache, n.slab[t].base)
                                                    ELSE t \in TakenIn(n, "kslabs")
        <4>1. CASE t = s
          BY <4>1, <2>1, <2>2
        <4>2. CASE t # s
          <5>1. t \in DOMAIN st.slab /\ n.slab[t] = st.slab[t]
            BY <4>2, <3>1, <1>7
          <5> QED BY <5>1, <2>3
        <4> QED BY <4>1, <4>2
      <3> QED BY <3>1
    <2>5. \A e \in DOMAIN n.cache : n.cache[e].addr \in TakenIn(n, "caches")
      BY <1>1, <1>7, <1>10 DEF Placed
    <2> QED BY <2>4, <2>5, <1>1, <1>10 DEF Placed
  <1>12. Ready(n, {})
    <2>1. Descriptors(n)
      BY <1>1, <1>7, <1>8 DEF Descriptors
    <2>2. AllListed(n)
      BY <1>1, <1>7, <1>8 DEF AllListed, Pending
    <2>3. Tiled(n)
      BY <1>1, <1>8 DEF Tiled
    <2>4. AllMapped(n)
      BY <1>1, <1>7, <1>8, ShapeFacts DEF AllMapped
    <2> QED BY <2>1, <2>2, <2>3, <2>4, <1>1, <1>5, <1>7, <1>11 DEF Ready, Firm
  <1>13. Loose(n) = Loose(st) \ {d}
    BY <1>1, <1>4, <1>7, <1>9, ShapeFacts DEF Loose
  <1>14. LooseLess(st, n, {d})
    <2>1. \A e \in Loose(n) : e \in DOMAIN st.range
      BY <1>1, <1>13, ShapeFacts DEF Loose
    <2> QED BY <2>1, <1>8, <1>13 DEF LooseLess
  <1>15. SlabsIn(n, c) = SlabsIn(st, c) \union {s} /\ \A e : e # c => SlabsIn(n, e) = SlabsIn(st, e)
    <2>1. n.slab[s].cache = c
      BY <1>7
    <2>2. \A t \in DOMAIN st.slab : n.slab[t].cache = st.slab[t].cache
      BY <1>7
    <2> QED BY <2>1, <2>2, <1>7 DEF SlabsIn
  <1>16. Outside(n, {}) = IF Cache[c].onslab THEN Outside(st, {}) ELSE Outside(st, {}) \union {s}
    <2>1. n.slab[s].cache = c /\ \A t \in DOMAIN st.slab : n.slab[t].cache = st.slab[t].cache
      BY <1>7
    <2> QED BY <2>1, <1>7 DEF Outside
  <1>17. \A e : e # "kslabs" => Need(n, {}, e) = Need(st, {}, e)
    <2>1. {n.cache[e].addr : e \in DOMAIN n.cache} = {st.cache[e].addr : e \in DOMAIN st.cache}
      BY <1>10
    <2> QED BY <2>1, <1>8 DEF Need
  <1>18. \A e : e # "kslabs" => Held(n, {}, e) = Held(st, {}, e)
    BY <1>7, <1>17 DEF Held
  <1>19. /\ Held(n, {}, "kslabs") = Held(st, {}, "kslabs") \ {s}
         /\ c = "kslabs" \/ Cache[c].onslab => Held(n, {}, "kslabs") = Held(st, {}, "kslabs")
    <2>1. CASE Cache[c].onslab
      <3>1. Held(n, {}, "kslabs") = Held(st, {}, "kslabs")
        BY <2>1, <1>7, <1>16 DEF Held, Need
      <3>2. s \notin Held(st, {}, "kslabs")
        <4>1. ASSUME s \in Held(st, {}, "kslabs") PROVE FALSE
          <5>1. s \in TakenIn(st, "kslabs")
            BY <4>1 DEF Held
          <5>2. PICK u \in SlabsIn(st, "kslabs") : s \in Objects(st, u)
            BY <5>1 DEF TakenIn
          <5>3. u \in DOMAIN st.slab
            BY DEF SlabsIn
          <5>4. /\ st.slab[u].range \in DOMAIN st.range
                /\ Within(st, st.slab[u].range, s, Cache[st.slab[u].cache].size)
            BY <5>2, <5>3, <1>1, ObjectWithin
          <5>5. s = OnSlab(c, base)
            BY <2>1 DEF SlabFor, base
          <5>6. Within(st, d, s, KslabSize)
            BY <5>5, <1>1, <1>2, <1>3, StructureWithin DEF base
          <5>7. st.range[st.slab[u].range].slab = u /\ u # NULL
            BY <5>3, <1>1, SlabLies DEF KmemShape
          <5> QED BY <5>4, <5>6, <5>7, <1>1, <1>2, WithinApart
        <4> QED BY <4>1
      <3> QED BY <3>1, <3>2
    <2>2. CASE ~ Cache[c].onslab
      <3>1. c # "kslabs"
        BY <2>2, OwnCaches
      <3>2. Held(n, {}, "kslabs") = Held(st, {}, "kslabs") \ {s}
        BY <2>2, <1>7, <1>16 DEF Held, Need
      <3> QED BY <3>1, <3>2, <2>2
    <2> QED BY <2>1, <2>2
  <1>20. \A e : e # c => (Tidy(st, {}, e) => Tidy(n, {}, e))
    <2>1. SUFFICES ASSUME NEW e, e # c, Tidy(st, {}, e), Cache[e].min = 0, NEW t \in SlabsIn(n, e)
                   PROVE  n.slab[t].free # Objects(n, t)
      BY DEF Tidy
    <2>2. t \in SlabsIn(st, e) /\ t \in DOMAIN st.slab
      BY <2>1, <1>15 DEF SlabsIn
    <2>3. n.slab[t] = st.slab[t]
      BY <2>2, <1>7
    <2>4. Objects(n, t) = Objects(st, t)
      BY <2>3 DEF Objects
    <2> QED BY <2>1, <2>2, <2>3, <2>4 DEF Tidy
  <1>21. Tidy(st, {}, c) => Tidy(n, {s}, c)
    <2>1. SUFFICES ASSUME Tidy(st, {}, c), Cache[c].min = 0, NEW t \in SlabsIn(n, c) \ {s}
                   PROVE  n.slab[t].free # Objects(n, t)
      BY DEF Tidy
    <2>2. t \in SlabsIn(st, c) /\ t \in DOMAIN st.slab
      BY <2>1, <1>15 DEF SlabsIn
    <2>3. n.slab[t] = st.slab[t]
      BY <2>2, <1>7
    <2>4. Objects(n, t) = Objects(st, t)
      BY <2>3 DEF Objects
    <2> QED BY <2>1, <2>2, <2>3, <2>4 DEF Tidy
  <1>22. \A e \in DOMAIN st.cache : e # c => n.cache[e] = st.cache[e] /\ Stocked(st, n, e)
    <2>1. \A e \in DOMAIN st.cache : e # c => n.cache[e] = st.cache[e]
      BY <1>7 DEF Only
    <2>2. \A e \in DOMAIN st.cache : st.cache[e].nb_free \in Nat
      BY <1>1, Counts
    <2> QED BY <2>1, <2>2 DEF Stocked
  <1>23. Frame(st, {}, n, {}, {c, "kslabs"})
    BY <1>10, <1>18, <1>20, <1>22 DEF Frame
  <1>24. c # "kslabs" => /\ Held(n, {}, c) = Held(st, {}, c)
                         /\ n.cache["kslabs"] = st.cache["kslabs"]
                         /\ Tidy(st, {}, "kslabs") => Tidy(n, {}, "kslabs")
    <2>1. "kslabs" \in DOMAIN st.cache
      BY <1>1 DEF Placed, OwnNames
    <2> QED BY <2>1, <1>18, <1>20, <1>22
  <1> QED BY <1>4, <1>5, <1>7, <1>12, <1>14, <1>19, <1>21, <1>23, <1>24 DEF SlabBuilt

-----------------------------------------------------------------------------
(* SOS_KMEM_VMM_NEW_RANGE()                                                *)

(* The allocation of a descriptor. *)
Describes(st, x) ==
  /\ Ready(x, {}) /\ x.avail \in Nat /\ Frame(st, {}, x, {}, {"ranges"}) /\ LooseLess(st, x, {})
  /\ \/ x.ret = NULL /\ Held(x, {}, "ranges") = Held(st, {}, "ranges")
     \/ /\ x.ret # NULL /\ x.ret \notin Held(st, {}, "ranges")
        /\ Held(x, {}, "ranges") = Held(st, {}, "ranges") \union {x.ret} /\ FreeLess(st, x, 1)

(* A range that joins the used ones. *)
NewUsed(st, n, nb, d) ==
  /\ Unmapped(n, d) /\ n.range[d].nb_pages = nb /\ LooseMore(st, n, d)
  /\ d # NULL /\ n.ret = d /\ n.avail \in Nat
  /\ Frame(st, {}, n, {}, {"ranges"}) /\ Held(n, {}, "ranges") = Held(st, {}, "ranges")

(* sos_kmem_vmm_new_range() has failed, or has a range: one it took as it  *)
(* was, or the beginning of one, followed by the rest.                     *)
Reserved(st, x, n, nb) ==
  \/ n.ret = NULL /\ (n = Fail(st) \/ n = x)
  \/ /\ NewUsed(st, n, nb, n.ret)
     /\ \/ NbRanges(n) = NbRanges(st) /\ FreeLess(st, n, nb)
        \/ /\ NbRanges(n) = NbRanges(x) /\ FreeLess(x, n, nb)
           /\ x.ret # NULL /\ Beside(n, n.ret)

(* A step on ranges changes no cache, but for which descriptors are in use. *)
LEMMA CachedFrame ==
  ASSUME NEW st, Ready(st, {}), NEW n, Cached(st, n)
  PROVE  Frame(st, {}, n, {}, {"ranges"}) /\ NbRanges(n) = NbRanges(st)
  <1>1. n.slab = st.slab /\ n.cache = st.cache
    BY DEF Cached
  <1>2. \A e : SlabsIn(n, e) = SlabsIn(st, e) /\ TakenIn(n, e) = TakenIn(st, e)
    BY CachedKept
  <1>3. \A t : Objects(n, t) = Objects(st, t)
    BY CachedKept
  <1>4. Outside(n, {}) = Outside(st, {})
    BY <1>1 DEF Outside
  <1>5. \A e : e # "ranges" => Held(n, {}, e) = Held(st, {}, e)
    BY <1>1, <1>2, <1>4 DEF Held, Need
  <1>6. \A e : Tidy(st, {}, e) => Tidy(n, {}, e)
    BY <1>1, <1>2, <1>3 DEF Tidy
  <1>7. \A e \in DOMAIN st.cache : Stocked(st, n, e)
    <2>1. \A e \in DOMAIN st.cache : st.cache[e].nb_free \in Nat
      BY FirmHas, Counts
    <2> QED BY <2>1, <1>1 DEF Stocked
  <1> QED BY <1>1, <1>5, <1>6, <1>7 DEF Frame, NbRanges

(* A new range uses the descriptor that was allocated for it. *)
LEMMA ChosenFrame ==
  ASSUME NEW st, Ready(st, {}), NEW n, NEW d, NEW nb, Chosen(st, n, d, nb)
  PROVE  /\ Frame(st, {}, n, {}, {"ranges"}) /\ NbRanges(n) = NbRanges(st)
         /\ Held(n, {}, "ranges") = Held(st, {}, "ranges") \ {d}
  <1>1. Cached(st, n) /\ DOMAIN n.range = DOMAIN st.range \union {d}
    BY DEF Chosen
  <1>2. TakenIn(n, "ranges") = TakenIn(st, "ranges")
    BY <1>1, CachedKept
  <1> QED BY <1>1, <1>2, CachedFrame DEF Held, Need

(* The free range of the right size. *)
LEMMA TakeReserved ==
  ASSUME NEW st, Ready(st, {}), st.avail \in Nat, NEW r \in ToSet(st.free), NEW nb \in Nat \ {0},
         st.range[r].nb_pages = nb, NEW n, n = TakeRange(st, r)
  PROVE  NewUsed(st, n, nb, n.ret) /\ NbRanges(n) = NbRanges(st) /\ FreeLess(st, n, nb)
  <1>1. Chosen(st, n, r, nb)
    BY TakeRangeReady
  <1>2. /\ Frame(st, {}, n, {}, {"ranges"}) /\ NbRanges(n) = NbRanges(st)
        /\ Held(n, {}, "ranges") = Held(st, {}, "ranges") \ {r}
    BY <1>1, ChosenFrame
  <1>3. r \notin Held(st, {}, "ranges")
    <2>1. r \in DOMAIN st.range
      BY FirmHas, ShapeFacts
    <2> QED BY <2>1 DEF Held, Need
  <1> QED BY <1>1, <1>2, <1>3 DEF NewUsed, Chosen

(* The larger free range, after the allocation of a descriptor. *)
LEMMA SplitReserved ==
  ASSUME NEW st, Ready(st, {}), NEW x, Describes(st, x), x.ret # NULL, NEW r \in ToSet(st.free),
         NEW nb \in Nat \ {0}, st.range[r].nb_pages > nb, st.range[r].nb_pages \in Nat,
         NEW n, n = SplitRange(x, r, nb, x.ret)
  PROVE  /\ NewUsed(st, n, nb, n.ret) /\ NbRanges(n) = NbRanges(x) /\ FreeLess(x, n, nb)
         /\ Beside(n, n.ret)
  <1> DEFINE d == x.ret
  <1>1. /\ Ready(x, {}) /\ x.avail \in Nat /\ Frame(st, {}, x, {}, {"ranges"}) /\ LooseLess(st, x, {})
        /\ d \notin Held(st, {}, "ranges")
        /\ Held(x, {}, "ranges") = Held(st, {}, "ranges") \union {d} /\ FreeLess(st, x, 1)
    BY DEF Describes
  <1> HIDE DEF d
  <1>2. r \in ToSet(x.free) /\ x.range[r].nb_pages >= st.range[r].nb_pages - 1
    BY <1>1 DEF FreeLess
  <1>3. x.range[r].nb_pages \in Nat
    BY <1>1, <1>2, FirmHas, ShapeFacts
  <1>4. nb \in 1 .. x.range[r].nb_pages
    BY <1>2, <1>3
  <1>5. d \in Held(x, {}, "ranges")
    BY <1>1
  <1>6. n = SplitRange(x, r, nb, d)
    BY DEF d
  <1>7. Chosen(x, n, d, nb) /\ Beside(n, d)
    BY <1>1, <1>2, <1>4, <1>5, <1>6, SplitRangeReady
  <1>8. /\ Frame(x, {}, n, {}, {"ranges"}) /\ NbRanges(n) = NbRanges(x)
        /\ Held(n, {}, "ranges") = Held(x, {}, "ranges") \ {d}
    BY <1>1, <1>7, ChosenFrame
  <1>9. n.avail \in Nat /\ n.ret = d /\ d # NULL /\ Unmapped(n, d) /\ LooseMore(x, n, d) /\ FreeLess(x, n, nb)
        /\ n.range[d].nb_pages = nb
    BY <1>1, <1>7 DEF Chosen
  <1>10. Frame(st, {}, n, {}, {"ranges"})
    <2>1. Frame(st, {}, n, {}, {"ranges"} \union {"ranges"})
      BY <1>1, <1>8, <1>9, FrameComposed DEF Ready, Unmapped
    <2> QED BY <2>1
  <1>11. LooseMore(st, n, d)
    BY <1>1, <1>9 DEF LooseMore, LooseLess
  <1>12. Held(n, {}, "ranges") = Held(st, {}, "ranges")
    BY <1>1, <1>8
  <1> QED BY <1>7, <1>8, <1>9, <1>10, <1>11, <1>12 DEF NewUsed

(* sos_kmem_vmm_new_range() before the pages are mapped, whatever describes *)
(* the range.                                                              *)
LEMMA ReserveReady ==
  ASSUME NEW st, Ready(st, {}), st.avail \in Nat, NEW nb \in Nat \ {0}, NEW x, Describes(st, x),
         NEW n, n = Reserve(st, nb, x)
  PROVE  Reserved(st, x, n, nb)
  <1> DEFINE i == FirstFit(st, nb)
             r == st.free[i]
  <1>1. n = ReserveAt(st, i, nb, x)
    BY DEF Reserve
  <1>2. \/ i \in 1 .. Len(st.free) /\ st.range[r].nb_pages >= nb
        \/ i = 0
    BY FirmHas, FirstFitFits
  <1>3. i \in 1 .. Len(st.free) => r \in ToSet(st.free) /\ st.range[r].nb_pages \in Nat /\ i > 0 /\ i # 0
    <2>1. st.free \in Seq(DOMAIN st.range)
      BY FirmHas DEF KmemShape
    <2>2. i \in 1 .. Len(st.free) => r \in ToSet(st.free) /\ r \in DOMAIN st.range
      BY <2>1, ElementsAreContained
    <2>3. i \in 1 .. Len(st.free) => i > 0 /\ i # 0
      OBVIOUS
    <2> QED BY <2>2, <2>3, FirmHas, ShapeFacts
  <1> HIDE DEF i, r
  <1>4. CASE i = 0
    <2>1. n = Fail(st)
      BY <1>1, <1>4 DEF ReserveAt
    <2>2. n.ret = NULL
      BY <2>1, ReturnAlike, FirmHas DEF Fail
    <2> QED BY <2>1, <2>2 DEF Reserved
  <1>5. CASE i \in 1 .. Len(st.free) /\ st.range[r].nb_pages = nb
    <2>1. n = TakeRange(st, r)
      BY <1>1, <1>3, <1>5 DEF ReserveAt, r
    <2> QED BY <2>1, <1>3, <1>5, TakeReserved DEF Reserved
  <1>6. CASE i \in 1 .. Len(st.free) /\ st.range[r].nb_pages > nb
    <2>1. st.range[r].nb_pages # nb
      BY <1>3, <1>6
    <2>2. n = AndThen(x, LAMBDA new : SplitRange(new, r, nb, new.ret))
      BY <2>1, <1>1, <1>3, <1>6 DEF ReserveAt, r
    <2>3. CASE x.ret = NULL
      <3>1. n = x
        BY <2>2, <2>3 DEF AndThen
      <3> QED BY <3>1, <2>3 DEF Reserved
    <2>4. CASE x.ret # NULL
      <3>1. n = SplitRange(x, r, nb, x.ret)
        BY <2>2, <2>4 DEF AndThen
      <3> QED BY <3>1, <2>4, <1>3, <1>6, SplitReserved DEF Reserved
    <2> QED BY <2>3, <2>4
  <1>7. i \in 1 .. Len(st.free) => st.range[r].nb_pages = nb \/ st.range[r].nb_pages > nb
    BY <1>2, <1>3 DEF i
  <1> QED BY <1>2, <1>4, <1>5, <1>6, <1>7

(* sos_kmem_vmm_new_range(), whatever describes the range. *)
RangeMapped(st, x, p, nb) ==
  /\ Ready(p, {}) /\ p.avail \in Nat /\ Frame(st, {}, p, {}, {"ranges"})
  /\ Held(p, {}, "ranges") = Held(st, {}, "ranges")
  /\ \/ /\ p.ret = NULL /\ LooseLess(st, p, {})
        /\ \/ Grows(st, p)
           \/ x.ret = NULL /\ NbRanges(p) = NbRanges(x)
           \/ x.ret # NULL /\ Grown(x, p)
     \/ /\ p.ret # NULL /\ LooseMore(st, p, p.ret) /\ p.range[p.ret].nb_pages = nb
        /\ \/ NbRanges(p) = NbRanges(st) /\ FreeLess(st, p, nb)
           \/ NbRanges(p) = NbRanges(x) /\ FreeLess(x, p, nb) /\ x.ret # NULL

(* The pages of the new range are mapped, or it is deleted. *)
LEMMA MapReserved ==
  ASSUME NEW st, Ready(st, {}), NEW nb, NEW x, NEW n, NEW d, NewUsed(st, n, nb, d),
         \/ NbRanges(n) = NbRanges(st) /\ FreeLess(st, n, nb)
         \/ NbRanges(n) = NbRanges(x) /\ FreeLess(x, n, nb) /\ x.ret # NULL /\ Beside(n, d),
         NEW p, p = MapPages(n, d)
  PROVE  RangeMapped(st, x, p, nb)
  <1>1. /\ Unmapped(n, d) /\ n.range[d].nb_pages = nb /\ LooseMore(st, n, d)
        /\ d # NULL /\ n.avail \in Nat
        /\ Frame(st, {}, n, {}, {"ranges"}) /\ Held(n, {}, "ranges") = Held(st, {}, "ranges")
    BY DEF NewUsed
  <1>2. MapResult(n, p, d)
    BY <1>1, MapPagesReady
  <1>3. p.avail \in Nat /\ Ready(p, {})
    BY <1>2 DEF MapResult
  <1>4. CASE p.ret = d /\ Level(n, p)
    <2>1. Frame(st, {}, p, {}, {"ranges"}) /\ Held(p, {}, "ranges") = Held(st, {}, "ranges")
      BY <1>1, <1>4, LevelAfter, LevelParts
    <2>2. Loose(p) = Loose(n) /\ NbRanges(p) = NbRanges(n) /\ p.range = n.range /\ p.free = n.free
      BY <1>4, LevelParts DEF Level
    <2>3. LooseMore(st, p, d) /\ p.range[d].nb_pages = nb
      BY <2>2, <1>1 DEF LooseMore
    <2>4. \A y : FreeLess(y, n, nb) => FreeLess(y, p, nb)
      BY <2>2 DEF FreeLess
    <2> QED BY <2>1, <2>2, <2>3, <2>4, <1>1, <1>3, <1>4 DEF RangeMapped
  <1>5. CASE /\ p.ret = NULL /\ Frame(n, {}, p, {}, {}) /\ LooseLess(n, p, {d})
             /\ Grows(n, p) /\ (Beside(n, d) => Grown(n, p))
    <2>1. Frame(st, {}, p, {}, {"ranges"})
      <3>1. Frame(st, {}, p, {}, {"ranges"} \union {})
        BY <1>1, <1>3, <1>5, FrameComposed DEF Ready, Unmapped
      <3> QED BY <3>1
    <2>2. Held(p, {}, "ranges") = Held(n, {}, "ranges")
      <3>1. "ranges" \in DOMAIN n.cache
        BY <1>1 DEF Unmapped, Firm, Placed, OwnNames
      <3> QED BY <3>1, <1>5 DEF Frame
    <2>3. LooseLess(st, p, {})
      <3>1. Loose(p) = Loose(st)
        BY <1>1, <1>5 DEF LooseMore, LooseLess
      <3> QED BY <3>1, <1>1, <1>5 DEF LooseMore, LooseLess
    <2>4. Grows(st, p) \/ (x.ret # NULL /\ Grown(x, p))
      BY <1>5 DEF Grows, Grown
    <2> QED BY <2>1, <2>2, <2>3, <2>4, <1>1, <1>3, <1>5 DEF RangeMapped
  <1> QED BY <1>2, <1>4, <1>5 DEF MapResult

(* sos_kmem_vmm_new_range(), once it has allocated its descriptor. *)
LEMMA MappedReady ==
  ASSUME NEW st, Ready(st, {}), st.avail \in Nat, NEW nb \in Nat \ {0}, NEW x, Describes(st, x),
         NEW p, p = Mapped(Reserve(st, nb, x))
  PROVE  RangeMapped(st, x, p, nb)
  <1> DEFINE n == Reserve(st, nb, x)
  <1>1. Reserved(st, x, n, nb)
    BY ReserveReady
  <1>2. p = AndThen(n, LAMBDA new : MapPages(new, new.ret))
    BY DEF Mapped
  <1> HIDE DEF n
  <1>3. CASE n.ret = NULL
    <2>1. p = n
      BY <1>2, <1>3 DEF AndThen
    <2>2. n = Fail(st) \/ n = x
      BY <1>1, <1>3 DEF Reserved, NewUsed
    <2>3. CASE n = Fail(st)
      <3>1. Alike(st, n) /\ n.avail = st.avail
        BY <2>3, FirmHas, ReturnAlike DEF Fail
      <3>2. Ready(n, {}) /\ Level(st, n)
        BY <3>1, AlikeReady, AlikeLevel
      <3>3. Cached(st, n)
        BY <3>2 DEF Level, Cached
      <3>4. Frame(st, {}, n, {}, {"ranges"}) /\ NbRanges(n) = NbRanges(st)
        BY <3>3, CachedFrame
      <3>5. Held(n, {}, "ranges") = Held(st, {}, "ranges") /\ Loose(n) = Loose(st)
        BY <3>2, LevelParts
      <3>6. LooseLess(st, n, {})
        BY <3>2, <3>5 DEF LooseLess, Level
      <3>7. Grows(st, n)
        <4>1. NbRanges(st) \in Nat
          BY FirmHas, NbRangesNat
        <4> QED BY <4>1, <3>4 DEF Grows
      <3> QED BY <2>1, <3>1, <3>2, <3>4, <3>5, <3>6, <3>7, <1>3 DEF RangeMapped
    <2>4. CASE n = x
      BY <2>1, <2>4, <1>3 DEF Describes, RangeMapped
    <2> QED BY <2>2, <2>3, <2>4
  <1>4. CASE n.ret # NULL
    <2>1. p = MapPages(n, n.ret)
      BY <1>2, <1>4 DEF AndThen
    <2>2. /\ NewUsed(st, n, nb, n.ret)
          /\ \/ NbRanges(n) = NbRanges(st) /\ FreeLess(st, n, nb)
             \/ /\ NbRanges(n) = NbRanges(x) /\ FreeLess(x, n, nb)
                /\ x.ret # NULL /\ Beside(n, n.ret)
      BY <1>1, <1>4 DEF Reserved
    <2> QED BY <2>1, <2>2, MapReserved
  <1> QED BY <1>3, <1>4

(* A slab that holds its structure leaves the cache of structures alone. *)
LEMMA OnSlabBuilt ==
  ASSUME NEW p, Ready(p, {}), NEW c \in DOMAIN p.cache, NEW d \in Loose(p),
         p.range[d].nb_pages = Cache[c].pages, Cache[c].onslab,
         NEW g, g = AddOnSlab(p, c, d)
  PROVE  SlabBuilt(p, g, c, d, g.ret) /\ Frame(p, {}, g, {}, {c})
  <1> DEFINE s == OnSlab(c, p.range[d].base)
  <1>1. g = AddSlab(p, c, p.range[d].base, d, s) /\ SlabFor(p, c, d, s)
    BY DEF AddOnSlab, SlabFor
  <1> HIDE DEF s
  <1>2. SlabBuilt(p, g, c, d, s)
    BY <1>1, AddSlabReady
  <1>3. g.ret = s
    BY <1>2 DEF SlabBuilt
  <1>4. /\ Frame(p, {}, g, {}, {c, "kslabs"})
        /\ Held(g, {}, "kslabs") = Held(p, {}, "kslabs")
        /\ c # "kslabs" => /\ g.cache["kslabs"] = p.cache["kslabs"]
                           /\ Tidy(p, {}, "kslabs") => Tidy(g, {}, "kslabs")
    BY <1>2 DEF SlabBuilt
  <1>5. c # "kslabs" => Stocked(p, g, "kslabs")
    <2>1. "kslabs" \in DOMAIN p.cache
      BY FirmHas DEF OwnNames
    <2>2. p.cache["kslabs"].nb_free \in Nat
      BY <2>1, FirmHas, Counts
    <2> QED BY <2>2, <1>4 DEF Stocked
  <1>6. Frame(p, {}, g, {}, {c})
    BY <1>4, <1>5 DEF Frame
  <1> QED BY <1>2, <1>3, <1>6

(* A range that was taken for a slab is not left without one. *)
LEMMA LooseUsedUp ==
  ASSUME NEW st, NEW p, NEW g, NEW d, LooseMore(st, p, d), LooseLess(p, g, {d})
  PROVE  LooseLess(st, g, {})
  <1>1. Loose(g) = Loose(st)
    BY DEF LooseMore, LooseLess
  <1> QED BY <1>1 DEF LooseMore, LooseLess

(* What follows the choice of the range does nothing to the free ranges. *)
LEMMA FreeLessAfter ==
  ASSUME NEW st, NEW p, NEW g, NEW nb, FreeLess(st, p, nb), g.free = p.free, SameBounds(p, g),
         ToSet(p.free) \subseteq DOMAIN p.range
  PROVE  FreeLess(st, g, nb)
  BY DEF FreeLess, SameBounds

(* Nor does what goes before. *)
LEMMA FreeLessBefore ==
  ASSUME NEW st, NEW x, NEW g, NEW nb, FreeLess(x, g, nb), x.free = st.free, x.range = st.range
  PROVE  FreeLess(st, g, nb)
  BY DEF FreeLess

(* The object taken from the first slab, which the call before it returned. *)
LEMMA TakenFromHead ==
  ASSUME NEW st, Ready(st, {}), NEW c \in DOMAIN st.cache, HasFreeObject(st, c), NEW grown
  PROVE  LET ready == WithFree(st, c, grown)
         IN ready.ret # NULL /\ TakenReady(st, TakeObject(ready, c), c)
  <1> DEFINE v == Head(st.cache[c].slab_list)
             ready == WithFree(st, c, grown)
             n == TakeObject(ready, c)
  <1>1. ready = Return(st, v)
    BY DEF WithFree
  <1>2. /\ Shaped(st) /\ CachesOK(st, {}) /\ KmemShape(st)
    BY FirmHas
  <1>3. v # NULL
    <2>1. v \in DOMAIN st.slab
      BY <1>2, HasFreeFound
    <2> QED BY <2>1, <1>2 DEF KmemShape
  <1> HIDE DEF v, ready
  <1>4. Alike(st, ready) /\ ready.ret = v /\ ready.avail = st.avail
    BY <1>1, <1>2, ReturnAlike
  <1>5. Ready(ready, {}) /\ Level(st, ready)
    BY <1>4, AlikeReady, AlikeLevel
  <1>6. c \in DOMAIN ready.cache /\ HasFreeObject(ready, c)
    <2>1. ready.cache = st.cache
      BY <1>5 DEF Level
    <2> QED BY <2>1, <1>5, LevelParts
  <1>7. TakenReady(ready, n, c)
    BY <1>5, <1>6, TakeObjectReady
  <1> HIDE DEF n
  <1>8. Frame(st, {}, n, {}, {c}) /\ LooseLess(st, n, {}) /\ Only(st, n, {c})
    BY <1>5, <1>7, LevelBefore DEF TakenReady
  <1>9. /\ TakenIn(ready, c) = TakenIn(st, c) /\ Held(ready, {}, c) = Held(st, {}, c)
        /\ \A U : Tidy(ready, U, c) <=> Tidy(st, U, c)
    BY <1>5, LevelParts
  <1>10. ready.cache = st.cache /\ SameRanges(st, n)
    BY <1>4, <1>7 DEF Alike, TakenReady, SameRanges
  <1>11. TakenReady(st, n, c)
    BY <1>4, <1>7, <1>8, <1>9, <1>10 DEF TakenReady
  <1> QED BY <1>3, <1>4, <1>11 DEF n, ready

(* A descriptor that the cache of ranges still has needs no range. *)
LEMMA TakenDescribes ==
  ASSUME NEW st, st.avail \in Nat, NEW n, TakenReady(st, n, "ranges")
  PROVE  Describes(st, n) /\ n.ret # NULL /\ NbRanges(n) = NbRanges(st) - 1
  <1>1. /\ Ready(n, {}) /\ Frame(st, {}, n, {}, {"ranges"})
        /\ n.ret \in Nat \ {NULL} /\ n.ret \notin TakenIn(st, "ranges")
        /\ Held(n, {}, "ranges") = Held(st, {}, "ranges") \union {n.ret}
        /\ n.cache["ranges"].nb_free = st.cache["ranges"].nb_free - 1
        /\ LooseLess(st, n, {}) /\ n.avail = st.avail /\ SameRanges(st, n)
    BY DEF TakenReady
  <1>2. n.ret \notin Held(st, {}, "ranges")
    BY <1>1 DEF Held
  <1>3. FreeLess(st, n, 1)
    <2>1. n.free = st.free /\ n.range = st.range
      BY <1>1 DEF SameRanges
    <2>2. Ready(n, {}) => \A r \in ToSet(n.free) : n.range[r].nb_pages \in Nat
      BY FirmHas, ShapeFacts
    <2> QED BY <2>1, <2>2, <1>1 DEF FreeLess
  <1> QED BY <1>1, <1>2, <1>3 DEF Describes, NbRanges

-----------------------------------------------------------------------------
(* THE GROWTH OF A CACHE                                                   *)

(* The cache of ranges exists; it has no free object, or starts its        *)
(* reserve, at known counts.                                               *)
LEMMA RangesKnown ==
  ASSUME NEW st, Ready(st, {})
  PROVE  /\ "ranges" \in DOMAIN st.cache /\ NbRanges(st) \in Nat
         /\ HasFreeObject(st, "ranges") <=> NbRanges(st) # 0
         /\ StartsReserve(st, "ranges") <=> NbRanges(st) = 1
  <1>1. "ranges" \in DOMAIN st.cache /\ CachesOK(st, {}) /\ NbRanges(st) \in Nat
    BY FirmHas, NbRangesNat DEF OwnNames
  <1>2. HasFreeObject(st, "ranges") <=> NbRanges(st) # 0
    BY <1>1, HasFreeFound DEF NbRanges
  <1>3. Cache["ranges"].min = 2
    BY OwnCaches
  <1>4. StartsReserve(st, "ranges") <=> NbRanges(st) = 1
    BY <1>3 DEF StartsReserve, NbRanges
  <1> QED BY <1>1, <1>2, <1>4

(* The last descriptor of the reserve describes the range of the next slab *)
(* of descriptors.                                                         *)
LEMMA DescribedFromReserve ==
  ASSUME NEW t, Ready(t, {}), t.avail \in Nat, NbRanges(t) = 1,
         NEW x, x = DescribeFromReserve(t)
  PROVE  /\ Describes(t, x) /\ x.ret # NULL /\ NbRanges(x) = 0
         /\ x.free = t.free /\ x.range = t.range
  <1> DEFINE ready == WithFree(t, "ranges", TooDeep)
             n == TakeObject(ready, "ranges")
  <1>1. "ranges" \in DOMAIN t.cache /\ HasFreeObject(t, "ranges")
    BY RangesKnown
  <1>2. ready.ret # NULL /\ TakenReady(t, n, "ranges")
    BY <1>1, TakenFromHead
  <1>3. x = AndThen(ready, LAMBDA y : KeepReserve(TakeObject(y, "ranges"), "ranges", TooDeep))
    BY DEF DescribeFromReserve
  <1> HIDE DEF ready
  <1>4. x = KeepReserve(n, "ranges", TooDeep)
    BY <1>2, <1>3 DEF AndThen
  <1> HIDE DEF n
  <1>5. Describes(t, n) /\ n.ret # NULL /\ NbRanges(n) = NbRanges(t) - 1
    BY <1>2, TakenDescribes
  <1>6. ~ StartsReserve(n, "ranges")
    BY <1>5, RangesKnown DEF Describes
  <1>7. x = n
    BY <1>4, <1>6 DEF KeepReserve
  <1>8. n.free = t.free /\ n.range = t.range
    BY <1>2 DEF TakenReady, SameRanges
  <1> QED BY <1>5, <1>7, <1>8

(* The cache of ranges grows, or keeps its last descriptor. *)
RangesGrown(t, g) ==
  /\ Ready(g, {}) /\ g.avail \in Nat /\ Frame(t, {}, g, {}, {"ranges"})
  /\ Held(g, {}, "ranges") = Held(t, {}, "ranges") /\ LooseLess(t, g, {})
  /\ \/ g.ret = NULL /\ NbRanges(g) >= 1
     \/ g.ret # NULL /\ NbRanges(g) >= 2 /\ FreeLess(t, g, 1)

(* The cache of ranges grows when one descriptor is left: that one         *)
(* describes the range of the new slab.                                    *)
LEMMA GrowRangesReady ==
  ASSUME NEW t, Ready(t, {}), t.avail \in Nat, NbRanges(t) = 1, NEW g, g = GrowRanges(t)
  PROVE  RangesGrown(t, g)
  <1> DEFINE x == DescribeFromReserve(t)
             p == Mapped(Reserve(t, Cache["ranges"].pages, x))
  <1>1. /\ Describes(t, x) /\ x.ret # NULL /\ NbRanges(x) = 0
        /\ x.free = t.free /\ x.range = t.range
    BY DescribedFromReserve
  <1>2. g = AndThen(p, LAMBDA new : GrowIn(new, "ranges", TooDeep))
    BY DEF GrowRanges
  <1> HIDE DEF x
  <1>3. Cache["ranges"].pages = 1 /\ Cache["ranges"].onslab
    BY OwnCaches
  <1>4. RangeMapped(t, x, p, 1)
    <2>1. 1 \in Nat \ {0}
      OBVIOUS
    <2>2. p = Mapped(Reserve(t, 1, x))
      BY <1>3
    <2> HIDE DEF p
    <2> QED BY <2>1, <2>2, <1>1, MappedReady
  <1> HIDE DEF p
  <1>5. /\ Ready(p, {}) /\ p.avail \in Nat /\ Frame(t, {}, p, {}, {"ranges"})
        /\ Held(p, {}, "ranges") = Held(t, {}, "ranges")
    BY <1>4 DEF RangeMapped
  <1>6. "ranges" \in DOMAIN p.cache /\ NbRanges(p) \in Nat
    BY <1>5, RangesKnown
  <1>7. CASE p.ret = NULL
    <2>1. g = p
      BY <1>2, <1>7 DEF AndThen
    <2>2. LooseLess(t, p, {}) /\ (Grows(t, p) \/ Grown(x, p))
      BY <1>1, <1>4, <1>7 DEF RangeMapped
    <2>3. NbRanges(p) >= 1
      BY <2>2, <1>1, <1>6 DEF Grows, Grown
    <2> QED BY <2>1, <2>2, <2>3, <1>5, <1>7 DEF RangesGrown
  <1>8. CASE p.ret # NULL
    <2> DEFINE d == p.ret
    <2>1. g = AddOnSlab(p, "ranges", d)
      BY <1>2, <1>3, <1>8 DEF AndThen, GrowIn
    <2>2. LooseMore(t, p, d) /\ p.range[d].nb_pages = 1 /\ (FreeLess(t, p, 1) \/ FreeLess(x, p, 1))
      BY <1>4, <1>8 DEF RangeMapped
    <2> HIDE DEF d
    <2>3. d \in Loose(p) /\ p.range[d].nb_pages = Cache["ranges"].pages
      BY <2>2, <1>3 DEF LooseMore
    <2>4. SlabBuilt(p, g, "ranges", d, g.ret) /\ Frame(p, {}, g, {}, {"ranges"})
      BY <2>1, <2>3, <1>3, <1>5, <1>6, OnSlabBuilt
    <2>5. /\ Ready(g, {}) /\ Held(g, {}, "ranges") = Held(p, {}, "ranges")
          /\ NbRanges(g) = NbRanges(p) + Cache["ranges"].objects
          /\ LooseLess(p, g, {d}) /\ g.avail = p.avail /\ g.ret # NULL
          /\ g.free = p.free /\ SameBounds(p, g)
      BY <2>4 DEF SlabBuilt, NbRanges
    <2>6. NbRanges(g) >= 2
      BY <2>5, <1>6, OwnCaches
    <2>7. FreeLess(t, p, 1)
      BY <2>2, <1>1, FreeLessBefore
    <2>8. FreeLess(t, g, 1)
      <3>1. ToSet(p.free) \subseteq DOMAIN p.range
        BY <1>5, FirmHas, ShapeFacts
      <3> QED BY <3>1, <2>5, <2>7, FreeLessAfter
    <2>9. LooseLess(t, g, {})
      BY <2>2, <2>5, LooseUsedUp
    <2>10. Frame(t, {}, g, {}, {"ranges"})
      <3>1. Frame(t, {}, g, {}, {"ranges"} \union {"ranges"})
        BY <2>4, <2>5, <1>5, FrameComposed DEF Ready
      <3> QED BY <3>1
    <2> QED BY <2>5, <2>6, <2>8, <2>9, <2>10, <1>5 DEF RangesGrown
  <1> QED BY <1>7, <1>8

(* What follows the allocation of a descriptor: its cache grows when the   *)
(* reserve starts, or takes the descriptor back.                           *)
LEMMA ReplenishedReady ==
  ASSUME NEW st, Ready(st, {}), st.avail \in Nat,
         NEW t, TakenReady(st, t, "ranges"), NbRanges(t) = 1,
         NEW x, x = Replenished(GrowRanges(t), t.ret)
  PROVE  Describes(st, x) /\ NbRanges(x) >= 2
  <1> DEFINE o == t.ret
             g == GrowRanges(t)
  <1>1. /\ Ready(t, {}) /\ Frame(st, {}, t, {}, {"ranges"})
        /\ o # NULL /\ o \notin Held(st, {}, "ranges")
        /\ Held(t, {}, "ranges") = Held(st, {}, "ranges") \union {o}
        /\ LooseLess(st, t, {}) /\ t.avail = st.avail
        /\ t.free = st.free /\ t.range = st.range
    BY DEF TakenReady, SameRanges, Held
  <1>2. RangesGrown(t, g)
    BY <1>1, GrowRangesReady
  <1>3. x = IF g.ret = NULL THEN Fail(CacheFree(g, o)) ELSE Return(g, o)
    BY DEF Replenished
  <1> HIDE DEF o, g
  <1>4. /\ Ready(g, {}) /\ g.avail \in Nat /\ Frame(t, {}, g, {}, {"ranges"})
        /\ Held(g, {}, "ranges") = Held(t, {}, "ranges") /\ LooseLess(t, g, {})
    BY <1>2 DEF RangesGrown
  <1>5. Frame(st, {}, g, {}, {"ranges"}) /\ LooseLess(st, g, {})
    <2>1. Frame(st, {}, g, {}, {"ranges"} \union {"ranges"})
      BY <1>1, <1>4, FrameComposed DEF Ready
    <2>2. LooseLess(st, g, {} \union {})
      BY <1>1, <1>4, LooseLessComposed
    <2> QED BY <2>1, <2>2
  <1>6. CASE g.ret # NULL
    <2>1. x = Return(g, o)
      BY <1>3, <1>6
    <2>2. Alike(g, x) /\ x.ret = o /\ x.avail = g.avail
      BY <2>1, <1>4, FirmHas, ReturnAlike
    <2>3. Ready(x, {}) /\ Level(g, x)
      BY <2>2, <1>4, AlikeReady, AlikeLevel
    <2>4. Frame(st, {}, x, {}, {"ranges"}) /\ LooseLess(st, x, {})
      BY <2>3, <1>5, LevelAfter
    <2>5. Held(x, {}, "ranges") = Held(st, {}, "ranges") \union {o} /\ NbRanges(x) = NbRanges(g)
      BY <2>3, <1>1, <1>4, LevelParts
    <2>6. NbRanges(g) >= 2 /\ FreeLess(t, g, 1)
      BY <1>2, <1>6 DEF RangesGrown
    <2>7. FreeLess(st, x, 1)
      BY <2>3, <2>6, <1>1 DEF FreeLess, Level
    <2> QED BY <2>2, <2>3, <2>4, <2>5, <2>6, <2>7, <1>1, <1>4 DEF Describes
  <1>7. CASE g.ret = NULL
    <2> DEFINE f == CacheFree(g, o)
    <2>1. x = Fail(f)
      BY <1>3, <1>7
    <2>2. o \in Held(g, {}, "ranges") /\ "ranges" \in DOMAIN g.cache
      BY <1>1, <1>4, RangesKnown
    <2>3. CacheFreed(g, f, {}, "ranges", o)
      BY <2>2, <1>4, CacheFreeReady
    <2> HIDE DEF f
    <2>4. /\ Ready(f, {}) /\ Frame(g, {}, f, {}, {"ranges"})
          /\ Held(f, {}, "ranges") = Held(g, {}, "ranges") \ {o}
          /\ LooseLess(g, f, {}) /\ f.avail = g.avail
          /\ NbRanges(f) >= NbRanges(g) + 1 \/ NbRanges(f) >= 2
      BY <2>3, OwnCaches DEF CacheFreed, NbRanges
    <2>5. NbRanges(g) >= 1 /\ NbRanges(g) \in Nat /\ NbRanges(f) \in Nat
      BY <2>4, <1>2, <1>4, <1>7, RangesKnown DEF RangesGrown
    <2>6. NbRanges(f) >= 2
      BY <2>4, <2>5
    <2>7. Frame(st, {}, f, {}, {"ranges"}) /\ LooseLess(st, f, {})
      <3>1. Frame(st, {}, f, {}, {"ranges"} \union {"ranges"})
        BY <2>4, <1>1, <1>4, <1>5, FrameComposed DEF Ready
      <3>2. LooseLess(st, f, {} \union {})
        BY <2>4, <1>5, LooseLessComposed
      <3> QED BY <3>1, <3>2
    <2>8. Alike(f, x) /\ x.ret = NULL /\ x.avail = f.avail
      BY <2>1, <2>4, FirmHas, ReturnAlike DEF Fail
    <2>9. Ready(x, {}) /\ Level(f, x)
      BY <2>4, <2>8, AlikeReady, AlikeLevel
    <2>10. Frame(st, {}, x, {}, {"ranges"}) /\ LooseLess(st, x, {})
      BY <2>7, <2>9, LevelAfter
    <2>11. Held(x, {}, "ranges") = Held(st, {}, "ranges") /\ NbRanges(x) = NbRanges(f)
      BY <2>4, <2>9, <1>1, <1>4, LevelParts
    <2> QED BY <2>4, <2>6, <2>8, <2>9, <2>10, <2>11, <1>4 DEF Describes
  <1> QED BY <1>6, <1>7

(* A descriptor is allocated, and the reserve of descriptors is kept,      *)
(* whether it is or not.                                                   *)
LEMMA DescribeReady ==
  ASSUME NEW st, Ready(st, {}), st.avail \in Nat, NbRanges(st) >= 2, NEW x, x = Describe(st)
  PROVE  Describes(st, x) /\ NbRanges(x) >= 2
  <1> DEFINE ready == WithFree(st, "ranges", GrowRanges(st))
             t == TakeObject(ready, "ranges")
  <1>1. "ranges" \in DOMAIN st.cache /\ HasFreeObject(st, "ranges") /\ NbRanges(st) \in Nat
    BY RangesKnown
  <1>2. ready.ret # NULL /\ TakenReady(st, t, "ranges")
    BY <1>1, TakenFromHead
  <1>3. x = AndThen(ready, LAMBDA y : TakeDescriptor(TakeObject(y, "ranges")))
    BY DEF Describe
  <1> HIDE DEF ready
  <1>4. x = TakeDescriptor(t)
    BY <1>2, <1>3 DEF AndThen
  <1> HIDE DEF t
  <1>5. Describes(st, t) /\ NbRanges(t) = NbRanges(st) - 1
    BY <1>2, TakenDescribes
  <1>6. StartsReserve(t, "ranges") <=> NbRanges(t) = 1
    BY <1>5, RangesKnown DEF Describes
  <1>7. CASE NbRanges(t) = 1
    <2>1. x = Replenished(GrowRanges(t), t.ret)
      BY <1>4, <1>6, <1>7 DEF TakeDescriptor, KeepReserve
    <2> QED BY <2>1, <1>2, <1>7, ReplenishedReady
  <1>8. CASE NbRanges(t) # 1
    <2>1. x = t
      BY <1>4, <1>6, <1>8 DEF TakeDescriptor, KeepReserve
    <2>2. NbRanges(t) >= 2
      BY <1>1, <1>5, <1>8
    <2> QED BY <2>1, <2>2, <1>5
  <1> QED BY <1>7, <1>8

(* A range that is allocated. *)
RangeTaken(st, p, nb) ==
  /\ Ready(p, {}) /\ p.avail \in Nat /\ NbRanges(p) >= 2 /\ Frame(st, {}, p, {}, {})
  /\ \/ p.ret = NULL /\ LooseLess(st, p, {})
     \/ p.ret # NULL /\ LooseMore(st, p, p.ret) /\ p.range[p.ret].nb_pages = nb

(* sos_kmem_vmm_new_range() gives a used range, mapped and apart from all  *)
(* others, or none; even when its descriptor takes a new slab, the cache   *)
(* of ranges keeps its reserve and no other range or object is lost.       *)
THEOREM NewRangeReady ==
  ASSUME NEW st, Ready(st, {}), st.avail \in Nat, NbRanges(st) >= 2, NEW nb \in Nat \ {0},
         NEW p, p = NewRange(st, nb)
  PROVE  RangeTaken(st, p, nb)
  <1> DEFINE x == Describe(st)
  <1>1. Describes(st, x) /\ NbRanges(x) >= 2
    BY DescribeReady
  <1>2. p = Mapped(Reserve(st, nb, x))
    BY DEF NewRange, ReserveRange
  <1> HIDE DEF x
  <1>3. RangeMapped(st, x, p, nb)
    BY <1>1, <1>2, MappedReady
  <1>4. NbRanges(st) \in Nat /\ NbRanges(x) \in Nat /\ NbRanges(p) \in Nat
    BY <1>1, <1>3, RangesKnown DEF Describes, RangeMapped
  <1>5. NbRanges(p) >= 2
    BY <1>1, <1>3, <1>4 DEF RangeMapped, Grows, Grown
  <1>6. Frame(st, {}, p, {}, {})
    <2>1. Stocked(st, p, "ranges") /\ Tidy(p, {}, "ranges")
      BY <1>5, OwnCaches DEF Stocked, Tidy, NbRanges
    <2> QED BY <2>1, <1>3 DEF RangeMapped, Frame
  <1> QED BY <1>3, <1>5, <1>6 DEF RangeMapped, RangeTaken

(* The growth of a cache. *)
CacheGrown(st, n, c) ==
  /\ Ready(n, {}) /\ n.avail \in Nat /\ NbRanges(n) >= 2 /\ LooseLess(st, n, {})
  /\ \/ n.ret = NULL /\ Frame(st, {}, n, {}, {})
     \/ /\ n.ret # NULL /\ Frame(st, {}, n, {}, {c}) /\ Held(n, {}, c) = Held(st, {}, c)
        /\ n.cache[c].nb_free >= Cache[c].objects
        /\ Tidy(st, {}, c) => Tidy(n, {Head(n.cache[c].slab_list)}, c)

(* A cache other than that of the descriptors grows in its new range. *)
LEMMA GrowInReady ==
  ASSUME NEW st, Ready(st, {}), NEW c \in DOMAIN st.cache, c # "ranges", Cache[c].onslab,
         NEW p, RangeTaken(st, p, Cache[c].pages),
         NEW n, n = IF p.ret = NULL THEN p ELSE AddOnSlab(p, c, p.ret)
  PROVE  CacheGrown(st, n, c)
  <1>1. Ready(p, {}) /\ p.avail \in Nat /\ NbRanges(p) >= 2 /\ Frame(st, {}, p, {}, {})
    BY DEF RangeTaken
  <1>2. CASE p.ret = NULL
    <2>1. LooseLess(st, p, {}) /\ n = p
      BY <1>2 DEF RangeTaken
    <2> QED BY <2>1, <1>1, <1>2 DEF CacheGrown
  <1>3. CASE p.ret # NULL
    <2> DEFINE d == p.ret
    <2>1. n = AddOnSlab(p, c, d)
      BY <1>3
    <2>2. LooseMore(st, p, d) /\ p.range[d].nb_pages = Cache[c].pages
      BY <1>3 DEF RangeTaken
    <2> HIDE DEF d
    <2>3. d \in Loose(p) /\ c \in DOMAIN p.cache
      BY <2>2, <1>1 DEF LooseMore, Frame
    <2>4. SlabBuilt(p, n, c, d, n.ret) /\ Frame(p, {}, n, {}, {c})
      BY <2>1, <2>2, <2>3, <1>1, OnSlabBuilt
    <2>5. /\ Ready(n, {}) /\ LooseLess(p, n, {d}) /\ n.avail = p.avail /\ n.ret # NULL
          /\ n.cache[c].nb_free = p.cache[c].nb_free + Cache[c].objects
          /\ Head(n.cache[c].slab_list) = n.ret
          /\ Tidy(p, {}, c) => Tidy(n, {n.ret}, c)
          /\ Only(p, n, {c})
      BY <2>4 DEF SlabBuilt
    <2>6. Held(n, {}, c) = Held(p, {}, c)
      BY <2>4, <1>3 DEF SlabBuilt
    <2>7. Frame(st, {}, n, {}, {c})
      <3>1. Frame(st, {}, n, {}, {} \union {c})
        BY <2>4, <2>5, <1>1, FrameComposed DEF Ready
      <3> QED BY <3>1
    <2>8. Held(p, {}, c) = Held(st, {}, c) /\ (Tidy(st, {}, c) => Tidy(p, {}, c))
      BY <1>1 DEF Frame
    <2>9. NbRanges(n) >= 2
      <3>1. "ranges" \in DOMAIN p.cache
        BY <1>1, RangesKnown
      <3> QED BY <3>1, <2>5, <1>1 DEF Only, NbRanges
    <2>10. LooseLess(st, n, {})
      BY <2>2, <2>5, LooseUsedUp
    <2>11. n.cache[c].nb_free >= Cache[c].objects
      BY <2>3, <2>5, <1>1, FirmHas, Counts
    <2> QED BY <2>5, <2>6, <2>7, <2>8, <2>9, <2>10, <2>11, <1>1 DEF CacheGrown
  <1> QED BY <1>2, <1>3

(* The object that a cache gives, with the reserve begun or not. *)
ObjectGiven(st, t, c) ==
  /\ Ready(t, {}) /\ t.avail \in Nat /\ NbRanges(t) >= 2 /\ LooseLess(st, t, {})
  /\ Frame(st, {}, t, {}, {c})
  /\ t.ret # NULL /\ t.ret \notin Held(st, {}, c)
  /\ Held(t, {}, c) = Held(st, {}, c) \union {t.ret}
  /\ Tidy(st, {}, c) => Tidy(t, {}, c)
  /\ t.cache[c].nb_free >= Cache[c].min - 1

(* A slab more that nothing is said of. *)
LEMMA TidyLess ==
  ASSUME NEW st, NEW c, Tidy(st, {}, c), NEW s
  PROVE  Tidy(st, {s}, c)
  BY DEF Tidy

(* An object is given: it was free, or the cache has grown by a slab for   *)
(* it.                                                                     *)
LEMMA GivenReady ==
  ASSUME NEW st, Ready(st, {}), st.avail \in Nat, NbRanges(st) >= 2,
         NEW c \in DOMAIN st.cache, c # "ranges", st.cache[c].nb_free >= Cache[c].min,
         NEW grown, ~ HasFreeObject(st, c) => CacheGrown(st, grown, c),
         NEW ready, ready = WithFree(st, c, grown), ready.ret # NULL,
         NEW t, t = TakeObject(ready, c)
  PROVE  ObjectGiven(st, t, c)
  <1>1. /\ st.cache[c].nb_free \in Nat /\ Cache[c].min \in Nat /\ Cache[c].objects \in Nat \ {0}
        /\ Cache[c].min <= Cache[c].objects
    BY FirmHas, Counts
  <1>2. "ranges" \in DOMAIN st.cache
    BY RangesKnown
  <1>3. CASE HasFreeObject(st, c)
    <2>1. TakenReady(st, t, c)
      BY <1>3, TakenFromHead
    <2>2. /\ Ready(t, {}) /\ Frame(st, {}, t, {}, {c}) /\ t.ret # NULL /\ t.ret \notin TakenIn(st, c)
          /\ Held(t, {}, c) = Held(st, {}, c) \union {t.ret}
          /\ t.cache[c].nb_free = st.cache[c].nb_free - 1
          /\ Tidy(st, {Head(st.cache[c].slab_list)}, c) => Tidy(t, {}, c)
          /\ LooseLess(st, t, {}) /\ t.avail = st.avail /\ Only(st, t, {c})
      BY <2>1 DEF TakenReady
    <2>3. NbRanges(t) >= 2
      BY <2>2, <1>2 DEF Only, NbRanges
    <2>4. t.ret \notin Held(st, {}, c)
      BY <2>2 DEF Held
    <2>5. Tidy(st, {}, c) => Tidy(t, {}, c)
      BY <2>2, TidyLess
    <2>6. t.cache[c].nb_free >= Cache[c].min - 1
      BY <2>2, <1>1
    <2> QED BY <2>2, <2>3, <2>4, <2>5, <2>6 DEF ObjectGiven
  <1>4. CASE ~ HasFreeObject(st, c)
    <2>1. ready = grown
      BY <1>4 DEF WithFree
    <2>2. /\ Ready(ready, {}) /\ ready.avail \in Nat /\ NbRanges(ready) >= 2 /\ LooseLess(st, ready, {})
          /\ Frame(st, {}, ready, {}, {c}) /\ Held(ready, {}, c) = Held(st, {}, c)
          /\ ready.cache[c].nb_free >= Cache[c].objects
          /\ Tidy(st, {}, c) => Tidy(ready, {Head(ready.cache[c].slab_list)}, c)
      BY <2>1, <1>4 DEF CacheGrown
    <2>3. c \in DOMAIN ready.cache
      BY <2>2 DEF Frame
    <2>4. HasFreeObject(ready, c) /\ ready.cache[c].nb_free \in Nat
      <3>1. ready.cache[c].nb_free \in Nat
        BY <2>2, <2>3, FirmHas, Counts
      <3>2. ready.cache[c].nb_free # 0
        BY <3>1, <2>2, <1>1
      <3> QED BY <3>1, <3>2, <2>2, <2>3, FirmHas, HasFreeFound
    <2>5. TakenReady(ready, t, c)
      BY <2>2, <2>3, <2>4, TakeObjectReady
    <2>6. /\ Ready(t, {}) /\ Frame(ready, {}, t, {}, {c}) /\ t.ret # NULL /\ t.ret \notin TakenIn(ready, c)
          /\ Held(t, {}, c) = Held(ready, {}, c) \union {t.ret}
          /\ t.cache[c].nb_free = ready.cache[c].nb_free - 1
          /\ Tidy(ready, {Head(ready.cache[c].slab_list)}, c) => Tidy(t, {}, c)
          /\ LooseLess(ready, t, {}) /\ t.avail = ready.avail /\ Only(ready, t, {c})
      BY <2>5 DEF TakenReady
    <2>7. NbRanges(t) >= 2
      <3>1. "ranges" \in DOMAIN ready.cache
        BY <2>2, RangesKnown
      <3> QED BY <3>1, <2>2, <2>6 DEF Only, NbRanges
    <2>8. t.ret \notin Held(st, {}, c)
      BY <2>2, <2>6 DEF Held
    <2>9. t.cache[c].nb_free >= Cache[c].min - 1
      BY <2>2, <2>4, <2>6, <1>1
    <2>10. Frame(st, {}, t, {}, {c}) /\ LooseLess(st, t, {})
      <3>1. Frame(st, {}, t, {}, {c} \union {c})
        BY <2>2, <2>6, FrameComposed DEF Ready
      <3>2. LooseLess(st, t, {} \union {})
        BY <2>2, <2>6, LooseLessComposed
      <3> QED BY <3>1, <3>2
    <2> QED BY <2>2, <2>6, <2>7, <2>8, <2>9, <2>10 DEF ObjectGiven
  <1> QED BY <1>3, <1>4

-----------------------------------------------------------------------------
(* SOS_KMEM_CACHE_ALLOC()                                                  *)

(* sos_kmem_cache_alloc() *)
Allocated(st, x, c) ==
  /\ Ready(x, {}) /\ x.avail \in Nat /\ NbRanges(x) >= 2 /\ LooseLess(st, x, {})
  /\ Frame(st, {}, x, {}, {c})
  /\ x.cache[c].nb_free >= Cache[c].min
  /\ Tidy(st, {}, c) => Tidy(x, {}, c)
  /\ \/ x.ret = NULL /\ Held(x, {}, c) = Held(st, {}, c)
     \/ x.ret # NULL /\ x.ret \notin Held(st, {}, c) /\ Held(x, {}, c) = Held(st, {}, c) \union {x.ret}

(* A growth that fails is an allocation that fails. *)
LEMMA NotGrown ==
  ASSUME NEW st, Ready(st, {}), NEW c \in DOMAIN st.cache, st.cache[c].nb_free >= Cache[c].min,
         NEW x, CacheGrown(st, x, c), x.ret = NULL
  PROVE  Allocated(st, x, c)
  <1>1. /\ Ready(x, {}) /\ x.avail \in Nat /\ NbRanges(x) >= 2 /\ LooseLess(st, x, {})
        /\ Frame(st, {}, x, {}, {})
    BY DEF CacheGrown
  <1>2. Frame(st, {}, x, {}, {c})
    BY <1>1, FrameLess
  <1>3. /\ Held(x, {}, c) = Held(st, {}, c) /\ (Tidy(st, {}, c) => Tidy(x, {}, c))
        /\ Stocked(st, x, c) /\ c \in DOMAIN x.cache
    BY <1>1 DEF Frame
  <1>4. x.cache[c].nb_free >= Cache[c].min
    <2>1. /\ st.cache[c].nb_free \in Nat /\ Cache[c].min \in Nat /\ x.cache[c].nb_free \in Nat
      BY <1>1, <1>3, FirmHas, Counts
    <2> QED BY <2>1, <1>3 DEF Stocked
  <1> QED BY <1>1, <1>2, <1>3, <1>4 DEF Allocated

(* The object that is given, when no reserve starts. *)
LEMMA GivenAllocated ==
  ASSUME NEW st, NEW t, NEW c, ObjectGiven(st, t, c), t.cache[c].nb_free >= Cache[c].min
  PROVE  Allocated(st, t, c)
  BY DEF ObjectGiven, Allocated

(* A range for a slab of any cache, while the cache of ranges has its      *)
(* reserve.                                                                *)
LEMMA NewRangeIn ==
  ASSUME NEW st, Ready(st, {}), st.avail \in Nat, NbRanges(st) >= 2, NEW c \in DOMAIN st.cache
  PROVE  RangeTaken(st, NewRange(st, Cache[c].pages), Cache[c].pages)
  <1>1. Cache[c].pages \in Nat \ {0}
    BY FirmHas, Counts, GeometryFits
  <1> QED BY <1>1, NewRangeReady

(* The structure of a slab is an object that no other slab uses, or there  *)
(* is none.                                                                *)
LEMMA StructureReady ==
  ASSUME NEW st, Ready(st, {}), st.avail \in Nat, NbRanges(st) >= 2, NEW x, x = Structure(st)
  PROVE  Allocated(st, x, "kslabs")
  <1> DEFINE p == NewRange(st, Cache["kslabs"].pages)
             grown == GrowStructures(st)
             ready == WithFree(st, "kslabs", grown)
             t == TakeObject(ready, "kslabs")
  <1>1. /\ "kslabs" \in DOMAIN st.cache /\ Cache["kslabs"].onslab /\ Cache["kslabs"].min = 0
        /\ st.cache["kslabs"].nb_free \in Nat
    BY FirmHas, OwnCaches, Counts DEF OwnNames
  <1>2. RangeTaken(st, p, Cache["kslabs"].pages)
    BY <1>1, NewRangeIn
  <1>3. grown = AndThen(p, LAMBDA new : GrowIn(new, "kslabs", TooDeep))
    BY DEF GrowStructures
  <1> HIDE DEF p, grown
  <1>4. grown = IF p.ret = NULL THEN p ELSE AddOnSlab(p, "kslabs", p.ret)
    BY <1>1, <1>3 DEF AndThen, GrowIn
  <1>5. CacheGrown(st, grown, "kslabs")
    BY <1>1, <1>2, <1>4, GrowInReady
  <1>6. st.cache["kslabs"].nb_free >= Cache["kslabs"].min
    BY <1>1
  <1>7. x = AndThen(ready, LAMBDA y : KeepReserve(TakeObject(y, "kslabs"), "kslabs", TooDeep))
    BY DEF Structure, ready, grown
  <1>8. ready = WithFree(st, "kslabs", grown)
    OBVIOUS
  <1> HIDE DEF ready
  <1>9. CASE ready.ret = NULL
    <2>1. ~ HasFreeObject(st, "kslabs")
      BY <1>1, <1>8, <1>9, TakenFromHead
    <2>2. x = grown /\ grown.ret = NULL
      BY <2>1, <1>7, <1>8, <1>9 DEF WithFree, AndThen
    <2> QED BY <2>2, <1>1, <1>5, <1>6, NotGrown
  <1>10. CASE ready.ret # NULL
    <2>1. x = KeepReserve(t, "kslabs", TooDeep)
      BY <1>7, <1>10 DEF AndThen
    <2>2. ObjectGiven(st, t, "kslabs")
      BY <1>1, <1>5, <1>6, <1>8, <1>10, GivenReady
    <2> HIDE DEF t
    <2>3. ~ StartsReserve(t, "kslabs")
      BY <1>1 DEF StartsReserve
    <2>4. x = t
      BY <2>1, <2>3 DEF KeepReserve
    <2>5. t.cache["kslabs"].nb_free >= Cache["kslabs"].min
      <3>1. Ready(t, {}) /\ "kslabs" \in DOMAIN t.cache
        BY <2>2, FirmHas DEF ObjectGiven, OwnNames
      <3>2. t.cache["kslabs"].nb_free \in Nat
        BY <3>1, FirmHas, Counts
      <3> QED BY <3>2, <1>1
    <2> QED BY <2>2, <2>4, <2>5, GivenAllocated
  <1> QED BY <1>9, <1>10

(* The range of a slab that gets no structure is deleted. *)
LEMMA NoStructure ==
  ASSUME NEW st, NEW c \in DOMAIN st.cache, NEW p, RangeTaken(st, p, Cache[c].pages), p.ret # NULL, Ready(st, {}),
         NEW x, Allocated(p, x, "kslabs"), x.ret = NULL,
         NEW n, n = Fail(DelRange(x, p.ret))
  PROVE  CacheGrown(st, n, c)
  <1> DEFINE d == p.ret
             y == DelRange(x, d)
  <1>1. /\ Ready(p, {}) /\ Frame(st, {}, p, {}, {}) /\ LooseMore(st, p, d)
    BY DEF RangeTaken
  <1>2. /\ Ready(x, {}) /\ x.avail \in Nat /\ NbRanges(x) >= 2 /\ LooseLess(p, x, {})
        /\ Frame(p, {}, x, {}, {"kslabs"})
        /\ x.cache["kslabs"].nb_free >= Cache["kslabs"].min
        /\ Tidy(p, {}, "kslabs") => Tidy(x, {}, "kslabs")
        /\ Held(x, {}, "kslabs") = Held(p, {}, "kslabs")
    BY DEF Allocated
  <1>3. n = Fail(y)
    OBVIOUS
  <1> HIDE DEF d
  <1>4. d \in Loose(x) /\ d \in ToSet(x.used) /\ x.range[d].slab = NULL
    BY <1>1, <1>2 DEF LooseMore, LooseLess, Loose
  <1>5. Deleted(x, y, {}, d)
    <2>1. Firm(x, {}) /\ Coalesced(x) /\ x.ranges_to_free = <<>> /\ AllMapped(x)
      BY <1>2, FirmHas
    <2> QED BY <2>1, <1>4, DelRangeDeletes DEF AllMapped
  <1> HIDE DEF y
  <1>6. /\ Ready(y, {}) /\ Frame(x, {}, y, {}, {}) /\ LooseLess(x, y, {d}) /\ y.avail = x.avail
    BY <1>2, <1>5, DeletedFrame DEF Ready
  <1>7. Frame(p, {}, x, {}, {})
    <2>1. Stocked(p, x, "kslabs")
      BY <1>2 DEF Stocked
    <2> QED BY <2>1, <1>2 DEF Frame
  <1>8. Frame(st, {}, y, {}, {})
    <2>1. Ready(st, {})
      OBVIOUS
    <2>2. Frame(st, {}, x, {}, {} \union {})
      BY <1>1, <1>2, <1>7, FrameComposed DEF Ready
    <2>3. Frame(st, {}, y, {}, ({} \union {}) \union {})
      BY <2>2, <1>2, <1>6, FrameComposed DEF Ready
    <2> QED BY <2>3
  <1>9. LooseLess(st, y, {})
    <2>1. LooseMore(st, x, d)
      BY <1>1, <1>2 DEF LooseMore, LooseLess
    <2> QED BY <2>1, <1>6, LooseUsedUp
  <1>10. NbRanges(y) >= 2
    <2>1. "ranges" \in DOMAIN x.cache /\ Stocked(x, y, "ranges")
      BY <1>2, <1>6, RangesKnown DEF Frame
    <2>2. NbRanges(x) \in Nat /\ NbRanges(y) \in Nat /\ Cache["ranges"].min = 2
      BY <1>2, <1>6, RangesKnown, OwnCaches
    <2> QED BY <2>1, <2>2, <1>2 DEF Stocked, NbRanges
  <1>11. Alike(y, n) /\ n.ret = NULL /\ n.avail = y.avail
    BY <1>3, <1>6, FirmHas, ReturnAlike DEF Fail
  <1>12. Ready(n, {}) /\ Level(y, n)
    BY <1>6, <1>11, AlikeReady, AlikeLevel
  <1>13. Frame(st, {}, n, {}, {}) /\ LooseLess(st, n, {}) /\ NbRanges(n) = NbRanges(y)
    BY <1>8, <1>9, <1>12, LevelAfter, LevelParts
  <1> QED BY <1>2, <1>6, <1>10, <1>11, <1>12, <1>13 DEF CacheGrown

(* The slab whose structure is an object. *)
LEMMA StructureUsed ==
  ASSUME NEW st, NEW c \in DOMAIN st.cache, c \notin OwnNames, ~ Cache[c].onslab, Ready(st, {}),
         NEW p, RangeTaken(st, p, Cache[c].pages), p.ret # NULL,
         NEW x, Allocated(p, x, "kslabs"), x.ret # NULL,
         NEW n, n = AddSlab(x, c, x.range[p.ret].base, p.ret, x.ret)
  PROVE  CacheGrown(st, n, c)
  <1> DEFINE d == p.ret
             s == x.ret
  <1>1. /\ Ready(p, {}) /\ Frame(st, {}, p, {}, {}) /\ LooseMore(st, p, d)
        /\ p.range[d].nb_pages = Cache[c].pages
    BY DEF RangeTaken
  <1>2. /\ Ready(x, {}) /\ x.avail \in Nat /\ NbRanges(x) >= 2 /\ LooseLess(p, x, {})
        /\ Frame(p, {}, x, {}, {"kslabs"})
        /\ Tidy(p, {}, "kslabs") => Tidy(x, {}, "kslabs")
        /\ s # NULL /\ s \notin Held(p, {}, "kslabs")
        /\ Held(x, {}, "kslabs") = Held(p, {}, "kslabs") \union {s}
    BY DEF Allocated
  <1>3. n = AddSlab(x, c, x.range[d].base, d, s)
    OBVIOUS
  <1> HIDE DEF d, s
  <1>4. d \in Loose(x) /\ x.range[d].nb_pages = Cache[c].pages
    BY <1>1, <1>2 DEF LooseMore, LooseLess
  <1>5. /\ c \in DOMAIN p.cache /\ c \in DOMAIN x.cache /\ c # "kslabs" /\ c # "ranges"
        /\ "kslabs" \in DOMAIN p.cache /\ "kslabs" \in DOMAIN x.cache /\ "ranges" \in DOMAIN x.cache
    BY <1>1, <1>2, FirmHas DEF Frame, OwnNames
  <1>6. SlabFor(x, c, d, s)
    BY <1>2 DEF SlabFor
  <1>7. SlabBuilt(x, n, c, d, s)
    BY <1>2, <1>3, <1>4, <1>5, <1>6, AddSlabReady
  <1>8. /\ Ready(n, {}) /\ Frame(x, {}, n, {}, {c, "kslabs"})
        /\ Held(n, {}, "kslabs") = Held(x, {}, "kslabs") \ {s}
        /\ Held(n, {}, c) = Held(x, {}, c)
        /\ n.cache["kslabs"] = x.cache["kslabs"]
        /\ Tidy(x, {}, "kslabs") => Tidy(n, {}, "kslabs")
        /\ n.cache[c].nb_free = x.cache[c].nb_free + Cache[c].objects
        /\ Head(n.cache[c].slab_list) = s
        /\ Tidy(x, {}, c) => Tidy(n, {s}, c)
        /\ LooseLess(x, n, {d}) /\ n.avail = x.avail /\ Only(x, n, {c})
        /\ n.ret = s
    BY <1>5, <1>7 DEF SlabBuilt
  <1>9. Frame(p, {}, n, {}, {"kslabs"} \union {c, "kslabs"})
    BY <1>1, <1>2, <1>8, FrameComposed DEF Ready
  <1>10. Stocked(p, n, "kslabs")
    <2>1. "kslabs" \in DOMAIN n.cache
      BY <1>5, <1>8 DEF Frame
    <2>2. n.cache["kslabs"].nb_free \in Nat /\ Cache["kslabs"].min = 0
      BY <2>1, <1>8, FirmHas, Counts, OwnCaches
    <2> QED BY <2>2 DEF Stocked
  <1>11. Frame(p, {}, n, {}, {c})
    BY <1>2, <1>8, <1>9, <1>10 DEF Frame
  <1>12. Frame(st, {}, n, {}, {c})
    <2>1. Frame(st, {}, n, {}, {} \union {c})
      BY <1>1, <1>8, <1>11, FrameComposed DEF Ready
    <2> QED BY <2>1
  <1>13. /\ Held(p, {}, c) = Held(st, {}, c) /\ (Tidy(st, {}, c) => Tidy(p, {}, c))
         /\ Held(x, {}, c) = Held(p, {}, c) /\ (Tidy(p, {}, c) => Tidy(x, {}, c))
    BY <1>1, <1>2, <1>5 DEF Frame
  <1>14. LooseLess(st, n, {})
    <2>1. LooseMore(st, x, d)
      BY <1>1, <1>2 DEF LooseMore, LooseLess
    <2> QED BY <2>1, <1>8, LooseUsedUp
  <1>15. NbRanges(n) >= 2
    <2>1. n.cache["ranges"] = x.cache["ranges"]
      BY <1>5, <1>8 DEF Only
    <2> QED BY <2>1, <1>2 DEF NbRanges
  <1>16. n.cache[c].nb_free >= Cache[c].objects
    <2>1. CachesOK(x, {}) /\ Placed(x, {})
      BY <1>2, FirmHas
    <2>2. x.cache[c].nb_free \in Nat /\ Cache[c].objects \in Nat
      BY <2>1, <1>5, Counts
    <2> QED BY <2>2, <1>8
  <1> QED BY <1>2, <1>8, <1>12, <1>13, <1>14, <1>15, <1>16 DEF CacheGrown

(* cache_grow() adds a slab to the cache, with its range and its           *)
(* structure, or fails and leaves no trace but a slab of descriptors or of *)
(* structures.                                                             *)
THEOREM CacheGrowReady ==
  ASSUME NEW st, Ready(st, {}), st.avail \in Nat, NbRanges(st) >= 2,
         NEW c \in DOMAIN st.cache, c # "ranges", c # "kslabs",
         NEW n, n = CacheGrow(st, c)
  PROVE  CacheGrown(st, n, c)
  <1> DEFINE p == NewRange(st, Cache[c].pages)
             x == Structure(p)
  <1>1. RangeTaken(st, p, Cache[c].pages)
    BY NewRangeIn
  <1>2. n = AndThen(p, LAMBDA new : GrowIn(new, c, GrowOffSlab(Structure(new), c, new.ret)))
    BY DEF CacheGrow
  <1> HIDE DEF p
  <1>3. CASE p.ret = NULL
    <2>1. n = p
      BY <1>2, <1>3 DEF AndThen
    <2>2. /\ Ready(p, {}) /\ p.avail \in Nat /\ NbRanges(p) >= 2 /\ Frame(st, {}, p, {}, {})
          /\ LooseLess(st, p, {})
      BY <1>1, <1>3 DEF RangeTaken
    <2> QED BY <2>1, <2>2, <1>3 DEF CacheGrown
  <1>4. CASE p.ret # NULL /\ Cache[c].onslab
    <2>1. n = AddOnSlab(p, c, p.ret)
      BY <1>2, <1>4 DEF AndThen, GrowIn
    <2> QED BY <2>1, <1>1, <1>4, GrowInReady
  <1>5. CASE p.ret # NULL /\ ~ Cache[c].onslab
    <2>1. n = GrowOffSlab(x, c, p.ret)
      BY <1>2, <1>5 DEF AndThen, GrowIn
    <2>2. c \notin OwnNames
      BY <1>5, OwnCaches DEF OwnNames
    <2>3. Allocated(p, x, "kslabs")
      BY <1>1, StructureReady DEF RangeTaken
    <2> HIDE DEF x
    <2>4. CASE x.ret = NULL
      <3>1. n = Fail(DelRange(x, p.ret))
        BY <2>1, <2>4 DEF GrowOffSlab
      <3> QED BY <3>1, <2>3, <2>4, <1>1, <1>5, NoStructure
    <2>5. CASE x.ret # NULL
      <3>1. n = AddSlab(x, c, x.range[p.ret].base, p.ret, x.ret)
        BY <2>1, <2>5 DEF GrowOffSlab
      <3> QED BY <3>1, <2>2, <2>3, <2>5, <1>1, <1>5, StructureUsed
    <2> QED BY <2>4, <2>5
  <1> QED BY <1>3, <1>4, <1>5

(* The cache grows when its reserve starts, or takes the object back. *)
LEMMA ReplenishedAllocated ==
  ASSUME NEW st, Ready(st, {}), NEW c \in DOMAIN st.cache, c # "ranges", c # "kslabs",
         NEW t, ObjectGiven(st, t, c), Cache[c].min > 0,
         NEW x, x = Replenished(CacheGrow(t, c), t.ret)
  PROVE  Allocated(st, x, c)
  <1> DEFINE o == t.ret
             g == CacheGrow(t, c)
  <1>1. /\ Ready(t, {}) /\ t.avail \in Nat /\ NbRanges(t) >= 2 /\ LooseLess(st, t, {})
        /\ Frame(st, {}, t, {}, {c})
        /\ o # NULL /\ o \notin Held(st, {}, c)
        /\ Held(t, {}, c) = Held(st, {}, c) \union {o}
        /\ t.cache[c].nb_free >= Cache[c].min - 1
    BY DEF ObjectGiven
  <1>2. c \in DOMAIN t.cache
    BY <1>1 DEF Frame
  <1>3. CacheGrown(t, g, c)
    BY <1>1, <1>2, CacheGrowReady
  <1>4. x = IF g.ret = NULL THEN Fail(CacheFree(g, o)) ELSE Return(g, o)
    BY DEF Replenished
  <1> HIDE DEF o, g
  <1>5. /\ Ready(g, {}) /\ g.avail \in Nat /\ NbRanges(g) >= 2 /\ LooseLess(t, g, {})
        /\ Frame(t, {}, g, {}, {c}) /\ Held(g, {}, c) = Held(t, {}, c)
    <2>1. CASE g.ret = NULL
      <3>1. Frame(t, {}, g, {}, {})
        BY <2>1, <1>3 DEF CacheGrown
      <3>2. Frame(t, {}, g, {}, {c})
        BY <3>1, FrameLess
      <3>3. Held(g, {}, c) = Held(t, {}, c)
        BY <3>1, <1>2 DEF Frame
      <3> QED BY <3>2, <3>3, <1>3 DEF CacheGrown
    <2>2. CASE g.ret # NULL
      BY <2>2, <1>3 DEF CacheGrown
    <2> QED BY <2>1, <2>2
  <1>6. Frame(st, {}, g, {}, {c}) /\ LooseLess(st, g, {})
    <2>1. Frame(st, {}, g, {}, {c} \union {c})
      BY <1>1, <1>5, FrameComposed DEF Ready
    <2>2. LooseLess(st, g, {} \union {})
      BY <1>1, <1>5, LooseLessComposed
    <2> QED BY <2>1, <2>2
  <1>7. /\ c \in DOMAIN g.cache /\ g.cache[c].nb_free \in Nat /\ t.cache[c].nb_free \in Nat
        /\ Cache[c].min \in Nat /\ Cache[c].objects \in Nat /\ Cache[c].min <= Cache[c].objects
    BY <1>1, <1>2, <1>5, FirmHas, Counts DEF Frame
  <1>8. \A y : Tidy(y, {}, c)
    BY <1>7 DEF Tidy
  <1>9. CASE g.ret # NULL
    <2>1. x = Return(g, o)
      BY <1>4, <1>9
    <2>2. Alike(g, x) /\ x.ret = o /\ x.avail = g.avail
      BY <2>1, <1>5, FirmHas, ReturnAlike
    <2>3. Ready(x, {}) /\ Level(g, x)
      BY <2>2, <1>5, AlikeReady, AlikeLevel
    <2>4. Frame(st, {}, x, {}, {c}) /\ LooseLess(st, x, {})
      BY <2>3, <1>6, LevelAfter
    <2>5. Held(x, {}, c) = Held(st, {}, c) \union {o} /\ NbRanges(x) = NbRanges(g)
      BY <2>3, <1>1, <1>5, LevelParts
    <2>6. x.cache[c].nb_free >= Cache[c].min
      <3>1. g.cache[c].nb_free >= Cache[c].objects
        BY <1>3, <1>9 DEF CacheGrown
      <3> QED BY <3>1, <2>3, <1>7 DEF Level
    <2> QED BY <2>2, <2>3, <2>4, <2>5, <2>6, <1>1, <1>5, <1>8 DEF Allocated
  <1>10. CASE g.ret = NULL
    <2> DEFINE f == CacheFree(g, o)
    <2>1. x = Fail(f)
      BY <1>4, <1>10
    <2>2. o \in Held(g, {}, c)
      BY <1>1, <1>5
    <2>3. CacheFreed(g, f, {}, c, o)
      BY <2>2, <1>5, <1>7, CacheFreeReady
    <2> HIDE DEF f
    <2>4. /\ Ready(f, {}) /\ Frame(g, {}, f, {}, {c})
          /\ Held(f, {}, c) = Held(g, {}, c) \ {o}
          /\ LooseLess(g, f, {}) /\ f.avail = g.avail
          /\ f.cache[c].nb_free >= g.cache[c].nb_free + 1 \/ f.cache[c].nb_free >= Cache[c].min
      BY <2>3 DEF CacheFreed
    <2>5. g.cache[c].nb_free >= Cache[c].min - 1
      <3>1. Frame(t, {}, g, {}, {})
        BY <1>3, <1>10 DEF CacheGrown
      <3>2. Stocked(t, g, c)
        BY <3>1, <1>2 DEF Frame
      <3> QED BY <3>2, <1>1, <1>7 DEF Stocked
    <2>6. f.cache[c].nb_free >= Cache[c].min
      <3>1. f.cache[c].nb_free \in Nat
        BY <2>4, <1>7, FirmHas, Counts DEF Frame
      <3> QED BY <3>1, <2>4, <2>5, <1>7
    <2>7. Frame(st, {}, f, {}, {c}) /\ LooseLess(st, f, {})
      <3>1. Frame(st, {}, f, {}, {c} \union {c})
        BY <2>4, <1>5, <1>6, FrameComposed DEF Ready
      <3>2. LooseLess(st, f, {} \union {})
        BY <2>4, <1>6, LooseLessComposed
      <3> QED BY <3>1, <3>2
    <2>8. NbRanges(f) >= 2
      <3>1. "ranges" \in DOMAIN g.cache /\ Stocked(g, f, "ranges")
        BY <2>4, <1>5, RangesKnown DEF Frame
      <3>2. NbRanges(g) \in Nat /\ NbRanges(f) \in Nat /\ Cache["ranges"].min = 2
        BY <2>4, <1>5, RangesKnown, OwnCaches
      <3> QED BY <3>1, <3>2, <1>5 DEF Stocked, NbRanges
    <2>9. Alike(f, x) /\ x.ret = NULL /\ x.avail = f.avail
      BY <2>1, <2>4, FirmHas, ReturnAlike DEF Fail
    <2>10. Ready(x, {}) /\ Level(f, x)
      BY <2>4, <2>9, AlikeReady, AlikeLevel
    <2>11. Frame(st, {}, x, {}, {c}) /\ LooseLess(st, x, {})
      BY <2>7, <2>10, LevelAfter
    <2>12. /\ Held(x, {}, c) = Held(st, {}, c) /\ NbRanges(x) = NbRanges(f)
           /\ x.cache[c].nb_free >= Cache[c].min
      <3>1. Held(f, {}, c) = Held(st, {}, c)
        BY <2>4, <1>1, <1>5
      <3>2. Held(x, {}, c) = Held(f, {}, c) /\ NbRanges(x) = NbRanges(f)
        BY <2>10, LevelParts
      <3>3. x.cache = f.cache
        BY <2>10 DEF Level
      <3> QED BY <3>1, <3>2, <3>3, <2>6
    <2> QED BY <2>4, <2>8, <2>9, <2>10, <2>11, <2>12, <1>5, <1>8 DEF Allocated
  <1> QED BY <1>9, <1>10

(* sos_kmem_cache_alloc() gives an object that nobody holds, or none, and  *)
(* keeps the reserve of its cache and of the cache of descriptors.         *)
THEOREM CacheAllocReady ==
  ASSUME NEW st, Ready(st, {}), st.avail \in Nat, NbRanges(st) >= 2,
         NEW c \in DOMAIN st.cache, c # "ranges", c # "kslabs", st.cache[c].nb_free >= Cache[c].min,
         NEW x, x = CacheAlloc(st, c)
  PROVE  Allocated(st, x, c)
  <1> DEFINE grown == CacheGrow(st, c)
             ready == WithFree(st, c, grown)
             t == TakeObject(ready, c)
  <1>1. CacheGrown(st, grown, c)
    BY CacheGrowReady
  <1>2. x = AndThen(ready, LAMBDA y : TakeAny(TakeObject(y, c), c))
    BY DEF CacheAlloc
  <1>3. ready = WithFree(st, c, grown)
    OBVIOUS
  <1> HIDE DEF grown, ready
  <1>4. CASE ready.ret = NULL
    <2>1. ~ HasFreeObject(st, c)
      BY <1>3, <1>4, TakenFromHead
    <2>2. x = grown /\ grown.ret = NULL
      BY <2>1, <1>2, <1>3, <1>4 DEF WithFree, AndThen
    <2> QED BY <2>2, <1>1, NotGrown
  <1>5. CASE ready.ret # NULL
    <2>1. x = TakeAny(t, c)
      BY <1>2, <1>5 DEF AndThen
    <2>2. ObjectGiven(st, t, c)
      BY <1>1, <1>3, <1>5, GivenReady
    <2> HIDE DEF t
    <2>3. CASE StartsReserve(t, c)
      <3>1. x = Replenished(CacheGrow(t, c), t.ret) /\ Cache[c].min > 0
        BY <2>1, <2>3 DEF TakeAny, KeepReserve, StartsReserve
      <3> QED BY <3>1, <2>2, ReplenishedAllocated
    <2>4. CASE ~ StartsReserve(t, c)
      <3>1. x = t
        BY <2>1, <2>4 DEF TakeAny, KeepReserve
      <3>2. /\ t.cache[c].nb_free \in Nat /\ Cache[c].min \in Nat
            /\ t.cache[c].nb_free >= Cache[c].min - 1
        BY <2>2, FirmHas, Counts DEF ObjectGiven, Frame
      <3>3. t.cache[c].nb_free >= Cache[c].min
        BY <3>2, <2>4 DEF StartsReserve
      <3> QED BY <3>1, <3>3, <2>2, GivenAllocated
    <2> QED BY <2>3, <2>4
  <1> QED BY <1>4, <1>5

-----------------------------------------------------------------------------
(* THE CREATION OF A CACHE                                                 *)

(* The table of caches has one more, without slab. *)
CacheEntered(y, z, U, c, o) ==
  /\ z.range = y.range /\ z.free = y.free /\ z.used = y.used /\ z.ranges_to_free = y.ranges_to_free
  /\ z.owner = y.owner /\ z.slab = y.slab /\ z.avail = y.avail /\ z.ret = y.ret /\ KmemShape(z)
  /\ DOMAIN z.cache = DOMAIN y.cache \union {c}
  /\ \A e \in DOMAIN y.cache : z.cache[e] = y.cache[e]
  /\ z.cache[c].slab_list = <<>> /\ z.cache[c].nb_free = 0 /\ z.cache[c].addr = o
  /\ CachesOK(z, U)
  /\ \A e : SlabsIn(z, e) = SlabsIn(y, e)
  /\ \A t : Objects(z, t) = Objects(y, t)
  /\ \A e : TakenIn(z, e) = TakenIn(y, e)
  /\ SlabsIn(z, c) = {} /\ TakenIn(z, c) = {}

(* A new cache is exact, for it has no slab. *)
LEMMA NewCacheCaches ==
  ASSUME NEW y, NEW U, KmemShape(y), CachesOK(y, U), NEW c \in DOMAIN Cache, c \notin DOMAIN y.cache, NEW o \in Nat
  PROVE  CacheEntered(y, NewCache(y, c, o), U, c, o)
  <1> DEFINE z == NewCache(y, c, o)
             rec == [slab_list |-> <<>>, nb_free |-> 0, addr |-> o]
  <1>1. Shaped(y)
    BY DEF KmemShape
  <1>2. /\ z.range = y.range /\ z.free = y.free /\ z.used = y.used /\ z.ranges_to_free = y.ranges_to_free
        /\ z.owner = y.owner /\ z.slab = y.slab /\ z.avail = y.avail /\ z.ret = y.ret /\ Shaped(z)
        /\ z.cache = With(y.cache, c, rec)
    BY <1>1 DEF Shaped, Field, NewCache
  <1>3. rec \in CacheRecord /\ rec.slab_list = <<>> /\ rec.nb_free = 0 /\ rec.addr = o
    BY DEF CacheRecord
  <1> HIDE DEF z, rec
  <1>4. /\ DOMAIN z.cache = DOMAIN y.cache \union {c}
        /\ z.cache[c] = rec /\ z.cache = [e \in DOMAIN z.cache |-> z.cache[e]]
        /\ \A e \in DOMAIN y.cache : z.cache[e] = y.cache[e]
    BY <1>2 DEF With
  <1>5. /\ \A e : SlabsIn(z, e) = SlabsIn(y, e)
        /\ \A t : Objects(z, t) = Objects(y, t)
        /\ \A e : TakenIn(z, e) = TakenIn(y, e)
        /\ \A V, e : FreeIn(z, V, e) = FreeIn(y, V, e)
    BY <1>2 DEF SlabsIn, Objects, TakenIn, FreeIn
  <1>6. KmemShape(z)
    BY <1>2 DEF KmemShape
  <1>7. SlabsIn(y, c) = {}
    BY DEF CachesOK, Slabbed, SlabsIn
  <1>8. TakenIn(y, c) = {} /\ FreeIn(y, U, c) = {}
    BY <1>7 DEF TakenIn, FreeIn
  <1>9. CachesOK(z, U)
    <2>1. Tabled(z)
      <3>1. \A e \in DOMAIN z.cache : z.cache[e] \in CacheRecord
        BY <1>3, <1>4 DEF CachesOK, Tabled
      <3> QED BY <3>1, <1>4 DEF CachesOK, Tabled
    <2>2. Slabbed(z, U)
      BY <1>2, <1>4, <1>5 DEF CachesOK, Slabbed
    <2>3. ASSUME NEW e \in DOMAIN y.cache PROVE CacheExact(z, U, e)
      <3>1. CacheExact(y, U, e) /\ z.cache[e] = y.cache[e]
        BY <1>4 DEF CachesOK
      <3> QED BY <3>1, <1>2, <1>5 DEF CacheExact
    <2>4. CacheExact(z, U, c)
      <3>1. z.cache[c].slab_list = <<>> /\ z.cache[c].nb_free = 0
        BY <1>3, <1>4
      <3>2. IsInjective(<<>>) /\ ToSet(<<>>) = {}
        BY DEF IsInjective, ToSet
      <3>3. FullLast(z.slab, <<>>)
        BY DEF FullLast
      <3>4. IsFiniteSet({}) /\ Cardinality({}) = 0
        BY FS_EmptySet
      <3> QED BY <3>1, <3>2, <3>3, <3>4, <1>5, <1>7, <1>8 DEF CacheExact
    <2> QED BY <2>1, <2>2, <2>3, <2>4, <1>4 DEF CachesOK
  <1> QED BY <1>2, <1>3, <1>4, <1>5, <1>6, <1>7, <1>8, <1>9 DEF CacheEntered, z

(* A cache without slab, whose structure is the object o. *)
CacheNamed(y, z, c, o) ==
  /\ Ready(z, {}) /\ LooseLess(y, z, {}) /\ z.avail = y.avail /\ z.ret = y.ret
  /\ DOMAIN z.cache = DOMAIN y.cache \union {c}
  /\ \A e \in DOMAIN y.cache :
       /\ z.cache[e] = y.cache[e] /\ (Tidy(y, {}, e) => Tidy(z, {}, e))
       /\ e # "caches" => Held(z, {}, e) = Held(y, {}, e)
  /\ Held(z, {}, "caches") = Held(y, {}, "caches") \ {o}
  /\ z.cache[c].nb_free = 0 /\ SlabsIn(z, c) = {} /\ TakenIn(z, c) = {}

(* A new cache whose structure was allocated keeps what holds between the  *)
(* operations on ranges.                                                   *)
LEMMA NewCacheReady ==
  ASSUME NEW y, Ready(y, {}), NEW c \in DOMAIN Cache, c \notin DOMAIN y.cache, ~ CacheRefused(c),
         NEW o \in Held(y, {}, "caches")
  PROVE  CacheNamed(y, NewCache(y, c, o), c, o)
  <1> DEFINE z == NewCache(y, c, o)
  <1>1. /\ KmemKept(y) /\ KmemShape(y) /\ CachesOK(y, {}) /\ Placed(y, {}) /\ Descriptors(y) /\ AllListed(y)
        /\ Tiled(y) /\ Coalesced(y) /\ AllMapped(y) /\ y.ranges_to_free = <<>> /\ Shaped(y)
        /\ OwnNames \subseteq DOMAIN y.cache
    BY FirmHas
  <1>2. o \in TakenIn(y, "caches") /\ o \notin Need(y, {}, "caches") /\ o \in Nat
    <2>1. o \in TakenIn(y, "caches") /\ o \notin Need(y, {}, "caches")
      BY DEF Held
    <2>2. PICK t \in SlabsIn(y, "caches") : o \in Objects(y, t)
      BY <2>1 DEF TakenIn
    <2>3. t \in DOMAIN y.slab
      BY DEF SlabsIn
    <2> QED BY <2>1, <2>2, <2>3, <1>1, ObjectPositive
  <1>3. CacheEntered(y, z, {}, c, o)
    BY <1>1, <1>2, NewCacheCaches
  <1> HIDE DEF z
  <1>4. /\ z.range = y.range /\ z.free = y.free /\ z.used = y.used /\ z.ranges_to_free = y.ranges_to_free
        /\ z.owner = y.owner /\ z.slab = y.slab /\ z.avail = y.avail /\ z.ret = y.ret /\ KmemShape(z)
        /\ DOMAIN z.cache = DOMAIN y.cache \union {c}
        /\ \A e \in DOMAIN y.cache : z.cache[e] = y.cache[e]
        /\ CachesOK(z, {}) /\ SameRanges(y, z)
    BY <1>3 DEF CacheEntered, SameRanges
  <1>5. /\ Tiled(z) /\ AllListed(z) /\ AllMapped(z) /\ LooseLess(y, z, {})
        /\ \A U : Outside(z, U) = Outside(y, U)
    BY <1>1, <1>4, SameRangesFirm
  <1>6. /\ \A e : SlabsIn(z, e) = SlabsIn(y, e)
        /\ \A e : TakenIn(z, e) = TakenIn(y, e)
    BY <1>3 DEF CacheEntered
  <1>7. KmemKept(z) /\ Coalesced(z)
    <2>1. z.slab \in [DOMAIN z.slab -> SlabRecord] /\ Shaped(z)
      BY <1>4 DEF KmemShape
    <2> QED BY <2>1, <1>1, <1>4, SameRangesKept
  <1>12. z.cache[c].addr = o
    BY <1>3 DEF CacheEntered
  <1>13. \A e \in DOMAIN y.cache : z.cache[e].addr = y.cache[e].addr /\ z.cache[e].addr # o
    BY <1>2, <1>4 DEF Need
  <1>14. Placed(z, {})
    <2>1. \A e \in DOMAIN z.cache : ~ CacheRefused(e)
      BY <1>1, <1>4 DEF Placed
    <2>2. \A e \in DOMAIN z.cache : z.cache[e].addr \in TakenIn(z, "caches")
      BY <1>1, <1>2, <1>4, <1>6, <1>12 DEF Placed
    <2>3. \A e, f \in DOMAIN z.cache : z.cache[e].addr = z.cache[f].addr => e = f
      BY <1>1, <1>4, <1>12, <1>13 DEF Placed
    <2> QED BY <2>1, <2>2, <2>3, <1>1, <1>4, <1>6 DEF Placed
  <1>15. Ready(z, {})
    BY <1>1, <1>4, <1>5, <1>6, <1>7, <1>14 DEF Ready, Firm, Descriptors
  <1>16. \A e : e # "caches" => Need(z, {}, e) = Need(y, {}, e)
    BY <1>4, <1>5 DEF Need
  <1>17. Need(z, {}, "caches") = Need(y, {}, "caches") \union {o}
    <2>1. {z.cache[e].addr : e \in DOMAIN z.cache} = {y.cache[e].addr : e \in DOMAIN y.cache} \union {o}
      <3>1. {z.cache[e].addr : e \in DOMAIN z.cache}
              = {z.cache[e].addr : e \in DOMAIN y.cache} \union {z.cache[c].addr}
        BY <1>4
      <3> QED BY <3>1, <1>12, <1>13
    <2> QED BY <2>1 DEF Need
  <1>18. Held(z, {}, "caches") = Held(y, {}, "caches") \ {o}
    BY <1>6, <1>17 DEF Held
  <1>19. \A e : e # "caches" => Held(z, {}, e) = Held(y, {}, e)
    BY <1>6, <1>16 DEF Held
  <1>20. \A e : Tidy(y, {}, e) => Tidy(z, {}, e)
    BY <1>4, SameSlabsTidy
  <1>21. z.cache[c].nb_free = 0 /\ SlabsIn(z, c) = {} /\ TakenIn(z, c) = {}
    BY <1>3 DEF CacheEntered
  <1> QED BY <1>4, <1>5, <1>15, <1>18, <1>19, <1>20, <1>21 DEF CacheNamed, z

(* One operation that leaves the other caches alone after another. *)
LEMMA OthersComposed ==
  ASSUME NEW a, NEW b, NEW d, NEW c, Ready(a, {}), Ready(b, {}), Ready(d, {}), Others(a, b, c), Others(b, d, c)
  PROVE  Others(a, d, c)
  <1>1. DOMAIN d.cache \ {c} = DOMAIN a.cache \ {c}
    BY DEF Others
  <1>2. ASSUME NEW e \in DOMAIN a.cache \ {c}
        PROVE  /\ d.cache[e].addr = a.cache[e].addr
               /\ Held(d, {}, e) = Held(a, {}, e) /\ Stocked(a, d, e) /\ (Tidy(a, {}, e) => Tidy(d, {}, e))
    <2>1. /\ e \in DOMAIN a.cache \ {c} /\ e \in DOMAIN b.cache \ {c} /\ e \in DOMAIN d.cache
      BY <1>1, <1>2 DEF Others
    <2>2. /\ b.cache[e].addr = a.cache[e].addr /\ Held(b, {}, e) = Held(a, {}, e)
          /\ Stocked(a, b, e) /\ (Tidy(a, {}, e) => Tidy(b, {}, e))
      BY <2>1 DEF Others
    <2>3. /\ d.cache[e].addr = b.cache[e].addr /\ Held(d, {}, e) = Held(b, {}, e)
          /\ Stocked(b, d, e) /\ (Tidy(b, {}, e) => Tidy(d, {}, e))
      BY <2>1 DEF Others
    <2>4. /\ a.cache[e].nb_free \in Nat /\ b.cache[e].nb_free \in Nat /\ d.cache[e].nb_free \in Nat
          /\ Cache[e].min \in Nat
      BY <2>1, FirmHas, Counts
    <2>5. Stocked(a, d, e)
      BY <2>2, <2>3, <2>4 DEF Stocked
    <2> QED BY <2>2, <2>3, <2>5
  <1> QED BY <1>1, <1>2 DEF Others

(* The cache of caches has no reserve to keep. *)
LEMMA CachesFramed ==
  ASSUME NEW st, NEW n, Ready(n, {}), Frame(st, {}, n, {}, {"caches"}),
         Held(n, {}, "caches") = Held(st, {}, "caches"), Tidy(st, {}, "caches") => Tidy(n, {}, "caches")
  PROVE  Frame(st, {}, n, {}, {})
  <1>1. Stocked(st, n, "caches")
    <2>1. "caches" \in DOMAIN n.cache
      BY FirmHas DEF OwnNames
    <2>2. n.cache["caches"].nb_free \in Nat /\ Cache["caches"].min = 0
      BY <2>1, FirmHas, Counts, OwnCaches
    <2> QED BY <2>2 DEF Stocked
  <1> QED BY <1>1 DEF Frame

(* An operation that frames a cache leaves the others alone. *)
LEMMA FrameOthers ==
  ASSUME NEW st, NEW n, NEW c
  PROVE  /\ Frame(st, {}, n, {}, {}) => Others(st, n, c)
         /\ Frame(st, {}, n, {}, {c}) => Others(st, n, c)
  <1>1. ASSUME Frame(st, {}, n, {}, {c}) PROVE Others(st, n, c)
    BY <1>1 DEF Frame, Others
  <1>2. ASSUME Frame(st, {}, n, {}, {}) PROVE Others(st, n, c)
    BY <1>2 DEF Frame, Others
  <1> QED BY <1>1, <1>2

(* sos_kmem_cache_create(): *)
CacheMade(st, n, c) ==
  /\ Ready(n, {}) /\ n.avail \in Nat /\ LooseLess(st, n, {}) /\ Others(st, n, c)
  /\ c \in DOMAIN n.cache =>
       n.cache[c].nb_free >= Cache[c].min /\ Tidy(n, {}, c) /\ Held(n, {}, c) = {}

(* What sos_kmem_cache_create() returns does not matter to the state. *)
LEMMA LevelMade ==
  ASSUME NEW st, NEW y, NEW c, CacheMade(st, y, c), NEW v, NEW n, n = Return(y, v)
  PROVE  CacheMade(st, n, c)
  <1>1. Alike(y, n) /\ n.avail = y.avail
    BY FirmHas, ReturnAlike DEF CacheMade
  <1>2. Ready(n, {}) /\ Level(y, n)
    BY <1>1, AlikeReady, AlikeLevel DEF CacheMade
  <1>3. LooseLess(st, n, {})
    BY <1>2, LevelAfter DEF CacheMade
  <1>4. /\ n.cache = y.cache /\ \A e : Held(n, {}, e) = Held(y, {}, e) /\ (Tidy(n, {}, e) <=> Tidy(y, {}, e))
    BY <1>2, LevelParts DEF Level
  <1>5. Others(st, n, c)
    BY <1>4 DEF CacheMade, Others, Stocked
  <1> QED BY <1>1, <1>2, <1>3, <1>4, <1>5 DEF CacheMade

(* A cache that is not made leaves no trace. *)
LEMMA NotMade ==
  ASSUME NEW st, NEW n, NEW c, c \notin DOMAIN st.cache, Ready(n, {}), n.avail \in Nat,
         LooseLess(st, n, {}), Frame(st, {}, n, {}, {})
  PROVE  CacheMade(st, n, c)
  <1>1. Others(st, n, c)
    BY FrameOthers
  <1>2. c \notin DOMAIN n.cache
    BY DEF Frame
  <1> QED BY <1>1, <1>2 DEF CacheMade

(* The structure of a cache that is refused is freed. *)
LEMMA RefusedReady ==
  ASSUME NEW st, Ready(st, {}), NEW a, Allocated(st, a, "caches"), a.ret # NULL,
         NEW c, c \notin DOMAIN st.cache, NEW n, n = Fail(CacheFree(a, a.ret))
  PROVE  CacheMade(st, n, c)
  <1> DEFINE o == a.ret
             f == CacheFree(a, o)
  <1>1. /\ Ready(a, {}) /\ a.avail \in Nat /\ LooseLess(st, a, {}) /\ Frame(st, {}, a, {}, {"caches"})
        /\ Tidy(st, {}, "caches") => Tidy(a, {}, "caches")
        /\ o \notin Held(st, {}, "caches") /\ Held(a, {}, "caches") = Held(st, {}, "caches") \union {o}
    BY DEF Allocated
  <1>2. n = Fail(f)
    OBVIOUS
  <1> HIDE DEF o
  <1>3. o \in Held(a, {}, "caches") /\ "caches" \in DOMAIN a.cache
    BY <1>1, FirmHas DEF OwnNames
  <1>4. CacheFreed(a, f, {}, "caches", o)
    BY <1>1, <1>3, CacheFreeReady
  <1> HIDE DEF f
  <1>5. /\ Ready(f, {}) /\ Frame(a, {}, f, {}, {"caches"})
        /\ Held(f, {}, "caches") = Held(a, {}, "caches") \ {o}
        /\ Tidy(a, {}, "caches") => Tidy(f, {}, "caches")
        /\ LooseLess(a, f, {}) /\ f.avail = a.avail
    BY <1>4 DEF CacheFreed
  <1>6. Frame(st, {}, f, {}, {})
    <2>1. Frame(st, {}, f, {}, {"caches"} \union {"caches"})
      BY <1>1, <1>5, FrameComposed DEF Ready
    <2>2. Held(f, {}, "caches") = Held(st, {}, "caches")
      BY <1>1, <1>5
    <2> QED BY <2>1, <2>2, <1>1, <1>5, CachesFramed
  <1>7. LooseLess(st, f, {})
    <2>1. LooseLess(st, f, {} \union {})
      BY <1>1, <1>5, LooseLessComposed
    <2> QED BY <2>1
  <1>8. CacheMade(st, f, c)
    BY <1>1, <1>5, <1>6, <1>7, NotMade
  <1> QED BY <1>2, <1>8, LevelMade DEF Fail

(* A cache that has no object allocated is not in use. *)
LEMMA NotInUse ==
  ASSUME NEW g, Ready(g, {}), NEW c \in DOMAIN g.cache, c \notin OwnNames, Held(g, {}, c) = {}
  PROVE  ~ InUse(g, c)
  <1>1. Need(g, {}, c) = {}
    BY DEF Need, OwnNames
  <1>2. TakenIn(g, c) = {}
    BY <1>1 DEF Held
  <1>3. ASSUME NEW i \in DOMAIN g.cache[c].slab_list
        PROVE  g.slab[g.cache[c].slab_list[i]].free = Objects(g, g.cache[c].slab_list[i])
    <2> DEFINE s == g.cache[c].slab_list[i]
    <2>1. g.cache[c].slab_list \in Seq(Nat) /\ \A j \in 1 .. Len(g.cache[c].slab_list) : g.cache[c].slab_list[j] \in SlabsIn(g, c)
      BY FirmHas, ListFacts
    <2>2. s \in SlabsIn(g, c)
      BY <2>1
    <2> HIDE DEF s
    <2>3. s \in DOMAIN g.slab
      BY <2>2 DEF SlabsIn
    <2>4. g.slab[s].free \subseteq Objects(g, s)
      BY <2>3, FirmHas DEF CachesOK, Slabbed
    <2>5. Objects(g, s) \ g.slab[s].free = {}
      BY <2>2, <1>2 DEF TakenIn
    <2> QED BY <2>4, <2>5 DEF s
  <1> QED BY <1>3 DEF InUse

(* The cache that is initialized, from before its structure was allocated. *)
LEMMA NamedOthers ==
  ASSUME NEW st, Ready(st, {}), NEW a, Allocated(st, a, "caches"), a.ret # NULL,
         NEW c, c \notin DOMAIN st.cache, NEW z, CacheNamed(a, z, c, a.ret)
  PROVE  /\ Others(st, z, c) /\ LooseLess(st, z, {}) /\ z.avail \in Nat /\ NbRanges(z) >= 2
         /\ Ready(z, {}) /\ c \in DOMAIN z.cache /\ Held(z, {}, c) = {} /\ Tidy(z, {}, c)
         /\ z.cache[c].nb_free = 0 /\ z.ret = a.ret /\ c \notin OwnNames
  <1> DEFINE o == a.ret
  <1>1. /\ Ready(a, {}) /\ a.avail \in Nat /\ NbRanges(a) >= 2
        /\ LooseLess(st, a, {}) /\ Frame(st, {}, a, {}, {"caches"})
        /\ Tidy(st, {}, "caches") => Tidy(a, {}, "caches")
        /\ o \notin Held(st, {}, "caches") /\ Held(a, {}, "caches") = Held(st, {}, "caches") \union {o}
    BY DEF Allocated
  <1>2. /\ Ready(z, {}) /\ LooseLess(a, z, {}) /\ z.avail = a.avail /\ z.ret = o
        /\ DOMAIN z.cache = DOMAIN a.cache \union {c}
        /\ \A e \in DOMAIN a.cache :
             /\ z.cache[e] = a.cache[e] /\ (Tidy(a, {}, e) => Tidy(z, {}, e))
             /\ e # "caches" => Held(z, {}, e) = Held(a, {}, e)
        /\ Held(z, {}, "caches") = Held(a, {}, "caches") \ {o}
        /\ z.cache[c].nb_free = 0 /\ SlabsIn(z, c) = {} /\ TakenIn(z, c) = {}
    BY DEF CacheNamed
  <1> HIDE DEF o
  <1>3. DOMAIN a.cache = DOMAIN st.cache /\ \A e \in DOMAIN st.cache : a.cache[e].addr = st.cache[e].addr
    BY <1>1 DEF Frame
  <1>4. c \notin OwnNames
    BY FirmHas
  <1>5. ASSUME NEW e \in DOMAIN st.cache \ {c}
        PROVE  /\ z.cache[e].addr = st.cache[e].addr
               /\ Held(z, {}, e) = Held(st, {}, e) /\ Stocked(st, z, e) /\ (Tidy(st, {}, e) => Tidy(z, {}, e))
    <2>1. e \in DOMAIN st.cache /\ z.cache[e] = a.cache[e] /\ (Tidy(a, {}, e) => Tidy(z, {}, e))
      BY <1>2, <1>3, <1>5
    <2>2. CASE e = "caches"
      <3>1. Stocked(st, z, e)
        <4>1. z.cache[e].nb_free \in Nat /\ Cache[e].min = 0
          BY <2>1, <2>2, <1>2, <1>3, FirmHas, Counts, OwnCaches
        <4> QED BY <4>1 DEF Stocked
      <3>2. Held(z, {}, e) = Held(st, {}, e)
        BY <2>2, <1>1, <1>2
      <3> QED BY <3>1, <3>2, <2>1, <2>2, <1>1, <1>3
    <2>3. CASE e # "caches"
      <3>1. Held(a, {}, e) = Held(st, {}, e) /\ Stocked(st, a, e) /\ (Tidy(st, {}, e) => Tidy(a, {}, e))
        BY <2>1, <2>3, <1>1 DEF Frame
      <3>2. Stocked(st, z, e)
        BY <3>1, <2>1 DEF Stocked
      <3> QED BY <3>1, <3>2, <2>1, <2>3, <1>2, <1>3
    <2> QED BY <2>2, <2>3
  <1>6. Others(st, z, c)
    BY <1>2, <1>3, <1>5 DEF Others
  <1>7. LooseLess(st, z, {})
    <2>1. LooseLess(st, z, {} \union {})
      BY <1>1, <1>2, LooseLessComposed
    <2> QED BY <2>1
  <1>8. NbRanges(z) >= 2
    <2>1. "ranges" \in DOMAIN a.cache
      BY <1>1, RangesKnown
    <2> QED BY <2>1, <1>1, <1>2 DEF NbRanges
  <1>9. Held(z, {}, c) = {} /\ Tidy(z, {}, c)
    BY <1>2 DEF Held, Tidy
  <1> QED BY <1>1, <1>2, <1>4, <1>6, <1>7, <1>8, <1>9 DEF o

(* The new cache gets its first slab, or is destroyed. *)
LEMMA FirstGrowthReady ==
  ASSUME NEW st, Ready(st, {}), NEW c, c \notin DOMAIN st.cache, c \notin OwnNames,
         NEW z, Ready(z, {}), z.avail \in Nat, NbRanges(z) >= 2, LooseLess(st, z, {}), Others(st, z, c),
         c \in DOMAIN z.cache, Held(z, {}, c) = {}, Cache[c].min # 0,
         NEW v, NEW n, n = FirstGrowth(CacheGrow(z, c), c, v)
  PROVE  CacheMade(st, n, c)
  <1> DEFINE g == CacheGrow(z, c)
  <1>1. n = IF g.ret = NULL THEN Fail(CacheDestroyed(g, c)) ELSE Return(g, v)
    BY DEF FirstGrowth
  <1>2. CacheGrown(z, g, c)
    BY CacheGrowReady DEF OwnNames
  <1> HIDE DEF g
  <1>3. /\ Ready(g, {}) /\ g.avail \in Nat /\ LooseLess(z, g, {})
        /\ Frame(z, {}, g, {}, {c}) /\ Held(g, {}, c) = Held(z, {}, c)
    <2>1. CASE g.ret = NULL
      <3>1. Frame(z, {}, g, {}, {})
        BY <2>1, <1>2 DEF CacheGrown
      <3>2. Frame(z, {}, g, {}, {c})
        BY <3>1, FrameLess
      <3>3. Held(g, {}, c) = Held(z, {}, c)
        BY <3>1 DEF Frame
      <3> QED BY <3>2, <3>3, <1>2 DEF CacheGrown
    <2>2. CASE g.ret # NULL
      BY <2>2, <1>2 DEF CacheGrown
    <2> QED BY <2>1, <2>2
  <1>4. Others(st, g, c) /\ LooseLess(st, g, {})
    <2>1. Others(z, g, c)
      BY <1>3, FrameOthers
    <2>2. LooseLess(st, g, {} \union {})
      BY <1>3, LooseLessComposed
    <2> QED BY <2>1, <2>2, <1>3, OthersComposed
  <1>5. c \in DOMAIN g.cache
    BY <1>3 DEF Frame
  <1>6. CASE g.ret # NULL
    <2>1. g.cache[c].nb_free >= Cache[c].min
      <3>1. g.cache[c].nb_free >= Cache[c].objects
        BY <1>2, <1>6 DEF CacheGrown
      <3>2. g.cache[c].nb_free \in Nat /\ Cache[c].min \in Nat /\ Cache[c].objects \in Nat /\ Cache[c].min <= Cache[c].objects
        BY <1>3, <1>5, FirmHas, Counts
      <3> QED BY <3>1, <3>2
    <2>2. Tidy(g, {}, c)
      BY DEF Tidy
    <2>3. CacheMade(st, g, c)
      BY <2>1, <2>2, <1>3, <1>4 DEF CacheMade
    <2>4. n = Return(g, v)
      BY <1>1, <1>6
    <2> QED BY <2>3, <2>4, LevelMade
  <1>7. CASE g.ret = NULL
    <2> DEFINE y == CacheDestroyed(g, c)
    <2>1. n = Return(y, NULL)
      BY <1>1, <1>7 DEF Fail
    <2>2. ~ InUse(g, c)
      BY <1>3, <1>5, NotInUse
    <2>3. /\ Ready(y, {}) /\ LooseLess(g, y, {}) /\ DOMAIN y.cache = DOMAIN g.cache \ {c}
          /\ Others(g, y, c) /\ y.avail = g.avail
      BY <2>2, <1>3, <1>5, CacheDestroyedReady
    <2> HIDE DEF y
    <2>4. Others(st, y, c)
      BY <2>3, <1>3, <1>4, OthersComposed
    <2>5. LooseLess(st, y, {})
      <3>1. LooseLess(st, y, {} \union {})
        BY <2>3, <1>4, LooseLessComposed
      <3> QED BY <3>1
    <2>6. CacheMade(st, y, c)
      BY <2>3, <2>4, <2>5, <1>3 DEF CacheMade
    <2> QED BY <2>1, <2>6, LevelMade
  <1> QED BY <1>6, <1>7

(* sos_kmem_cache_create(), once it has the structure of the cache: the    *)
(* parameters are refused, the first slab cannot be had, or the cache is   *)
(* made.                                                                   *)
LEMMA InitializedReady ==
  ASSUME NEW st, Ready(st, {}), NEW a, Allocated(st, a, "caches"), a.ret # NULL,
         NEW c \in DOMAIN Cache, c \notin DOMAIN st.cache, NEW n, n = Initialized(a, c)
  PROVE  CacheMade(st, n, c)
  <1>1. CASE CacheRefused(c)
    <2>1. n = Fail(CacheFree(a, a.ret))
      BY <1>1 DEF Initialized
    <2> QED BY <2>1, RefusedReady
  <1>2. CASE ~ CacheRefused(c)
    <2> DEFINE z == NewCache(a, c, a.ret)
    <2>1. n = Preallocated(z, c)
      BY <1>2 DEF Initialized
    <2>2. CacheNamed(a, z, c, a.ret)
      <3>1. Ready(a, {}) /\ c \notin DOMAIN a.cache /\ a.ret \in Held(a, {}, "caches")
        BY DEF Allocated, Frame
      <3> QED BY <3>1, <1>2, NewCacheReady
    <2> HIDE DEF z
    <2>3. /\ Others(st, z, c) /\ LooseLess(st, z, {}) /\ z.avail \in Nat /\ NbRanges(z) >= 2
          /\ Ready(z, {}) /\ c \in DOMAIN z.cache /\ Held(z, {}, c) = {} /\ Tidy(z, {}, c)
          /\ z.cache[c].nb_free = 0 /\ c \notin OwnNames
      BY <2>2, NamedOthers
    <2>4. CASE Cache[c].min = 0
      <3>1. n = z
        BY <2>1, <2>4 DEF Preallocated
      <3> QED BY <3>1, <2>3, <2>4 DEF CacheMade
    <2>5. CASE Cache[c].min # 0
      <3>1. n = FirstGrowth(CacheGrow(z, c), c, z.ret)
        BY <2>1, <2>5 DEF Preallocated
      <3> QED BY <3>1, <2>3, <2>5, FirstGrowthReady
    <2> QED BY <2>4, <2>5
  <1> QED BY <1>1, <1>2

(* sos_kmem_cache_create() makes the cache, with its reserve, or leaves no *)
(* trace of it.                                                            *)
THEOREM CacheCreatedReady ==
  ASSUME NEW st, Ready(st, {}), st.avail \in Nat, NbRanges(st) >= 2,
         NEW c \in DOMAIN Cache, c \notin DOMAIN st.cache, NEW n, n = CacheCreated(st, c)
  PROVE  CacheMade(st, n, c)
  <1> DEFINE a == CacheAlloc(st, "caches")
  <1>1. n = AndThen(a, LAMBDA new : Initialized(new, c))
    BY DEF CacheCreated
  <1>2. Allocated(st, a, "caches")
    <2>1. "caches" \in DOMAIN st.cache
      BY FirmHas DEF OwnNames
    <2>2. st.cache["caches"].nb_free >= Cache["caches"].min
      <3>1. st.cache["caches"].nb_free \in Nat /\ Cache["caches"].min = 0
        BY <2>1, FirmHas, Counts, OwnCaches
      <3> QED BY <3>1
    <2> QED BY <2>1, <2>2, CacheAllocReady
  <1> HIDE DEF a
  <1>3. CASE a.ret = NULL
    <2>1. n = a
      BY <1>1, <1>3 DEF AndThen
    <2>2. /\ Ready(a, {}) /\ a.avail \in Nat /\ LooseLess(st, a, {}) /\ Frame(st, {}, a, {}, {"caches"})
          /\ Tidy(st, {}, "caches") => Tidy(a, {}, "caches")
          /\ Held(a, {}, "caches") = Held(st, {}, "caches")
      BY <1>2, <1>3 DEF Allocated
    <2>3. Frame(st, {}, a, {}, {})
      BY <2>2, CachesFramed
    <2> QED BY <2>1, <2>2, <2>3, NotMade
  <1>4. CASE a.ret # NULL
    <2>1. n = Initialized(a, c)
      BY <1>1, <1>4 DEF AndThen
    <2> QED BY <2>1, <1>2, <1>4, InitializedReady
  <1> QED BY <1>3, <1>4

-----------------------------------------------------------------------------
(* THE AREAS OF CALLERS                                                    *)

(* The allocators between two operations. *)
Standing(st) ==
  /\ Ready(st, {})
  /\ \A e \in DOMAIN st.cache : st.cache[e].nb_free >= Cache[e].min /\ Tidy(st, {}, e)
  /\ \A e \in OwnNames : Held(st, {}, e) = {}

(* The areas that callers hold: the objects of their caches, and ranges. *)
ObjectArea(c, a) == [addr |-> a, size |-> Cache[c].size]

(* The range d. *)
RangeArea(st, d) == [addr |-> st.range[d].base * PageSize, size |-> st.range[d].nb_pages * PageSize]

(* All the objects that callers hold; all the ranges; and both. *)
ObjectAreas(st) == UNION {{ObjectArea(c, a) : a \in Held(st, {}, c)} : c \in DOMAIN Shape}

RangeAreas(st) == {RangeArea(st, d) : d \in Loose(st)}

HeldAreas(st) == ObjectAreas(st) \union RangeAreas(st)

(* The caches of callers are not those of the allocators. *)
LEMMA CallersCaches ==
  /\ DOMAIN Shape = ToSet(KmallocClass) \union Driver
  /\ DOMAIN Cache = OwnNames \union DOMAIN Shape
  /\ OwnNames \intersect DOMAIN Shape = {}
  <1>1. DOMAIN Shape = ToSet(KmallocClass) \union Driver
    BY KmemAssumption
  <1>2. DOMAIN Cache = OwnNames \union DOMAIN Shape
    BY DEF Cache, OwnNames
  <1>3. OwnNames \intersect DOMAIN Shape = {}
    BY <1>1, KmemAssumption DEF OwnNames
  <1> QED BY <1>1, <1>2, <1>3

(* A cache that does not exist has no object. *)
LEMMA NoCacheNoObject ==
  ASSUME NEW st, Ready(st, {}), NEW c, c \notin DOMAIN st.cache
  PROVE  TakenIn(st, c) = {} /\ Held(st, {}, c) = {} /\ SlabsIn(st, c) = {}
  <1>1. CachesOK(st, {})
    BY FirmHas
  <1>2. \A s \in DOMAIN st.slab : st.slab[s].cache \in DOMAIN st.cache
    BY <1>1 DEF CachesOK, Slabbed
  <1>3. SlabsIn(st, c) = {}
    BY <1>2 DEF SlabsIn
  <1>4. TakenIn(st, c) = {}
    BY <1>3 DEF TakenIn
  <1> QED BY <1>3, <1>4 DEF Held

(* The areas that are objects only depend on those of each cache. *)
LEMMA SameObjectAreas ==
  ASSUME NEW st, NEW n, \A c \in DOMAIN Shape : Held(n, {}, c) = Held(st, {}, c)
  PROVE  ObjectAreas(n) = ObjectAreas(st)
  BY DEF ObjectAreas

(* The areas that are ranges only depend on the ranges without slab. *)
LEMMA SameRangeAreas ==
  ASSUME NEW st, NEW n, LooseLess(st, n, {})
  PROVE  RangeAreas(n) = RangeAreas(st)
  <1>1. Loose(n) = Loose(st)
    BY DEF LooseLess
  <1>2. \A d \in Loose(st) : RangeArea(n, d) = RangeArea(st, d)
    BY <1>1 DEF LooseLess, RangeArea
  <1> QED BY <1>1, <1>2 DEF RangeAreas

(* An operation on a cache of a caller. *)
LEMMA StandingAfter ==
  ASSUME NEW st, Standing(st), NEW n, Ready(n, {}), NEW c \in DOMAIN st.cache, c \notin OwnNames,
         Frame(st, {}, n, {}, {c}), n.cache[c].nb_free >= Cache[c].min, Tidy(n, {}, c)
  PROVE  Standing(n)
  <1>1. DOMAIN n.cache = DOMAIN st.cache
    BY DEF Frame
  <1>2. ASSUME NEW e \in DOMAIN st.cache, e # c
        PROVE  /\ n.cache[e].nb_free >= Cache[e].min /\ Tidy(n, {}, e)
               /\ Held(n, {}, e) = Held(st, {}, e)
    <2>1. Held(n, {}, e) = Held(st, {}, e) /\ Stocked(st, n, e) /\ (Tidy(st, {}, e) => Tidy(n, {}, e))
      BY <1>2 DEF Frame
    <2>2. st.cache[e].nb_free >= Cache[e].min /\ Tidy(st, {}, e)
      BY DEF Standing
    <2>3. /\ st.cache[e].nb_free \in Nat /\ Cache[e].min \in Nat /\ n.cache[e].nb_free \in Nat
      <3>1. CachesOK(st, {}) /\ Placed(st, {}) /\ CachesOK(n, {}) /\ Placed(n, {})
        BY FirmHas DEF Standing
      <3> QED BY <3>1, <1>1, Counts
    <2>4. n.cache[e].nb_free >= Cache[e].min
      <3>1. CASE n.cache[e].nb_free >= Cache[e].min
        BY <3>1
      <3>2. CASE n.cache[e].nb_free >= st.cache[e].nb_free
        BY <3>2, <2>2, <2>3
      <3> QED BY <2>1, <3>1, <3>2 DEF Stocked
    <2> QED BY <2>1, <2>2, <2>4
  <1>3. \A e \in OwnNames : Held(n, {}, e) = {}
    <2>1. OwnNames \subseteq DOMAIN st.cache
      BY FirmHas DEF Standing
    <2> QED BY <2>1, <1>2 DEF Standing
  <1>4. \A e \in DOMAIN n.cache : n.cache[e].nb_free >= Cache[e].min /\ Tidy(n, {}, e)
    BY <1>1, <1>2
  <1> QED BY <1>3, <1>4 DEF Standing

(* States alike are standing alike. *)
LEMMA AlikeStanding ==
  ASSUME NEW st, NEW n, Alike(st, n), Standing(st)
  PROVE  Standing(n) /\ HeldAreas(n) = HeldAreas(st)
  <1>1. Ready(n, {})
    BY AlikeReady DEF Standing
  <1>2. Level(st, n)
    BY AlikeLevel
  <1>3. /\ \A e : Held(n, {}, e) = Held(st, {}, e) /\ (Tidy(n, {}, e) <=> Tidy(st, {}, e))
        /\ Loose(n) = Loose(st)
    BY <1>2, LevelParts
  <1>4. n.cache = st.cache /\ n.range = st.range
    BY <1>2 DEF Level
  <1>5. Standing(n)
    BY <1>1, <1>3, <1>4 DEF Standing
  <1>6. ObjectAreas(n) = ObjectAreas(st)
    BY <1>3, SameObjectAreas
  <1>7. RangeAreas(n) = RangeAreas(st)
    BY <1>3, <1>4 DEF RangeAreas, RangeArea
  <1> QED BY <1>5, <1>6, <1>7 DEF HeldAreas

(* The physical memory that is given to an operation does not matter to the *)
(* state.                                                                  *)
LEMMA GrantedAlike ==
  ASSUME Standing(k), NEW n \in Nat
  PROVE  Alike(k, Granted(n)) /\ Granted(n).avail = n /\ Standing(Granted(n)) /\ NbRanges(Granted(n)) >= 2
         /\ HeldAreas(Granted(n)) = HeldAreas(k)
  <1>1. Shaped(k)
    BY FirmHas DEF Standing
  <1>2. Alike(k, Granted(n)) /\ Granted(n).avail = n
    BY <1>1 DEF Granted, Alike, Shaped, Field
  <1>3. Standing(Granted(n)) /\ HeldAreas(Granted(n)) = HeldAreas(k)
    BY <1>2, AlikeStanding
  <1>4. NbRanges(Granted(n)) >= 2
    <2>1. "ranges" \in DOMAIN Granted(n).cache /\ "ranges" \in OwnNames
      BY <1>3, RangesKnown DEF Standing, OwnNames
    <2>2. Granted(n).cache["ranges"].nb_free >= Cache["ranges"].min
      BY <1>3, <2>1 DEF Standing
    <2> QED BY <2>2, OwnCaches DEF NbRanges
  <1> QED BY <1>2, <1>3, <1>4

(* Nor does what an operation returns, once it is over. *)
LEMMA FinishAlike ==
  ASSUME NEW st, Standing(st), Finish(st)
  PROVE  Standing(k') /\ HeldAreas(k') = HeldAreas(st) /\ k'.avail = 0 /\ k'.ret = NULL
  <1>1. Shaped(st)
    BY FirmHas DEF Standing
  <1>2. k' = [st EXCEPT !.avail = 0, !.ret = NULL]
    BY DEF Finish
  <1>3. Alike(st, k') /\ k'.avail = 0 /\ k'.ret = NULL
    BY <1>1, <1>2 DEF Alike, Shaped, Field
  <1> QED BY <1>3, AlikeStanding

(* Two areas without a word in common. *)
Off(a, b) == a.addr + a.size <= b.addr \/ b.addr + b.size <= a.addr

(* The area lies in the kernel virtual memory. *)
InHeap(a) ==
  /\ a.addr \in Nat /\ a.size \in Nat \ {0}
  /\ PageSize <= a.addr /\ a.addr + a.size <= (TopPage + 1) * PageSize

(* The object that a caller holds, and its slab. *)
LEMMA HeldObject ==
  ASSUME NEW st, Ready(st, {}), NEW c, NEW a \in Held(st, {}, c)
  PROVE  \E s \in SlabsIn(st, c) : /\ s \in DOMAIN st.slab /\ st.slab[s].cache = c
                                   /\ a \in Objects(st, s) /\ a \notin st.slab[s].free
  <1>1. a \in TakenIn(st, c)
    BY DEF Held
  <1>2. PICK s \in SlabsIn(st, c) : a \in Objects(st, s) \ st.slab[s].free
    BY <1>1 DEF TakenIn
  <1>3. s \in DOMAIN st.slab /\ st.slab[s].cache = c
    BY <1>2 DEF SlabsIn
  <1> QED BY <1>2, <1>3

(* What lies within a range lies in the heap. *)
LEMMA WithinHeap ==
  ASSUME NEW st, Ready(st, {}), NEW d \in DOMAIN st.range, NEW a, NEW len, Within(st, d, a, len)
  PROVE  InHeap([addr |-> a, size |-> len])
  <1>1. Tiled(st) /\ KmemShape(st)
    BY FirmHas
  <1>2. 1 <= st.range[d].base /\ End(st, d) <= TopPage + 1
    BY <1>1 DEF Tiled
  <1>3. st.range[d].base \in Nat /\ End(st, d) \in Nat
    BY <1>1, ShapeFacts
  <1>4. PageSize \in Nat /\ TopPage \in Nat
    BY KmemAssumption
  <1>5. 1 * PageSize <= st.range[d].base * PageSize /\ End(st, d) * PageSize <= (TopPage + 1) * PageSize
    BY <1>2, <1>3, <1>4, ProductGrows
  <1>6. /\ a \in Nat /\ len \in Nat \ {0}
        /\ st.range[d].base * PageSize <= a /\ a + len <= End(st, d) * PageSize
    BY DEF Within
  <1>7. 1 * PageSize = PageSize
    BY <1>4
  <1> DEFINE x == st.range[d].base * PageSize
             y == End(st, d) * PageSize
             z == (TopPage + 1) * PageSize
  <1>8. x \in Nat /\ y \in Nat /\ z \in Nat
    BY <1>3, <1>4
  <1>9. PageSize <= x /\ y <= z /\ x <= a /\ a + len <= y
    BY <1>5, <1>6, <1>7
  <1> HIDE DEF x, y
  <1>10. PageSize <= a /\ a + len <= z
    BY <1>4, <1>6, <1>8, <1>9
  <1> QED BY <1>6, <1>10 DEF InHeap

(* Every object that a caller holds does. *)
LEMMA ObjectInHeap ==
  ASSUME NEW st, Ready(st, {}), NEW c, NEW a \in Held(st, {}, c)
  PROVE  InHeap(ObjectArea(c, a))
  <1>1. PICK s \in SlabsIn(st, c) : /\ s \in DOMAIN st.slab /\ st.slab[s].cache = c
                                    /\ a \in Objects(st, s) /\ a \notin st.slab[s].free
    BY HeldObject
  <1>2. st.slab[s].range \in DOMAIN st.range /\ Within(st, st.slab[s].range, a, Cache[c].size)
    BY <1>1, ObjectWithin, FirmHas
  <1> QED BY <1>2, WithinHeap DEF ObjectArea

(* A used range has a page at least. *)
LEMMA LooseWithin ==
  ASSUME NEW st, Ready(st, {}), NEW d \in Loose(st)
  PROVE  /\ d \in DOMAIN st.range /\ d \in ToSet(st.used) /\ st.range[d].slab = NULL
         /\ st.range[d].base \in Nat /\ st.range[d].nb_pages \in Nat \ {0}
         /\ End(st, d) \in Nat
         /\ End(st, d) * PageSize = st.range[d].base * PageSize + st.range[d].nb_pages * PageSize
         /\ Within(st, d, st.range[d].base * PageSize, st.range[d].nb_pages * PageSize)
  <1>1. KmemKept(st) /\ KmemShape(st)
    BY FirmHas
  <1>2. d \in ToSet(st.used) /\ st.range[d].slab = NULL
    BY DEF Loose
  <1>3. d \in DOMAIN st.range /\ st.range[d].base \in Nat /\ st.range[d].nb_pages \in Nat /\ End(st, d) \in Nat
    BY <1>1, <1>2, ShapeFacts
  <1>4. st.range[d].nb_pages > 0
    <2>1. d \notin ToSet(st.free)
      BY <1>1, <1>2 DEF KmemKept, RangesKept, ListsSorted
    <2> QED BY <1>1, <1>3, <2>1 DEF KmemKept, RangesKept, RangesApart
  <1> DEFINE b == st.range[d].base
             n == st.range[d].nb_pages
  <1>5. b \in Nat /\ n \in Nat \ {0} /\ PageSize \in Nat \ {0} /\ End(st, d) = b + n
    BY <1>3, <1>4, KmemAssumption DEF End
  <1> HIDE DEF b, n
  <1>6. b * PageSize \in Nat /\ n * PageSize \in Nat /\ (b + n) * PageSize = b * PageSize + n * PageSize
    BY <1>5
  <1>7. n * PageSize # 0
    <2>1. 1 * PageSize <= n * PageSize
      BY <1>5, ProductGrows
    <2> QED BY <1>5, <2>1
  <1>8. Within(st, d, b * PageSize, n * PageSize)
    <2>1. End(st, d) * PageSize = b * PageSize + n * PageSize
      BY <1>5, <1>6
    <2>2. /\ b * PageSize \in Nat /\ n * PageSize \in Nat \ {0}
          /\ b * PageSize <= b * PageSize
          /\ b * PageSize + n * PageSize <= End(st, d) * PageSize
      BY <1>6, <1>7, <2>1
    <2> QED BY <2>2 DEF Within, b
  <1> QED BY <1>2, <1>3, <1>5, <1>6, <1>8 DEF b, n

(* So does every range. *)
LEMMA RangeInHeap ==
  ASSUME NEW st, Ready(st, {}), NEW d \in Loose(st)
  PROVE  InHeap(RangeArea(st, d))
  BY LooseWithin, WithinHeap DEF RangeArea

(* Two objects that callers hold have no word in common. *)
LEMMA ObjectsOff ==
  ASSUME NEW st, Ready(st, {}), NEW c, NEW a \in Held(st, {}, c), NEW e, NEW b \in Held(st, {}, e),
         c # e \/ a # b
  PROVE  Off(ObjectArea(c, a), ObjectArea(e, b))
  <1>1. PICK s \in SlabsIn(st, c) : /\ s \in DOMAIN st.slab /\ st.slab[s].cache = c
                                    /\ a \in Objects(st, s) /\ a \notin st.slab[s].free
    BY HeldObject
  <1>2. PICK t \in SlabsIn(st, e) : /\ t \in DOMAIN st.slab /\ st.slab[t].cache = e
                                    /\ b \in Objects(st, t) /\ b \notin st.slab[t].free
    BY HeldObject
  <1>3. s # t \/ a # b
    BY <1>1, <1>2
  <1>4. \/ a + Cache[st.slab[s].cache].size <= b
        \/ b + Cache[st.slab[t].cache].size <= a
    BY <1>1, <1>2, <1>3, AllObjectsApart, FirmHas
  <1> QED BY <1>1, <1>2, <1>4 DEF Off, ObjectArea

(* What lies within two ranges has no word in common. *)
LEMMA WithinOff ==
  ASSUME NEW st, KmemKept(st), NEW d \in DOMAIN st.range, NEW e \in DOMAIN st.range, d # e,
         NEW a, NEW m, Within(st, d, a, m), NEW b, NEW l, Within(st, e, b, l)
  PROVE  a + m <= b \/ b + l <= a
  <1>1. Apart(st, d, e)
    BY DEF KmemKept, RangesKept, RangesApart
  <1>2. /\ st.range[d].base \in Nat /\ End(st, d) \in Nat /\ st.range[e].base \in Nat /\ End(st, e) \in Nat
    BY ShapeFacts DEF KmemKept
  <1>3. PageSize \in Nat
    BY KmemAssumption
  <1>4. /\ a \in Nat /\ m \in Nat /\ st.range[d].base * PageSize <= a /\ a + m <= End(st, d) * PageSize
        /\ b \in Nat /\ l \in Nat /\ st.range[e].base * PageSize <= b /\ b + l <= End(st, e) * PageSize
    BY DEF Within
  <1> DEFINE d1 == st.range[d].base * PageSize
             d2 == End(st, d) * PageSize
             e1 == st.range[e].base * PageSize
             e2 == End(st, e) * PageSize
  <1>5. d1 \in Nat /\ d2 \in Nat /\ e1 \in Nat /\ e2 \in Nat
    BY <1>2, <1>3
  <1>6. d2 <= e1 \/ e2 <= d1
    <2>1. CASE End(st, d) <= st.range[e].base
      BY <2>1, <1>2, <1>3, ProductGrows
    <2>2. CASE End(st, e) <= st.range[d].base
      BY <2>2, <1>2, <1>3, ProductGrows
    <2> QED BY <1>1, <2>1, <2>2 DEF Apart
  <1>7. d1 <= a /\ a + m <= d2 /\ e1 <= b /\ b + l <= e2
    BY <1>4
  <1> HIDE DEF d1, d2, e1, e2
  <1> QED BY <1>4, <1>5, <1>6, <1>7

(* An object and a range have nothing in common: the object lies in the    *)
(* range of a slab.                                                        *)
LEMMA ObjectRangeOff ==
  ASSUME NEW st, Ready(st, {}), NEW c, NEW a \in Held(st, {}, c), NEW d \in Loose(st)
  PROVE  Off(ObjectArea(c, a), RangeArea(st, d))
  <1>1. PICK s \in SlabsIn(st, c) : /\ s \in DOMAIN st.slab /\ st.slab[s].cache = c
                                    /\ a \in Objects(st, s) /\ a \notin st.slab[s].free
    BY HeldObject
  <1>2. KmemKept(st)
    BY FirmHas
  <1>3. st.slab[s].range \in DOMAIN st.range /\ Within(st, st.slab[s].range, a, Cache[c].size)
    BY <1>1, <1>2, ObjectWithin
  <1>4. st.range[st.slab[s].range].slab = s /\ s # NULL
    <2>1. st.range[st.slab[s].range].slab = s
      BY <1>1, <1>2, SlabLies
    <2>2. s # NULL
      BY <1>1, <1>2 DEF KmemKept, KmemShape
    <2> QED BY <2>1, <2>2
  <1>5. /\ d \in DOMAIN st.range /\ st.range[d].slab = NULL
        /\ Within(st, d, st.range[d].base * PageSize, st.range[d].nb_pages * PageSize)
    BY LooseWithin
  <1>6. st.slab[s].range # d
    BY <1>4, <1>5
  <1>7. \/ a + Cache[c].size <= st.range[d].base * PageSize
        \/ st.range[d].base * PageSize + st.range[d].nb_pages * PageSize <= a
    BY <1>2, <1>3, <1>5, <1>6, WithinOff
  <1> QED BY <1>7 DEF Off, ObjectArea, RangeArea

(* Nor have two ranges. *)
LEMMA RangesOff ==
  ASSUME NEW st, Ready(st, {}), NEW d \in Loose(st), NEW e \in Loose(st), d # e
  PROVE  Off(RangeArea(st, d), RangeArea(st, e))
  <1>1. KmemKept(st)
    BY FirmHas
  <1>2. /\ d \in DOMAIN st.range
        /\ Within(st, d, st.range[d].base * PageSize, st.range[d].nb_pages * PageSize)
        /\ e \in DOMAIN st.range
        /\ Within(st, e, st.range[e].base * PageSize, st.range[e].nb_pages * PageSize)
    BY LooseWithin
  <1>3. \/ st.range[d].base * PageSize + st.range[d].nb_pages * PageSize <= st.range[e].base * PageSize
        \/ st.range[e].base * PageSize + st.range[e].nb_pages * PageSize <= st.range[d].base * PageSize
    BY <1>1, <1>2, WithinOff
  <1> QED BY <1>3 DEF Off, RangeArea

(* Areas in the heap without a word in common do not begin together. *)
LEMMA OffStarts ==
  ASSUME NEW a, NEW b, InHeap(a), InHeap(b), Off(a, b)
  PROVE  a.addr # b.addr
  BY DEF InHeap, Off

(* An allocation: the area that is given is apart from all others. *)
Gives(st, x, size) ==
  \/ x.ret = NULL /\ HeldAreas(x) = HeldAreas(st)
  \/ /\ x.ret # NULL
     /\ HeldAreas(x) = HeldAreas(st) \union {[addr |-> x.ret, size |-> size]}
     /\ InHeap([addr |-> x.ret, size |-> size])
     /\ \A b \in HeldAreas(st) : Off([addr |-> x.ret, size |-> size], b)

(* A release: the area that begins there, and no other, is freed. *)
Takes(st, x, addr) ==
  \E a \in HeldAreas(st) :
    /\ a.addr = addr /\ HeldAreas(x) = HeldAreas(st) \ {a}
    /\ \A b \in HeldAreas(st) : b # a => b.addr # addr

(* One object more. *)
HeldMore(st, n, c, a) ==
  /\ Held(n, {}, c) = Held(st, {}, c) \union {a}
  /\ \A e \in DOMAIN Shape \ {c} : Held(n, {}, e) = Held(st, {}, e)

(* A caller gets an object. *)
LEMMA ObjectAreaMore ==
  ASSUME NEW st, NEW n, NEW c \in DOMAIN Shape, NEW a, HeldMore(st, n, c, a)
  PROVE  ObjectAreas(n) = ObjectAreas(st) \union {ObjectArea(c, a)}
  <1> DEFINE In(x, e) == {ObjectArea(e, b) : b \in Held(x, {}, e)}
  <1>1. In(n, c) = In(st, c) \union {ObjectArea(c, a)}
    BY DEF HeldMore
  <1>2. \A e \in DOMAIN Shape \ {c} : In(n, e) = In(st, e)
    BY DEF HeldMore
  <1>3. ObjectAreas(n) = UNION {In(n, e) : e \in DOMAIN Shape}
    BY DEF ObjectAreas
  <1>4. ObjectAreas(st) = UNION {In(st, e) : e \in DOMAIN Shape}
    BY DEF ObjectAreas
  <1> HIDE DEF In
  <1>5. ASSUME NEW y
        PROVE  y \in ObjectAreas(n) <=> y \in ObjectAreas(st) \union {ObjectArea(c, a)}
    <2>1. y \in ObjectAreas(n) <=> \E e \in DOMAIN Shape : y \in In(n, e)
      BY <1>3
    <2>2. y \in ObjectAreas(st) <=> \E e \in DOMAIN Shape : y \in In(st, e)
      BY <1>4
    <2>3. (\E e \in DOMAIN Shape : y \in In(n, e))
            <=> y = ObjectArea(c, a) \/ \E e \in DOMAIN Shape : y \in In(st, e)
      BY <1>1, <1>2
    <2> QED BY <2>1, <2>2, <2>3
  <1> QED BY <1>5

(* One range more. *)
LEMMA RangeAreaMore ==
  ASSUME NEW st, NEW n, NEW d, LooseMore(st, n, d)
  PROVE  RangeAreas(n) = RangeAreas(st) \union {RangeArea(n, d)}
  <1>1. Loose(n) = Loose(st) \union {d}
    BY DEF LooseMore
  <1>2. \A e \in Loose(st) : RangeArea(n, e) = RangeArea(st, e)
    BY DEF LooseMore, RangeArea
  <1>3. {RangeArea(n, e) : e \in Loose(st)} = RangeAreas(st)
    BY <1>2 DEF RangeAreas
  <1>4. RangeAreas(n) = {RangeArea(n, e) : e \in Loose(st)} \union {RangeArea(n, d)}
    BY <1>1 DEF RangeAreas
  <1> QED BY <1>3, <1>4

(* The areas of a state, one by one. *)
LEMMA AreaIs ==
  ASSUME NEW st, NEW b
  PROVE  b \in HeldAreas(st) <=>
           \/ \E c \in DOMAIN Shape : \E a \in Held(st, {}, c) : b = ObjectArea(c, a)
           \/ \E d \in Loose(st) : b = RangeArea(st, d)
  <1>1. b \in ObjectAreas(st) <=> \E c \in DOMAIN Shape : \E a \in Held(st, {}, c) : b = ObjectArea(c, a)
    BY DEF ObjectAreas
  <1>2. b \in RangeAreas(st) <=> \E d \in Loose(st) : b = RangeArea(st, d)
    BY DEF RangeAreas
  <1> QED BY <1>1, <1>2 DEF HeldAreas

(* The areas before an operation are among those after it. *)
LEMMA ObjectOffAll ==
  ASSUME NEW n, Ready(n, {}), NEW c \in DOMAIN Shape, NEW a \in Held(n, {}, c),
         NEW st, a \notin Held(st, {}, c), \A e \in DOMAIN Shape : Held(st, {}, e) \subseteq Held(n, {}, e),
         RangeAreas(n) = RangeAreas(st), NEW b \in HeldAreas(st)
  PROVE  Off(ObjectArea(c, a), b)
  <1>1. CASE \E e \in DOMAIN Shape : \E o \in Held(st, {}, e) : b = ObjectArea(e, o)
    <2>1. PICK e \in DOMAIN Shape : \E o \in Held(st, {}, e) : b = ObjectArea(e, o)
      BY <1>1
    <2>2. PICK o \in Held(st, {}, e) : b = ObjectArea(e, o)
      BY <2>1
    <2>3. o \in Held(n, {}, e) /\ (c # e \/ a # o)
      OBVIOUS
    <2> QED BY <2>2, <2>3, ObjectsOff
  <1>2. CASE \E d \in Loose(st) : b = RangeArea(st, d)
    <2>1. b \in RangeAreas(n)
      BY <1>2 DEF RangeAreas
    <2>2. PICK d \in Loose(n) : b = RangeArea(n, d)
      BY <2>1 DEF RangeAreas
    <2> QED BY <2>2, ObjectRangeOff
  <1> QED BY <1>1, <1>2, AreaIs

(* sos_kmem_cache_alloc() gives a caller an object that nobody holds, or   *)
(* none.                                                                   *)
LEMMA ObjectAllocGives ==
  ASSUME Standing(k), NEW c \in DOMAIN k.cache, c \in DOMAIN Shape, NEW n \in Nat,
         NEW x, x = CacheAlloc(Granted(n), c)
  PROVE  Standing(x) /\ Gives(k, x, Cache[c].size)
  <1> DEFINE g == Granted(n)
  <1>1. /\ Alike(k, g) /\ g.avail = n /\ Standing(g) /\ NbRanges(g) >= 2 /\ HeldAreas(g) = HeldAreas(k)
    BY GrantedAlike
  <1>2. g.cache = k.cache /\ c \notin OwnNames
    BY <1>1, CallersCaches DEF Alike
  <1> HIDE DEF g
  <1>3. Ready(g, {}) /\ g.cache[c].nb_free >= Cache[c].min /\ Tidy(g, {}, c)
    BY <1>1, <1>2 DEF Standing
  <1>4. Allocated(g, x, c)
    <2>1. c \in DOMAIN g.cache /\ g.avail \in Nat /\ c # "ranges" /\ c # "kslabs"
      BY <1>1, <1>2 DEF OwnNames
    <2>2. x = CacheAlloc(g, c)
      BY DEF g
    <2> QED BY <1>1, <1>3, <2>1, <2>2, CacheAllocReady
  <1>5. /\ Ready(x, {}) /\ LooseLess(g, x, {}) /\ Frame(g, {}, x, {}, {c})
        /\ x.cache[c].nb_free >= Cache[c].min /\ Tidy(x, {}, c)
        /\ \/ x.ret = NULL /\ Held(x, {}, c) = Held(g, {}, c)
           \/ /\ x.ret # NULL /\ x.ret \notin Held(g, {}, c)
              /\ Held(x, {}, c) = Held(g, {}, c) \union {x.ret}
    BY <1>3, <1>4 DEF Allocated
  <1>6. Standing(x)
    BY <1>1, <1>2, <1>5, StandingAfter
  <1>7. RangeAreas(x) = RangeAreas(g)
    BY <1>5, SameRangeAreas
  <1>8. \A e \in DOMAIN Shape \ {c} : Held(x, {}, e) = Held(g, {}, e)
    <2> SUFFICES ASSUME NEW e \in DOMAIN Shape \ {c} PROVE Held(x, {}, e) = Held(g, {}, e)
      OBVIOUS
    <2>1. CASE e \in DOMAIN g.cache
      BY <2>1, <1>5 DEF Frame
    <2>2. CASE e \notin DOMAIN g.cache
      <3>1. e \notin DOMAIN x.cache
        BY <2>2, <1>5 DEF Frame
      <3>2. Held(x, {}, e) = {}
        BY <3>1, <1>5, NoCacheNoObject
      <3>3. Held(g, {}, e) = {}
        BY <2>2, <1>3, NoCacheNoObject
      <3> QED BY <3>2, <3>3
    <2> QED BY <2>1, <2>2
  <1>9. CASE x.ret = NULL
    <2>1. \A e \in DOMAIN Shape : Held(x, {}, e) = Held(g, {}, e)
      BY <1>5, <1>8, <1>9
    <2>2. ObjectAreas(x) = ObjectAreas(g)
      BY <2>1, SameObjectAreas
    <2>3. HeldAreas(x) = HeldAreas(k)
      BY <2>2, <1>7, <1>1 DEF HeldAreas
    <2> QED BY <2>3, <1>6, <1>9 DEF Gives
  <1>10. CASE x.ret # NULL
    <2>1. x.ret \notin Held(g, {}, c) /\ Held(x, {}, c) = Held(g, {}, c) \union {x.ret}
      BY <1>5, <1>10
    <2>2. ObjectAreas(x) = ObjectAreas(g) \union {ObjectArea(c, x.ret)}
      <3>1. HeldMore(g, x, c, x.ret)
        BY <2>1, <1>8 DEF HeldMore
      <3> QED BY <3>1, ObjectAreaMore
    <2>3. HeldAreas(x) = HeldAreas(g) \union {ObjectArea(c, x.ret)}
      BY <2>2, <1>7 DEF HeldAreas
    <2>4. \A e \in DOMAIN Shape : Held(g, {}, e) \subseteq Held(x, {}, e)
      BY <2>1, <1>8
    <2>5. InHeap(ObjectArea(c, x.ret))
      BY <2>1, <1>5, ObjectInHeap
    <2>6. \A b \in HeldAreas(g) : Off(ObjectArea(c, x.ret), b)
      BY <2>1, <2>4, <1>5, <1>7, ObjectOffAll
    <2> QED BY <2>3, <2>5, <2>6, <1>1, <1>6, <1>10 DEF Gives, ObjectArea
  <1> QED BY <1>9, <1>10

(* sos_kmem_vmm_alloc() gives an area that nobody holds, or none. *)
LEMMA PageAllocGives ==
  ASSUME Standing(k), NEW nb \in Nat \ {0}, NEW n \in Nat,
         NEW x, x = AndThen(NewRange(Granted(n), nb), BaseOf)
  PROVE  Standing(x) /\ Gives(k, x, nb * PageSize)
  <1> DEFINE g == Granted(n)
             p == NewRange(g, nb)
  <1>1. /\ Alike(k, g) /\ g.avail = n /\ Standing(g) /\ NbRanges(g) >= 2 /\ HeldAreas(g) = HeldAreas(k)
    BY GrantedAlike
  <1>2. x = IF p.ret = NULL THEN p ELSE BaseOf(p)
    BY DEF AndThen
  <1> HIDE DEF g
  <1>3. RangeTaken(g, p, nb)
    BY <1>1, NewRangeReady DEF Standing
  <1> HIDE DEF p
  <1>4. /\ Ready(p, {}) /\ Frame(g, {}, p, {}, {})
        /\ \/ p.ret = NULL /\ LooseLess(g, p, {})
           \/ p.ret # NULL /\ LooseMore(g, p, p.ret) /\ p.range[p.ret].nb_pages = nb
    BY <1>3 DEF RangeTaken
  <1>5. Ready(g, {})
    BY <1>1 DEF Standing
  <1>6. Standing(p) /\ \A e \in DOMAIN Shape : Held(p, {}, e) = Held(g, {}, e)
    <2>1. DOMAIN p.cache = DOMAIN g.cache
      BY <1>4 DEF Frame
    <2>2. ASSUME NEW e \in DOMAIN g.cache
          PROVE  /\ p.cache[e].nb_free >= Cache[e].min /\ Tidy(p, {}, e) /\ Held(p, {}, e) = Held(g, {}, e)
      <3>1. Held(p, {}, e) = Held(g, {}, e) /\ Stocked(g, p, e) /\ (Tidy(g, {}, e) => Tidy(p, {}, e))
        BY <1>4 DEF Frame
      <3>2. g.cache[e].nb_free >= Cache[e].min /\ Tidy(g, {}, e)
        BY <1>1 DEF Standing
      <3>3. /\ g.cache[e].nb_free \in Nat /\ Cache[e].min \in Nat /\ p.cache[e].nb_free \in Nat
        BY <2>1, <1>4, <1>5, FirmHas, Counts
      <3>4. p.cache[e].nb_free >= Cache[e].min
        BY <3>1, <3>2, <3>3 DEF Stocked
      <3> QED BY <3>1, <3>2, <3>4
    <2>3. OwnNames \subseteq DOMAIN g.cache
      BY <1>5, FirmHas
    <2>4. \A e \in OwnNames : Held(p, {}, e) = {}
      BY <2>2, <2>3, <1>1 DEF Standing
    <2>5. \A e \in DOMAIN Shape : Held(p, {}, e) = Held(g, {}, e)
      <3> SUFFICES ASSUME NEW e \in DOMAIN Shape PROVE Held(p, {}, e) = Held(g, {}, e)
        OBVIOUS
      <3>1. CASE e \in DOMAIN g.cache
        BY <3>1, <2>2
      <3>2. CASE e \notin DOMAIN g.cache
        <4>1. Held(p, {}, e) = {}
          BY <2>1, <3>2, <1>4, NoCacheNoObject
        <4>2. Held(g, {}, e) = {}
          BY <3>2, <1>5, NoCacheNoObject
        <4> QED BY <4>1, <4>2
      <3> QED BY <3>1, <3>2
    <2>6. Standing(p)
      BY <2>1, <2>2, <2>4, <1>4 DEF Standing
    <2> QED BY <2>5, <2>6
  <1>7. ObjectAreas(p) = ObjectAreas(g)
    BY <1>6, SameObjectAreas
  <1>8. CASE p.ret = NULL
    <2>1. x = p
      BY <1>2, <1>8
    <2>2. RangeAreas(p) = RangeAreas(g)
      BY <1>4, <1>8, SameRangeAreas
    <2> QED BY <2>1, <2>2, <1>1, <1>6, <1>7, <1>8 DEF Gives, HeldAreas
  <1>9. CASE p.ret # NULL
    <2> DEFINE d == p.ret
               a == RangeArea(p, d)
    <2>1. LooseMore(g, p, d) /\ p.range[d].nb_pages = nb
      BY <1>4, <1>9
    <2>2. d \in Loose(p) /\ d \notin Loose(g)
      BY <2>1 DEF LooseMore
    <2>3. RangeAreas(p) = RangeAreas(g) \union {a}
      BY <2>1, RangeAreaMore
    <2>4. InHeap(a)
      BY <2>2, <1>4, RangeInHeap
    <2>5. x = Return(p, p.range[d].base * PageSize)
      BY <1>2, <1>9 DEF BaseOf
    <2>6. a = [addr |-> p.range[d].base * PageSize, size |-> nb * PageSize]
      BY <2>1 DEF RangeArea
    <2>7. Shaped(p)
      BY <1>4, FirmHas
    <2>8. Alike(p, x) /\ x.ret = p.range[d].base * PageSize
      BY <2>5, <2>7, ReturnAlike
    <2>9. Standing(x) /\ HeldAreas(x) = HeldAreas(p)
      BY <2>8, <1>6, AlikeStanding
    <2>10. x.ret # NULL
      <3>1. a.addr = x.ret /\ PageSize <= a.addr /\ a.addr \in Nat
        BY <2>4, <2>6, <2>8 DEF InHeap
      <3>2. PageSize \in Nat \ {0} /\ NULL = 0
        BY KmemAssumption DEF NULL
      <3> QED BY <3>1, <3>2
    <2>11. HeldAreas(x) = HeldAreas(k) \union {a}
      BY <2>3, <2>9, <1>7, <1>1 DEF HeldAreas
    <2>12. ASSUME NEW b \in HeldAreas(k)
           PROVE  Off(a, b)
      <3>1. b \in HeldAreas(g)
        BY <1>1
      <3>2. CASE \E e \in DOMAIN Shape : \E o \in Held(g, {}, e) : b = ObjectArea(e, o)
        <4>1. PICK e \in DOMAIN Shape : \E o \in Held(g, {}, e) : b = ObjectArea(e, o)
          BY <3>2
        <4>2. PICK o \in Held(g, {}, e) : b = ObjectArea(e, o)
          BY <4>1
        <4>3. o \in Held(p, {}, e)
          BY <1>6
        <4>4. Off(b, a)
          BY <4>2, <4>3, <2>2, <1>4, ObjectRangeOff
        <4> QED BY <4>4 DEF Off
      <3>3. CASE \E e \in Loose(g) : b = RangeArea(g, e)
        <4>1. PICK e \in Loose(g) : b = RangeArea(g, e)
          BY <3>3
        <4>2. e \in Loose(p) /\ e # d /\ b = RangeArea(p, e)
          BY <4>1, <2>1, <2>2 DEF LooseMore, RangeArea
        <4> QED BY <4>2, <2>2, <1>4, RangesOff
      <3> QED BY <3>1, <3>2, <3>3, AreaIs
    <2> HIDE DEF d, a
    <2>13. a = [addr |-> x.ret, size |-> nb * PageSize]
      BY <2>6, <2>8
    <2> QED BY <2>4, <2>9, <2>10, <2>11, <2>12, <2>13 DEF Gives
  <1> QED BY <1>8, <1>9

(* Two areas begin at two addresses. *)
LEMMA AreasOff ==
  ASSUME NEW st, Ready(st, {})
  PROVE  \A a, b \in HeldAreas(st) : InHeap(a) /\ (a # b => Off(a, b) /\ a.addr # b.addr)
  <1>1. ASSUME NEW a \in HeldAreas(st) PROVE InHeap(a)
    <2>1. CASE \E c \in DOMAIN Shape : \E o \in Held(st, {}, c) : a = ObjectArea(c, o)
      BY <2>1, ObjectInHeap
    <2>2. CASE \E d \in Loose(st) : a = RangeArea(st, d)
      BY <2>2, RangeInHeap
    <2> QED BY <2>1, <2>2, AreaIs
  <1>2. ASSUME NEW a \in HeldAreas(st), NEW b \in HeldAreas(st), a # b PROVE Off(a, b)
    <2>1. CASE \E c \in DOMAIN Shape : \E o \in Held(st, {}, c) : a = ObjectArea(c, o)
      <3>1. PICK c \in DOMAIN Shape : \E o \in Held(st, {}, c) : a = ObjectArea(c, o)
        BY <2>1
      <3>2. PICK o \in Held(st, {}, c) : a = ObjectArea(c, o)
        BY <3>1
      <3>3. CASE \E e \in DOMAIN Shape : \E p \in Held(st, {}, e) : b = ObjectArea(e, p)
        <4>1. PICK e \in DOMAIN Shape : \E p \in Held(st, {}, e) : b = ObjectArea(e, p)
          BY <3>3
        <4>2. PICK p \in Held(st, {}, e) : b = ObjectArea(e, p)
          BY <4>1
        <4>3. c # e \/ o # p
          BY <1>2, <3>2, <4>2
        <4> QED BY <3>2, <4>2, <4>3, ObjectsOff
      <3>4. CASE \E d \in Loose(st) : b = RangeArea(st, d)
        BY <3>2, <3>4, ObjectRangeOff
      <3> QED BY <3>3, <3>4, AreaIs
    <2>2. CASE \E d \in Loose(st) : a = RangeArea(st, d)
      <3>1. PICK d \in Loose(st) : a = RangeArea(st, d)
        BY <2>2
      <3>2. CASE \E e \in DOMAIN Shape : \E p \in Held(st, {}, e) : b = ObjectArea(e, p)
        <4>1. PICK e \in DOMAIN Shape : \E p \in Held(st, {}, e) : b = ObjectArea(e, p)
          BY <3>2
        <4>2. PICK p \in Held(st, {}, e) : b = ObjectArea(e, p)
          BY <4>1
        <4>3. Off(b, a)
          BY <3>1, <4>2, ObjectRangeOff
        <4> QED BY <4>3 DEF Off
      <3>3. CASE \E e \in Loose(st) : b = RangeArea(st, e)
        <4>1. PICK e \in Loose(st) : b = RangeArea(st, e)
          BY <3>3
        <4>2. d # e
          BY <1>2, <3>1, <4>1
        <4> QED BY <3>1, <4>1, <4>2, RangesOff
      <3> QED BY <3>2, <3>3, AreaIs
    <2> QED BY <2>1, <2>2, AreaIs
  <1>3. ASSUME NEW a \in HeldAreas(st), NEW b \in HeldAreas(st), a # b PROVE a.addr # b.addr
    BY <1>1, <1>2, <1>3, OffStarts
  <1> QED BY <1>1, <1>2, <1>3

(* One object less. *)
HeldLess(st, n, c, a) ==
  /\ Held(n, {}, c) = Held(st, {}, c) \ {a}
  /\ \A e \in DOMAIN Shape \ {c} : Held(n, {}, e) = Held(st, {}, e)

(* A caller gives an object back. *)
LEMMA ObjectAreaLess ==
  ASSUME NEW st, Ready(st, {}), NEW n, NEW c \in DOMAIN Shape, NEW a \in Held(st, {}, c), HeldLess(st, n, c, a)
  PROVE  ObjectAreas(n) = ObjectAreas(st) \ {ObjectArea(c, a)}
  <1>1. \A y : y \in ObjectAreas(n) <=> \E e \in DOMAIN Shape : \E b \in Held(n, {}, e) : y = ObjectArea(e, b)
    BY DEF ObjectAreas
  <1>2. \A y : y \in ObjectAreas(st) <=> \E e \in DOMAIN Shape : \E b \in Held(st, {}, e) : y = ObjectArea(e, b)
    BY DEF ObjectAreas
  <1>3. ASSUME NEW e \in DOMAIN Shape, NEW b \in Held(st, {}, e), e # c \/ b # a
        PROVE  ObjectArea(e, b) # ObjectArea(c, a)
    <2>1. Off(ObjectArea(e, b), ObjectArea(c, a))
      BY <1>3, ObjectsOff
    <2>2. InHeap(ObjectArea(e, b)) /\ InHeap(ObjectArea(c, a))
      BY ObjectInHeap
    <2>3. ObjectArea(e, b).addr # ObjectArea(c, a).addr
      BY <2>1, <2>2, OffStarts
    <2> QED BY <2>3
  <1>4. \A e \in DOMAIN Shape : \A b : b \in Held(n, {}, e) <=> b \in Held(st, {}, e) /\ (e # c \/ b # a)
    BY DEF HeldLess
  <1>5. ASSUME NEW y
        PROVE  y \in ObjectAreas(n) <=> y \in ObjectAreas(st) \ {ObjectArea(c, a)}
    <2>1. ASSUME y \in ObjectAreas(n)
          PROVE  y \in ObjectAreas(st) \ {ObjectArea(c, a)}
      <3>1. PICK e \in DOMAIN Shape : \E b \in Held(n, {}, e) : y = ObjectArea(e, b)
        BY <2>1, <1>1
      <3>2. PICK b \in Held(n, {}, e) : y = ObjectArea(e, b)
        BY <3>1
      <3>3. b \in Held(st, {}, e) /\ (e # c \/ b # a)
        BY <1>4
      <3> QED BY <3>2, <3>3, <1>2, <1>3
    <2>2. ASSUME y \in ObjectAreas(st), y # ObjectArea(c, a)
          PROVE  y \in ObjectAreas(n)
      <3>1. PICK e \in DOMAIN Shape : \E b \in Held(st, {}, e) : y = ObjectArea(e, b)
        BY <2>2, <1>2
      <3>2. PICK b \in Held(st, {}, e) : y = ObjectArea(e, b)
        BY <3>1
      <3>3. e # c \/ b # a
        BY <3>2, <2>2
      <3>4. b \in Held(n, {}, e)
        BY <3>3, <1>4
      <3> QED BY <3>2, <3>4, <1>1
    <2> QED BY <2>1, <2>2
  <1> QED BY <1>5

(* An area is taken away. *)
LEMMA TakesFrom ==
  ASSUME NEW st, Ready(st, {}), NEW x, NEW a \in HeldAreas(st), HeldAreas(x) = HeldAreas(st) \ {a}
  PROVE  Takes(st, x, a.addr)
  BY AreasOff DEF Takes

(* sos_kmem_cache_free() takes the area of the object back, and no other. *)
LEMMA CacheFreeTakes ==
  ASSUME NEW st, Standing(st), NEW c \in DOMAIN Shape, NEW a \in Held(st, {}, c), NEW x, x = CacheFree(st, a)
  PROVE  Standing(x) /\ Takes(st, x, a)
  <1>1. Ready(st, {})
    BY DEF Standing
  <1>2. c \in DOMAIN st.cache
    BY <1>1, NoCacheNoObject
  <1>3. c \notin OwnNames
    BY CallersCaches
  <1>4. CacheFreed(st, x, {}, c, a)
    BY <1>1, <1>2, CacheFreeReady
  <1>5. /\ Ready(x, {}) /\ Frame(st, {}, x, {}, {c}) /\ Held(x, {}, c) = Held(st, {}, c) \ {a}
        /\ Tidy(st, {}, c) => Tidy(x, {}, c)
        /\ LooseLess(st, x, {})
        /\ x.cache[c].nb_free >= st.cache[c].nb_free + 1 \/ x.cache[c].nb_free >= Cache[c].min
    BY <1>4 DEF CacheFreed
  <1>6. st.cache[c].nb_free >= Cache[c].min /\ Tidy(st, {}, c)
    BY <1>2 DEF Standing
  <1>7. x.cache[c].nb_free >= Cache[c].min
    <2>1. c \in DOMAIN x.cache
      BY <1>2, <1>5 DEF Frame
    <2>2. st.cache[c].nb_free \in Nat /\ x.cache[c].nb_free \in Nat /\ Cache[c].min \in Nat
      BY <1>1, <1>2, <1>5, <2>1, FirmHas, Counts
    <2> QED BY <2>2, <1>5, <1>6
  <1>8. Standing(x)
    BY <1>2, <1>3, <1>5, <1>6, <1>7, StandingAfter
  <1>9. \A e \in DOMAIN Shape \ {c} : Held(x, {}, e) = Held(st, {}, e)
    <2> SUFFICES ASSUME NEW e \in DOMAIN Shape \ {c} PROVE Held(x, {}, e) = Held(st, {}, e)
      OBVIOUS
    <2>1. CASE e \in DOMAIN st.cache
      BY <2>1, <1>5 DEF Frame
    <2>2. CASE e \notin DOMAIN st.cache
      <3>1. e \notin DOMAIN x.cache
        BY <2>2, <1>5 DEF Frame
      <3>2. Held(x, {}, e) = {}
        BY <3>1, <1>5, NoCacheNoObject
      <3>3. Held(st, {}, e) = {}
        BY <2>2, <1>1, NoCacheNoObject
      <3> QED BY <3>2, <3>3
    <2> QED BY <2>1, <2>2
  <1>10. ObjectAreas(x) = ObjectAreas(st) \ {ObjectArea(c, a)}
    <2>1. HeldLess(st, x, c, a)
      BY <1>5, <1>9 DEF HeldLess
    <2> QED BY <2>1, <1>1, ObjectAreaLess
  <1>11. ObjectArea(c, a) \in HeldAreas(st) /\ ObjectArea(c, a) \notin RangeAreas(st)
    <2>1. ObjectArea(c, a) \in HeldAreas(st)
      BY AreaIs
    <2>2. ASSUME NEW d \in Loose(st)
          PROVE  ObjectArea(c, a) # RangeArea(st, d)
      <3>1. Off(ObjectArea(c, a), RangeArea(st, d))
        BY <1>1, ObjectRangeOff
      <3>2. InHeap(ObjectArea(c, a)) /\ InHeap(RangeArea(st, d))
        BY <1>1, ObjectInHeap, RangeInHeap
      <3> QED BY <3>1, <3>2, OffStarts
    <2> QED BY <2>1, <2>2 DEF RangeAreas
  <1>12. HeldAreas(x) = HeldAreas(st) \ {ObjectArea(c, a)}
    BY <1>5, <1>10, <1>11, SameRangeAreas DEF HeldAreas
  <1>13. ObjectArea(c, a).addr = a
    BY DEF ObjectArea
  <1> QED BY <1>1, <1>8, <1>11, <1>12, <1>13, TakesFrom

(* A frame of no cache. *)
LEMMA StandingFramed ==
  ASSUME NEW st, Standing(st), NEW n, Ready(n, {}), Frame(st, {}, n, {}, {})
  PROVE  Standing(n) /\ ObjectAreas(n) = ObjectAreas(st)
  <1>1. DOMAIN n.cache = DOMAIN st.cache /\ Ready(st, {})
    BY DEF Frame, Standing
  <1>2. ASSUME NEW e \in DOMAIN st.cache
        PROVE  /\ n.cache[e].nb_free >= Cache[e].min /\ Tidy(n, {}, e) /\ Held(n, {}, e) = Held(st, {}, e)
    <2>1. Held(n, {}, e) = Held(st, {}, e) /\ Stocked(st, n, e) /\ (Tidy(st, {}, e) => Tidy(n, {}, e))
      BY DEF Frame
    <2>2. st.cache[e].nb_free >= Cache[e].min /\ Tidy(st, {}, e)
      BY DEF Standing
    <2>3. st.cache[e].nb_free \in Nat /\ Cache[e].min \in Nat /\ n.cache[e].nb_free \in Nat
      BY <1>1, FirmHas, Counts
    <2>4. n.cache[e].nb_free >= Cache[e].min
      BY <2>1, <2>2, <2>3 DEF Stocked
    <2> QED BY <2>1, <2>2, <2>4
  <1>3. OwnNames \subseteq DOMAIN st.cache
    BY <1>1, FirmHas
  <1>4. \A e \in OwnNames : Held(n, {}, e) = {}
    BY <1>2, <1>3 DEF Standing
  <1>5. Standing(n)
    BY <1>1, <1>2, <1>4 DEF Standing
  <1>6. \A e \in DOMAIN Shape : Held(n, {}, e) = Held(st, {}, e)
    <2> SUFFICES ASSUME NEW e \in DOMAIN Shape PROVE Held(n, {}, e) = Held(st, {}, e)
      OBVIOUS
    <2>1. CASE e \in DOMAIN st.cache
      BY <2>1, <1>2
    <2>2. CASE e \notin DOMAIN st.cache
      <3>1. Held(n, {}, e) = {}
        BY <2>2, <1>1, NoCacheNoObject
      <3>2. Held(st, {}, e) = {}
        BY <2>2, <1>1, NoCacheNoObject
      <3> QED BY <3>1, <3>2
    <2> QED BY <2>1, <2>2
  <1>7. ObjectAreas(n) = ObjectAreas(st)
    BY <1>6, SameObjectAreas
  <1> QED BY <1>5, <1>7

(* sos_kmem_vmm_free() of a used range takes its area back, and no other. *)
LEMMA DelRangeTakes ==
  ASSUME NEW st, Standing(st), NEW d \in Loose(st), NEW x, x = DelRange(st, d)
  PROVE  Standing(x) /\ Takes(st, x, st.range[d].base * PageSize)
  <1>1. Ready(st, {})
    BY DEF Standing
  <1>2. d \in ToSet(st.used) /\ st.range[d].slab = NULL
    BY DEF Loose
  <1>3. Deleted(st, x, {}, d)
    <2>1. \A e \in ToSet(st.used) \ {d} : PagesOf(st, e) \subseteq DOMAIN st.owner
      BY <1>1, FirmHas DEF AllMapped
    <2> QED BY <1>1, <1>2, <2>1, FirmHas, DelRangeDeletes
  <1>4. /\ Ready(x, {}) /\ Frame(st, {}, x, {}, {}) /\ LooseLess(st, x, {d})
    BY <1>1, <1>3, FirmHas, DeletedFrame
  <1>5. Standing(x) /\ ObjectAreas(x) = ObjectAreas(st)
    BY <1>4, StandingFramed
  <1>6. RangeAreas(x) = RangeAreas(st) \ {RangeArea(st, d)}
    <2>1. Loose(x) = Loose(st) \ {d}
      BY <1>4 DEF LooseLess
    <2>2. \A e \in Loose(x) : RangeArea(x, e) = RangeArea(st, e)
      BY <1>4 DEF LooseLess, RangeArea
    <2>3. RangeAreas(x) = {RangeArea(st, e) : e \in Loose(st) \ {d}}
      BY <2>1, <2>2 DEF RangeAreas
    <2>4. ASSUME NEW e \in Loose(st), e # d
          PROVE  RangeArea(st, e) # RangeArea(st, d)
      <3>1. Off(RangeArea(st, e), RangeArea(st, d))
        BY <2>4, <1>1, RangesOff
      <3>2. InHeap(RangeArea(st, e)) /\ InHeap(RangeArea(st, d))
        BY <1>1, RangeInHeap
      <3> QED BY <3>1, <3>2, OffStarts
    <2> QED BY <2>3, <2>4 DEF RangeAreas
  <1>7. RangeArea(st, d) \in HeldAreas(st) /\ RangeArea(st, d) \notin ObjectAreas(st)
    <2>1. RangeArea(st, d) \in HeldAreas(st)
      BY AreaIs
    <2>2. ASSUME NEW c \in DOMAIN Shape, NEW a \in Held(st, {}, c)
          PROVE  ObjectArea(c, a) # RangeArea(st, d)
      <3>1. Off(ObjectArea(c, a), RangeArea(st, d))
        BY <1>1, ObjectRangeOff
      <3>2. InHeap(ObjectArea(c, a)) /\ InHeap(RangeArea(st, d))
        BY <1>1, ObjectInHeap, RangeInHeap
      <3> QED BY <3>1, <3>2, OffStarts
    <2> QED BY <2>1, <2>2 DEF ObjectAreas
  <1>8. HeldAreas(x) = HeldAreas(st) \ {RangeArea(st, d)}
    BY <1>5, <1>6, <1>7 DEF HeldAreas
  <1>9. RangeArea(st, d).addr = st.range[d].base * PageSize
    BY DEF RangeArea
  <1> QED BY <1>1, <1>5, <1>7, <1>8, <1>9, TakesFrom

(* The range that sos_kmem_vmm_free() deletes. *)
LEMMA FreeableIs ==
  ASSUME NEW st, Ready(st, {}), NEW addr \in Nat, Freeable(st, addr)
  PROVE  /\ Lookup(st, PageOf(addr)) \in Loose(st)
         /\ st.range[Lookup(st, PageOf(addr))].base * PageSize = addr
  <1> DEFINE d == Lookup(st, PageOf(addr))
  <1>1. d # NULL /\ st.range[d].base * PageSize = addr /\ st.range[d].slab = NULL
    BY DEF Freeable
  <1>2. PageOf(addr) \in Nat
    BY KmemAssumption DEF PageOf
  <1>3. d \in DOMAIN st.range \ ToSet(st.free)
    BY <1>1, <1>2, LookupFinds, FirmHas
  <1>4. d \in ToSet(st.used)
    <2>1. ToSet(st.ranges_to_free) = {}
      BY FirmHas DEF ToSet
    <2> QED BY <2>1, <1>3, FirmHas DEF AllListed, Pending
  <1> QED BY <1>1, <1>4 DEF Loose

(* The address of an area of a caller is of an object just when the area is *)
(* one.                                                                    *)
LEMMA ObjectIsOne ==
  ASSUME NEW st, Ready(st, {}), NEW d \in Loose(st)
  PROVE  ~ IsObject(st, st.range[d].base * PageSize)
  <1> DEFINE addr == st.range[d].base * PageSize
             s == ResolveSlab(st, PageOf(addr))
  <1>1. SUFFICES ASSUME s # NULL, addr \in Objects(st, s) PROVE FALSE
    BY DEF IsObject, ObjectIn
  <1>2. KmemKept(st)
    BY FirmHas
  <1>3. /\ d \in DOMAIN st.range /\ st.range[d].slab = NULL /\ st.range[d].nb_pages \in Nat \ {0}
        /\ Within(st, d, addr, st.range[d].nb_pages * PageSize)
    BY LooseWithin
  <1>4. addr \in Nat
    BY <1>3 DEF Within
  <1>5. PageOf(addr) \in Nat
    BY <1>4, KmemAssumption DEF PageOf
  <1> HIDE DEF addr
  <1>6. s \in DOMAIN st.slab
    BY <1>1, <1>2, <1>5, ResolveSlabFinds
  <1> HIDE DEF s
  <1>7. st.slab[s].range \in DOMAIN st.range /\ Within(st, st.slab[s].range, addr, Cache[st.slab[s].cache].size)
    BY <1>1, <1>2, <1>6, ObjectWithin
  <1>8. st.slab[s].range = d
    BY <1>2, <1>3, <1>7, WithinApart
  <1>9. st.range[d].slab = s
    BY <1>2, <1>6, <1>8, SlabLies
  <1> QED BY <1>1, <1>3, <1>9

(* What the creation or the destruction of a cache leaves alone. *)
LEMMA StandingOthers ==
  ASSUME NEW st, Standing(st), NEW n, Ready(n, {}), NEW c, c \notin OwnNames, Others(st, n, c),
         LooseLess(st, n, {}), Held(st, {}, c) = {},
         c \in DOMAIN n.cache =>
           n.cache[c].nb_free >= Cache[c].min /\ Tidy(n, {}, c) /\ Held(n, {}, c) = {}
  PROVE  Standing(n) /\ HeldAreas(n) = HeldAreas(st)
  <1>1. Ready(st, {}) /\ DOMAIN n.cache \ {c} = DOMAIN st.cache \ {c}
    BY DEF Standing, Others
  <1>2. ASSUME NEW e \in DOMAIN st.cache \ {c}
        PROVE  n.cache[e].nb_free >= Cache[e].min /\ Tidy(n, {}, e) /\ Held(n, {}, e) = Held(st, {}, e)
    <2>1. Held(n, {}, e) = Held(st, {}, e) /\ Stocked(st, n, e) /\ (Tidy(st, {}, e) => Tidy(n, {}, e))
      BY DEF Others
    <2>2. st.cache[e].nb_free >= Cache[e].min /\ Tidy(st, {}, e)
      BY DEF Standing
    <2>3. st.cache[e].nb_free \in Nat /\ Cache[e].min \in Nat /\ n.cache[e].nb_free \in Nat
      <3>1. e \in DOMAIN st.cache /\ e \in DOMAIN n.cache
        BY <1>1
      <3> QED BY <3>1, <1>1, FirmHas, Counts
    <2>4. n.cache[e].nb_free >= Cache[e].min
      BY <2>1, <2>2, <2>3 DEF Stocked
    <2> QED BY <2>1, <2>2, <2>4
  <1>3. \A e \in OwnNames : Held(n, {}, e) = {}
    <2>1. OwnNames \subseteq DOMAIN st.cache
      BY <1>1, FirmHas
    <2> QED BY <1>2, <2>1 DEF Standing
  <1>4. \A e \in DOMAIN n.cache : n.cache[e].nb_free >= Cache[e].min /\ Tidy(n, {}, e)
    <2> SUFFICES ASSUME NEW e \in DOMAIN n.cache
                 PROVE  n.cache[e].nb_free >= Cache[e].min /\ Tidy(n, {}, e)
      OBVIOUS
    <2>1. CASE e = c
      BY <2>1
    <2>2. CASE e # c
      BY <2>2, <1>1, <1>2
    <2> QED BY <2>1, <2>2
  <1>5. Standing(n)
    BY <1>3, <1>4 DEF Standing
  <1>6. \A e \in DOMAIN Shape : Held(n, {}, e) = Held(st, {}, e)
    <2> SUFFICES ASSUME NEW e \in DOMAIN Shape PROVE Held(n, {}, e) = Held(st, {}, e)
      OBVIOUS
    <2>1. CASE e \in DOMAIN st.cache \ {c}
      BY <2>1, <1>2
    <2>2. CASE e \notin DOMAIN n.cache
      <3>1. Held(n, {}, e) = {}
        BY <2>2, NoCacheNoObject
      <3>2. CASE e = c
        BY <3>1, <3>2
      <3>3. CASE e # c
        <4>1. e \notin DOMAIN st.cache
          BY <2>2, <3>3, <1>1
        <4> QED BY <3>1, <4>1, <1>1, NoCacheNoObject
      <3> QED BY <3>2, <3>3
    <2>3. CASE e = c /\ c \in DOMAIN n.cache
      BY <2>3
    <2> QED BY <2>1, <2>2, <2>3, <1>1
  <1> QED BY <1>5, <1>6, SameObjectAreas, SameRangeAreas DEF HeldAreas

(* sos_kmem_cache_create() does nothing to any area. *)
LEMMA CacheCreatedStands ==
  ASSUME Standing(k), NEW c \in DOMAIN Shape, c \notin DOMAIN k.cache, NEW n \in Nat,
         NEW x, x = CacheCreated(Granted(n), c)
  PROVE  Standing(x) /\ HeldAreas(x) = HeldAreas(k)
  <1> DEFINE g == Granted(n)
  <1>1. /\ Alike(k, g) /\ g.avail = n /\ Standing(g) /\ NbRanges(g) >= 2 /\ HeldAreas(g) = HeldAreas(k)
    BY GrantedAlike
  <1>2. g.cache = k.cache /\ c \notin OwnNames /\ c \in DOMAIN Cache /\ Ready(g, {})
    BY <1>1, CallersCaches DEF Alike, Standing
  <1> HIDE DEF g
  <1>3. CacheMade(g, x, c)
    <2>1. x = CacheCreated(g, c)
      BY DEF g
    <2>2. c \notin DOMAIN g.cache /\ g.avail \in Nat
      BY <1>1, <1>2
    <2> QED BY <1>1, <1>2, <2>1, <2>2, CacheCreatedReady
  <1>4. Held(g, {}, c) = {}
    BY <1>2, NoCacheNoObject
  <1>5. /\ Ready(x, {}) /\ LooseLess(g, x, {}) /\ Others(g, x, c)
        /\ c \in DOMAIN x.cache =>
             x.cache[c].nb_free >= Cache[c].min /\ Tidy(x, {}, c) /\ Held(x, {}, c) = {}
    BY <1>3 DEF CacheMade
  <1> QED BY <1>1, <1>2, <1>4, <1>5, StandingOthers

(* sos_kmem_cache_destroy() leaves the areas of the callers as they are. *)
LEMMA CacheDestroyedStands ==
  ASSUME NEW st, Standing(st), NEW c \in DOMAIN Shape, c \in DOMAIN st.cache, ~ InUse(st, c),
         NEW x, x = CacheDestroyed(st, c)
  PROVE  Standing(x) /\ HeldAreas(x) = HeldAreas(st)
  <1>1. Ready(st, {}) /\ c \notin OwnNames
    BY CallersCaches DEF Standing
  <1>2. /\ Ready(x, {}) /\ LooseLess(st, x, {}) /\ DOMAIN x.cache = DOMAIN st.cache \ {c}
        /\ Others(st, x, c)
    BY <1>1, CacheDestroyedReady
  <1>3. Held(st, {}, c) = {}
    <2> SUFFICES ASSUME NEW a \in Held(st, {}, c) PROVE FALSE
      OBVIOUS
    <2>1. PICK s \in SlabsIn(st, c) : /\ s \in DOMAIN st.slab /\ st.slab[s].cache = c
                                      /\ a \in Objects(st, s) /\ a \notin st.slab[s].free
      BY <1>1, HeldObject
    <2> DEFINE list == st.cache[c].slab_list
    <2>2. list \in Seq(Nat) /\ \E i \in 1 .. Len(list) : list[i] = s
      <3>1. CachesOK(st, {})
        BY <1>1, FirmHas
      <3> QED BY <3>1, <2>1, ListFacts
    <2>3. PICK i \in DOMAIN list : list[i] = s
      BY <2>2
    <2>4. st.slab[s].free = Objects(st, s)
      BY <2>3 DEF InUse
    <2> QED BY <2>1, <2>4
  <1> QED BY <1>1, <1>2, <1>3, StandingOthers

-----------------------------------------------------------------------------
(* THE INVARIANT                                                           *)

(* What callers hold is what the allocators take for allocated. *)
KmemInv ==
  /\ Standing(k) /\ k.avail = 0 /\ k.ret = NULL
  /\ owned = HeldAreas(k)

(* What an operation does to the areas. *)
OwnedStep ==
  \/ owned' = owned
  \/ \E a \in owned' :
       /\ owned' = owned \union {a}
       /\ InHeap(a) /\ \A b \in owned : Off(a, b)
  \/ \E a \in owned : owned' = owned \ {a}

(* An allocation delivers an area that is apart from all others, or        *)
(* nothing.                                                                *)
LEMMA Delivered ==
  ASSUME KmemInv, NEW x, Standing(x), NEW size, Gives(k, x, size), Deliver(x, size)
  PROVE  KmemInv' /\ OwnedStep
  <1>1. Finish(x) /\ owned' = IF x.ret = NULL THEN owned ELSE owned \union {[addr |-> x.ret, size |-> size]}
    BY DEF Deliver
  <1>2. Standing(k') /\ HeldAreas(k') = HeldAreas(x) /\ k'.avail = 0 /\ k'.ret = NULL
    BY <1>1, FinishAlike
  <1>3. owned = HeldAreas(k)
    BY DEF KmemInv
  <1>4. CASE x.ret = NULL
    <2>1. HeldAreas(x) = HeldAreas(k)
      BY <1>4 DEF Gives
    <2>2. owned' = owned /\ owned' = HeldAreas(k')
      BY <2>1, <1>1, <1>2, <1>3, <1>4
    <2> QED BY <2>2, <1>2 DEF KmemInv, OwnedStep
  <1>5. CASE x.ret # NULL
    <2> DEFINE a == [addr |-> x.ret, size |-> size]
    <2>1. HeldAreas(x) = HeldAreas(k) \union {a} /\ InHeap(a) /\ \A b \in HeldAreas(k) : Off(a, b)
      BY <1>5 DEF Gives
    <2>2. owned' = owned \union {a}
      BY <1>1, <1>5
    <2> HIDE DEF a
    <2>3. a \in owned' /\ \A b \in owned : Off(a, b)
      BY <2>1, <2>2, <1>3
    <2>4. OwnedStep
      BY <2>1, <2>2, <2>3 DEF OwnedStep
    <2>5. owned' = HeldAreas(k')
      BY <2>1, <2>2, <1>2, <1>3
    <2> QED BY <2>4, <2>5, <1>2 DEF KmemInv
  <1> QED BY <1>4, <1>5

(* A caller gives its area back, and no other area changes. *)
LEMMA TakenBack ==
  ASSUME KmemInv, NEW x, Standing(x), NEW addr, Takes(k, x, addr), Finish(x), owned' = Disowned(addr)
  PROVE  KmemInv' /\ OwnedStep
  <1>1. Standing(k') /\ HeldAreas(k') = HeldAreas(x) /\ k'.avail = 0 /\ k'.ret = NULL
    BY FinishAlike
  <1>2. owned = HeldAreas(k)
    BY DEF KmemInv
  <1>3. PICK a \in HeldAreas(k) : /\ a.addr = addr /\ HeldAreas(x) = HeldAreas(k) \ {a}
                                  /\ \A b \in HeldAreas(k) : b # a => b.addr # addr
    BY DEF Takes
  <1>4. owned' = owned \ {a}
    BY <1>2, <1>3 DEF Disowned
  <1>5. OwnedStep
    BY <1>2, <1>3, <1>4 DEF OwnedStep
  <1>6. owned' = HeldAreas(k')
    BY <1>1, <1>2, <1>3, <1>4
  <1> QED BY <1>1, <1>5, <1>6 DEF KmemInv

(* An operation on caches does nothing to any area. *)
LEMMA NothingToAreas ==
  ASSUME KmemInv, NEW x, Standing(x), HeldAreas(x) = HeldAreas(k), Finish(x), UNCHANGED owned
  PROVE  KmemInv' /\ OwnedStep
  BY FinishAlike DEF KmemInv, OwnedStep

(* The classes that requests fall in. *)
LEMMA KmallocCachesKnown == KmallocCaches \subseteq DOMAIN Shape
  <1>1. ASSUME NEW size, ClassFor(size) # 0
        PROVE  KmallocClass[ClassFor(size)] \in ToSet(KmallocClass)
    <2> DEFINE I == {i \in 1 .. Len(KmallocClass) : Cache[KmallocClass[i]].size >= size}
    <2>1. ClassFor(size) = IF I # {} THEN Min(I) ELSE 0
      BY DEF ClassFor, SelectInSeq
    <2>2. I # {} /\ ClassFor(size) = Min(I)
      BY <2>1, <1>1
    <2>3. I \subseteq Nat
      BY ClassesAssumption
    <2>4. Min(I) \in I
      BY <2>2, <2>3, MinOfNaturals
    <2>5. ClassFor(size) \in 1 .. Len(KmallocClass)
      BY <2>2, <2>4
    <2> QED BY <2>5, ClassesAssumption, ElementsAreContained
  <1>2. KmallocCaches \subseteq ToSet(KmallocClass)
    BY <1>1 DEF KmallocCaches
  <1> QED BY <1>2, CallersCaches

(* sos_kmem_vmm_free() keeps the invariant, whatever the address. *)
LEMMA VmmFreeKeeps ==
  ASSUME KmemInv, NEW addr \in Nat, VmmFree(addr)
  PROVE  KmemInv' /\ OwnedStep
  <1>1. Ready(k, {}) /\ Standing(k)
    BY DEF KmemInv, Standing
  <1>2. CASE /\ Freeable(k, addr)
             /\ Finish(DelRange(k, Lookup(k, PageOf(addr))))
             /\ owned' = Disowned(addr)
    <2> DEFINE d == Lookup(k, PageOf(addr))
               x == DelRange(k, d)
    <2>1. d \in Loose(k) /\ k.range[d].base * PageSize = addr
      BY <1>1, <1>2, FreeableIs
    <2>2. Standing(x) /\ Takes(k, x, addr)
      BY <1>1, <2>1, DelRangeTakes
    <2>3. Finish(x)
      BY <1>2
    <2> HIDE DEF x
    <2> QED BY <1>2, <2>2, <2>3, TakenBack
  <1>3. CASE UNCHANGED kmem_vars
    <2>1. k' = k /\ owned' = owned
      BY <1>3 DEF kmem_vars
    <2> QED BY <2>1 DEF KmemInv, OwnedStep
  <1> QED BY <1>2, <1>3 DEF VmmFree

(* sos_kfree() and sos_kmem_cache_free(), on the address of an area that a *)
(* caller holds.                                                           *)
LEMMA KfreeKeeps ==
  ASSUME KmemInv, NEW a \in owned, Kfree(a.addr)
  PROVE  KmemInv' /\ OwnedStep
  <1>1. Ready(k, {}) /\ Standing(k) /\ a \in HeldAreas(k)
    BY DEF KmemInv, Standing
  <1>2. a.addr \in Nat
    BY <1>1, AreasOff DEF InHeap
  <1>3. CASE \E c \in DOMAIN Shape : \E o \in Held(k, {}, c) : a = ObjectArea(c, o)
    <2>1. PICK c \in DOMAIN Shape : \E o \in Held(k, {}, c) : a = ObjectArea(c, o)
      BY <1>3
    <2>2. PICK o \in Held(k, {}, c) : a = ObjectArea(c, o)
      BY <2>1
    <2>3. a.addr = o
      BY <2>2 DEF ObjectArea
    <2>4. IsObject(k, o)
      <3>1. \E s \in DOMAIN k.slab : o \in Objects(k, s)
        BY <1>1, HeldObject
      <3> QED BY <3>1, <1>1, FirmHas, ObjectResolved
    <2>5. Finish(CacheFree(k, o)) /\ owned' = Disowned(o)
      BY <2>3, <2>4 DEF Kfree
    <2>6. Standing(CacheFree(k, o)) /\ Takes(k, CacheFree(k, o), o)
      BY <1>1, CacheFreeTakes
    <2> QED BY <2>5, <2>6, TakenBack
  <1>4. CASE \E d \in Loose(k) : a = RangeArea(k, d)
    <2>1. PICK d \in Loose(k) : a = RangeArea(k, d)
      BY <1>4
    <2>2. ~ IsObject(k, a.addr)
      BY <2>1, <1>1, ObjectIsOne DEF RangeArea
    <2>3. VmmFree(a.addr)
      BY <2>2 DEF Kfree
    <2> QED BY <2>3, <1>2, VmmFreeKeeps
  <1> QED BY <1>1, <1>3, <1>4, AreaIs

(* A size rounded up to pages. *)
LEMMA RoundsUp ==
  ASSUME NEW size \in Nat \ {0}, NEW page \in Nat \ {0}
  PROVE  (size + page - 1) \div page \in Nat /\ (size + page - 1) \div page >= 1
  OBVIOUS

(* Every operation keeps what the allocators say of themselves and what    *)
(* their callers hold.                                                     *)
LEMMA KmemNextKeeps ==
  ASSUME KmemInv, KmemNext
  PROVE  KmemInv' /\ OwnedStep
  <1>1. Standing(k)
    BY DEF KmemInv
  <1>2. ASSUME NEW c \in KmallocCaches \union Driver, NEW n \in Grant, ObjectAlloc(c, n)
        PROVE  KmemInv' /\ OwnedStep
    <2>1. c \in DOMAIN Shape /\ n \in Nat
      BY KmallocCachesKnown, CallersCaches, RequestAssumption
    <2> DEFINE x == CacheAlloc(Granted(n), c)
    <2>2. c \in DOMAIN k.cache /\ Deliver(x, Cache[c].size)
      BY <1>2 DEF ObjectAlloc
    <2>3. Standing(x) /\ Gives(k, x, Cache[c].size)
      BY <1>1, <2>1, <2>2, ObjectAllocGives
    <2> HIDE DEF x
    <2> QED BY <2>2, <2>3, Delivered
  <1>3. ASSUME NEW size \in Request, NEW n \in Grant, KmallocPages(size, n)
        PROVE  KmemInv' /\ OwnedStep
    <2> DEFINE nb == PagesFor(size)
               x == AndThen(NewRange(Granted(n), nb), BaseOf)
    <2>1. nb \in Nat \ {0} /\ n \in Nat
      <3>1. size \in Nat \ {0} /\ PageSize \in Nat \ {0} /\ n \in Nat
        BY RequestAssumption, KmemAssumption
      <3>2. (size + PageSize - 1) \div PageSize \in Nat /\ (size + PageSize - 1) \div PageSize >= 1
        BY <3>1, RoundsUp
      <3> QED BY <3>1, <3>2 DEF PagesFor
    <2>2. Deliver(x, nb * PageSize)
      BY <1>3 DEF KmallocPages, PageAlloc
    <2> HIDE DEF nb
    <2>3. Standing(x) /\ Gives(k, x, nb * PageSize)
      BY <1>1, <2>1, PageAllocGives
    <2> HIDE DEF x
    <2> QED BY <2>2, <2>3, Delivered
  <1>4. ASSUME NEW c \in Driver, NEW n \in Grant, CacheCreate(c, n)
        PROVE  KmemInv' /\ OwnedStep
    <2> DEFINE x == CacheCreated(Granted(n), c)
    <2>1. c \in DOMAIN Shape /\ n \in Nat /\ c \notin DOMAIN k.cache /\ Finish(x) /\ UNCHANGED owned
      BY <1>4, CallersCaches, RequestAssumption DEF CacheCreate
    <2>2. Standing(x) /\ HeldAreas(x) = HeldAreas(k)
      BY <1>1, <2>1, CacheCreatedStands
    <2> HIDE DEF x
    <2> QED BY <2>1, <2>2, NothingToAreas
  <1>5. ASSUME NEW c \in Driver, CacheDestroy(c)
        PROVE  KmemInv' /\ OwnedStep
    <2> DEFINE x == CacheDestroyed(k, c)
    <2>1. c \in DOMAIN Shape /\ c \in DOMAIN k.cache /\ ~ InUse(k, c) /\ Finish(x) /\ UNCHANGED owned
      BY <1>5, CallersCaches DEF CacheDestroy
    <2>2. Standing(x) /\ HeldAreas(x) = HeldAreas(k)
      BY <1>1, <2>1, CacheDestroyedStands
    <2> HIDE DEF x
    <2> QED BY <2>1, <2>2, NothingToAreas
  <1>6. ASSUME NEW a \in owned, Kfree(a.addr)
        PROVE  KmemInv' /\ OwnedStep
    BY <1>6, KfreeKeeps
  <1>7. ASSUME NEW p \in Pages, VmmFree(p * PageSize)
        PROVE  KmemInv' /\ OwnedStep
    <2>1. p \in Nat /\ PageSize \in Nat
      BY KmemAssumption DEF Pages
    <2>2. p * PageSize \in Nat
      BY <2>1
    <2> QED BY <2>2, <1>7, VmmFreeKeeps
  <1> QED BY <1>2, <1>3, <1>4, <1>5, <1>6, <1>7 DEF KmemNext

(* What is within a range has an address of the kernel virtual memory. *)
LEMMA WithinAddress ==
  ASSUME NEW st, Ready(st, {}), NEW d \in DOMAIN st.range, NEW a, NEW len, Within(st, d, a, len)
  PROVE  a \in Address
  <1> DEFINE top == (TopPage + 1) * PageSize
  <1>1. a \in Nat /\ len \in Nat \ {0} /\ a + len <= top
    BY WithinHeap DEF InHeap
  <1>2. top \in Nat
    BY KmemAssumption
  <1> HIDE DEF top
  <1>3. a \in 0 .. top - 1
    BY <1>1, <1>2
  <1> QED BY <1>3 DEF Address, top

(* Objects have addresses of the kernel virtual memory. *)
LEMMA ObjectsAddresses ==
  ASSUME NEW st, Ready(st, {}), NEW s \in DOMAIN st.slab
  PROVE  Objects(st, s) \subseteq Address
  BY ObjectWithin, WithinAddress, FirmHas

(* So have those that are allocated. *)
LEMMA TakenAddresses ==
  ASSUME NEW st, Ready(st, {}), NEW c
  PROVE  TakenIn(st, c) \subseteq Address
  BY ObjectsAddresses DEF TakenIn, SlabsIn

(* NULL is no address of an object, but may stand for one. *)
LEMMA NullAddress == NULL \in Address
  <1>1. PageSize \in Nat \ {0} /\ TopPage \in Nat
    BY KmemAssumption
  <1>2. 1 * PageSize <= (TopPage + 1) * PageSize
    BY <1>1, ProductGrows
  <1> DEFINE top == (TopPage + 1) * PageSize
  <1>3. top \in Nat /\ top >= 1
    BY <1>1, <1>2
  <1> HIDE DEF top
  <1> QED BY <1>3 DEF Address, NULL, top

(* Ranges have pages of the kernel virtual memory. *)
LEMMA RangeTyped ==
  ASSUME NEW st, Ready(st, {}), NEW d \in DOMAIN st.range
  PROVE  /\ d \in Address
         /\ st.range[d].base \in Pages \union {TopPage + 1} /\ st.range[d].nb_pages \in 0 .. TopPage
  <1>1. Descriptors(st) /\ Tiled(st) /\ KmemShape(st)
    BY FirmHas
  <1>2. d \in Address
    BY <1>1, TakenAddresses DEF Descriptors
  <1>3. st.range[d].base \in Nat /\ st.range[d].nb_pages \in Nat /\ TopPage \in Nat
    BY <1>1, ShapeFacts, KmemAssumption
  <1>4. 1 <= st.range[d].base /\ st.range[d].base + st.range[d].nb_pages <= TopPage + 1
    BY <1>1 DEF Tiled, End
  <1>5. st.range[d].base \in 1 .. TopPage + 1 /\ st.range[d].nb_pages \in 0 .. TopPage
    BY <1>3, <1>4
  <1> QED BY <1>2, <1>3, <1>5 DEF Pages

(* The fields of a slab. *)
LEMMA SlabTyped ==
  ASSUME NEW st, Ready(st, {}), NEW s \in DOMAIN st.slab
  PROVE  s \in Address /\ st.slab[s] \in [cache : DOMAIN Cache, free : SUBSET Address, range : Address, base : Pages]
  <1>1. KmemKept(st) /\ CachesOK(st, {}) /\ KmemShape(st) /\ Placed(st, {})
    BY FirmHas
  <1>2. s \in Address
    <2>1. CASE Within(st, st.slab[s].range, s, KslabSize)
      <3>1. st.slab[s].range \in DOMAIN st.range
        BY <1>1, SlabLies
      <3> QED BY <2>1, <3>1, WithinAddress
    <2>2. CASE \E u \in SlabsIn(st, "kslabs") : s \in Objects(st, u)
      BY <2>2, ObjectsAddresses DEF SlabsIn
    <2> QED BY <2>1, <2>2, SlabWhere
  <1>3. st.slab[s] \in SlabRecord
    BY <1>1 DEF KmemShape
  <1>4. st.slab[s].free \subseteq Address
    BY <1>1, ObjectsAddresses DEF CachesOK, Slabbed
  <1>5. st.slab[s].range \in DOMAIN st.range /\ st.range[st.slab[s].range].base = st.slab[s].base
    BY <1>1, SlabLies
  <1>6. st.slab[s].range \in Address /\ st.slab[s].base \in Pages \union {TopPage + 1}
    BY <1>5, RangeTyped
  <1>7. st.slab[s].base \in Pages
    <2>1. End(st, st.slab[s].range) = st.slab[s].base + Cache[st.slab[s].cache].pages
      BY <1>1, SlabLies
    <2>2. Cache[st.slab[s].cache].pages \in Nat \ {0}
      <3>1. st.slab[s].cache \in DOMAIN st.cache /\ st.slab[s].cache \in DOMAIN Cache
        BY <1>1 DEF CachesOK, Slabbed, Tabled
      <3> QED BY <3>1, <1>1, Accepted DEF Placed
    <2>3. End(st, st.slab[s].range) <= TopPage + 1
      BY <1>5, FirmHas DEF Tiled
    <2>4. TopPage \in Nat
      BY KmemAssumption
    <2>5. st.slab[s].base \in 1 .. TopPage \/ st.slab[s].base = TopPage + 1
      BY <1>6 DEF Pages
    <2>6. st.slab[s].base # TopPage + 1
      BY <2>1, <2>2, <2>3, <2>4
    <2> QED BY <2>5, <2>6 DEF Pages
  <1> QED BY <1>2, <1>3, <1>4, <1>6, <1>7 DEF SlabRecord

(* The fields of a cache. *)
LEMMA CacheTyped ==
  ASSUME NEW st, Ready(st, {}), NEW c \in DOMAIN st.cache
  PROVE  st.cache[c] \in [slab_list : Seq(Address), nb_free : Nat, addr : Address]
  <1>1. CachesOK(st, {}) /\ Placed(st, {})
    BY FirmHas
  <1>2. st.cache[c] \in CacheRecord
    BY <1>1 DEF CachesOK, Tabled
  <1>3. st.cache[c].addr \in Address
    BY <1>1, TakenAddresses DEF Placed
  <1>4. st.cache[c].slab_list \in Seq(DOMAIN st.slab)
    BY <1>1, ListFacts
  <1>5. DOMAIN st.slab \subseteq Address
    BY SlabTyped
  <1>6. st.cache[c].slab_list \in Seq(Address)
    <2>1. \A i \in 1 .. Len(st.cache[c].slab_list) : st.cache[c].slab_list[i] \in DOMAIN st.slab
      BY <1>4, ElementsAreContained
    <2> QED BY <2>1, <1>4, <1>5, SeqMono
  <1> QED BY <1>2, <1>3, <1>6 DEF CacheRecord

(* The lists of ranges. *)
LEMMA ListTyped ==
  ASSUME NEW st, Ready(st, {}), NEW q \in Seq(DOMAIN st.range)
  PROVE  q \in Seq(Address)
  <1>1. \A i \in 1 .. Len(q) : q[i] \in DOMAIN st.range
    BY ElementsAreContained
  <1> QED BY <1>1, RangeTyped, SeqMono

(* The pages that are mapped. *)
LEMMA OwnerTyped ==
  ASSUME NEW st, Ready(st, {}), NEW p \in DOMAIN st.owner
  PROVE  p \in Pages /\ st.owner[p] \in Address
  <1>1. st.owner[p] \in DOMAIN st.range /\ p \in PagesOf(st, st.owner[p])
    BY FirmHas DEF KmemKept, RangesKept, OwnersKnown
  <1>2. p \in Pages
    BY <1>1, FirmHas DEF Tiled, Covered
  <1> QED BY <1>1, <1>2, RangeTyped

(* The invariant implies type correctness, *)
LEMMA InvTypes ==
  ASSUME KmemInv
  PROVE  KmemTypeOK
  <1>1. Ready(k, {}) /\ owned = HeldAreas(k) /\ k.avail = 0 /\ k.ret = NULL
    BY DEF KmemInv, Standing
  <1>2. KmemShape(k) /\ CachesOK(k, {}) /\ k.ranges_to_free = <<>> /\ Descriptors(k)
    BY <1>1, FirmHas
  <1>3. DOMAIN k.range \subseteq Address
    BY <1>1, RangeTyped
  <1>4. DOMAIN k.slab \subseteq Address /\ \A s \in DOMAIN k.slab :
          k.slab[s] \in [cache : DOMAIN Cache, free : SUBSET Address, range : Address, base : Pages]
    BY <1>1, SlabTyped
  <1>5. \A d \in DOMAIN k.range :
          k.range[d] \in [base : Pages \union {TopPage + 1}, nb_pages : 0 .. TopPage, slab : Address]
    <2> SUFFICES ASSUME NEW d \in DOMAIN k.range
                 PROVE  k.range[d] \in [base : Pages \union {TopPage + 1}, nb_pages : 0 .. TopPage, slab : Address]
      OBVIOUS
    <2>1. k.range[d] \in RangeRecord
      BY <1>2, ShapeFacts
    <2>2. k.range[d].base \in Pages \union {TopPage + 1} /\ k.range[d].nb_pages \in 0 .. TopPage
      BY <1>1, RangeTyped
    <2>3. k.range[d].slab \in Address
      <3>1. CASE k.range[d].slab = NULL
        BY <3>1, NullAddress
      <3>2. CASE k.range[d].slab # NULL
        <4>1. k.range[d].slab \in DOMAIN k.slab
          BY <3>2, <1>1, FirmHas DEF KmemKept, RangesKept, SlabsBound
        <4> QED BY <4>1, <1>4
      <3> QED BY <3>1, <3>2
    <2> QED BY <2>1, <2>2, <2>3 DEF RangeRecord
  <1>6. k.free \in Seq(Address) /\ k.used \in Seq(Address)
    BY <1>1, <1>2, ListTyped DEF KmemShape
  <1>7. DOMAIN k.cache \subseteq DOMAIN Cache
    BY <1>2 DEF CachesOK, Tabled
  <1>8. \A c \in DOMAIN k.cache : k.cache[c] \in [slab_list : Seq(Address), nb_free : Nat, addr : Address]
    BY <1>1, CacheTyped
  <1>9. DOMAIN k.owner \subseteq Pages /\ \A p \in DOMAIN k.owner : k.owner[p] \in Address
    BY <1>1, OwnerTyped
  <1>10. owned \subseteq [addr : Address, size : Nat]
    <2> SUFFICES ASSUME NEW b \in owned PROVE b \in [addr : Address, size : Nat]
      OBVIOUS
    <2>1. CASE \E c \in DOMAIN Shape : \E a \in Held(k, {}, c) : b = ObjectArea(c, a)
      <3>1. PICK c \in DOMAIN Shape : \E a \in Held(k, {}, c) : b = ObjectArea(c, a)
        BY <2>1
      <3>2. PICK a \in Held(k, {}, c) : b = ObjectArea(c, a)
        BY <3>1
      <3>3. a \in Address
        BY <1>1, TakenAddresses DEF Held
      <3>4. InHeap(ObjectArea(c, a))
        BY <1>1, ObjectInHeap
      <3>5. Cache[c].size \in Nat
        BY <3>4 DEF InHeap, ObjectArea
      <3> QED BY <3>2, <3>3, <3>5 DEF ObjectArea
    <2>2. CASE \E d \in Loose(k) : b = RangeArea(k, d)
      <3>1. PICK d \in Loose(k) : b = RangeArea(k, d)
        BY <2>2
      <3>2. /\ d \in DOMAIN k.range
            /\ Within(k, d, k.range[d].base * PageSize, k.range[d].nb_pages * PageSize)
        BY <1>1, LooseWithin
      <3>3. k.range[d].base * PageSize \in Address
        BY <1>1, <3>2, WithinAddress
      <3>4. k.range[d].nb_pages * PageSize \in Nat
        BY <3>2 DEF Within
      <3> QED BY <3>1, <3>3, <3>4 DEF RangeArea
    <2> QED BY <1>1, <2>1, <2>2, AreaIs
  <1> QED BY <1>1, <1>2, <1>3, <1>4, <1>5, <1>6, <1>7, <1>8, <1>9, <1>10 DEF KmemTypeOK

(* The operators of Kmem are those of the proofs. *)
LEMMA SameNames ==
  /\ \A c : SlabsOf(c) = SlabsIn(k, c) /\ AllocatedIn(c) = TakenIn(k, c)
  /\ \A U : U = {} => \A c : FreeIn(k, U, c) = UNION {k.slab[s].free : s \in SlabsOf(c)}
  BY DEF SlabsOf, SlabsIn, AllocatedIn, TakenIn, FreeIn

(* that the ranges share the pages without overlap or hole, *)
LEMMA InvTiles ==
  ASSUME KmemInv
  PROVE  RangesTile
  <1>1. Ready(k, {})
    BY DEF KmemInv, Standing
  <1>2. /\ KmemKept(k) /\ Coalesced(k) /\ AllListed(k) /\ Tiled(k) /\ AllMapped(k)
        /\ KmemShape(k) /\ k.ranges_to_free = <<>>
    BY <1>1, FirmHas
  <1>3. DOMAIN k.range = Used \union Free
    <2>1. ToSet(k.ranges_to_free) = {}
      BY <1>2 DEF ToSet
    <2> QED BY <1>2, <2>1 DEF AllListed, Pending, Used, Free
  <1>4. EachPageOnce
    <2> SUFFICES ASSUME NEW p \in Pages
                 PROVE  Cardinality({d \in Used \union Free : p \in PagesOf(k, d)}) = 1
      BY DEF EachPageOnce
    <2>1. PICK d \in DOMAIN k.range : p \in PagesOf(k, d)
      BY <1>2 DEF Tiled, Covered
    <2>2. \A e \in DOMAIN k.range : p \in PagesOf(k, e) => e = d
      BY <2>1, <1>2, ApartDisjoint
    <2>3. {e \in Used \union Free : p \in PagesOf(k, e)} = {d}
      BY <2>1, <2>2, <1>3
    <2> QED BY <2>3, FS_Singleton
  <1>5. OwnersRecorded
    <2>1. ASSUME NEW p \in DOMAIN k.owner
          PROVE  k.owner[p] \in Used /\ p \in PagesOf(k, k.owner[p])
      <3>1. k.owner[p] \in DOMAIN k.range \ ToSet(k.free) /\ p \in PagesOf(k, k.owner[p])
        BY <1>2 DEF KmemKept, RangesKept, OwnersKnown
      <3> QED BY <3>1, <1>3 DEF Free
    <2>2. \A d \in Used : PagesOf(k, d) \subseteq DOMAIN k.owner
      BY <1>2 DEF AllMapped, Used
    <2>3. DOMAIN k.owner = UNION {PagesOf(k, d) : d \in Used}
      BY <2>1, <2>2
    <2>4. ASSUME NEW d \in Used, NEW p \in PagesOf(k, d)
          PROVE  k.owner[p] = d
      <3>1. p \in DOMAIN k.owner
        BY <2>2
      <3>2. k.owner[p] \in DOMAIN k.range /\ d \in DOMAIN k.range /\ p \in PagesOf(k, k.owner[p])
        BY <3>1, <2>1, <1>3
      <3> QED BY <3>2, <1>2, ApartDisjoint
    <2> QED BY <2>3, <2>4 DEF OwnersRecorded
  <1> QED BY <1>2, <1>4, <1>5 DEF RangesTile

(* A list without duplicates is as long as its set. *)
LEMMA InjectiveCounts ==
  ASSUME NEW S, NEW q \in Seq(S), IsInjective(q)
  PROVE  Len(q) = Cardinality(ToSet(q))
  <1> DEFINE n == Len(q)
  <1>1. DOMAIN q = 1 .. n /\ n \in Nat /\ \A t : t \in ToSet(q) <=> \E i \in 1 .. n : q[i] = t
    BY ElementsAreContained
  <1>2. q = [i \in 1 .. n |-> q[i]]
    BY <1>1
  <1>3. \A i, j \in 1 .. n : q[i] = q[j] => i = j
    BY <1>1 DEF IsInjective
  <1> HIDE DEF n
  <1>4. q \in Surjection(1 .. n, ToSet(q)) /\ q \in Injection(1 .. n, ToSet(q))
    <2>1. q \in [1 .. n -> ToSet(q)]
      BY <1>1, <1>2
    <2>2. \A t \in ToSet(q) : \E i \in 1 .. n : q[i] = t
      BY <1>1
    <2> QED BY <2>1, <2>2, <1>3 DEF Surjection, Injection, IsInjective
  <1>5. ExistsBijection(1 .. n, ToSet(q))
    BY <1>4 DEF ExistsBijection, Bijection
  <1>6. IsFiniteSet(1 .. n) /\ Cardinality(1 .. n) = n
    <2>1. Cardinality(1 .. n) = (IF 1 > n THEN 0 ELSE n - 1 + 1) /\ IsFiniteSet(1 .. n)
      BY <1>1, FS_Interval
    <2> QED BY <2>1, <1>1
  <1>7. Cardinality(ToSet(q)) = n
    BY <1>5, <1>6, FS_Bijection
  <1> QED BY <1>7 DEF n

(* that no object, no slab and no cache is lost, *)
LEMMA InvNothingLost ==
  ASSUME KmemInv
  PROVE  NothingLost
  <1>1. Ready(k, {}) /\ Standing(k)
    BY DEF KmemInv, Standing
  <1>2. CachesOK(k, {}) /\ AllListed(k) /\ k.ranges_to_free = <<>> /\ OwnNames \subseteq DOMAIN k.cache
    BY <1>1, FirmHas
  <1>3. ASSUME NEW e \in OwnNames
        PROVE  TakenIn(k, e) = Need(k, {}, e)
    <2>1. Held(k, {}, e) = {}
      BY <1>1 DEF Standing
    <2> QED BY <2>1, <1>1, NeedTaken DEF Held
  <1>4. StructuresAllocated
    <2>1. DOMAIN k.range = Used \union Free
      <3>1. ToSet(k.ranges_to_free) = {}
        BY <1>2 DEF ToSet
      <3> QED BY <1>2, <3>1 DEF AllListed, Pending, Used, Free
    <2>2. AllocatedIn("ranges") = DOMAIN k.range
      BY <1>3, SameNames DEF Need, OwnNames
    <2>3. AllocatedIn("caches") = {k.cache[c].addr : c \in DOMAIN k.cache}
      BY <1>3, SameNames DEF Need, OwnNames
    <2>4. AllocatedIn("kslabs") = {s \in DOMAIN k.slab : ~ Cache[k.slab[s].cache].onslab}
      BY <1>3, SameNames DEF Need, OwnNames, Outside
    <2> QED BY <2>1, <2>2, <2>3, <2>4 DEF StructuresAllocated
  <1>5. CachesExact
    <2> SUFFICES ASSUME NEW c \in DOMAIN k.cache
                 PROVE  LET list == k.cache[c].slab_list
                        IN /\ ToSet(list) = SlabsOf(c) /\ Len(list) = Cardinality(SlabsOf(c))
                           /\ k.cache[c].nb_free = Cardinality(UNION {k.slab[s].free : s \in SlabsOf(c)})
                           /\ \A i, j \in DOMAIN list :
                                i < j /\ k.slab[list[i]].free = {} => k.slab[list[j]].free = {}
      BY DEF CachesExact
    <2> DEFINE list == k.cache[c].slab_list
    <2>0. CachesOK(k, {})
      BY <1>2
    <2>1. /\ list \in Seq(Nat) /\ IsInjective(list) /\ ToSet(list) = SlabsIn(k, c) \ {} /\ FullLast(k.slab, list)
          /\ k.cache[c].nb_free = Cardinality(FreeIn(k, {}, c))
      <3> HIDE <1>1, <1>2, <1>3, <1>4
      <3>1. LET q == k.cache[c].slab_list
            IN /\ q \in Seq(Nat) /\ IsInjective(q) /\ ToSet(q) = SlabsIn(k, c) \ {} /\ FullLast(k.slab, q)
               /\ k.cache[c].nb_free = Cardinality(FreeIn(k, {}, c))
        BY <2>0, ListFacts
      <3> QED BY <3>1
    <2> HIDE DEF list
    <2>2. ToSet(list) = SlabsOf(c)
      BY <2>1, SameNames
    <2>3. Len(list) = Cardinality(SlabsOf(c))
      BY <2>1, <2>2, InjectiveCounts
    <2>4. k.cache[c].nb_free = Cardinality(UNION {k.slab[s].free : s \in SlabsOf(c)})
      BY <2>1, SameNames
    <2>5. \A i, j \in DOMAIN list : i < j /\ k.slab[list[i]].free = {} => k.slab[list[j]].free = {}
      <3>1. DOMAIN list = 1 .. Len(list)
        BY <2>1, LenProperties
      <3>2. \A i, j \in 1 .. Len(list) : i < j /\ k.slab[list[i]].free = {} => k.slab[list[j]].free = {}
        BY <2>1 DEF FullLast
      <3> QED BY <3>1, <3>2
    <2> QED BY <2>2, <2>3, <2>4, <2>5 DEF list
  <1>6. EmptySlabsReturned
    <2> SUFFICES ASSUME NEW s \in DOMAIN k.slab, Cache[k.slab[s].cache].min = 0
                 PROVE  k.slab[s].free # Objects(k, s)
      BY DEF EmptySlabsReturned
    <2>1. k.slab[s].cache \in DOMAIN k.cache
      BY <1>2 DEF CachesOK, Slabbed
    <2>2. Tidy(k, {}, k.slab[s].cache) /\ s \in SlabsIn(k, k.slab[s].cache) \ {}
      BY <2>1, <1>1 DEF Standing, SlabsIn
    <2> QED BY <2>2 DEF Tidy
  <1> QED BY <1>4, <1>5, <1>6 DEF NothingLost

(* that every cache keeps its reserve, *)
LEMMA InvReserve ==
  ASSUME KmemInv
  PROVE  ReserveKept
  BY DEF KmemInv, Standing, ReserveKept

(* and that callers hold what the allocators take for allocated. *)
LEMMA InvOwned ==
  ASSUME KmemInv
  PROVE  OwnedIsAllocated
  <1>1. owned = HeldAreas(k)
    BY DEF KmemInv
  <1>2. \A c \in DOMAIN Shape : AllocatedIn(c) = Held(k, {}, c)
    <2> SUFFICES ASSUME NEW c \in DOMAIN Shape PROVE AllocatedIn(c) = Held(k, {}, c)
      OBVIOUS
    <2>1. c # "ranges" /\ c # "caches" /\ c # "kslabs"
      BY CallersCaches DEF OwnNames
    <2>2. Need(k, {}, c) = {}
      BY <2>1 DEF Need
    <2> QED BY <2>2, SameNames DEF Held
  <1> DEFINE A == UNION {{[addr |-> a, size |-> Cache[c].size] : a \in AllocatedIn(c)} : c \in DOMAIN Shape}
             B == {[addr |-> k.range[d].base * PageSize, size |-> k.range[d].nb_pages * PageSize] :
                     d \in {u \in Used : k.range[u].slab = NULL}}
  <1>3. A = ObjectAreas(k)
    BY <1>2 DEF ObjectAreas, ObjectArea
  <1>4. B = RangeAreas(k)
    BY DEF RangeAreas, RangeArea, Loose, Used
  <1>5. OwnedIsAllocated <=> owned = A \union B
    BY DEF OwnedIsAllocated
  <1> HIDE DEF A, B
  <1>6. A \union B = HeldAreas(k)
    BY <1>3, <1>4 DEF HeldAreas
  <1> QED BY <1>1, <1>5, <1>6

(* What the callers see of a step is a step of the heap. *)
LEMMA HeapStep ==
  ASSUME OwnedStep
  PROVE  [HeapSeen!Acquire \/ HeapSeen!Surrender]_owned
<1>1. CASE owned' = owned
  BY <1>1
<1>2. CASE \E a \in owned : owned' = owned \ {a}
  <2>1. HeapSeen!Surrender
    BY <1>2 DEF HeapSeen!Surrender
  <2> QED
    BY <2>1
<1>3. CASE \E a \in owned' : /\ owned' = owned \union {a}
                             /\ InHeap(a) /\ \A b \in owned : Off(a, b)
  <2>1. PICK a \in owned' : /\ owned' = owned \union {a}
                            /\ InHeap(a) /\ \A b \in owned : Off(a, b)
    BY <1>3
  <2>2. PageSize <= a.addr /\ a.size > 0 /\ a.addr + a.size <= (TopPage + 1) * PageSize
    BY <2>1 DEF InHeap
  <2>3. \A b \in owned : HeapSeen!Apart(a, b)
    BY <2>1 DEF Off, HeapSeen!Apart
  <2>4. HeapSeen!Acquire
    BY <2>1, <2>2, <2>3 DEF HeapSeen!Acquire
  <2> QED
    BY <2>4
<1> QED
  BY <1>1, <1>2, <1>3 DEF OwnedStep

-----------------------------------------------------------------------------
(* THE SETUP                                                               *)

(* The setup begins with slabs that lie in no range yet. *)
Early(st) ==
  /\ KmemShape(st) /\ Disjoint(st) /\ CachesOK(st, {})
  /\ \A s \in DOMAIN st.slab : st.slab[s].base # 0

(* What the steps that only concern caches and slabs leave alone. *)
RangesAlone(st, n) ==
  /\ n.range = st.range /\ n.free = st.free /\ n.used = st.used
  /\ n.ranges_to_free = st.ranges_to_free /\ n.owner = st.owner /\ n.avail = st.avail

(* There is nothing at first. *)
LEMMA BlankEarly ==
  /\ Early(Blank) /\ DOMAIN Blank.cache = {} /\ DOMAIN Blank.slab = {} /\ DOMAIN Blank.range = {}
  /\ DOMAIN Blank.owner = {} /\ Blank.free = <<>> /\ Blank.used = <<>> /\ Blank.ranges_to_free = <<>>
  /\ Blank.avail = TopPage
  <1>1. /\ Blank.range = <<>> /\ Blank.slab = <<>> /\ Blank.cache = <<>> /\ Blank.owner = <<>>
        /\ Blank.free = <<>> /\ Blank.used = <<>> /\ Blank.ranges_to_free = <<>> /\ Blank.avail = TopPage
        /\ Shaped(Blank)
    BY DEF Blank, Shaped, Field
  <1>2. /\ DOMAIN Blank.cache = {} /\ DOMAIN Blank.slab = {} /\ DOMAIN Blank.range = {}
        /\ DOMAIN Blank.owner = {}
    BY <1>1
  <1>3. \A S : <<>> \in Seq(S) /\ <<>> \in [{} -> S]
    OBVIOUS
  <1>4. KmemShape(Blank)
    BY <1>1, <1>2, <1>3 DEF KmemShape
  <1>5. Disjoint(Blank)
    BY <1>2 DEF Disjoint
  <1>6. CachesOK(Blank, {})
    BY <1>1, <1>2, <1>3 DEF CachesOK, Tabled, Slabbed
  <1> QED BY <1>1, <1>2, <1>4, <1>5, <1>6 DEF Early

(* A cache and its first slab. *)
CacheBegun(st, n, c, addr, base) ==
  LET s == OnSlab(c, base)
  IN /\ Early(n) /\ RangesAlone(st, n)
     /\ DOMAIN n.cache = DOMAIN st.cache \union {c}
     /\ \A e \in DOMAIN st.cache : n.cache[e] = st.cache[e]
     /\ n.cache[c].addr = addr /\ n.cache[c].nb_free = Cache[c].objects
     /\ DOMAIN n.slab = DOMAIN st.slab \union {s} /\ s \in Nat \ {NULL}
     /\ n.slab[s].cache = c /\ n.slab[s].base = base
     /\ \A t \in DOMAIN st.slab : n.slab[t] = st.slab[t]
     /\ \A e : TakenIn(n, e) = TakenIn(st, e)

(* A cache begins with its first slab, before there are ranges. *)
LEMMA FirstSlabBegins ==
  ASSUME NEW st, Early(st), NEW c \in DOMAIN Cache, c \notin DOMAIN st.cache, Cache[c].objects \in Nat,
         NEW addr \in Nat, NEW base \in Nat \ {0}, OnSlab(c, base) \notin DOMAIN st.slab,
         \A t \in DOMAIN st.slab : Objects(st, t) \intersect ObjectsAt(c, base) = {},
         NEW n, n = FirstSlab(st, c, addr, base)
  PROVE  CacheBegun(st, n, c, addr, base)
  <1> DEFINE z == NewCache(st, c, addr)
             s == OnSlab(c, base)
             rec == [cache |-> c, free |-> ObjectsAt(c, base), range |-> NULL, base |-> base]
  <1>1. KmemShape(st) /\ Disjoint(st) /\ CachesOK(st, {}) /\ \A t \in DOMAIN st.slab : st.slab[t].base # 0
    BY DEF Early
  <1>2. CacheEntered(st, z, {}, c, addr)
    BY <1>1, NewCacheCaches
  <1>3. n = AddSlab(z, c, base, NULL, s)
    BY DEF FirstSlab
  <1>4. s \in Nat \ {NULL}
    <2>1. /\ s \in Nat /\ base * PageSize + KslabSize <= s
      BY StructureLies
    <2>2. base * PageSize \in Nat /\ KslabSize \in Nat \ {0}
      BY KmemAssumption
    <2> HIDE DEF s
    <2> QED BY <2>1, <2>2 DEF NULL
  <1> HIDE DEF z, s
  <1>5. /\ z.range = st.range /\ z.free = st.free /\ z.used = st.used /\ z.ranges_to_free = st.ranges_to_free
        /\ z.owner = st.owner /\ z.slab = st.slab /\ z.avail = st.avail /\ KmemShape(z)
        /\ DOMAIN z.cache = DOMAIN st.cache \union {c}
        /\ \A e \in DOMAIN st.cache : z.cache[e] = st.cache[e]
        /\ z.cache[c].nb_free = 0 /\ z.cache[c].addr = addr
        /\ CachesOK(z, {})
        /\ \A t : Objects(z, t) = Objects(st, t)
        /\ \A e : TakenIn(z, e) = TakenIn(st, e)
    BY <1>2 DEF CacheEntered
  <1>6. /\ n.slab = With(z.slab, s, rec) /\ n.range = z.range /\ n.free = z.free /\ n.used = z.used
        /\ n.ranges_to_free = z.ranges_to_free /\ n.owner = z.owner /\ n.avail = z.avail /\ Shaped(n)
    <2>1. Shaped(z)
      BY <1>5 DEF KmemShape
    <2> QED BY <2>1, <1>3 DEF AddSlab, Shaped, Field
  <1>7. rec \in SlabRecord /\ rec.cache = c /\ rec.base = base
    <2>1. ObjectsAt(c, base) \subseteq Nat
      BY ObjectsApart
    <2> QED BY <2>1 DEF SlabRecord, NULL
  <1> HIDE DEF rec
  <1>8. /\ DOMAIN n.slab = DOMAIN st.slab \union {s} /\ n.slab[s] = rec
        /\ n.slab = [e \in DOMAIN n.slab |-> n.slab[e]]
        /\ \A e \in DOMAIN st.slab : n.slab[e] = st.slab[e]
    <2>1. s \notin DOMAIN st.slab
      BY DEF s
    <2> QED BY <2>1, <1>5, <1>6 DEF With
  <1>9. n.slab \in [DOMAIN n.slab -> SlabRecord]
    <2>1. \A e \in DOMAIN n.slab : n.slab[e] \in SlabRecord
      BY <1>1, <1>7, <1>8 DEF KmemShape
    <2> QED BY <2>1, <1>8
  <1>10. KmemShape(n)
    BY <1>1, <1>4, <1>5, <1>6, <1>8, <1>9 DEF KmemShape
  <1>11. Disjoint(n)
    <2>1. Objects(n, s) = ObjectsAt(c, base) /\ \A t \in DOMAIN st.slab : Objects(n, t) = Objects(st, t)
      BY <1>7, <1>8 DEF Objects
    <2> QED BY <2>1, <1>1, <1>8 DEF Disjoint
  <1>12. SlabAdded(z, n, {}, c, s, NULL, base)
    <2>1. c \in DOMAIN z.cache /\ s \notin DOMAIN z.slab
      BY <1>5 DEF s
    <2> QED BY <2>1, <1>3, <1>4, <1>5, <1>11, AddSlabCaches
  <1>13. /\ CachesOK(n, {}) /\ Only(z, n, {c})
         /\ \A e : TakenIn(n, e) = TakenIn(z, e)
         /\ n.cache[c].nb_free = z.cache[c].nb_free + Cache[c].objects
    BY <1>12 DEF SlabAdded
  <1>14. /\ DOMAIN n.cache = DOMAIN st.cache \union {c}
         /\ \A e \in DOMAIN st.cache : n.cache[e] = st.cache[e]
         /\ n.cache[c].addr = addr
    BY <1>5, <1>13 DEF Only
  <1>15. Early(n)
    BY <1>1, <1>7, <1>8, <1>10, <1>11, <1>13 DEF Early
  <1>16. RangesAlone(st, n)
    BY <1>5, <1>6 DEF RangesAlone
  <1>17. n.cache[c].nb_free = Cache[c].objects
    BY <1>5, <1>13
  <1> QED BY <1>4, <1>5, <1>7, <1>8, <1>13, <1>14, <1>15, <1>16, <1>17 DEF CacheBegun, s

(* The object that a cache gives before there are ranges. *)
EarlyTaken(st, n, c) ==
  /\ Early(n) /\ SameRanges(st, n) /\ Only(st, n, {c}) /\ n.avail = st.avail
  /\ n.ret \in Nat \ {NULL} /\ n.ret \notin TakenIn(st, c) /\ TakenIn(n, c) = TakenIn(st, c) \union {n.ret}
  /\ n.cache[c].nb_free = st.cache[c].nb_free - 1

(* Taking a free object needs no range. *)
LEMMA EarlyTake ==
  ASSUME NEW st, Early(st), NEW c \in DOMAIN st.cache, st.cache[c].nb_free # 0, NEW grown
  PROVE  LET ready == WithFree(st, c, grown)
         IN ready.ret # NULL /\ EarlyTaken(st, TakeObject(ready, c), c)
  <1> DEFINE v == Head(st.cache[c].slab_list)
             ready == WithFree(st, c, grown)
             n == TakeObject(ready, c)
  <1>1. KmemShape(st) /\ Disjoint(st) /\ CachesOK(st, {}) /\ \A t \in DOMAIN st.slab : st.slab[t].base # 0
    BY DEF Early
  <1>2. HasFreeObject(st, c) /\ v \in DOMAIN st.slab
    BY <1>1, HasFreeFound
  <1>3. ready = Return(st, v)
    BY <1>2 DEF WithFree
  <1>4. v # NULL /\ Shaped(st)
    BY <1>1, <1>2 DEF KmemShape
  <1> HIDE DEF v, ready
  <1>5. Alike(st, ready) /\ ready.ret = v /\ ready.avail = st.avail
    BY <1>3, <1>4, ReturnAlike
  <1>6. Level(st, ready)
    BY <1>5, AlikeLevel
  <1>7. /\ ready.range = st.range /\ ready.free = st.free /\ ready.used = st.used /\ Shaped(ready)
        /\ ready.ranges_to_free = st.ranges_to_free /\ ready.slab = st.slab /\ ready.cache = st.cache
        /\ ready.owner = st.owner
    BY <1>5 DEF Alike
  <1>8. KmemShape(ready)
    BY <1>1, <1>7 DEF KmemShape
  <1>9. Disjoint(ready) /\ CachesOK(ready, {}) /\ HasFreeObject(ready, c) /\ c \in DOMAIN ready.cache
    <2>1. Cached(st, ready)
      BY <1>7 DEF Cached
    <2> QED BY <2>1, <1>1, <1>2, <1>7, CachedKept
  <1>10. ObjectTaken(ready, n, {}, c)
    BY <1>8, <1>9, TakeObjectCaches
  <1> DEFINE s == Head(ready.cache[c].slab_list)
  <1> HIDE DEF n
  <1>11. /\ KmemShape(n) /\ SameRanges(ready, n)
         /\ CachesOK(n, {}) /\ Only(ready, n, {c}) /\ Disjoint(n)
         /\ n.ret \notin TakenIn(ready, c) /\ TakenIn(n, c) = TakenIn(ready, c) \union {n.ret}
         /\ n.cache[c].nb_free = ready.cache[c].nb_free - 1
         /\ n.avail = ready.avail
         /\ s \in SlabsIn(ready, c) /\ n.ret \in Objects(ready, s)
    BY <1>10 DEF ObjectTaken
  <1> HIDE DEF s
  <1>12. SameRanges(st, n)
    BY <1>7, <1>11 DEF SameRanges
  <1>13. Early(n)
    BY <1>1, <1>11, <1>12 DEF Early, SameRanges
  <1>14. TakenIn(ready, c) = TakenIn(st, c) /\ Only(st, n, {c})
    BY <1>6, <1>11, LevelParts, LevelBefore
  <1>15. n.ret \in Nat \ {NULL}
    <2> DEFINE b == ready.slab[s].base
    <2>1. /\ s \in DOMAIN ready.slab /\ ready.slab[s].cache = c /\ ready.slab[s] \in SlabRecord
          /\ b # 0
      BY <1>1, <1>7, <1>8, <1>11 DEF SlabsIn, KmemShape
    <2>2. c \in DOMAIN Cache /\ b \in Nat \ {0}
      BY <2>1 DEF SlabRecord
    <2>3. n.ret \in ObjectsAt(c, b)
      BY <2>1, <1>11 DEF Objects
    <2> HIDE DEF b
    <2>4. n.ret \in Nat /\ b * PageSize <= n.ret
      BY <2>2, <2>3, ObjectsApart
    <2>5. b * PageSize \in Nat \ {0}
      <3>1. 1 * PageSize <= b * PageSize /\ PageSize \in Nat \ {0}
        BY <2>2, ProductGrows, KmemAssumption
      <3> HIDE DEF b
      <3> QED BY <3>1, <2>2
    <2> QED BY <2>4, <2>5 DEF NULL
  <1> QED BY <1>4, <1>5, <1>7, <1>11, <1>12, <1>13, <1>14, <1>15 DEF EarlyTaken, n, ready

(* sos_kmem_cache_alloc() of a structure of a cache, in the first slab. *)
LEMMA EarlySetupAlloc ==
  ASSUME NEW st, Early(st), "caches" \in DOMAIN st.cache, st.cache["caches"].nb_free # 0,
         Cache["caches"].min = 0
  PROVE  EarlyTaken(st, SetupAlloc(st), "caches")
  <1> DEFINE ready == WithFree(st, "caches", TooDeep)
             t == TakeObject(ready, "caches")
             x == SetupAlloc(st)
  <1>1. x = AndThen(ready, LAMBDA y : KeepReserve(TakeObject(y, "caches"), "caches", TooDeep))
    BY DEF SetupAlloc
  <1>2. ready.ret # NULL /\ EarlyTaken(st, t, "caches")
    BY EarlyTake
  <1> HIDE DEF ready, x
  <1>3. x = KeepReserve(t, "caches", TooDeep)
    BY <1>1, <1>2 DEF AndThen
  <1> HIDE DEF t
  <1>4. x = t
    BY <1>3 DEF KeepReserve, StartsReserve
  <1> QED BY <1>2, <1>4 DEF x

(* And of a descriptor, when there are enough of them. *)
LEMMA EarlyDescribe ==
  ASSUME NEW st, Early(st), "ranges" \in DOMAIN st.cache,
         st.cache["ranges"].nb_free \in Nat, st.cache["ranges"].nb_free > 2
  PROVE  EarlyTaken(st, Describe(st), "ranges")
  <1> DEFINE ready == WithFree(st, "ranges", GrowRanges(st))
             t == TakeObject(ready, "ranges")
             x == Describe(st)
  <1>1. x = AndThen(ready, LAMBDA y : TakeDescriptor(TakeObject(y, "ranges")))
    BY DEF Describe
  <1>2. ready.ret # NULL /\ EarlyTaken(st, t, "ranges")
    BY EarlyTake
  <1> HIDE DEF ready, x
  <1>3. x = TakeDescriptor(t)
    BY <1>1, <1>2 DEF AndThen
  <1> HIDE DEF t
  <1>4. t.cache["ranges"].nb_free = st.cache["ranges"].nb_free - 1 /\ Cache["ranges"].min = 2
    BY <1>2, OwnCaches DEF EarlyTaken
  <1>5. ~ StartsReserve(t, "ranges")
    BY <1>4 DEF StartsReserve
  <1>6. x = t
    BY <1>3, <1>5 DEF TakeDescriptor, KeepReserve
  <1> QED BY <1>2, <1>6 DEF x

(* The two first slabs. *)
FirstOfCaches == OnSlab("caches", 1)

FirstOfRanges == OnSlab("ranges", 2)

(* The first two slabs have nothing in common. *)
LEMMA FirstSlabsApart ==
  /\ FirstOfCaches \in Nat \ {NULL} /\ FirstOfRanges \in Nat \ {NULL}
  /\ FirstOfCaches # FirstOfRanges
  /\ ObjectsAt("caches", 1) \intersect ObjectsAt("ranges", 2) = {}
  <1>1. "caches" \in DOMAIN Cache /\ "ranges" \in DOMAIN Cache
        /\ Cache["caches"].pages = 1 /\ Cache["ranges"].pages = 1
        /\ ~ CacheRefused("caches") /\ ~ CacheRefused("ranges")
    BY OwnCaches
  <1>2. PageSize \in Nat \ {0} /\ KslabSize \in Nat \ {0} /\ 2 * KslabSize <= PageSize
    BY KmemAssumption
  <1>3. FirstOfCaches = 2 * PageSize - KslabSize /\ FirstOfRanges = 3 * PageSize - KslabSize
    BY <1>1 DEF FirstOfCaches, FirstOfRanges, OnSlab
  <1>4. FirstOfCaches \in Nat \ {0} /\ FirstOfRanges \in Nat \ {0} /\ FirstOfCaches # FirstOfRanges
    BY <1>2, <1>3
  <1>5. ASSUME NEW a \in ObjectsAt("caches", 1), a \in ObjectsAt("ranges", 2) PROVE FALSE
    <2>1. a \in Nat /\ a + Cache["caches"].size <= (1 + Cache["caches"].pages) * PageSize
      BY <1>1, <1>5, ObjectsApart
    <2>2. 2 * PageSize <= a
      BY <1>1, <1>5, ObjectsApart
    <2>3. Cache["caches"].size \in Nat \ {0}
      BY <1>1, Accepted
    <2>4. a + Cache["caches"].size <= 2 * PageSize
      BY <2>1, <1>1
    <2> QED BY <2>1, <2>2, <2>3, <2>4, <1>2
  <1> QED BY <1>4, <1>5 DEF NULL

(* Before the ranges: the caches C, with the slabs S, and m structures of  *)
(* caches that are allocated.                                              *)
RangesBlank(st) ==
  /\ DOMAIN st.range = {} /\ DOMAIN st.owner = {}
  /\ st.free = <<>> /\ st.used = <<>> /\ st.ranges_to_free = <<>> /\ st.avail = TopPage

(* They are of the two first caches. *)
FirstSlabs(st) ==
  /\ FirstOfCaches \in DOMAIN st.slab =>
       st.slab[FirstOfCaches].cache = "caches" /\ st.slab[FirstOfCaches].base = 1
  /\ FirstOfRanges \in DOMAIN st.slab =>
       st.slab[FirstOfRanges].cache = "ranges" /\ st.slab[FirstOfRanges].base = 2

(* Before the ranges: the caches C, with the slabs S, and m structures of  *)
(* caches that are allocated.                                              *)
Stage(x, C, S, m) ==
  /\ Early(x) /\ RangesBlank(x) /\ FirstSlabs(x)
  /\ DOMAIN x.cache = C /\ DOMAIN x.slab = S
  /\ TakenIn(x, "caches") = {x.cache[c].addr : c \in C}
  /\ \A c, e \in C : x.cache[c].addr = x.cache[e].addr => c = e
  /\ \A e : e # "caches" => TakenIn(x, e) = {}
  /\ x.cache["caches"].nb_free \in Nat /\ x.cache["caches"].nb_free + m = Cache["caches"].objects
  /\ "ranges" \in C => x.cache["ranges"].nb_free = Cache["ranges"].objects

(* The cache of caches, with the object of its own structure. *)
LEMMA AddressSet ==
  ASSUME NEW st, Early(st), "caches" \in DOMAIN st.cache, st.ret \in Nat, NEW n, n = SelfAllocated(st)
  PROVE  /\ Early(n) /\ RangesAlone(st, n) /\ n.slab = st.slab
         /\ DOMAIN n.cache = DOMAIN st.cache
         /\ n.cache["caches"].addr = st.ret
         /\ n.cache["caches"].nb_free = st.cache["caches"].nb_free
         /\ \A e : TakenIn(n, e) = TakenIn(st, e)
  <1> DEFINE c == "caches"
             rec == [st.cache[c] EXCEPT !.addr = st.ret]
  <1>1. KmemShape(st) /\ Disjoint(st) /\ CachesOK(st, {}) /\ \A t \in DOMAIN st.slab : st.slab[t].base # 0
    BY DEF Early
  <1>2. Shaped(st) /\ Tabled(st) /\ Slabbed(st, {}) /\ \A e \in DOMAIN st.cache : CacheExact(st, {}, e)
    BY <1>1 DEF KmemShape, CachesOK
  <1>3. /\ n.range = st.range /\ n.free = st.free /\ n.used = st.used /\ n.ranges_to_free = st.ranges_to_free
        /\ n.owner = st.owner /\ n.avail = st.avail /\ n.slab = st.slab /\ Shaped(n)
        /\ n.cache = [st.cache EXCEPT ![c] = rec]
    BY <1>2 DEF SelfAllocated, Shaped, Field
  <1>4. st.cache[c] \in CacheRecord
    BY <1>2 DEF Tabled
  <1>5. /\ rec \in CacheRecord /\ rec.addr = st.ret /\ rec.nb_free = st.cache[c].nb_free
        /\ rec.slab_list = st.cache[c].slab_list
    BY <1>4 DEF CacheRecord
  <1> HIDE DEF rec
  <1>6. /\ DOMAIN n.cache = DOMAIN st.cache /\ n.cache[c] = rec
        /\ \A e \in DOMAIN st.cache : e # c => n.cache[e] = st.cache[e]
        /\ n.cache = [e \in DOMAIN n.cache |-> n.cache[e]]
    BY <1>2, <1>3 DEF Tabled
  <1>7. Tabled(n)
    <2>1. \A e \in DOMAIN n.cache : n.cache[e] \in CacheRecord
      BY <1>2, <1>5, <1>6 DEF Tabled
    <2> QED BY <2>1, <1>2, <1>6 DEF Tabled
  <1>8. /\ \A e : SlabsIn(n, e) = SlabsIn(st, e) /\ TakenIn(n, e) = TakenIn(st, e)
        /\ \A U, e : FreeIn(n, U, e) = FreeIn(st, U, e)
        /\ \A t : Objects(n, t) = Objects(st, t)
    BY <1>3 DEF SlabsIn, TakenIn, FreeIn, Objects
  <1>9. Slabbed(n, {})
    BY <1>2, <1>3, <1>6, <1>8 DEF Slabbed
  <1>10. ASSUME NEW e \in DOMAIN n.cache PROVE CacheExact(n, {}, e)
    <2>1. /\ n.cache[e].slab_list = st.cache[e].slab_list /\ n.cache[e].nb_free = st.cache[e].nb_free
          /\ e \in DOMAIN st.cache
      BY <1>5, <1>6
    <2>2. CacheExact(st, {}, e)
      BY <2>1, <1>2
    <2> QED BY <2>1, <2>2, <1>3, <1>8 DEF CacheExact
  <1>11. KmemShape(n)
    BY <1>1, <1>3 DEF KmemShape
  <1>12. Disjoint(n)
    BY <1>1, <1>3, <1>8 DEF Disjoint
  <1>13. Early(n)
    BY <1>1, <1>3, <1>7, <1>9, <1>10, <1>11, <1>12 DEF Early, CachesOK
  <1> QED BY <1>3, <1>5, <1>6, <1>8, <1>13 DEF RangesAlone

(* create_cache_of_caches() leaves one cache, whose own structure is its   *)
(* one object.                                                             *)
LEMMA CachesStage ==
  Stage(CachesSetup, {"caches"}, {FirstOfCaches}, 1) /\ CachesSetup.ret # NULL
  <1> DEFINE b == FirstSlab(Blank, "caches", NULL, 1)
             a == SetupAlloc(b)
             n == CachesSetup
             c == "caches"
  <1>1. /\ Early(Blank) /\ DOMAIN Blank.cache = {} /\ DOMAIN Blank.slab = {} /\ DOMAIN Blank.range = {}
        /\ DOMAIN Blank.owner = {} /\ Blank.free = <<>> /\ Blank.used = <<>> /\ Blank.ranges_to_free = <<>>
        /\ Blank.avail = TopPage
    BY BlankEarly
  <1>2. c \in DOMAIN Cache /\ Cache[c].objects \in Nat /\ Cache[c].objects >= 3 /\ Cache[c].min = 0
    BY OwnCaches
  <1>3. CacheBegun(Blank, b, c, NULL, 1)
    <2>1. NULL \in Nat /\ 1 \in Nat \ {0}
      BY DEF NULL
    <2> QED BY <1>1, <1>2, <2>1, FirstSlabBegins
  <1> HIDE DEF b
  <1>4. /\ Early(b) /\ RangesAlone(Blank, b)
        /\ DOMAIN b.cache = {c} /\ b.cache[c].nb_free = Cache[c].objects
        /\ DOMAIN b.slab = {FirstOfCaches}
        /\ b.slab[FirstOfCaches].cache = c /\ b.slab[FirstOfCaches].base = 1
        /\ \A e : TakenIn(b, e) = TakenIn(Blank, e)
    BY <1>1, <1>3 DEF CacheBegun, FirstOfCaches
  <1>5. \A e : TakenIn(Blank, e) = {}
    BY <1>1 DEF TakenIn, SlabsIn
  <1>6. EarlyTaken(b, a, c)
    <2>1. b.cache[c].nb_free # 0
      BY <1>2, <1>4
    <2> QED BY <2>1, <1>2, <1>4, EarlySetupAlloc
  <1>7. n = AndThen(a, SelfAllocated)
    BY DEF CachesSetup, b
  <1> HIDE DEF a, n
  <1>8. /\ Early(a) /\ SameRanges(b, a) /\ Only(b, a, {c}) /\ a.avail = b.avail
        /\ a.ret \in Nat \ {NULL} /\ TakenIn(a, c) = TakenIn(b, c) \union {a.ret}
        /\ a.cache[c].nb_free = b.cache[c].nb_free - 1
    BY <1>6 DEF EarlyTaken
  <1>9. n = SelfAllocated(a)
    BY <1>7, <1>8 DEF AndThen
  <1>10. DOMAIN a.cache = {c} /\ DOMAIN a.slab = {FirstOfCaches}
         /\ a.slab[FirstOfCaches].cache = c /\ a.slab[FirstOfCaches].base = 1
    BY <1>4, <1>8 DEF Only, SameRanges
  <1>11. /\ Early(n) /\ RangesAlone(a, n) /\ n.slab = a.slab
         /\ DOMAIN n.cache = DOMAIN a.cache
         /\ n.cache[c].addr = a.ret
         /\ n.cache[c].nb_free = a.cache[c].nb_free
         /\ \A e : TakenIn(n, e) = TakenIn(a, e)
    BY <1>8, <1>9, <1>10, AddressSet
  <1>12. RangesBlank(n)
    BY <1>1, <1>4, <1>8, <1>11 DEF RangesBlank, RangesAlone, SameRanges
  <1>13. FirstSlabs(n)
    BY <1>10, <1>11, FirstSlabsApart DEF FirstSlabs
  <1>14. TakenIn(n, c) = {a.ret} /\ \A e : e # c => TakenIn(n, e) = {}
    <2>1. TakenIn(n, c) = {a.ret}
      BY <1>4, <1>5, <1>8, <1>11
    <2>2. ASSUME NEW e, e # c PROVE TakenIn(n, e) = {}
      <3>1. TakenIn(a, e) = TakenIn(b, e)
        BY <2>2, <1>8, OnlyOthers
      <3> QED BY <3>1, <1>4, <1>5, <1>11
    <2> QED BY <2>1, <2>2
  <1>15. n.cache[c].nb_free \in Nat /\ n.cache[c].nb_free + 1 = Cache[c].objects
    BY <1>2, <1>4, <1>8, <1>11
  <1>16. n.ret # NULL
    <2>1. Shaped(a)
      BY <1>8 DEF Early, KmemShape
    <2>2. n.ret = a.ret
      BY <2>1, <1>9 DEF SelfAllocated, Shaped, Field
    <2> QED BY <2>2, <1>8
  <1>17. Stage(n, {c}, {FirstOfCaches}, 1)
    BY <1>10, <1>11, <1>12, <1>13, <1>14, <1>15 DEF Stage
  <1> QED BY <1>16, <1>17 DEF n

(* The structure of the next cache. *)
StageMore(a, C, S, m) ==
  /\ Early(a) /\ RangesBlank(a) /\ FirstSlabs(a)
  /\ DOMAIN a.cache = C /\ DOMAIN a.slab = S
  /\ a.ret \in Nat \ {NULL} /\ a.ret \notin {a.cache[c].addr : c \in C}
  /\ TakenIn(a, "caches") = {a.cache[c].addr : c \in C} \union {a.ret}
  /\ \A c, e \in C : a.cache[c].addr = a.cache[e].addr => c = e
  /\ \A e : e # "caches" => TakenIn(a, e) = {}
  /\ a.cache["caches"].nb_free \in Nat /\ a.cache["caches"].nb_free + m = Cache["caches"].objects
  /\ "ranges" \in C => a.cache["ranges"].nb_free = Cache["ranges"].objects

(* The structure of one more cache is allocated. *)
LEMMA NextStructure ==
  ASSUME NEW x, NEW C, NEW S, NEW m \in 1 .. 2, Stage(x, C, S, m), "caches" \in C
  PROVE  StageMore(SetupAlloc(x), C, S, m + 1)
  <1> DEFINE a == SetupAlloc(x)
  <1>1. /\ Early(x) /\ RangesBlank(x) /\ FirstSlabs(x)
        /\ DOMAIN x.cache = C /\ DOMAIN x.slab = S
        /\ TakenIn(x, "caches") = {x.cache[c].addr : c \in C}
        /\ \A c, e \in C : x.cache[c].addr = x.cache[e].addr => c = e
        /\ \A e : e # "caches" => TakenIn(x, e) = {}
        /\ x.cache["caches"].nb_free \in Nat /\ x.cache["caches"].nb_free + m = Cache["caches"].objects
        /\ "ranges" \in C => x.cache["ranges"].nb_free = Cache["ranges"].objects
    BY DEF Stage
  <1>2. /\ Cache["caches"].objects \in Nat /\ Cache["caches"].objects >= 3 /\ Cache["caches"].min = 0
    BY OwnCaches
  <1>3. x.cache["caches"].nb_free \in Nat \ {0}
    BY <1>1, <1>2
  <1>4. EarlyTaken(x, a, "caches")
    BY <1>1, <1>2, <1>3, EarlySetupAlloc
  <1> HIDE DEF a
  <1>5. /\ Early(a) /\ SameRanges(x, a) /\ Only(x, a, {"caches"}) /\ a.avail = x.avail
        /\ a.ret \in Nat \ {NULL} /\ a.ret \notin TakenIn(x, "caches")
        /\ TakenIn(a, "caches") = TakenIn(x, "caches") \union {a.ret}
        /\ a.cache["caches"].nb_free = x.cache["caches"].nb_free - 1
    BY <1>4 DEF EarlyTaken
  <1>6. RangesBlank(a)
    BY <1>1, <1>5 DEF RangesBlank, SameRanges
  <1>7. FirstSlabs(a) /\ DOMAIN a.slab = S
    BY <1>1, <1>5 DEF FirstSlabs, SameRanges
  <1>8. /\ DOMAIN a.cache = C /\ \A c \in C : a.cache[c].addr = x.cache[c].addr
        /\ "ranges" \in C => a.cache["ranges"] = x.cache["ranges"]
    BY <1>1, <1>5 DEF Only
  <1>9. {a.cache[c].addr : c \in C} = {x.cache[c].addr : c \in C}
    BY <1>8
  <1>10. \A e : e # "caches" => TakenIn(a, e) = {}
    BY <1>1, <1>5, OnlyOthers
  <1>11. a.cache["caches"].nb_free \in Nat /\ a.cache["caches"].nb_free + (m + 1) = Cache["caches"].objects
    BY <1>1, <1>2, <1>3, <1>5
  <1>12. \A c, e \in C : a.cache[c].addr = a.cache[e].addr => c = e
    BY <1>1, <1>8
  <1>13. /\ a.ret \notin {a.cache[c].addr : c \in C}
         /\ TakenIn(a, "caches") = {a.cache[c].addr : c \in C} \union {a.ret}
    BY <1>1, <1>5, <1>9
  <1> QED BY <1>1, <1>5, <1>6, <1>7, <1>8, <1>10, <1>11, <1>12, <1>13 DEF StageMore, a

(* The cache that this structure is of. *)
LEMMA StructureNamed ==
  ASSUME NEW a, NEW C, NEW S, NEW m, StageMore(a, C, S, m), NEW c, c \notin C, "caches" \in C,
         NEW n, NEW T, Early(n), RangesAlone(a, n), FirstSlabs(n), DOMAIN n.slab = T,
         DOMAIN n.cache = C \union {c}, \A e \in C : n.cache[e] = a.cache[e], n.cache[c].addr = a.ret,
         \A e : TakenIn(n, e) = TakenIn(a, e),
         c = "ranges" => n.cache[c].nb_free = Cache[c].objects
  PROVE  Stage(n, C \union {c}, T, m)
  <1> DEFINE D == C \union {c}
  <1>1. /\ RangesBlank(a)
        /\ a.ret \in Nat \ {NULL} /\ a.ret \notin {a.cache[e].addr : e \in C}
        /\ TakenIn(a, "caches") = {a.cache[e].addr : e \in C} \union {a.ret}
        /\ \A d, e \in C : a.cache[d].addr = a.cache[e].addr => d = e
        /\ \A e : e # "caches" => TakenIn(a, e) = {}
        /\ a.cache["caches"].nb_free \in Nat /\ a.cache["caches"].nb_free + m = Cache["caches"].objects
        /\ "ranges" \in C => a.cache["ranges"].nb_free = Cache["ranges"].objects
    BY DEF StageMore
  <1>2. RangesBlank(n)
    BY <1>1 DEF RangesBlank, RangesAlone
  <1>3. {n.cache[e].addr : e \in D} = {a.cache[e].addr : e \in C} \union {a.ret}
    <2>1. \A e \in C : n.cache[e].addr = a.cache[e].addr
      OBVIOUS
    <2> QED BY <2>1
  <1>4. \A d, e \in D : n.cache[d].addr = n.cache[e].addr => d = e
    <2>1. \A e \in C : n.cache[e].addr = a.cache[e].addr /\ a.cache[e].addr # a.ret
      BY <1>1
    <2> QED BY <2>1, <1>1
  <1>5. n.cache["caches"].nb_free = a.cache["caches"].nb_free
    OBVIOUS
  <1>6. "ranges" \in D => n.cache["ranges"].nb_free = Cache["ranges"].objects
    BY <1>1
  <1>7. TakenIn(n, "caches") = {n.cache[e].addr : e \in D}
    BY <1>1, <1>3
  <1> QED BY <1>1, <1>2, <1>4, <1>5, <1>6, <1>7 DEF Stage

(* create_cache_of_ranges() adds the cache of ranges, with all its objects *)
(* free.                                                                   *)
LEMMA RangesStage ==
  Stage(RangesSetup, {"caches", "ranges"}, {FirstOfCaches, FirstOfRanges}, 2)
  <1> DEFINE x == CachesSetup
             a == SetupAlloc(x)
             n == RangesSetup
             C == {"caches"}
             S == {FirstOfCaches}
  <1>1. Stage(x, C, S, 1)
    BY CachesStage
  <1>2. StageMore(a, C, S, 2)
    <2>1. 1 \in 1 .. 2 /\ 1 + 1 = 2
      OBVIOUS
    <2> HIDE DEF x
    <2> QED BY <2>1, <1>1, NextStructure
  <1>3. n = AndThen(a, RangesReady)
    BY DEF RangesSetup
  <1> HIDE DEF x, a, n
  <1>4. /\ Early(a) /\ FirstSlabs(a) /\ DOMAIN a.cache = C /\ DOMAIN a.slab = S
        /\ a.ret \in Nat \ {NULL}
    BY <1>2 DEF StageMore
  <1>5. n = FirstSlab(a, "ranges", a.ret, 2)
    BY <1>3, <1>4 DEF AndThen, RangesReady
  <1>6. CacheBegun(a, n, "ranges", a.ret, 2)
    <2>1. "ranges" \in DOMAIN Cache /\ "ranges" \notin C /\ Cache["ranges"].objects \in Nat
          /\ 2 \in Nat \ {0}
      BY OwnCaches
    <2>2. OnSlab("ranges", 2) \notin S
      BY FirstSlabsApart DEF FirstOfRanges
    <2>3. \A t \in DOMAIN a.slab : Objects(a, t) \intersect ObjectsAt("ranges", 2) = {}
      BY <1>4, FirstSlabsApart DEF Objects, FirstSlabs
    <2> QED BY <2>1, <2>2, <2>3, <1>4, <1>5, FirstSlabBegins
  <1>7. /\ Early(n) /\ RangesAlone(a, n)
        /\ DOMAIN n.cache = C \union {"ranges"}
        /\ \A e \in C : n.cache[e] = a.cache[e]
        /\ n.cache["ranges"].addr = a.ret /\ n.cache["ranges"].nb_free = Cache["ranges"].objects
        /\ DOMAIN n.slab = S \union {FirstOfRanges}
        /\ n.slab[FirstOfRanges].cache = "ranges" /\ n.slab[FirstOfRanges].base = 2
        /\ \A t \in S : n.slab[t] = a.slab[t]
        /\ \A e : TakenIn(n, e) = TakenIn(a, e)
    BY <1>4, <1>6 DEF CacheBegun, FirstOfRanges
  <1>8. FirstSlabs(n)
    BY <1>4, <1>7 DEF FirstSlabs
  <1>9. Stage(n, C \union {"ranges"}, S \union {FirstOfRanges}, 2)
    <2> DEFINE c == "ranges"
               T == S \union {FirstOfRanges}
    <2>1. /\ c \notin C /\ "caches" \in C
          /\ Early(n) /\ RangesAlone(a, n) /\ DOMAIN n.slab = T
          /\ DOMAIN n.cache = C \union {c} /\ \A e \in C : n.cache[e] = a.cache[e]
          /\ n.cache[c].addr = a.ret /\ n.cache[c].nb_free = Cache[c].objects
          /\ \A e : TakenIn(n, e) = TakenIn(a, e)
      BY <1>7
    <2> HIDE DEF C, S, T, c
    <2>2. Stage(n, C \union {c}, T, 2)
      BY <2>1, <1>2, <1>8, StructureNamed
    <2> QED BY <2>2 DEF T, c
  <1>10. C \union {"ranges"} = {"caches", "ranges"} /\ S \union {FirstOfRanges} = {FirstOfCaches, FirstOfRanges}
    OBVIOUS
  <1> QED BY <1>9, <1>10 DEF n

(* sos_kmem_cache_subsystem_setup_prepare() adds that of structures,       *)
(* without slab.                                                           *)
LEMMA PreparedStage ==
  Stage(CachesPrepared, OwnNames, {FirstOfCaches, FirstOfRanges}, 3)
  <1> DEFINE x == RangesSetup
             a == SetupAlloc(x)
             n == CachesPrepared
             C == {"caches", "ranges"}
             S == {FirstOfCaches, FirstOfRanges}
             c == "kslabs"
             z == NewCache(a, c, a.ret)
  <1>1. Stage(x, C, S, 2)
    BY RangesStage
  <1>2. StageMore(a, C, S, 3)
    <2>1. 2 \in 1 .. 2 /\ 2 + 1 = 3 /\ "caches" \in C
      OBVIOUS
    <2> HIDE DEF x, C, S
    <2> QED BY <2>1, <1>1, NextStructure
  <1>3. n = AndThen(a, LAMBDA new : Initialized(new, c))
    BY DEF CachesPrepared
  <1> HIDE DEF x, a, n
  <1>4. /\ Early(a) /\ FirstSlabs(a) /\ DOMAIN a.cache = C /\ DOMAIN a.slab = S
        /\ a.ret \in Nat \ {NULL}
    BY <1>2 DEF StageMore
  <1>5. n = Initialized(a, c)
    BY <1>3, <1>4 DEF AndThen
  <1>6. c \in DOMAIN Cache /\ c \notin C /\ ~ CacheRefused(c) /\ Cache[c].min = 0
    BY OwnCaches
  <1>7. n = z
    BY <1>5, <1>6 DEF Initialized, Preallocated
  <1>8. CacheEntered(a, z, {}, c, a.ret)
    BY <1>4, <1>6, NewCacheCaches DEF Early
  <1> HIDE DEF z
  <1>9. /\ RangesAlone(a, n) /\ n.slab = a.slab /\ KmemShape(n) /\ CachesOK(n, {})
        /\ DOMAIN n.cache = C \union {c}
        /\ \A e \in C : n.cache[e] = a.cache[e]
        /\ n.cache[c].addr = a.ret
        /\ \A e : TakenIn(n, e) = TakenIn(a, e)
        /\ \A t : Objects(n, t) = Objects(a, t)
    BY <1>4, <1>7, <1>8 DEF CacheEntered, RangesAlone
  <1>10. Early(n)
    BY <1>4, <1>9 DEF Early, Disjoint
  <1>11. FirstSlabs(n) /\ DOMAIN n.slab = S
    BY <1>4, <1>9 DEF FirstSlabs
  <1>12. Stage(n, C \union {c}, S, 3)
    <2>1. c \notin C /\ "caches" \in C /\ c # "ranges"
      OBVIOUS
    <2> HIDE DEF C, S, c
    <2> QED BY <2>1, <1>2, <1>9, <1>10, <1>11, StructureNamed
  <1>13. C \union {c} = OwnNames
    BY DEF OwnNames
  <1> QED BY <1>12, <1>13 DEF n

(* Slabs that only change the range they lie in. *)
SameContents(x, n) ==
  /\ n.cache = x.cache /\ DOMAIN n.slab = DOMAIN x.slab
  /\ \A t \in DOMAIN x.slab :
       /\ n.slab[t].cache = x.slab[t].cache /\ n.slab[t].base = x.slab[t].base
       /\ n.slab[t].free = x.slab[t].free

(* What only depends on the contents of the slabs is the same. *)
LEMMA SameContentsKept ==
  ASSUME NEW x, NEW n, SameContents(x, n)
  PROVE  /\ \A e : SlabsIn(n, e) = SlabsIn(x, e) /\ TakenIn(n, e) = TakenIn(x, e)
         /\ \A t \in DOMAIN x.slab : Objects(n, t) = Objects(x, t)
         /\ CachesOK(x, {}) => CachesOK(n, {})
         /\ Disjoint(x) => Disjoint(n)
  <1>1. /\ n.cache = x.cache /\ DOMAIN n.slab = DOMAIN x.slab
        /\ \A t \in DOMAIN x.slab :
             /\ n.slab[t].cache = x.slab[t].cache /\ n.slab[t].base = x.slab[t].base
             /\ n.slab[t].free = x.slab[t].free
    BY DEF SameContents
  <1>2. \A e : SlabsIn(n, e) = SlabsIn(x, e)
    BY <1>1 DEF SlabsIn
  <1>3. \A t \in DOMAIN x.slab : Objects(n, t) = Objects(x, t)
    BY <1>1 DEF Objects
  <1>4. ASSUME NEW e PROVE TakenIn(n, e) = TakenIn(x, e) /\ FreeIn(n, {}, e) = FreeIn(x, {}, e)
    <2>1. \A t \in SlabsIn(x, e) : t \in DOMAIN x.slab
      BY DEF SlabsIn
    <2>2. \A t \in SlabsIn(x, e) : Objects(n, t) \ n.slab[t].free = Objects(x, t) \ x.slab[t].free
      BY <2>1, <1>1, <1>3
    <2>3. \A t \in SlabsIn(x, e) : n.slab[t].free = x.slab[t].free
      BY <2>1, <1>1
    <2> QED BY <2>2, <2>3, <1>2 DEF TakenIn, FreeIn
  <1>5. ASSUME CachesOK(x, {}) PROVE CachesOK(n, {})
    <2>1. Tabled(x) /\ Slabbed(x, {}) /\ \A e \in DOMAIN x.cache : CacheExact(x, {}, e)
      BY <1>5 DEF CachesOK
    <2>2. Tabled(n)
      BY <2>1, <1>1 DEF Tabled
    <2>3. Slabbed(n, {})
      BY <2>1, <1>1, <1>3 DEF Slabbed
    <2>4. ASSUME NEW e \in DOMAIN n.cache PROVE CacheExact(n, {}, e)
      <3>1. CacheExact(x, {}, e) /\ n.cache[e] = x.cache[e] /\ e \in DOMAIN x.cache
        BY <2>1, <1>1
      <3>2. \A i \in 1 .. Len(x.cache[e].slab_list) : x.cache[e].slab_list[i] \in DOMAIN x.slab
        BY <3>1, <1>5, ListFacts
      <3>3. FullLast(n.slab, n.cache[e].slab_list)
        BY <3>1, <3>2, <1>1 DEF CacheExact, FullLast
      <3> QED BY <3>1, <3>3, <1>2, <1>4 DEF CacheExact
    <2> QED BY <2>2, <2>3, <2>4 DEF CachesOK
  <1>6. ASSUME Disjoint(x) PROVE Disjoint(n)
    BY <1>1, <1>3, <1>6 DEF Disjoint
  <1> QED BY <1>2, <1>3, <1>4, <1>5, <1>6

(* The slabs after one of them has got its range. *)
LEMMA SlabRangeSet ==
  ASSUME NEW table, table \in [DOMAIN table -> SlabRecord], NEW s \in DOMAIN table,
         NEW d \in Nat, NEW t, t = [table EXCEPT ![s].range = d]
  PROVE  /\ t \in [DOMAIN table -> SlabRecord] /\ DOMAIN t = DOMAIN table
         /\ \A e \in DOMAIN table :
              /\ t[e].cache = table[e].cache /\ t[e].base = table[e].base /\ t[e].free = table[e].free
              /\ t[e].range = IF e = s THEN d ELSE table[e].range
  <1> DEFINE rec == [table[s] EXCEPT !.range = d]
  <1>1. table[s] \in SlabRecord
    OBVIOUS
  <1>2. /\ rec \in SlabRecord /\ rec.cache = table[s].cache /\ rec.base = table[s].base
        /\ rec.free = table[s].free /\ rec.range = d
    BY <1>1 DEF SlabRecord
  <1>3. t = [table EXCEPT ![s] = rec]
    OBVIOUS
  <1> HIDE DEF rec
  <1> QED BY <1>2, <1>3

(* An element is appended to a list. *)
LEMMA LongerList ==
  ASSUME NEW S, NEW q \in Seq(S), NEW e \in S
  PROVE  Append(q, e) \in Seq(S)
  OBVIOUS

(* create_range(), with a descriptor that was allocated in advance. *)
RangeListed(x, n, area) ==
  LET d == x.ret
      pages == area.base .. area.base + area.nb_pages - 1
  IN /\ n.cache = x.cache /\ n.avail = x.avail /\ n.ranges_to_free = x.ranges_to_free
     /\ DOMAIN n.range = DOMAIN x.range \union {d} /\ n.range[d] = area
     /\ \A e \in DOMAIN x.range : n.range[e] = x.range[e]
     /\ SameContents(x, n)
     /\ area.slab = NULL =>
          n.free = Append(x.free, d) /\ n.used = x.used /\ n.owner = x.owner /\ n.slab = x.slab
     /\ area.slab # NULL =>
          /\ n.free = x.free /\ n.used = Append(x.used, d)
          /\ DOMAIN n.owner = DOMAIN x.owner \union pages
          /\ \A p \in DOMAIN n.owner : n.owner[p] = IF p \in pages THEN d ELSE x.owner[p]
          /\ \A t \in DOMAIN x.slab : n.slab[t].range = IF t = area.slab THEN d ELSE x.slab[t].range

(* create_range() appends its range to a list, and maps its pages if there *)
(* is a slab in it.                                                        *)
LEMMA ListedIs ==
  ASSUME NEW x, Early(x), x.ret \in Nat \ {NULL}, x.ret \notin DOMAIN x.range, NEW area \in RangeRecord,
         area.slab # NULL => area.slab \in DOMAIN x.slab,
         NEW n, n = Listed(Described(x, area), area)
  PROVE  RangeListed(x, n, area) /\ Early(n)
  <1> DEFINE d == x.ret
             pages == area.base .. area.base + area.nb_pages - 1
             y == Described(x, area)
  <1>1. /\ KmemShape(x) /\ Disjoint(x) /\ CachesOK(x, {}) /\ \A t \in DOMAIN x.slab : x.slab[t].base # 0
        /\ Shaped(x)
    BY DEF Early, KmemShape
  <1>2. /\ y.range = With(x.range, d, area) /\ y.free = x.free /\ y.used = x.used /\ y.slab = x.slab
        /\ y.cache = x.cache /\ y.owner = x.owner /\ y.ranges_to_free = x.ranges_to_free /\ y.avail = x.avail
        /\ y.ret = d /\ Shaped(y)
    BY <1>1 DEF Described, Shaped, Field
  <1>3. n = IF area.slab = NULL THEN ListedFree(y) ELSE ListedUsed(y, area)
    BY DEF Listed
  <1> HIDE DEF y
  <1>4. /\ DOMAIN y.range = DOMAIN x.range \union {d} /\ y.range[d] = area
        /\ y.range = [e \in DOMAIN y.range |-> y.range[e]]
        /\ \A e \in DOMAIN x.range : y.range[e] = x.range[e]
    BY <1>2 DEF With
  <1>5. y.range \in [DOMAIN y.range -> RangeRecord]
    <2>1. \A e \in DOMAIN y.range : y.range[e] \in RangeRecord
      BY <1>1, <1>4 DEF KmemShape
    <2> QED BY <2>1, <1>4
  <1>6. /\ x.free \in Seq(DOMAIN y.range) /\ x.used \in Seq(DOMAIN y.range)
        /\ x.ranges_to_free \in Seq(DOMAIN y.range) /\ d \in DOMAIN y.range
    <2>1. \A q \in Seq(DOMAIN x.range) : q \in Seq(DOMAIN y.range)
      <3>1. SUFFICES ASSUME NEW q \in Seq(DOMAIN x.range) PROVE q \in Seq(DOMAIN y.range)
        OBVIOUS
      <3>2. \A i \in 1 .. Len(q) : q[i] \in DOMAIN y.range
        BY <1>4, ElementsAreContained
      <3> QED BY <3>2, SeqMono
    <2> QED BY <2>1, <1>1, <1>4 DEF KmemShape
  <1>7. CASE area.slab = NULL
    <2>1. n = ListedFree(y)
      BY <1>3, <1>7
    <2>2. /\ n.range = y.range /\ n.free = Append(y.free, d) /\ n.used = y.used /\ n.slab = y.slab
          /\ n.cache = y.cache /\ n.owner = y.owner /\ n.ranges_to_free = y.ranges_to_free /\ n.avail = y.avail
          /\ Shaped(n)
      BY <2>1, <1>2 DEF ListedFree, Shaped, Field
    <2>3. n.free \in Seq(DOMAIN n.range)
      <3>1. n.free = Append(x.free, d) /\ DOMAIN n.range = DOMAIN y.range
        BY <2>2, <1>2
      <3> QED BY <3>1, <1>6, LongerList
    <2>4. n.owner \in [DOMAIN n.owner -> DOMAIN n.range] /\ DOMAIN n.owner \subseteq Nat
      BY <2>2, <1>1, <1>2, <1>4 DEF KmemShape
    <2>5. KmemShape(n)
      BY <2>2, <2>3, <2>4, <1>1, <1>2, <1>4, <1>5, <1>6 DEF KmemShape
    <2>6. SameContents(x, n)
      BY <2>2, <1>2 DEF SameContents
    <2>7. Early(n)
      BY <2>2, <2>5, <2>6, <1>1, <1>2, SameContentsKept DEF Early
    <2> QED BY <2>2, <2>6, <2>7, <1>2, <1>4, <1>7 DEF RangeListed
  <1>8. CASE area.slab # NULL
    <2>1. n = ListedUsed(y, area)
      BY <1>3, <1>8
    <2>2. /\ n.range = y.range /\ n.free = y.free /\ n.used = Append(y.used, d)
          /\ n.slab = [y.slab EXCEPT ![area.slab].range = d]
          /\ n.cache = y.cache /\ n.ranges_to_free = y.ranges_to_free /\ n.avail = y.avail
          /\ n.owner = [p \in DOMAIN y.owner \union pages |-> IF p \in pages THEN d ELSE y.owner[p]]
          /\ Shaped(n)
      <3>1. /\ n.range = y.range /\ n.free = y.free /\ n.used = Append(y.used, d)
            /\ n.cache = y.cache /\ n.ranges_to_free = y.ranges_to_free /\ n.avail = y.avail
            /\ Shaped(n)
        BY <2>1, <1>2 DEF ListedUsed, Shaped, Field
      <3>2. n.slab = [y.slab EXCEPT ![area.slab].range = y.ret]
        BY <2>1, <1>2 DEF ListedUsed, Shaped, Field
      <3>3. n.owner = [p \in DOMAIN y.owner \union pages |-> IF p \in pages THEN y.ret ELSE y.owner[p]]
        BY <2>1, <1>2 DEF ListedUsed, Shaped, Field
      <3> QED BY <3>1, <3>2, <3>3, <1>2
    <2>3. n.used \in Seq(DOMAIN n.range)
      <3>1. n.used = Append(x.used, d) /\ DOMAIN n.range = DOMAIN y.range
        BY <2>2, <1>2
      <3> QED BY <3>1, <1>6, LongerList
    <2>4. /\ DOMAIN n.owner = DOMAIN x.owner \union pages
          /\ \A p \in DOMAIN n.owner : n.owner[p] = IF p \in pages THEN d ELSE x.owner[p]
          /\ n.owner = [p \in DOMAIN n.owner |-> n.owner[p]]
      BY <2>2, <1>2
    <2>5. pages \subseteq Nat
      <3>1. area.base \in Nat /\ area.nb_pages \in Nat
        BY DEF RangeRecord
      <3> QED BY <3>1
    <2> HIDE DEF pages
    <2>6. n.owner \in [DOMAIN n.owner -> DOMAIN n.range] /\ DOMAIN n.owner \subseteq Nat
      <3>1. \A p \in DOMAIN n.owner : n.owner[p] \in DOMAIN n.range
        BY <2>2, <2>4, <1>1, <1>4 DEF KmemShape
      <3>2. DOMAIN n.owner \subseteq Nat
        BY <2>4, <2>5, <1>1 DEF KmemShape
      <3> QED BY <3>1, <3>2, <2>4
    <2>7. /\ n.slab \in [DOMAIN x.slab -> SlabRecord] /\ DOMAIN n.slab = DOMAIN x.slab
          /\ \A e \in DOMAIN x.slab :
               /\ n.slab[e].cache = x.slab[e].cache /\ n.slab[e].base = x.slab[e].base
               /\ n.slab[e].free = x.slab[e].free
               /\ n.slab[e].range = IF e = area.slab THEN d ELSE x.slab[e].range
      <3>1. n.slab = [x.slab EXCEPT ![area.slab].range = d] /\ x.slab \in [DOMAIN x.slab -> SlabRecord]
            /\ area.slab \in DOMAIN x.slab /\ d \in Nat
        BY <2>2, <1>1, <1>2, <1>8 DEF KmemShape
      <3> HIDE DEF d
      <3> QED BY <3>1, SlabRangeSet
    <2>8. KmemShape(n)
      BY <2>2, <2>3, <2>6, <2>7, <1>1, <1>2, <1>4, <1>5, <1>6 DEF KmemShape
    <2>9. SameContents(x, n)
      BY <2>2, <2>7, <1>2 DEF SameContents
    <2>10. Early(n)
      BY <2>7, <2>8, <2>9, <1>1, SameContentsKept DEF Early
    <2> QED BY <2>2, <2>4, <2>7, <2>9, <2>10, <1>2, <1>4, <1>8 DEF RangeListed, pages
  <1> QED BY <1>7, <1>8

(* create_range(): the range d for an area. *)
RangeCreated(st, n, area, d) ==
  LET pages == area.base .. area.base + area.nb_pages - 1
  IN /\ Early(n) /\ d \in Nat \ {NULL} /\ d \notin TakenIn(st, "ranges")
     /\ TakenIn(n, "ranges") = TakenIn(st, "ranges") \union {d}
     /\ \A e : e # "ranges" => TakenIn(n, e) = TakenIn(st, e)
     /\ DOMAIN n.cache = DOMAIN st.cache
     /\ \A e \in DOMAIN st.cache : n.cache[e].addr = st.cache[e].addr
     /\ \A e \in DOMAIN st.cache : e # "ranges" => n.cache[e] = st.cache[e]
     /\ n.cache["ranges"].nb_free = st.cache["ranges"].nb_free - 1
     /\ n.avail = st.avail /\ n.ranges_to_free = st.ranges_to_free
     /\ DOMAIN n.range = DOMAIN st.range \union {d} /\ n.range[d] = area
     /\ \A e \in DOMAIN st.range : n.range[e] = st.range[e]
     /\ DOMAIN n.slab = DOMAIN st.slab
     /\ \A t \in DOMAIN st.slab :
          n.slab[t].cache = st.slab[t].cache /\ n.slab[t].base = st.slab[t].base
     /\ area.slab = NULL =>
          /\ n.free = Append(st.free, d) /\ n.used = st.used /\ n.owner = st.owner
          /\ \A t \in DOMAIN st.slab : n.slab[t].range = st.slab[t].range
     /\ area.slab # NULL =>
          /\ n.free = st.free /\ n.used = Append(st.used, d)
          /\ DOMAIN n.owner = DOMAIN st.owner \union pages
          /\ \A p \in DOMAIN n.owner : n.owner[p] = IF p \in pages THEN d ELSE st.owner[p]
          /\ \A t \in DOMAIN st.slab : n.slab[t].range = IF t = area.slab THEN d ELSE st.slab[t].range

(* create_range(), while the cache of ranges has more than its reserve. *)
LEMMA CreateRangeCreates ==
  ASSUME NEW st, Early(st), "ranges" \in DOMAIN st.cache,
         st.cache["ranges"].nb_free \in Nat, st.cache["ranges"].nb_free > 2,
         DOMAIN st.range \subseteq TakenIn(st, "ranges"), NEW area \in RangeRecord,
         area.slab # NULL => area.slab \in DOMAIN st.slab
  PROVE  \E d : RangeCreated(st, CreateRange(st, area), area, d)
  <1> DEFINE x == Describe(st)
             d == x.ret
             n == CreateRange(st, area)
  <1>1. EarlyTaken(st, x, "ranges")
    BY EarlyDescribe
  <1>2. n = Listed(Described(x, area), area)
    BY DEF CreateRange
  <1> HIDE DEF x, n
  <1>3. /\ Early(x) /\ SameRanges(st, x) /\ Only(st, x, {"ranges"}) /\ x.avail = st.avail
        /\ d \in Nat \ {NULL} /\ d \notin TakenIn(st, "ranges")
        /\ TakenIn(x, "ranges") = TakenIn(st, "ranges") \union {d}
        /\ x.cache["ranges"].nb_free = st.cache["ranges"].nb_free - 1
    BY <1>1 DEF EarlyTaken
  <1>4. /\ x.range = st.range /\ x.free = st.free /\ x.used = st.used
        /\ x.ranges_to_free = st.ranges_to_free /\ x.owner = st.owner
        /\ DOMAIN x.slab = DOMAIN st.slab
        /\ \A s \in DOMAIN st.slab :
             /\ x.slab[s].range = st.slab[s].range /\ x.slab[s].base = st.slab[s].base
             /\ x.slab[s].cache = st.slab[s].cache
    BY <1>3 DEF SameRanges
  <1>5. RangeListed(x, n, area) /\ Early(n)
    <2>1. d \notin DOMAIN x.range /\ (area.slab # NULL => area.slab \in DOMAIN x.slab)
      BY <1>3, <1>4
    <2> QED BY <2>1, <1>2, <1>3, ListedIs
  <1>6. /\ n.cache = x.cache /\ n.avail = x.avail /\ n.ranges_to_free = x.ranges_to_free
        /\ DOMAIN n.range = DOMAIN x.range \union {d} /\ n.range[d] = area
        /\ \A e \in DOMAIN x.range : n.range[e] = x.range[e]
        /\ SameContents(x, n)
    BY <1>5 DEF RangeListed
  <1>7. /\ DOMAIN n.slab = DOMAIN x.slab
        /\ \A t \in DOMAIN x.slab :
             n.slab[t].cache = x.slab[t].cache /\ n.slab[t].base = x.slab[t].base
        /\ \A e : TakenIn(n, e) = TakenIn(x, e)
    BY <1>6, SameContentsKept DEF SameContents
  <1>8. \A e : e # "ranges" => TakenIn(n, e) = TakenIn(st, e)
    BY <1>3, <1>7, OnlyOthers
  <1>9. /\ DOMAIN n.cache = DOMAIN st.cache
        /\ \A e \in DOMAIN st.cache : n.cache[e].addr = st.cache[e].addr
        /\ \A e \in DOMAIN st.cache : e # "ranges" => n.cache[e] = st.cache[e]
    BY <1>3, <1>6 DEF Only
  <1>10. area.slab = NULL =>
           /\ n.free = Append(st.free, d) /\ n.used = st.used /\ n.owner = st.owner
           /\ \A t \in DOMAIN st.slab : n.slab[t].range = st.slab[t].range
    BY <1>4, <1>5 DEF RangeListed
  <1> DEFINE pages == area.base .. area.base + area.nb_pages - 1
  <1>11. area.slab # NULL =>
           /\ n.free = st.free /\ n.used = Append(st.used, d)
           /\ DOMAIN n.owner = DOMAIN st.owner \union pages
           /\ \A p \in DOMAIN n.owner : n.owner[p] = IF p \in pages THEN d ELSE st.owner[p]
           /\ \A t \in DOMAIN st.slab : n.slab[t].range = IF t = area.slab THEN d ELSE st.slab[t].range
    BY <1>4, <1>5 DEF RangeListed
  <1> HIDE DEF pages, d
  <1>12. RangeCreated(st, n, area, d)
    BY <1>3, <1>4, <1>5, <1>6, <1>7, <1>8, <1>9, <1>10, <1>11 DEF RangeCreated, pages
  <1> QED BY <1>12 DEF n

(* The areas of the setup: the two first slabs, and the pages that follow. *)
LEMMA AreasAre ==
  /\ \A i \in 1 .. 3 : Areas[i] \in RangeRecord /\ Areas[i].base = i
  /\ Areas[1].nb_pages = 1 /\ Areas[2].nb_pages = 1 /\ Areas[3].nb_pages = TopPage - 2
  /\ Areas[1].slab = FirstOfCaches /\ Areas[2].slab = FirstOfRanges /\ Areas[3].slab = NULL
  /\ FirstOfCaches # NULL /\ FirstOfRanges # NULL /\ FirstOfCaches # FirstOfRanges
  <1>1. FirstOfCaches \in Nat \ {NULL} /\ FirstOfRanges \in Nat \ {NULL} /\ FirstOfCaches # FirstOfRanges
    BY FirstSlabsApart
  <1>2. TopPage - 2 \in Nat /\ NULL \in Nat
    BY KmemAssumption DEF NULL
  <1>3. /\ Areas[1] = [base |-> 1, nb_pages |-> 1, slab |-> FirstOfCaches]
        /\ Areas[2] = [base |-> 2, nb_pages |-> 1, slab |-> FirstOfRanges]
        /\ Areas[3] = [base |-> 3, nb_pages |-> TopPage - 2, slab |-> NULL]
    BY DEF Areas, FirstOfCaches, FirstOfRanges
  <1>4. Areas[1] \in RangeRecord /\ Areas[2] \in RangeRecord /\ Areas[3] \in RangeRecord
    BY <1>1, <1>2, <1>3 DEF RangeRecord
  <1> QED BY <1>1, <1>3, <1>4

(* The caches and the slabs of the setup, whatever the ranges. *)
SetupCaches(v) ==
  /\ DOMAIN v.cache = OwnNames /\ DOMAIN v.slab = {FirstOfCaches, FirstOfRanges}
  /\ v.slab[FirstOfCaches].cache = "caches" /\ v.slab[FirstOfCaches].base = 1
  /\ v.slab[FirstOfRanges].cache = "ranges" /\ v.slab[FirstOfRanges].base = 2
  /\ TakenIn(v, "caches") = {v.cache[c].addr : c \in OwnNames}
  /\ \A c, e \in OwnNames : v.cache[c].addr = v.cache[e].addr => c = e
  /\ \A e : e \notin {"caches", "ranges"} => TakenIn(v, e) = {}
  /\ v.avail = TopPage /\ v.ranges_to_free = <<>>

(* The ranges that are created, nb of them. *)
LEMMA SetupCreates ==
  ASSUME NEW x, Early(x), SetupCaches(x), x.cache["ranges"].nb_free \in Nat, x.cache["ranges"].nb_free > 2,
         DOMAIN x.range = TakenIn(x, "ranges"), NEW i \in 1 .. 3
  PROVE  \E d : /\ RangeCreated(x, CreateRange(x, Areas[i]), Areas[i], d)
                /\ SetupCaches(CreateRange(x, Areas[i]))
                /\ DOMAIN CreateRange(x, Areas[i]).range = TakenIn(CreateRange(x, Areas[i]), "ranges")
  <1> DEFINE area == Areas[i]
             n == CreateRange(x, area)
  <1>1. area \in RangeRecord /\ (area.slab # NULL => area.slab \in DOMAIN x.slab)
    BY AreasAre DEF SetupCaches
  <1>2. "ranges" \in DOMAIN x.cache
    BY DEF SetupCaches, OwnNames
  <1> HIDE DEF area
  <1>3. PICK d : RangeCreated(x, n, area, d)
    BY <1>1, <1>2, CreateRangeCreates
  <1> HIDE DEF n
  <1>4. /\ DOMAIN n.cache = DOMAIN x.cache /\ DOMAIN n.slab = DOMAIN x.slab
        /\ \A e \in DOMAIN x.cache : n.cache[e].addr = x.cache[e].addr
        /\ \A t \in DOMAIN x.slab :
             n.slab[t].cache = x.slab[t].cache /\ n.slab[t].base = x.slab[t].base
        /\ TakenIn(n, "ranges") = TakenIn(x, "ranges") \union {d}
        /\ \A e : e # "ranges" => TakenIn(n, e) = TakenIn(x, e)
        /\ n.avail = x.avail /\ n.ranges_to_free = x.ranges_to_free
        /\ DOMAIN n.range = DOMAIN x.range \union {d}
    BY <1>3 DEF RangeCreated
  <1>5. {n.cache[c].addr : c \in OwnNames} = {x.cache[c].addr : c \in OwnNames}
    <2>1. \A c \in OwnNames : n.cache[c].addr = x.cache[c].addr
      BY <1>4 DEF SetupCaches
    <2> QED BY <2>1
  <1>6. SetupCaches(n)
    BY <1>4, <1>5 DEF SetupCaches
  <1>7. DOMAIN n.range = TakenIn(n, "ranges")
    BY <1>4
  <1> QED BY <1>3, <1>6, <1>7 DEF n, area

(* A sequence of two. *)
LEMMA PairIs ==
  ASSUME NEW s \in Seq(Nat), NEW c \in Nat, NEW d \in Nat, Len(s) = 2, s[1] = c, s[2] = d
  PROVE  s = <<c, d>>
  OBVIOUS

(* A sequence, place by place. *)
LEMMA TwoAppended ==
  ASSUME NEW c \in Nat, NEW d \in Nat
  PROVE  Append(<<>>, c) = <<c>> /\ Append(<<c>>, d) = <<c, d>>
  <1>1. Append(<<>>, c) = <<c>>
    OBVIOUS
  <1>2. ASSUME NEW q \in Seq(Nat), Len(q) = 1, q[1] = c
        PROVE  Append(q, d) = <<c, d>>
    <2>1. /\ Append(q, d) \in Seq(Nat) /\ Len(Append(q, d)) = Len(q) + 1
          /\ Append(q, d)[Len(q) + 1] = d /\ \A i \in 1 .. Len(q) : Append(q, d)[i] = q[i]
      BY ONLY d \in Nat, q \in Seq(Nat), AppendProperties
    <2>2. 1 \in 1 .. Len(q) /\ Len(q) + 1 = 2
      BY <1>2
    <2>3. Len(Append(q, d)) = 2 /\ Append(q, d)[1] = c /\ Append(q, d)[2] = d
      BY ONLY <1>2, <2>1, <2>2, Zenon
    <2> QED BY ONLY <2>1, <2>3, c \in Nat, d \in Nat, PairIs, Zenon
  <1>3. SUFFICES ASSUME NEW q, q = <<c>> PROVE Append(q, d) = <<c, d>>
    BY <1>1
  <1>4. q \in Seq(Nat) /\ Len(q) = 1 /\ q[1] = c
    BY <1>3
  <1> QED BY <1>2, <1>4

(* The state after sos_kmem_vmm_subsystem_setup(). *)
VmmSet(v, d1, d2, d3) ==
  /\ Early(v) /\ SetupCaches(v)
  /\ d1 # d2 /\ d1 # d3 /\ d2 # d3
  /\ TakenIn(v, "ranges") = {d1, d2, d3} /\ DOMAIN v.range = {d1, d2, d3}
  /\ v.cache["ranges"].nb_free \in Nat /\ v.cache["ranges"].nb_free >= 2
  /\ v.range[d1] = Areas[1] /\ v.range[d2] = Areas[2] /\ v.range[d3] = Areas[3]
  /\ v.slab[FirstOfCaches].range = d1 /\ v.slab[FirstOfRanges].range = d2
  /\ v.used = <<d1, d2>> /\ v.free = <<d3>>
  /\ DOMAIN v.owner = {1, 2} /\ v.owner[1] = d1 /\ v.owner[2] = d2

(* This is the state that sos_kmem_vmm_subsystem_setup() reaches. *)
LEMMA VmmIsSet ==
  \E d1, d2, d3 : VmmSet(VmmSetup(CachesPrepared), d1, d2, d3)
  <1> DEFINE x == CachesPrepared
             a == CreateRange(x, Areas[1])
             b == CreateRange(a, Areas[2])
             v == CreateRange(b, Areas[3])
  <1>1. v = VmmSetup(CachesPrepared)
    BY DEF VmmSetup
  <1>2. Stage(x, OwnNames, {FirstOfCaches, FirstOfRanges}, 3)
    BY PreparedStage
  <1> HIDE DEF x
  <1>3. /\ Early(x) /\ SetupCaches(x) /\ DOMAIN x.range = {} /\ TakenIn(x, "ranges") = {}
        /\ x.used = <<>> /\ x.free = <<>> /\ DOMAIN x.owner = {}
        /\ x.cache["ranges"].nb_free = Cache["ranges"].objects
    BY <1>2 DEF Stage, RangesBlank, FirstSlabs, SetupCaches, OwnNames
  <1>4. x.cache["ranges"].nb_free \in Nat /\ x.cache["ranges"].nb_free >= 5
    BY <1>3, OwnCaches
  <1>5. PICK d1 : RangeCreated(x, a, Areas[1], d1) /\ SetupCaches(a) /\ DOMAIN a.range = TakenIn(a, "ranges")
    <2>1. 1 \in 1 .. 3 /\ x.cache["ranges"].nb_free > 2
      BY <1>4
    <2> QED BY <2>1, <1>3, <1>4, SetupCreates
  <1> HIDE DEF a
  <1>6. /\ Early(a) /\ a.cache["ranges"].nb_free = x.cache["ranges"].nb_free - 1
        /\ DOMAIN a.range = {d1} /\ a.range[d1] = Areas[1]
        /\ a.free = x.free /\ a.used = Append(x.used, d1)
        /\ DOMAIN a.owner = 1 .. 1 + 1 - 1 /\ \A p \in DOMAIN a.owner : a.owner[p] = d1
        /\ a.slab[FirstOfCaches].range = d1
    <2>1. Areas[1].slab # NULL /\ Areas[1].base = 1 /\ Areas[1].nb_pages = 1 /\ Areas[1].slab = FirstOfCaches
      BY AreasAre
    <2>2. DOMAIN x.slab = {FirstOfCaches, FirstOfRanges}
      BY <1>3 DEF SetupCaches
    <2> QED BY <1>3, <1>5, <2>1, <2>2 DEF RangeCreated
  <1>7. a.cache["ranges"].nb_free \in Nat /\ a.cache["ranges"].nb_free >= 4
    BY <1>4, <1>6
  <1>8. PICK d2 : RangeCreated(a, b, Areas[2], d2) /\ SetupCaches(b) /\ DOMAIN b.range = TakenIn(b, "ranges")
    <2>1. 2 \in 1 .. 3 /\ a.cache["ranges"].nb_free > 2
      BY <1>7
    <2> QED BY <2>1, <1>5, <1>6, <1>7, SetupCreates
  <1> HIDE DEF b
  <1>9. /\ Early(b) /\ b.cache["ranges"].nb_free = a.cache["ranges"].nb_free - 1
        /\ d2 # d1
        /\ DOMAIN b.range = {d1, d2} /\ b.range[d1] = Areas[1] /\ b.range[d2] = Areas[2]
        /\ b.free = a.free /\ b.used = Append(a.used, d2)
        /\ b.slab[FirstOfCaches].range = d1 /\ b.slab[FirstOfRanges].range = d2
    <2>1. Areas[2].slab = FirstOfRanges /\ Areas[2].slab # NULL /\ FirstOfCaches # FirstOfRanges
      BY AreasAre
    <2>2. DOMAIN a.slab = {FirstOfCaches, FirstOfRanges}
      BY <1>5 DEF SetupCaches
    <2> QED BY <1>5, <1>6, <1>8, <2>1, <2>2 DEF RangeCreated
  <1>10. DOMAIN b.owner = {1, 2} /\ b.owner[1] = d1 /\ b.owner[2] = d2
    <2>1. Areas[2].slab # NULL /\ Areas[2].base = 2 /\ Areas[2].nb_pages = 1
      BY AreasAre
    <2>2. /\ DOMAIN b.owner = DOMAIN a.owner \union (2 .. 2 + 1 - 1)
          /\ \A p \in DOMAIN b.owner : b.owner[p] = IF p \in 2 .. 2 + 1 - 1 THEN d2 ELSE a.owner[p]
      BY <1>8, <2>1 DEF RangeCreated
    <2>3. DOMAIN a.owner = {1} /\ 2 .. 2 + 1 - 1 = {2}
      BY <1>6
    <2> QED BY <2>2, <2>3, <1>6
  <1>11. b.cache["ranges"].nb_free \in Nat /\ b.cache["ranges"].nb_free >= 3
    BY <1>7, <1>9
  <1>12. PICK d3 : RangeCreated(b, v, Areas[3], d3) /\ SetupCaches(v) /\ DOMAIN v.range = TakenIn(v, "ranges")
    <2>1. 3 \in 1 .. 3 /\ b.cache["ranges"].nb_free > 2
      BY <1>11
    <2> QED BY <2>1, <1>8, <1>9, <1>11, SetupCreates
  <1> HIDE DEF v
  <1>13. /\ Early(v) /\ v.cache["ranges"].nb_free = b.cache["ranges"].nb_free - 1
         /\ d3 # d1 /\ d3 # d2
         /\ DOMAIN v.range = {d1, d2, d3}
         /\ v.range[d1] = Areas[1] /\ v.range[d2] = Areas[2] /\ v.range[d3] = Areas[3]
         /\ v.free = Append(b.free, d3) /\ v.used = b.used /\ v.owner = b.owner
         /\ v.slab[FirstOfCaches].range = d1 /\ v.slab[FirstOfRanges].range = d2
    <2>1. Areas[3].slab = NULL
      BY AreasAre
    <2>2. DOMAIN b.slab = {FirstOfCaches, FirstOfRanges}
      BY <1>8 DEF SetupCaches
    <2> QED BY <1>8, <1>9, <1>12, <2>1, <2>2 DEF RangeCreated
  <1>14. v.cache["ranges"].nb_free \in Nat /\ v.cache["ranges"].nb_free >= 2
    BY <1>11, <1>13
  <1>15. v.used = <<d1, d2>> /\ v.free = <<d3>>
    <2>1. v.used = Append(Append(<<>>, d1), d2) /\ v.free = Append(<<>>, d3)
      BY <1>3, <1>6, <1>9, <1>13
    <2>2. d1 \in Nat /\ d2 \in Nat /\ d3 \in Nat
      BY <1>5, <1>8, <1>12 DEF RangeCreated
    <2> QED BY <2>1, <2>2, TwoAppended
  <1>16. VmmSet(v, d1, d2, d3)
    BY <1>9, <1>10, <1>12, <1>13, <1>14, <1>15 DEF VmmSet
  <1> QED BY <1>1, <1>16

(* The bounds of the three ranges. *)
LEMMA SetBounds ==
  ASSUME NEW v, NEW d1, NEW d2, NEW d3, VmmSet(v, d1, d2, d3)
  PROVE  /\ v.range[d1].base = 1 /\ End(v, d1) = 2 /\ v.range[d1].nb_pages = 1
         /\ v.range[d2].base = 2 /\ End(v, d2) = 3 /\ v.range[d2].nb_pages = 1
         /\ v.range[d3].base = 3 /\ End(v, d3) = TopPage + 1
         /\ PagesOf(v, d1) = {1} /\ PagesOf(v, d2) = {2} /\ PagesOf(v, d3) = 3 .. TopPage
         /\ v.range[d1].slab = FirstOfCaches /\ v.range[d2].slab = FirstOfRanges /\ v.range[d3].slab = NULL
         /\ v.range[d3].nb_pages > 0
  <1>1. /\ v.range[d1].base = 1 /\ v.range[d1].nb_pages = 1 /\ v.range[d1].slab = FirstOfCaches
        /\ v.range[d2].base = 2 /\ v.range[d2].nb_pages = 1 /\ v.range[d2].slab = FirstOfRanges
        /\ v.range[d3].base = 3 /\ v.range[d3].nb_pages = TopPage - 2 /\ v.range[d3].slab = NULL
    <2>1. v.range[d1] = Areas[1] /\ v.range[d2] = Areas[2] /\ v.range[d3] = Areas[3]
      BY DEF VmmSet
    <2>2. Areas[1].base = 1 /\ Areas[2].base = 2 /\ Areas[3].base = 3
      BY AreasAre
    <2> QED BY <2>1, <2>2, AreasAre
  <1>2. TopPage \in Nat /\ TopPage >= 3
    BY KmemAssumption
  <1>3. End(v, d1) = 2 /\ End(v, d2) = 3 /\ End(v, d3) = TopPage + 1 /\ v.range[d3].nb_pages > 0
    BY <1>1, <1>2 DEF End
  <1>4. PagesOf(v, d1) = {1} /\ PagesOf(v, d2) = {2} /\ PagesOf(v, d3) = 3 .. TopPage
    <2>1. PagesOf(v, d1) = 1 .. 1 /\ PagesOf(v, d2) = 2 .. 2
      BY <1>1, <1>3 DEF PagesOf
    <2>2. PagesOf(v, d3) = 3 .. TopPage
      BY <1>1, <1>2, <1>3 DEF PagesOf
    <2> QED BY <2>1, <2>2
  <1> QED BY <1>1, <1>3, <1>4

(* The lists of two and of one. *)
LEMMA ShortLists ==
  ASSUME NEW c \in Nat, NEW d \in Nat
  PROVE  /\ Len(<<c, d>>) = 2 /\ <<c, d>>[1] = c /\ <<c, d>>[2] = d /\ ToSet(<<c, d>>) = {c, d}
         /\ Len(<<d>>) = 1 /\ <<d>>[1] = d /\ ToSet(<<d>>) = {d}
         /\ IsInjective(<<d>>) /\ (c # d => IsInjective(<<c, d>>))
  <1>1. Len(<<c, d>>) = 2 /\ <<c, d>>[1] = c /\ <<c, d>>[2] = d /\ DOMAIN <<c, d>> = 1 .. 2
    OBVIOUS
  <1>2. Len(<<d>>) = 1 /\ <<d>>[1] = d /\ DOMAIN <<d>> = 1 .. 1
    OBVIOUS
  <1>3. ToSet(<<d>>) = {d} /\ IsInjective(<<d>>)
    BY <1>2 DEF ToSet, IsInjective
  <1>4. ToSet(<<c, d>>) = {c, d}
    BY <1>1 DEF ToSet
  <1>5. c # d => IsInjective(<<c, d>>)
    BY <1>1 DEF IsInjective
  <1> QED BY <1>1, <1>2, <1>3, <1>4, <1>5

(* Its ranges are what every step keeps. *)
LEMMA SetKept ==
  ASSUME NEW v, NEW d1, NEW d2, NEW d3, VmmSet(v, d1, d2, d3)
  PROVE  /\ KmemKept(v) /\ AllListed(v) /\ Tiled(v) /\ AllMapped(v) /\ Coalesced(v)
         /\ ToSet(v.used) = {d1, d2} /\ Loose(v) = {}
  <1>1. /\ Early(v) /\ SetupCaches(v)
        /\ d1 # d2 /\ d1 # d3 /\ d2 # d3 /\ DOMAIN v.range = {d1, d2, d3}
        /\ v.slab[FirstOfCaches].range = d1 /\ v.slab[FirstOfRanges].range = d2
        /\ v.used = <<d1, d2>> /\ v.free = <<d3>>
        /\ DOMAIN v.owner = {1, 2} /\ v.owner[1] = d1 /\ v.owner[2] = d2
    BY DEF VmmSet
  <1>2. /\ v.range[d1].base = 1 /\ End(v, d1) = 2 /\ v.range[d1].nb_pages = 1
        /\ v.range[d2].base = 2 /\ End(v, d2) = 3 /\ v.range[d2].nb_pages = 1
        /\ v.range[d3].base = 3 /\ End(v, d3) = TopPage + 1
        /\ PagesOf(v, d1) = {1} /\ PagesOf(v, d2) = {2} /\ PagesOf(v, d3) = 3 .. TopPage
        /\ v.range[d1].slab = FirstOfCaches /\ v.range[d2].slab = FirstOfRanges /\ v.range[d3].slab = NULL
        /\ v.range[d3].nb_pages > 0
    BY SetBounds
  <1>3. KmemShape(v) /\ v.ranges_to_free = <<>> /\ TopPage \in Nat /\ TopPage >= 3
    BY <1>1, KmemAssumption DEF Early, SetupCaches
  <1>4. d1 \in Nat /\ d2 \in Nat /\ d3 \in Nat
    BY <1>1, <1>3, ShapeFacts
  <1>5. /\ ToSet(v.used) = {d1, d2} /\ ToSet(v.free) = {d3} /\ ToSet(v.ranges_to_free) = {}
        /\ Len(v.used) = 2 /\ v.used[1] = d1 /\ v.used[2] = d2 /\ Len(v.free) = 1
        /\ IsInjective(v.used) /\ IsInjective(v.free) /\ IsInjective(v.ranges_to_free)
    <2>1. ToSet(v.ranges_to_free) = {} /\ IsInjective(v.ranges_to_free)
      BY <1>3 DEF ToSet, IsInjective
    <2>2. ToSet(v.used) = {d1, d2} /\ Len(v.used) = 2 /\ v.used[1] = d1 /\ v.used[2] = d2 /\ IsInjective(v.used)
      <3>1. LET q == <<d1, d2>>
            IN ToSet(q) = {d1, d2} /\ Len(q) = 2 /\ q[1] = d1 /\ q[2] = d2 /\ IsInjective(q)
        BY <1>1, <1>4, ShortLists, Zenon
      <3> QED BY <3>1, <1>1, Zenon
    <2>3. ToSet(v.free) = {d3} /\ Len(v.free) = 1 /\ IsInjective(v.free)
      BY <1>1, <1>4, ShortLists
    <2> QED BY <2>1, <2>2, <2>3
  <1>6. RangesApart(v)
    <2>1. Apart(v, d1, d2) /\ Apart(v, d1, d3) /\ Apart(v, d2, d3)
          /\ Apart(v, d2, d1) /\ Apart(v, d3, d1) /\ Apart(v, d3, d2)
      BY <1>2 DEF Apart
    <2>2. \A d \in DOMAIN v.range \ ToSet(v.free) : v.range[d].nb_pages > 0
      BY <1>1, <1>2, <1>5
    <2> QED BY <1>1, <2>1, <2>2 DEF RangesApart
  <1>7. ListsSorted(v)
    <2>1. Sorted(v, v.used)
      <3>1. \A i, j \in 1 .. Len(v.used) : i < j => i = 1 /\ j = 2
        BY <1>5
      <3> QED BY <3>1, <1>2, <1>5 DEF Sorted
    <2>2. Sorted(v, v.free)
      <3>1. \A i, j \in 1 .. Len(v.free) : ~ i < j
        BY <1>5
      <3> QED BY <3>1, <1>5 DEF Sorted
    <2> QED BY <2>1, <2>2, <1>1, <1>5 DEF ListsSorted
  <1>8. OwnersKnown(v)
    BY <1>1, <1>2, <1>5 DEF OwnersKnown
  <1>9. DOMAIN v.slab = {FirstOfCaches, FirstOfRanges} /\ FirstOfCaches # NULL /\ FirstOfRanges # NULL
    BY <1>1, AreasAre DEF SetupCaches
  <1>10. SlabsBound(v)
    BY <1>1, <1>2, <1>5, <1>9 DEF SlabsBound
  <1>11. SlabsFit(v)
    <2>1. /\ v.slab[FirstOfCaches].cache = "caches" /\ v.slab[FirstOfCaches].base = 1
          /\ v.slab[FirstOfRanges].cache = "ranges" /\ v.slab[FirstOfRanges].base = 2
      BY <1>1 DEF SetupCaches
    <2>2. Cache["caches"].pages = 1 /\ Cache["ranges"].pages = 1
      BY OwnCaches
    <2> QED BY <2>1, <2>2, <1>1, <1>2, <1>9 DEF SlabsFit
  <1>12. KmemKept(v)
    BY <1>3, <1>6, <1>7, <1>8, <1>10, <1>11 DEF KmemKept, RangesKept
  <1>13. AllListed(v)
    BY <1>1, <1>5 DEF AllListed, Pending
  <1>14. Tiled(v)
    <2>1. Covered(v) = {1} \union ({2} \union 3 .. TopPage)
      BY <1>1, <1>2 DEF Covered
    <2>2. {1} \union ({2} \union 3 .. TopPage) = 1 .. TopPage
      BY <1>3
    <2>3. \A d \in DOMAIN v.range : 1 <= v.range[d].base /\ End(v, d) <= TopPage + 1
      BY <1>1, <1>2, <1>3
    <2> QED BY <2>1, <2>2, <2>3 DEF Tiled, Pages
  <1>15. AllMapped(v)
    BY <1>1, <1>2, <1>5 DEF AllMapped
  <1>16. Coalesced(v)
    BY <1>5 DEF Coalesced
  <1>17. Loose(v) = {}
    BY <1>2, <1>5, <1>9 DEF Loose
  <1> QED BY <1>5, <1>12, <1>13, <1>14, <1>15, <1>16, <1>17

(* It is ready for operations. *)
LEMMA SetReady ==
  ASSUME NEW v, NEW d1, NEW d2, NEW d3, VmmSet(v, d1, d2, d3)
  PROVE  Ready(v, {}) /\ Outside(v, {}) = {}
  <1>1. /\ Early(v) /\ SetupCaches(v)
        /\ TakenIn(v, "ranges") = DOMAIN v.range
    BY DEF VmmSet
  <1>2. CachesOK(v, {}) /\ v.ranges_to_free = <<>>
    BY <1>1 DEF Early, SetupCaches
  <1>3. /\ DOMAIN v.cache = OwnNames /\ DOMAIN v.slab = {FirstOfCaches, FirstOfRanges}
        /\ v.slab[FirstOfCaches].cache = "caches" /\ v.slab[FirstOfCaches].base = 1
        /\ v.slab[FirstOfRanges].cache = "ranges" /\ v.slab[FirstOfRanges].base = 2
        /\ TakenIn(v, "caches") = {v.cache[c].addr : c \in OwnNames}
        /\ \A c, e \in OwnNames : v.cache[c].addr = v.cache[e].addr => c = e
    BY <1>1 DEF SetupCaches
  <1>4. /\ Cache["caches"].onslab /\ Cache["ranges"].onslab
        /\ \A c \in OwnNames : ~ CacheRefused(c)
    BY OwnCaches DEF OwnNames
  <1>5. Placed(v, {})
    <2>1. \A c \in DOMAIN v.cache : v.cache[c].addr \in TakenIn(v, "caches")
      BY <1>3
    <2>2. \A s \in DOMAIN v.slab : /\ Cache[v.slab[s].cache].onslab
                                   /\ s = OnSlab(v.slab[s].cache, v.slab[s].base)
      BY <1>3, <1>4 DEF FirstOfCaches, FirstOfRanges
    <2> QED BY <2>1, <2>2, <1>3, <1>4 DEF Placed
  <1>6. Descriptors(v)
    BY <1>1 DEF Descriptors
  <1>7. Ready(v, {})
    BY <1>2, <1>5, <1>6, SetKept DEF Ready, Firm
  <1>8. Outside(v, {}) = {}
    BY <1>3, <1>4 DEF Outside
  <1> QED BY <1>7, <1>8

(* sos_kmem_vmm_subsystem_setup(): callers may call. *)
LEMMA SetStands ==
  ASSUME NEW v, NEW d1, NEW d2, NEW d3, VmmSet(v, d1, d2, d3)
  PROVE  Standing(v) /\ HeldAreas(v) = {} /\ DOMAIN v.cache = OwnNames /\ v.avail \in Nat
  <1>1. Ready(v, {}) /\ Outside(v, {}) = {} /\ Loose(v) = {}
    BY SetReady, SetKept
  <1>2. /\ SetupCaches(v) /\ TakenIn(v, "ranges") = DOMAIN v.range
        /\ v.cache["ranges"].nb_free \in Nat /\ v.cache["ranges"].nb_free >= 2
    BY DEF VmmSet
  <1>3. /\ DOMAIN v.cache = OwnNames /\ DOMAIN v.slab = {FirstOfCaches, FirstOfRanges}
        /\ v.slab[FirstOfCaches].cache = "caches" /\ v.slab[FirstOfRanges].cache = "ranges"
        /\ TakenIn(v, "caches") = {v.cache[c].addr : c \in OwnNames}
        /\ \A e : e \notin {"caches", "ranges"} => TakenIn(v, e) = {}
        /\ v.avail \in Nat
    BY <1>2, KmemAssumption DEF SetupCaches
  <1>4. Cache["caches"].min = 0 /\ Cache["ranges"].min = 2 /\ Cache["kslabs"].min = 0
    BY OwnCaches
  <1>5. \A e \in DOMAIN v.cache : v.cache[e].nb_free >= Cache[e].min
    <2>1. \A e \in DOMAIN v.cache : v.cache[e].nb_free \in Nat
      BY <1>1, FirmHas, Counts
    <2> QED BY <2>1, <1>2, <1>3, <1>4 DEF OwnNames
  <1>6. Tidy(v, {}, "caches")
    <2>1. SlabsIn(v, "caches") = {FirstOfCaches}
      BY <1>3 DEF SlabsIn
    <2>2. v.cache["caches"].addr \in TakenIn(v, "caches")
      BY <1>3 DEF OwnNames
    <2>3. v.slab[FirstOfCaches].free # Objects(v, FirstOfCaches)
      BY <2>1, <2>2 DEF TakenIn
    <2> QED BY <2>1, <2>3 DEF Tidy
  <1>7. Tidy(v, {}, "kslabs")
    <2>1. SlabsIn(v, "kslabs") = {}
      BY <1>3 DEF SlabsIn
    <2> QED BY <2>1 DEF Tidy
  <1>8. Tidy(v, {}, "ranges")
    BY <1>4 DEF Tidy
  <1>9. \A e \in OwnNames : Held(v, {}, e) = {}
    <2>1. Held(v, {}, "caches") = {}
      BY <1>3 DEF Held, Need
    <2>2. Held(v, {}, "ranges") = {}
      BY <1>2 DEF Held, Need
    <2>3. Held(v, {}, "kslabs") = {}
      BY <1>3 DEF Held
    <2> QED BY <2>1, <2>2, <2>3 DEF OwnNames
  <1>10. Standing(v)
    BY <1>1, <1>3, <1>5, <1>6, <1>7, <1>8, <1>9 DEF Standing, OwnNames
  <1>11. HeldAreas(v) = {}
    <2>1. \A c \in DOMAIN Shape : Held(v, {}, c) = {}
      <3>1. \A c \in DOMAIN Shape : c \notin DOMAIN v.cache
        BY <1>3, CallersCaches
      <3> QED BY <3>1, <1>1, NoCacheNoObject
    <2>2. ObjectAreas(v) = {}
      BY <2>1 DEF ObjectAreas
    <2>3. RangeAreas(v) = {}
      BY <1>1 DEF RangeAreas
    <2> QED BY <2>2, <2>3 DEF HeldAreas
  <1> QED BY <1>3, <1>10, <1>11

(* The states between the creations of the classes. *)
LEMMA ClassesAre ==
  \E g : /\ g[0] = VmmSetup(CachesPrepared) /\ KmemSetup = g[Len(KmallocClass)]
         /\ \A m \in 1 .. Len(KmallocClass) : g[m] = CacheCreated(g[m - 1], KmallocClass[m])
  <1> DEFINE bound == Len(KmallocClass)
             first == VmmSetup(CachesPrepared)
             Is(g, n) == g = [m \in 0 .. n |-> IF m = 0 THEN first ELSE CacheCreated(g[m - 1], KmallocClass[m])]
             Bad == {n \in 0 .. bound : ~ \E g : Is(g, n)}
  <1>0. bound \in Nat
    BY ClassesAssumption
  <1>1. KmemSetup = (CHOOSE g : Is(g, bound))[bound]
    BY DEF KmemSetup
  <1> HIDE DEF bound, first
  <1>2. Bad = {}
    <2>1. SUFFICES ASSUME Bad # {} PROVE FALSE
      OBVIOUS
    <2>2. Bad \in SUBSET Nat
      BY <1>0
    <2> DEFINE n == Min(Bad)
    <2>3. n \in Bad /\ \A j \in Bad : n <= j
      <3> HIDE DEF Bad
      <3> QED BY <2>1, <2>2, MinOfNaturals
    <2>4. n \in 0 .. bound /\ ~ \E g : Is(g, n)
      BY <2>3
    <2> HIDE DEF n
    <2>5. CASE n = 0
      <3> DEFINE g == [m \in 0 .. n |-> first]
      <3>1. Is(g, n)
        BY <2>5
      <3> QED BY <3>1, <2>4
    <2>6. CASE n # 0
      <3>1. n - 1 \in 0 .. bound
        BY <2>4, <2>6, <1>0
      <3>2. PICK g : Is(g, n - 1)
        <4>1. n \in Nat
          BY <2>4, <1>0
        <4>2. n - 1 \notin Bad
          <5> HIDE DEF Bad
          <5> QED BY <4>1, <2>3
        <4> HIDE DEF Is
        <4> QED BY <3>1, <4>2
      <3> DEFINE h == [m \in 0 .. n |-> IF m = n THEN CacheCreated(g[n - 1], KmallocClass[n]) ELSE g[m]]
      <3>3. \A m \in 0 .. n - 1 : g[m] = IF m = 0 THEN first ELSE CacheCreated(g[m - 1], KmallocClass[m])
        BY <3>2
      <3>4. \A m \in 0 .. n : h[m] = IF m = 0 THEN first ELSE CacheCreated(h[m - 1], KmallocClass[m])
        <4>1. ASSUME NEW m \in 0 .. n
              PROVE  h[m] = IF m = 0 THEN first ELSE CacheCreated(h[m - 1], KmallocClass[m])
          <5>1. CASE m = n
            <6>1. n - 1 \in 0 .. n /\ n - 1 # n
              BY <1>0, <2>4, <2>6
            <6>2. h[n - 1] = g[n - 1] /\ h[n] = CacheCreated(g[n - 1], KmallocClass[n])
              BY <1>0, <6>1, <2>4
            <6> HIDE DEF h
            <6> QED BY <5>1, <6>2, <2>6
          <5>2. CASE m # n
            <6>1. m \in 0 .. n - 1 /\ (m # 0 => m - 1 \in 0 .. n /\ m - 1 # n)
              BY <1>0, <5>2, <2>4
            <6>2. h[m] = g[m] /\ (m # 0 => h[m - 1] = g[m - 1])
              BY <5>2, <6>1
            <6> HIDE DEF h
            <6> QED BY <6>1, <6>2, <3>3
          <5> QED BY <5>1, <5>2
        <4> QED BY <4>1
      <3>5. h = [m \in 0 .. n |-> h[m]]
        OBVIOUS
      <3> HIDE DEF h
      <3>6. Is(h, n)
        BY <3>4, <3>5
      <3> QED BY <3>6, <2>4
    <2> QED BY <2>5, <2>6
  <1>3. \E g : Is(g, bound)
    <2>1. bound \in 0 .. bound
      BY <1>0
    <2>2. bound \notin Bad
      <3> HIDE DEF Bad
      <3> QED BY <1>2
    <2> HIDE DEF Is
    <2> QED BY <2>1, <2>2
  <1> DEFINE t == CHOOSE g : Is(g, bound)
  <1>4. KmemSetup = t[bound]
    BY <1>1
  <1>5. Is(t, bound)
    BY <1>3
  <1> HIDE DEF t
  <1>6. t[0] = first /\ \A m \in 1 .. bound : t[m] = CacheCreated(t[m - 1], KmallocClass[m])
    BY <1>0, <1>5
  <1> QED BY <1>4, <1>6 DEF first, bound

(* Before callers call: no area is held, and no class that is to come      *)
(* exists.                                                                 *)
Fresh(st, m) ==
  /\ Standing(st) /\ HeldAreas(st) = {} /\ st.avail \in Nat
  /\ DOMAIN st.cache \subseteq OwnNames \union {KmallocClass[j] : j \in 1 .. m}

(* sos_kmalloc_subsystem_setup(), for one class. *)
LEMMA ClassFresh ==
  ASSUME NEW m \in 1 .. Len(KmallocClass), NEW st, Fresh(st, m - 1)
  PROVE  Fresh(CacheCreated(st, KmallocClass[m]), m)
  <1> DEFINE c == KmallocClass[m]
             n == CacheCreated(st, c)
  <1>0. KmallocClass \in Seq(ToSet(KmallocClass)) /\ IsInjective(KmallocClass)
        /\ Len(KmallocClass) \in Nat /\ DOMAIN KmallocClass = 1 .. Len(KmallocClass)
    BY ClassesAssumption
  <1>1. c \in DOMAIN Shape /\ c \in DOMAIN Cache /\ c \notin OwnNames
    <2>1. c \in ToSet(KmallocClass)
      BY <1>0 DEF ToSet
    <2> HIDE DEF c
    <2> QED BY <2>1, CallersCaches
  <1>2. c \notin DOMAIN st.cache
    <2>1. ASSUME NEW j \in 1 .. m - 1 PROVE KmallocClass[j] # KmallocClass[m]
      <3>1. j \in DOMAIN KmallocClass /\ m \in DOMAIN KmallocClass /\ j # m
        BY <1>0
      <3> QED BY <3>1, <1>0 DEF IsInjective
    <2> QED BY <1>1, <2>1 DEF Fresh
  <1>3. Standing(st) /\ Ready(st, {}) /\ st.avail \in Nat /\ HeldAreas(st) = {}
    BY DEF Fresh, Standing
  <1>4. NbRanges(st) >= 2
    <2>1. "ranges" \in DOMAIN st.cache
      BY <1>3, RangesKnown
    <2>2. st.cache["ranges"].nb_free >= Cache["ranges"].min
      BY <1>3, <2>1 DEF Standing
    <2> QED BY <2>2, OwnCaches DEF NbRanges
  <1>5. CacheMade(st, n, c)
    <2> HIDE DEF c
    <2> QED BY <1>1, <1>2, <1>3, <1>4, CacheCreatedReady
  <1> HIDE DEF n, c
  <1>6. Held(st, {}, c) = {}
    BY <1>2, <1>3, NoCacheNoObject
  <1>7. /\ Ready(n, {}) /\ LooseLess(st, n, {}) /\ Others(st, n, c) /\ n.avail \in Nat
        /\ c \in DOMAIN n.cache =>
             n.cache[c].nb_free >= Cache[c].min /\ Tidy(n, {}, c) /\ Held(n, {}, c) = {}
    BY <1>5 DEF CacheMade
  <1>8. Standing(n) /\ HeldAreas(n) = HeldAreas(st)
    BY <1>1, <1>3, <1>6, <1>7, StandingOthers
  <1>9. DOMAIN n.cache \subseteq OwnNames \union {KmallocClass[j] : j \in 1 .. m}
    <2>1. DOMAIN n.cache \subseteq DOMAIN st.cache \union {c}
      BY <1>7 DEF Others
    <2>2. DOMAIN st.cache \subseteq OwnNames \union {KmallocClass[j] : j \in 1 .. m - 1}
      BY DEF Fresh
    <2>3. 1 .. m - 1 \subseteq 1 .. m /\ m \in 1 .. m
      BY <1>0
    <2>4. c \in {KmallocClass[j] : j \in 1 .. m}
      BY <2>3 DEF c
    <2> QED BY <2>1, <2>2, <2>3, <2>4
  <1>10. Fresh(n, m)
    BY <1>3, <1>7, <1>8, <1>9 DEF Fresh
  <1> QED BY <1>10 DEF n, c

(* The setup leaves the allocators as they stand between two operations,   *)
(* and no area held.                                                       *)
LEMMA SetupFresh ==
  Standing(KmemSetup) /\ HeldAreas(KmemSetup) = {}
  <1> DEFINE bound == Len(KmallocClass)
  <1>1. bound \in Nat
    BY ClassesAssumption
  <1>2. PICK g : /\ g[0] = VmmSetup(CachesPrepared) /\ KmemSetup = g[bound]
                 /\ \A m \in 1 .. bound : g[m] = CacheCreated(g[m - 1], KmallocClass[m])
    BY ClassesAre
  <1>3. Fresh(g[0], 0)
    <2>1. PICK d1, d2, d3 : VmmSet(g[0], d1, d2, d3)
      BY <1>2, VmmIsSet
    <2>2. Standing(g[0]) /\ HeldAreas(g[0]) = {} /\ DOMAIN g[0].cache = OwnNames /\ g[0].avail \in Nat
      BY <2>1, SetStands
    <2> QED BY <2>2 DEF Fresh
  <1>4. ASSUME NEW m \in 1 .. bound, Fresh(g[m - 1], m - 1) PROVE Fresh(g[m], m)
    BY <1>2, <1>4, ClassFresh
  <1> HIDE DEF bound
  <1> DEFINE Bad == {n \in 0 .. bound : ~ Fresh(g[n], n)}
  <1>5. Bad = {}
    <2>1. SUFFICES ASSUME Bad # {} PROVE FALSE
      OBVIOUS
    <2>2. Bad \in SUBSET Nat
      BY <1>1
    <2> DEFINE n == Min(Bad)
    <2>3. n \in Bad /\ \A j \in Bad : n <= j
      <3> HIDE DEF Bad
      <3> QED BY <2>1, <2>2, MinOfNaturals
    <2>4. n \in 0 .. bound /\ ~ Fresh(g[n], n)
      BY <2>3
    <2> HIDE DEF n
    <2>5. n # 0
      BY <1>3, <2>4
    <2>6. n \in 1 .. bound /\ n - 1 \in 0 .. bound /\ n - 1 < n
      BY <1>1, <2>4, <2>5
    <2>7. n - 1 \notin Bad
      <3> HIDE DEF Bad
      <3> QED BY <1>1, <2>3, <2>6
    <2>8. Fresh(g[n - 1], n - 1)
      BY <2>6, <2>7
    <2> QED BY <1>4, <2>4, <2>6, <2>8
  <1>6. Fresh(g[bound], bound)
    BY <1>1, <1>5
  <1> QED BY <1>2, <1>6 DEF Fresh

(* The kernel's allocators are set up: callers may call, and hold nothing. *)
LEMMA InitStands ==
  ASSUME KmemInit
  PROVE  KmemInv
  <1> DEFINE st == KmemSetup
  <1>1. Standing(st) /\ HeldAreas(st) = {}
    BY SetupFresh
  <1>2. k = [st EXCEPT !.avail = 0, !.ret = NULL] /\ owned = {}
    BY DEF KmemInit
  <1> HIDE DEF st
  <1>3. Shaped(st)
    BY <1>1, FirmHas DEF Standing
  <1>4. Alike(st, k) /\ k.avail = 0 /\ k.ret = NULL
    BY <1>2, <1>3 DEF Alike, Shaped, Field
  <1>5. Standing(k) /\ HeldAreas(k) = HeldAreas(st)
    BY <1>1, <1>4, AlikeStanding
  <1> QED BY <1>1, <1>2, <1>4, <1>5 DEF KmemInv

-----------------------------------------------------------------------------
(* THEOREMS                                                                *)

(* The inductive invariant: between two operations, the ranges and the     *)
(* slabs are as every operation expects them, and callers hold what the    *)
(* caches and the ranges do not need for themselves.                       *)
THEOREM KmemInvariance == KmemSpec => []KmemInv
<1>1. KmemInit => KmemInv
  BY InitStands
<1>2. KmemInv /\ [KmemNext]_kmem_vars => KmemInv'
  <2>1. CASE KmemNext
    BY <2>1, KmemNextKeeps
  <2>2. CASE UNCHANGED kmem_vars
    BY <2>2 DEF KmemInv, kmem_vars
  <2> QED
    BY <2>1, <2>2
<1> QED
  BY <1>1, <1>2, PTL DEF KmemSpec

(* Type correctness of the ranges, the slabs, the caches and the areas. *)
THEOREM KmemTypeCorrect == KmemSpec => []KmemTypeOK
<1>1. KmemInv => KmemTypeOK
  BY InvTypes
<1> QED
  BY <1>1, KmemInvariance, PTL

(* Between two operations, the ranges share the kernel virtual memory      *)
(* without overlap or hole, free ranges that touch are merged, and the     *)
(* pages of the used ranges are mapped and record their owner.             *)
THEOREM RangesAlwaysTile == KmemSpec => []RangesTile
<1>1. KmemInv => RangesTile
  BY InvTiles
<1> QED
  BY <1>1, KmemInvariance, PTL

(* Between two operations, the allocated descriptors, structures of caches *)
(* and structures of slabs are those in use, the caches list their slabs   *)
(* and count their free objects, and those without reserve have returned   *)
(* their empty slabs.                                                      *)
THEOREM NothingEverLost == KmemSpec => []NothingLost
<1>1. KmemInv => NothingLost
  BY InvNothingLost
<1> QED
  BY <1>1, KmemInvariance, PTL

(* Every cache keeps its reserve, whether operations succeed or fail: that *)
(* of ranges always has the two descriptors it needs to grow.              *)
THEOREM ReserveAlwaysKept == KmemSpec => []ReserveKept
<1>1. KmemInv => ReserveKept
  BY InvReserve
<1> QED
  BY <1>1, KmemInvariance, PTL

(* What callers hold is what the allocators take for allocated: no         *)
(* operation frees or reuses an area of a caller, and none is forgotten.   *)
THEOREM OwnedAlwaysAllocated == KmemSpec => []OwnedIsAllocated
<1>1. KmemInv => OwnedIsAllocated
  BY InvOwned
<1> QED
  BY <1>1, KmemInvariance, PTL

(* Refinement: to its callers, kmalloc() with its slabs and ranges is a    *)
(* heap that gives each area to one of them, apart from all others, until  *)
(* it is freed.                                                            *)
THEOREM KmemImplementsHeap == KmemSpec => ImplementsHeap
<1>1. KmemInit => HeapSeen!HeapInit
  BY DEF KmemInit, HeapSeen!HeapInit
<1>2. KmemInv /\ [KmemNext]_kmem_vars => [HeapSeen!Acquire \/ HeapSeen!Surrender]_owned
  <2>1. CASE KmemNext
    BY <2>1, KmemNextKeeps, HeapStep
  <2>2. CASE UNCHANGED kmem_vars
    BY <2>2 DEF kmem_vars
  <2> QED
    BY <2>1, <2>2
<1> QED
  BY <1>1, <1>2, KmemInvariance, PTL DEF KmemSpec, ImplementsHeap, HeapSeen!HeapSpec

=============================================================================
