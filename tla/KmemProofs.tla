----------------------------- MODULE KmemProofs -----------------------------
(***************************************************************************)
(* What the steps of the allocators of kernel virtual memory do to the     *)
(* ranges and to the slabs, for any sizes, any number of pages and any     *)
(* caches, and what the functions of KmemSlab that give memory back do by  *)
(* these steps: the loop of sos_kmem_vmm_del_range(), the release of a     *)
(* slab, sos_kmem_cache_free().  KmemInvariant follows with those that     *)
(* take memory, and with the operations of Kmem.                           *)
(*                                                                         *)
(* The argument: KmemKept holds after every step, whatever the step before *)
(* it; Firm throughout an operation, with what nothing is lost of, but for *)
(* the slabs of a set U that the operation has in hand; and Ready between  *)
(* the operations on ranges that an operation consists of.  Frame, Only    *)
(* and LooseLess say what an operation leaves alone: the objects of the    *)
(* other caches, and the ranges that callers hold.                         *)
(***************************************************************************)
EXTENDS KmemSlab, SequenceLemmas, FiniteSetTheorems

-----------------------------------------------------------------------------
(* LISTS                                                                   *)

(* The elements of a list, by their places. *)
LEMMA ElementsAreContained ==
  ASSUME NEW S, NEW q \in Seq(S)
  PROVE  /\ ToSet(q) \subseteq S
         /\ DOMAIN q = 1 .. Len(q) /\ Len(q) \in Nat
         /\ \A i \in 1 .. Len(q) : q[i] \in S /\ q[i] \in ToSet(q)
         /\ \A t : t \in ToSet(q) <=> \E i \in 1 .. Len(q) : q[i] = t
         /\ \A t : t \in ToSet(q) <=> Contains(q, t)
  <1>1. DOMAIN q = 1 .. Len(q) /\ Len(q) \in Nat
    BY LenProperties
  <1>2. \A i \in 1 .. Len(q) : q[i] \in S
    BY ElementOfSeq
  <1> QED BY <1>1, <1>2 DEF ToSet, Contains

(* A sequence is one over any set that has its elements. *)
LEMMA SeqMono ==
  ASSUME NEW S, NEW q \in Seq(S), NEW T, \A i \in 1 .. Len(q) : q[i] \in T
  PROVE  q \in Seq(T)
  <1>1. Len(q) \in Nat /\ q = [i \in 1 .. Len(q) |-> q[i]]
    BY LenProperties
  <1> QED BY <1>1, IsASeq

(* Removing an element leaves the others in their order. *)
LEMMA Removed ==
  ASSUME NEW S, NEW q \in Seq(S), NEW e \in ToSet(q), IsInjective(q)
  PROVE  /\ RemoveFirst(q, e) \in Seq(S)
         /\ IsInjective(RemoveFirst(q, e))
         /\ ToSet(RemoveFirst(q, e)) = ToSet(q) \ {e}
         /\ \E p \in 1 .. Len(q) :
              /\ q[p] = e /\ Len(RemoveFirst(q, e)) = Len(q) - 1
              /\ \A j \in 1 .. Len(q) - 1 :
                   RemoveFirst(q, e)[j] = IF j < p THEN q[j] ELSE q[j + 1]
  <1> DEFINE r == RemoveFirst(q, e)
  <1>1. Contains(q, e) /\ e \in S
    BY ElementsAreContained
  <1>2. /\ r \in Seq(S) /\ IsInjective(r)
        /\ \A t \in S : Contains(r, t) <=> Contains(q, t) /\ t # e
    BY <1>1, RemoveFirstContains
  <1>3. ToSet(r) = ToSet(q) \ {e}
    <2>1. \A t : t \in ToSet(r) <=> Contains(r, t)
      BY <1>2, ElementsAreContained
    <2>2. \A t : t \in ToSet(q) <=> Contains(q, t)
      BY ElementsAreContained
    <2>3. ToSet(r) \subseteq S /\ ToSet(q) \subseteq S
      BY <1>2, ElementsAreContained
    <2> HIDE DEF r
    <2> QED BY <2>1, <2>2, <2>3, <1>2
  <1>4. \E p \in 1 .. Len(q) : q[p] = e
    BY ElementsAreContained
  <1>5. PICK p \in 1 .. Len(q) : q[p] = e /\ r = RemoveAt(q, p)
    BY <1>4, RemoveFirstPlaces
  <1>6. /\ Len(r) = Len(q) - 1
        /\ \A j \in 1 .. Len(q) - 1 : r[j] = IF j < p THEN q[j] ELSE q[j + 1]
    BY <1>5, RemoveAtPlaces
  <1> QED BY <1>2, <1>3, <1>5, <1>6

(* An element added at the tail of a list without duplicates. *)
LEMMA Appended ==
  ASSUME NEW S, NEW q \in Seq(S), NEW e \in S, e \notin ToSet(q), IsInjective(q)
  PROVE  /\ Append(q, e) \in Seq(S)
         /\ IsInjective(Append(q, e))
         /\ ToSet(Append(q, e)) = ToSet(q) \union {e}
  <1> DEFINE r == Append(q, e)
  <1>1. /\ r \in Seq(S) /\ Len(r) = Len(q) + 1 /\ Len(q) \in Nat
        /\ DOMAIN q = 1 .. Len(q) /\ DOMAIN r = 1 .. Len(q) + 1
        /\ \A i \in 1 .. Len(q) : r[i] = q[i]
        /\ r[Len(q) + 1] = e
    BY AppendPlaces
  <1> HIDE DEF r
  <1>2. \A i \in 1 .. Len(q) : q[i] # e
    BY ElementsAreContained
  <1>3. IsInjective(r)
    <2>1. \A i, j \in 1 .. Len(q) : q[i] = q[j] => i = j
      BY <1>1 DEF IsInjective
    <2> QED BY <2>1, <1>1, <1>2 DEF IsInjective
  <1>4. ToSet(r) = ToSet(q) \union {e}
    BY <1>1 DEF ToSet
  <1> QED BY <1>1, <1>3, <1>4 DEF r

(* The head taken from a list without duplicates. *)
LEMMA Popped ==
  ASSUME NEW S, NEW q \in Seq(S), q # <<>>, IsInjective(q)
  PROVE  /\ Tail(q) \in Seq(S) /\ Head(q) \in S
         /\ IsInjective(Tail(q))
         /\ ToSet(Tail(q)) = ToSet(q) \ {Head(q)} /\ Head(q) \in ToSet(q)
  <1>1. Tail(q) \in Seq(S) /\ Head(q) \in S
    BY TailPlaces
  <1>2. /\ IsInjective(Tail(q)) /\ Contains(q, Head(q))
        /\ \A t \in S : Contains(Tail(q), t) <=> Contains(q, t) /\ t # Head(q)
    BY TailContains
  <1>3. /\ ToSet(q) \subseteq S /\ \A t : t \in ToSet(q) <=> Contains(q, t)
        /\ ToSet(Tail(q)) \subseteq S /\ \A t : t \in ToSet(Tail(q)) <=> Contains(Tail(q), t)
    BY <1>1, ElementsAreContained
  <1> QED BY <1>1, <1>2, <1>3

(* The places before which a condition has never failed are a first part. *)
LEMMA FirstPlaces ==
  ASSUME NEW n \in Nat, NEW T \in SUBSET (1 .. n)
  PROVE  LET I == {i \in 1 .. n : \A j \in 1 .. i : j \in T}
         IN /\ Cardinality(I) \in 0 .. n
            /\ I = 1 .. Cardinality(I)
  <1> DEFINE I == {i \in 1 .. n : \A j \in 1 .. i : j \in T}
             C == {m \in 1 .. (n + 1) : m \notin I}
             m == Min(C)
  <1>1. C \in SUBSET (1 .. (n + 1)) /\ C # {}
    <2>1. n + 1 \in C
      OBVIOUS
    <2> QED BY <2>1
  <1>2. m \in C /\ \A j \in C : m <= j
    BY <1>1, MinOfPlaces
  <1>3. I = 1 .. (m - 1)
    <2>1. ASSUME NEW i \in I PROVE i < m
      <3>1. CASE i >= m
        <4>1. \A j \in 1 .. m : j \in T
          BY <3>1, <1>2
        <4>2. m \in I
          BY <4>1, <3>1, <1>2
        <4> QED BY <4>2, <1>2
      <3> QED BY <3>1, <1>2
    <2>2. ASSUME NEW i \in 1 .. (m - 1) PROVE i \in I
      <3>1. i \notin C /\ i \in 1 .. (n + 1)
        BY <1>2
      <3> QED BY <3>1
    <2> QED BY <2>1, <2>2, <1>2
  <1>4. m - 1 \in 0 .. n
    BY <1>2
  <1>5. Cardinality(1 .. (m - 1)) = m - 1
    <2> HIDE DEF m
    <2> QED BY <1>4, FS_Interval
  <1> HIDE DEF m, I
  <1>6. Cardinality(I) = m - 1
    BY <1>3, <1>5
  <1> QED BY <1>3, <1>4, <1>6 DEF I

-----------------------------------------------------------------------------
(* SORTED LISTS OF RANGES                                                  *)

HasBounds(st) ==
  \A d \in DOMAIN st.range : st.range[d].base \in Nat /\ st.range[d].nb_pages \in Nat

(* get_closest_preceding_kmem_range(): in a sorted list, the ranges that do *)
(* not begin after the page are those up to the one it returns.            *)
LEMMA PrecedingSplits ==
  ASSUME NEW st, HasBounds(st), NEW q \in Seq(DOMAIN st.range), Sorted(st, q), NEW page \in Nat
  PROVE  /\ Preceding(st, q, page) \in 0 .. Len(q)
         /\ \A i \in 1 .. Len(q) : i <= Preceding(st, q, page) <=> st.range[q[i]].base <= page
  <1> DEFINE T == {i \in 1 .. Len(q) : st.range[q[i]].base <= page}
             I == {i \in 1 .. Len(q) : \A j \in 1 .. i : j \in T}
  <1>1. DOMAIN q = 1 .. Len(q) /\ Len(q) \in Nat /\ \A i \in 1 .. Len(q) : q[i] \in DOMAIN st.range
    BY ElementsAreContained
  <1>2. Preceding(st, q, page) = Cardinality(I)
    <2>1. I = {i \in DOMAIN q : \A j \in 1 .. i : st.range[q[j]].base <= page}
      BY <1>1
    <2> QED BY <2>1 DEF Preceding
  <1>3. Cardinality(I) \in 0 .. Len(q) /\ I = 1 .. Cardinality(I)
    <2>1. T \in SUBSET (1 .. Len(q))
      OBVIOUS
    <2> HIDE DEF T
    <2> QED BY <2>1, <1>1, FirstPlaces
  <1>4. ASSUME NEW i \in 1 .. Len(q), st.range[q[i]].base <= page PROVE i \in I
    <2>1. ASSUME NEW j \in 1 .. i PROVE st.range[q[j]].base <= page
      <3>1. CASE j = i
        BY <3>1, <1>4
      <3>2. CASE j < i
        <4>1. End(st, q[j]) <= st.range[q[i]].base
          BY <3>2, <1>1 DEF Sorted
        <4>2. /\ st.range[q[j]].base \in Nat /\ st.range[q[j]].nb_pages \in Nat
              /\ st.range[q[i]].base \in Nat
          BY <1>1 DEF HasBounds
        <4> QED BY <4>1, <4>2, <1>4 DEF End
      <3> QED BY <3>1, <3>2, <1>1
    <2> QED BY <2>1, <1>1
  <1>5. \A i \in 1 .. Len(q) : i \in I => st.range[q[i]].base <= page
    <2>1. \A i \in 1 .. Len(q) : i \in 1 .. i
      BY <1>1
    <2> QED BY <2>1
  <1> HIDE DEF I
  <1> QED BY <1>2, <1>3, <1>4, <1>5

(* insert_range() keeps a list sorted, when the new range is apart from the *)
(* others and is not empty.                                                *)
LEMMA Inserted ==
  ASSUME NEW st, HasBounds(st), NEW q \in Seq(DOMAIN st.range), Sorted(st, q),
         NEW d \in DOMAIN st.range \ ToSet(q), st.range[d].nb_pages > 0,
         \A e \in ToSet(q) : Apart(st, d, e)
  PROVE  LET n == Preceding(st, q, st.range[d].base)
             r == InsertRange(st, q, d)
         IN /\ n \in 0 .. Len(q)
            /\ r \in Seq(DOMAIN st.range)
            /\ Sorted(st, r)
            /\ ToSet(r) = ToSet(q) \union {d}
            /\ Len(r) = Len(q) + 1
            /\ \A j \in 1 .. Len(q) + 1 :
                 r[j] = IF j < n + 1 THEN q[j] ELSE IF j = n + 1 THEN d ELSE q[j - 1]
            /\ \A j \in 1 .. Len(q) :
                 IF j <= n THEN End(st, q[j]) <= st.range[d].base
                           ELSE End(st, d) <= st.range[q[j]].base
  <1> DEFINE n == Preceding(st, q, st.range[d].base)
             r == InsertRange(st, q, d)
  <1>1. /\ Len(q) \in Nat
        /\ \A i \in 1 .. Len(q) : q[i] \in DOMAIN st.range /\ q[i] \in ToSet(q)
    BY ElementsAreContained
  <1>2. d \in DOMAIN st.range /\ st.range[d].base \in Nat /\ st.range[d].nb_pages \in Nat
    BY DEF HasBounds
  <1>3. n \in 0 .. Len(q) /\ \A i \in 1 .. Len(q) : i <= n <=> st.range[q[i]].base <= st.range[d].base
    BY <1>2, PrecedingSplits
  <1>4. ~ Contains(q, d) /\ IsInjective(q)
    BY ElementsAreContained DEF Sorted
  <1> HIDE DEF n
  <1>5. r = InsertAt(q, n + 1, d)
    BY DEF InsertRange, n
  <1>6. n + 1 \in 1 .. Len(q) + 1
    BY <1>1, <1>3
  <1>7. /\ r \in Seq(DOMAIN st.range) /\ Len(r) = Len(q) + 1
        /\ \A j \in 1 .. Len(q) + 1 :
             r[j] = IF j < n + 1 THEN q[j] ELSE IF j = n + 1 THEN d ELSE q[j - 1]
    BY <1>2, <1>5, <1>6, InsertAtPlaces
  <1>8. IsInjective(r) /\ \A t \in DOMAIN st.range : Contains(r, t) <=> Contains(q, t) \/ t = d
    BY <1>2, <1>4, <1>5, <1>6, InsertAtContains
  <1> HIDE DEF r
  <1>9. ToSet(r) = ToSet(q) \union {d}
    <2>1. ToSet(r) \subseteq DOMAIN st.range /\ \A t : t \in ToSet(r) <=> Contains(r, t)
      BY <1>7, ElementsAreContained
    <2>2. ToSet(q) \subseteq DOMAIN st.range /\ \A t : t \in ToSet(q) <=> Contains(q, t)
      BY ElementsAreContained
    <2> QED BY <2>1, <2>2, <1>8, <1>2
  <1>10. ASSUME NEW j \in 1 .. Len(q)
         PROVE  IF j <= n THEN End(st, q[j]) <= st.range[d].base
                          ELSE End(st, d) <= st.range[q[j]].base
    <2>1. Apart(st, d, q[j])
      BY <1>1
    <2>2. st.range[q[j]].base \in Nat /\ st.range[q[j]].nb_pages \in Nat
      BY <1>1 DEF HasBounds
    <2>3. j <= n <=> st.range[q[j]].base <= st.range[d].base
      BY <1>3
    <2> QED BY <2>1, <2>2, <2>3, <1>2, <1>3 DEF Apart, End
  <1>11. ASSUME NEW i \in 1 .. Len(r), NEW j \in 1 .. Len(r), i < j
         PROVE  End(st, r[i]) <= st.range[r[j]].base
    <2>1. n \in Nat /\ i \in Nat /\ j \in Nat /\ Len(r) = Len(q) + 1
      BY <1>3, <1>7, <1>1
    <2>2. \A a, b \in 1 .. Len(q) : a < b => End(st, q[a]) <= st.range[q[b]].base
      BY DEF Sorted
    <2>3. CASE i = n + 1
      <3>1. r[i] = d /\ r[j] = q[j - 1] /\ j - 1 \in 1 .. Len(q) /\ ~ (j - 1 <= n)
        BY <2>3, <2>1, <1>7, <1>11, <1>1
      <3> QED BY <3>1, <1>10
    <2>4. CASE j = n + 1
      <3>1. r[j] = d /\ r[i] = q[i] /\ i \in 1 .. Len(q) /\ i <= n
        BY <2>4, <2>1, <1>7, <1>11, <1>1
      <3> QED BY <3>1, <1>10
    <2>5. CASE i # n + 1 /\ j # n + 1
      <3> DEFINE a == IF i < n + 1 THEN i ELSE i - 1
                 b == IF j < n + 1 THEN j ELSE j - 1
      <3>1. a \in 1 .. Len(q) /\ b \in 1 .. Len(q) /\ a < b
        BY <2>5, <2>1, <1>11, <1>1, <1>3
      <3>2. r[i] = q[a] /\ r[j] = q[b]
        BY <2>5, <2>1, <1>7, <1>11, <1>1
      <3> HIDE DEF a, b
      <3> QED BY <3>1, <3>2, <2>2
    <2> QED BY <2>3, <2>4, <2>5
  <1>12. Sorted(st, r)
    BY <1>8, <1>11 DEF Sorted
  <1> QED BY <1>3, <1>7, <1>9, <1>10, <1>12 DEF n, r

(* No range of the list ends where the next one begins. *)
Strict(st, q) ==
  \A i, j \in 1 .. Len(q) : i < j => End(st, q[i]) < st.range[q[j]].base

(* A list keeps its order when it loses a range. *)
LEMMA RemovedSorted ==
  ASSUME NEW st, NEW q \in Seq(DOMAIN st.range), Sorted(st, q), NEW d \in ToSet(q)
  PROVE  /\ Sorted(st, RemoveFirst(q, d))
         /\ Strict(st, q) => Strict(st, RemoveFirst(q, d))
  <1> DEFINE r == RemoveFirst(q, d)
  <1>1. /\ r \in Seq(DOMAIN st.range) /\ IsInjective(r)
        /\ \E p \in 1 .. Len(q) :
             /\ q[p] = d /\ Len(r) = Len(q) - 1
             /\ \A j \in 1 .. Len(q) - 1 : r[j] = IF j < p THEN q[j] ELSE q[j + 1]
    BY Removed DEF Sorted
  <1>2. Len(q) \in Nat
    BY ElementsAreContained
  <1> HIDE DEF r
  <1>3. PICK p \in 1 .. Len(q) :
             /\ q[p] = d /\ Len(r) = Len(q) - 1
             /\ \A j \in 1 .. Len(q) - 1 : r[j] = IF j < p THEN q[j] ELSE q[j + 1]
    BY <1>1
  <1>4. ASSUME NEW i \in 1 .. Len(r), NEW j \in 1 .. Len(r), i < j
        PROVE  \E a, b \in 1 .. Len(q) : a < b /\ r[i] = q[a] /\ r[j] = q[b]
    <2> DEFINE a == IF i < p THEN i ELSE i + 1
               b == IF j < p THEN j ELSE j + 1
    <2>1. a \in 1 .. Len(q) /\ b \in 1 .. Len(q) /\ a < b
      BY <1>2, <1>3, <1>4
    <2>2. r[i] = q[a] /\ r[j] = q[b]
      BY <1>2, <1>3, <1>4
    <2> HIDE DEF a, b
    <2> QED BY <2>1, <2>2
  <1>5. Sorted(st, r)
    BY <1>1, <1>4 DEF Sorted
  <1>6. Strict(st, q) => Strict(st, r)
    BY <1>4 DEF Strict
  <1> QED BY <1>5, <1>6 DEF r

-----------------------------------------------------------------------------
(* THE STATES OF THE ALLOCATORS                                            *)

(* The pages of all ranges, those that no list holds included. *)
Covered(st) == UNION {PagesOf(st, d) : d \in DOMAIN st.range}

(* A range that an operation has in hand: in no list, and without slab. *)
InHand(st, d) ==
  /\ d \in DOMAIN st.range \ (ToSet(st.used) \union ToSet(st.free) \union ToSet(st.ranges_to_free))
  /\ st.range[d].slab = NULL

(* What the shape of the state says of one range. *)
LEMMA ShapeFacts ==
  ASSUME NEW st, KmemShape(st)
  PROVE  /\ HasBounds(st)
         /\ \A d \in DOMAIN st.range :
              /\ d \in Nat /\ d # NULL /\ st.range[d] \in RangeRecord
              /\ st.range[d].base \in Nat /\ st.range[d].nb_pages \in Nat /\ st.range[d].slab \in Nat
              /\ End(st, d) \in Nat
         /\ ToSet(st.free) \subseteq DOMAIN st.range
         /\ ToSet(st.used) \subseteq DOMAIN st.range
         /\ ToSet(st.ranges_to_free) \subseteq DOMAIN st.range
  <1>1. \A d \in DOMAIN st.range : d \in Nat /\ d # NULL /\ st.range[d] \in RangeRecord
    BY DEF KmemShape
  <1>2. \A d \in DOMAIN st.range :
          st.range[d].base \in Nat /\ st.range[d].nb_pages \in Nat /\ st.range[d].slab \in Nat
    BY <1>1 DEF RangeRecord
  <1>3. /\ ToSet(st.free) \subseteq DOMAIN st.range
        /\ ToSet(st.used) \subseteq DOMAIN st.range
        /\ ToSet(st.ranges_to_free) \subseteq DOMAIN st.range
    BY ElementsAreContained DEF KmemShape
  <1> QED BY <1>1, <1>2, <1>3 DEF HasBounds, End

(* A range that is bound to a slab, or to none, keeps its bounds. *)
LEMMA SlabFieldSet ==
  ASSUME NEW D, NEW table \in [D -> RangeRecord], NEW d \in D, NEW s \in Nat
  PROVE  LET t == [table EXCEPT ![d].slab = s]
         IN /\ t \in [D -> RangeRecord] /\ DOMAIN t = D
            /\ \A e \in D : t[e].base = table[e].base /\ t[e].nb_pages = table[e].nb_pages
            /\ \A e \in D : t[e].slab = IF e = d THEN s ELSE table[e].slab
  <1> DEFINE t == [table EXCEPT ![d].slab = s]
  <1>1. DOMAIN t = D /\ DOMAIN table = D
    OBVIOUS
  <1>2. table[d] \in RangeRecord /\ t[d] = [table[d] EXCEPT !.slab = s]
    BY <1>1
  <1>3. \A e \in D : e # d => t[e] = table[e]
    BY <1>1
  <1>4. /\ t[d].slab = s /\ t[d].base = table[d].base /\ t[d].nb_pages = table[d].nb_pages
        /\ t[d] \in RangeRecord
    BY <1>2 DEF RangeRecord
  <1>5. \A e \in D : t[e] \in RangeRecord
    BY <1>3, <1>4
  <1>6. t \in [D -> RangeRecord]
    BY <1>1, <1>5
  <1> HIDE DEF t
  <1> QED BY <1>1, <1>3, <1>4, <1>6 DEF t

(* What depends on the bounds of the ranges only. *)
SameBounds(st, n) ==
  /\ DOMAIN n.range = DOMAIN st.range
  /\ \A d \in DOMAIN st.range :
       n.range[d].base = st.range[d].base /\ n.range[d].nb_pages = st.range[d].nb_pages

(* Steps that move no bound of a range change neither the pages nor the    *)
(* order of the lists.                                                     *)
LEMMA SameBoundsSame ==
  ASSUME NEW st, NEW n, SameBounds(st, n)
  PROVE  /\ \A d \in DOMAIN st.range : End(n, d) = End(st, d) /\ PagesOf(n, d) = PagesOf(st, d)
         /\ \A d, e \in DOMAIN st.range : Apart(n, d, e) <=> Apart(st, d, e)
         /\ Covered(n) = Covered(st)
         /\ \A q \in Seq(DOMAIN st.range) :
              (Sorted(n, q) <=> Sorted(st, q)) /\ (Strict(n, q) <=> Strict(st, q))
  <1>1. \A d \in DOMAIN st.range : End(n, d) = End(st, d)
    BY DEF SameBounds, End
  <1>2. \A d \in DOMAIN st.range : PagesOf(n, d) = PagesOf(st, d)
    BY <1>1 DEF SameBounds, PagesOf
  <1>3. \A d, e \in DOMAIN st.range : Apart(n, d, e) <=> Apart(st, d, e)
    BY <1>1 DEF SameBounds, Apart
  <1>4. Covered(n) = Covered(st)
    BY <1>2 DEF SameBounds, Covered
  <1>5. ASSUME NEW q \in Seq(DOMAIN st.range)
        PROVE  (Sorted(n, q) <=> Sorted(st, q)) /\ (Strict(n, q) <=> Strict(st, q))
    <2>1. Len(q) \in Nat /\ \A i \in 1 .. Len(q) : q[i] \in DOMAIN st.range
      BY ElementsAreContained
    <2>2. \A i, j \in 1 .. Len(q) :
            /\ End(n, q[i]) = End(st, q[i])
            /\ n.range[q[j]].base = st.range[q[j]].base
      BY <2>1, <1>1 DEF SameBounds
    <2> QED BY <2>2 DEF Sorted, Strict
  <1> QED BY <1>1, <1>2, <1>3, <1>4, <1>5

(* When the sorted free ranges are merged, no two of them touch, wherever  *)
(* they are in the list.                                                   *)
LEMMA CoalescedIsStrict ==
  ASSUME NEW st, KmemKept(st)
  PROVE  Coalesced(st) <=> Strict(st, st.free)
  <1>1. KmemShape(st) /\ Sorted(st, st.free)
    BY DEF KmemKept, RangesKept, ListsSorted
  <1>2. /\ Len(st.free) \in Nat
        /\ \A i \in 1 .. Len(st.free) :
             /\ st.range[st.free[i]].base \in Nat
             /\ End(st, st.free[i]) \in Nat
             /\ st.range[st.free[i]].base <= End(st, st.free[i])
    <2>1. /\ Len(st.free) \in Nat
          /\ \A i \in 1 .. Len(st.free) : st.free[i] \in DOMAIN st.range
      BY <1>1, ElementsAreContained DEF KmemShape
    <2> QED BY <2>1, <1>1, ShapeFacts DEF End
  <1>3. \A i, j \in 1 .. Len(st.free) : i < j => End(st, st.free[i]) <= st.range[st.free[j]].base
    BY <1>1 DEF Sorted
  <1>4. ASSUME Coalesced(st), NEW i \in 1 .. Len(st.free), NEW j \in 1 .. Len(st.free), i < j
        PROVE  End(st, st.free[i]) < st.range[st.free[j]].base
    <2>1. i \in 1 .. Len(st.free) - 1 /\ i + 1 \in 1 .. Len(st.free) /\ i < i + 1
      BY <1>2, <1>4
    <2>2. End(st, st.free[i]) # st.range[st.free[i + 1]].base
      BY <2>1, <1>4 DEF Coalesced, Touch
    <2>3. End(st, st.free[i]) < st.range[st.free[i + 1]].base
      BY <2>1, <2>2, <1>2, <1>3
    <2>4. i + 1 = j \/ i + 1 < j
      BY <1>2, <1>4
    <2>5. i + 1 < j => End(st, st.free[i + 1]) <= st.range[st.free[j]].base
      BY <2>1, <1>3
    <2> QED BY <2>1, <2>3, <2>4, <2>5, <1>2
  <1>5. ASSUME Strict(st, st.free), NEW i \in 1 .. Len(st.free) - 1
        PROVE  ~ Touch(st, i)
    <2>1. i \in 1 .. Len(st.free) /\ i + 1 \in 1 .. Len(st.free) /\ i < i + 1
      BY <1>2
    <2>2. End(st, st.free[i]) < st.range[st.free[i + 1]].base
      BY <2>1, <1>5 DEF Strict
    <2> QED BY <2>1, <2>2, <1>2 DEF Touch
  <1> QED BY <1>4, <1>5 DEF Coalesced, Strict

-----------------------------------------------------------------------------
(* NEW RANGES                                                              *)

(* find_suitable_free_range(): the first free range that is large enough;  *)
(* none only when there is none.                                           *)
THEOREM FirstFitFits ==
  ASSUME NEW st, KmemKept(st), NEW nb \in Nat
  PROVE  LET i == FirstFit(st, nb)
         IN \/ /\ i \in 1 .. Len(st.free)
               /\ st.range[st.free[i]].nb_pages >= nb
               /\ \A j \in 1 .. i - 1 : st.range[st.free[j]].nb_pages < nb
            \/ i = 0 /\ \A r \in ToSet(st.free) : st.range[r].nb_pages < nb
  <1> DEFINE I == {i \in 1 .. Len(st.free) : st.range[st.free[i]].nb_pages >= nb}
             n == Len(st.free)
  <1>1. /\ n \in Nat
        /\ \A i \in 1 .. n : st.range[st.free[i]].nb_pages \in Nat
        /\ \A r \in ToSet(st.free) : \E i \in 1 .. n : st.free[i] = r
    <2>1. st.free \in Seq(DOMAIN st.range)
      BY DEF KmemKept, KmemShape
    <2>2. /\ n \in Nat /\ \A i \in 1 .. n : st.free[i] \in DOMAIN st.range
          /\ \A r \in ToSet(st.free) : \E i \in 1 .. n : st.free[i] = r
      BY <2>1, ElementsAreContained
    <2> QED BY <2>2, ShapeFacts DEF KmemKept
  <1>2. FirstFit(st, nb) = IF I # {} THEN Min(I) ELSE 0
    BY DEF FirstFit, SelectInSeq
  <1>3. CASE I = {}
    <2>1. FirstFit(st, nb) = 0
      BY <1>2, <1>3
    <2>2. ASSUME NEW i \in 1 .. n PROVE st.range[st.free[i]].nb_pages < nb
      <3>1. ~ (st.range[st.free[i]].nb_pages >= nb)
        BY <1>3
      <3> QED BY <3>1, <1>1
    <2>3. ASSUME NEW r \in ToSet(st.free) PROVE st.range[r].nb_pages < nb
      <3>1. PICK i \in 1 .. n : st.free[i] = r
        BY <1>1
      <3> QED BY <3>1, <2>2
    <2> QED BY <2>1, <2>3
  <1>4. CASE I # {}
    <2>1. I \in SUBSET (1 .. n)
      OBVIOUS
    <2>2. Min(I) \in I /\ \A j \in I : Min(I) <= j
      <3> HIDE DEF I, n
      <3> QED BY <2>1, <1>1, <1>4, MinOfPlaces
    <2>3. \A j \in 1 .. Min(I) - 1 : j \in 1 .. n /\ j \notin I
      <3> DEFINE m == Min(I)
      <3>1. m \in 1 .. n /\ \A j \in I : m <= j
        BY <2>1, <2>2
      <3> HIDE DEF m, I, n
      <3>2. \A j \in 1 .. m - 1 : j \in 1 .. n /\ ~ (m <= j)
        BY <3>1, <1>1
      <3> QED BY <3>1, <3>2 DEF m
    <2>4. FirstFit(st, nb) = Min(I)
      BY <1>2, <1>4
    <2>5. ASSUME NEW j \in 1 .. n, j \notin I PROVE st.range[st.free[j]].nb_pages < nb
      BY <2>5, <1>1
    <2> DEFINE m == FirstFit(st, nb)
    <2>6. /\ m \in 1 .. n /\ st.range[st.free[m]].nb_pages >= nb
          /\ \A j \in 1 .. m - 1 : j \in 1 .. n /\ j \notin I
      BY <2>2, <2>3, <2>4
    <2> HIDE DEF I, m
    <2>7. \A j \in 1 .. m - 1 : st.range[st.free[j]].nb_pages < nb
      BY <2>5, <2>6
    <2> QED BY <2>6, <2>7 DEF m
  <1> QED BY <1>3, <1>4

(* sos_kmem_vmm_new_range() that takes a whole free range keeps KmemKept,  *)
(* and the pages that the ranges share.                                    *)
THEOREM TakeRangeKeeps ==
  ASSUME NEW st, KmemKept(st), NEW r \in ToSet(st.free), st.range[r].nb_pages > 0
  PROVE  LET n == TakeRange(st, r)
         IN /\ KmemKept(n)
            /\ n.ret = r /\ r \in ToSet(n.used) /\ n.range[r].slab = NULL
            /\ SameBounds(st, n) /\ ToSet(n.free) = ToSet(st.free) \ {r}
            /\ ToSet(n.used) = ToSet(st.used) \union {r}
            /\ Coalesced(st) => Coalesced(n)
  <1> DEFINE n == TakeRange(st, r)
  <1>1. KmemShape(st) /\ RangesKept(st)
    BY DEF KmemKept
  <1>2. /\ HasBounds(st) /\ r \in DOMAIN st.range /\ st.range[r] \in RangeRecord
        /\ ToSet(st.free) \subseteq DOMAIN st.range
        /\ ToSet(st.used) \subseteq DOMAIN st.range
        /\ ToSet(st.ranges_to_free) \subseteq DOMAIN st.range
    BY <1>1, ShapeFacts
  <1>3. /\ Shaped(n)
        /\ n.free = RemoveFirst(st.free, r) /\ n.used = InsertRange(st, st.used, r)
        /\ n.range = [st.range EXCEPT ![r].slab = NULL]
        /\ n.ranges_to_free = st.ranges_to_free /\ n.slab = st.slab
        /\ n.owner = st.owner /\ n.ret = r
    <2>1. Shaped(st)
      BY <1>1 DEF KmemShape
    <2>2. Shaped(n)
      BY <2>1 DEF Shaped, TakeRange
    <2> QED BY <2>1, <2>2 DEF Shaped, Field, TakeRange
  <1> HIDE DEF n
  <1>4. /\ SameBounds(st, n) /\ DOMAIN n.range = DOMAIN st.range
        /\ \A d \in DOMAIN st.range : n.range[d].slab = IF d = r THEN NULL ELSE st.range[d].slab
        /\ n.range \in [DOMAIN st.range -> RangeRecord]
    <2>1. st.range \in [DOMAIN st.range -> RangeRecord] /\ NULL \in Nat
      BY <1>1 DEF KmemShape, NULL
    <2> QED BY <2>1, <1>2, <1>3, SlabFieldSet DEF SameBounds
  <1>5. /\ \A d \in DOMAIN st.range : End(n, d) = End(st, d) /\ PagesOf(n, d) = PagesOf(st, d)
        /\ \A d, e \in DOMAIN st.range : Apart(n, d, e) <=> Apart(st, d, e)
        /\ \A q \in Seq(DOMAIN st.range) :
             (Sorted(n, q) <=> Sorted(st, q)) /\ (Strict(n, q) <=> Strict(st, q))
    BY <1>4, SameBoundsSame
  <1>6. /\ n.free \in Seq(DOMAIN st.range) /\ Sorted(st, n.free)
        /\ ToSet(n.free) = ToSet(st.free) \ {r}
        /\ Strict(st, st.free) => Strict(st, n.free)
    <2>1. st.free \in Seq(DOMAIN st.range) /\ Sorted(st, st.free) /\ IsInjective(st.free)
      BY <1>1 DEF KmemShape, RangesKept, ListsSorted, Sorted
    <2>2. n.free \in Seq(DOMAIN st.range) /\ ToSet(n.free) = ToSet(st.free) \ {r}
      BY <2>1, <1>3, Removed
    <2>3. Sorted(st, n.free) /\ (Strict(st, st.free) => Strict(st, n.free))
      BY <2>1, <1>3, RemovedSorted
    <2> QED BY <2>2, <2>3
  <1>7. /\ n.used \in Seq(DOMAIN st.range) /\ Sorted(st, n.used)
        /\ ToSet(n.used) = ToSet(st.used) \union {r}
    <2>1. r \notin ToSet(st.used) /\ Sorted(st, st.used) /\ st.used \in Seq(DOMAIN st.range)
      BY <1>1 DEF RangesKept, ListsSorted, KmemShape
    <2>2. \A e \in ToSet(st.used) : Apart(st, r, e)
      BY <2>1, <1>1, <1>2 DEF RangesKept, RangesApart
    <2> QED BY <2>1, <2>2, <1>2, <1>3, Inserted
  <1>8. KmemShape(n)
    BY <1>1, <1>3, <1>4, <1>6, <1>7 DEF KmemShape
  <1>9. RangesApart(n)
    BY <1>1, <1>2, <1>4, <1>5, <1>6 DEF RangesKept, RangesApart, SameBounds
  <1>10. ListsSorted(n)
    BY <1>1, <1>2, <1>3, <1>5, <1>6, <1>7 DEF RangesKept, ListsSorted
  <1>11. OwnersKnown(n)
    BY <1>1, <1>3, <1>4, <1>5, <1>6 DEF RangesKept, OwnersKnown
  <1>12. SlabsBound(n)
    <2>1. r \notin ToSet(st.used)
      BY <1>1 DEF RangesKept, ListsSorted
    <2> QED BY <2>1, <1>1, <1>2, <1>3, <1>4, <1>7 DEF RangesKept, SlabsBound
  <1>15. SlabsFit(n)
    BY <1>1, <1>2, <1>3, <1>4 DEF RangesKept, SlabsFit, SlabsBound, SameBounds
  <1>13. KmemKept(n)
    BY <1>8, <1>9, <1>10, <1>11, <1>12, <1>15 DEF KmemKept, RangesKept
  <1>14. Coalesced(st) => Coalesced(n)
    BY <1>5, <1>6, <1>13, CoalescedIsStrict
  <1> QED BY <1>3, <1>4, <1>6, <1>7, <1>13, <1>14 DEF n

(* sos_kmem_vmm_new_range() that cuts the first pages off a free range r,  *)
(* for the descriptor d.                                                   *)
CanCut(table, r, nb, d) ==
  /\ table \in [DOMAIN table -> RangeRecord] /\ r \in DOMAIN table
  /\ d \in Nat /\ d \notin DOMAIN table
  /\ nb \in Nat /\ nb <= table[r].nb_pages

IsCut(table, r, nb, d, t) ==
  /\ DOMAIN t = DOMAIN table \union {d} /\ t \in [DOMAIN table \union {d} -> RangeRecord]
  /\ t[d].base = table[r].base /\ t[d].nb_pages = nb /\ t[d].slab = NULL
  /\ \A e \in DOMAIN table : e # r => t[e] = table[e]
  /\ t[r].base = table[r].base + nb /\ t[r].nb_pages = table[r].nb_pages - nb
  /\ t[r].slab = table[r].slab

(* The descriptors after a cut: the first pages go to the new one. *)
LEMMA CutTable ==
  ASSUME NEW table, NEW r, NEW nb, NEW d, CanCut(table, r, nb, d)
  PROVE  IsCut(table, r, nb, d, Cut(table, r, nb, d))
  <1> DEFINE c == [table EXCEPT ![r].base = @ + nb, ![r].nb_pages = @ - nb]
             v == [base |-> table[r].base, nb_pages |-> nb, slab |-> NULL]
             D == DOMAIN table
             t == Cut(table, r, nb, d)
  <1>1. table[r] \in RangeRecord /\ table \in [D -> RangeRecord] /\ r \in D /\ d \notin D
    BY DEF CanCut
  <1>2. /\ table[r].base \in Nat /\ table[r].nb_pages \in Nat /\ table[r].slab \in Nat
        /\ nb \in Nat /\ table[r].nb_pages - nb \in Nat
    BY <1>1 DEF RangeRecord, CanCut
  <1>3. /\ DOMAIN c = D /\ \A e \in D : e # r => c[e] = table[e]
        /\ c[r] = [[table[r] EXCEPT !.base = table[r].base + nb] EXCEPT !.nb_pages = table[r].nb_pages - nb]
    BY <1>1, <1>2 DEF RangeRecord
  <1>4. /\ c[r].base = table[r].base + nb /\ c[r].nb_pages = table[r].nb_pages - nb
        /\ c[r].slab = table[r].slab /\ c[r] \in RangeRecord
    <2> DEFINE x == table[r]
               y == [x EXCEPT !.base = x.base + nb]
               z == [y EXCEPT !.nb_pages = x.nb_pages - nb]
    <2>1. /\ y \in RangeRecord
          /\ y.base = x.base + nb /\ y.nb_pages = x.nb_pages /\ y.slab = x.slab
      BY <1>1, <1>2 DEF RangeRecord
    <2>2. c[r] = z
      BY <1>3
    <2> HIDE DEF c, y
    <2>3. /\ z \in RangeRecord
          /\ z.base = y.base /\ z.nb_pages = x.nb_pages - nb /\ z.slab = y.slab
      BY <2>1, <1>2 DEF RangeRecord
    <2> QED BY <2>1, <2>2, <2>3
  <1>5. v \in RangeRecord /\ v.base = table[r].base /\ v.nb_pages = nb /\ v.slab = NULL
    BY <1>2 DEF RangeRecord, NULL
  <1>7. t = With(c, d, v)
    BY DEF Cut
  <1> HIDE DEF c, v, t
  <1>6. /\ DOMAIN t = D \union {d} /\ t[d] = v
        /\ \A e \in D : t[e] = c[e]
        /\ t = [e \in D \union {d} |-> t[e]]
    BY <1>1, <1>3, <1>7 DEF With
  <1>8. \A e \in D \union {d} : t[e] \in RangeRecord
    <2>1. \A e \in D : table[e] \in RangeRecord
      BY <1>1
    <2> HIDE DEF D
    <2> QED BY <2>1, <1>3, <1>4, <1>5, <1>6
  <1>9. t \in [D \union {d} -> RangeRecord]
    BY <1>6, <1>8
  <1> QED BY <1>1, <1>3, <1>4, <1>5, <1>6, <1>9 DEF IsCut, t

(* sos_kmem_vmm_new_range() that takes the first pages of a free range,    *)
(* with a new descriptor. The free range may be left empty.                *)
THEOREM SplitRangeKeeps ==
  ASSUME NEW st, KmemKept(st), NEW r \in ToSet(st.free),
         NEW nb \in 1 .. st.range[r].nb_pages,
         NEW d \in Nat \ {NULL}, d \notin DOMAIN st.range
  PROVE  LET n == SplitRange(st, r, nb, d)
         IN /\ KmemKept(n)
            /\ n.ret = d /\ d \in ToSet(n.used) /\ n.range[d].slab = NULL
            /\ n.range[d].base = st.range[r].base /\ n.range[d].nb_pages = nb
            /\ IsCut(st.range, r, nb, d, n.range) /\ ToSet(n.used) = ToSet(st.used) \union {d}
            /\ Covered(n) = Covered(st) /\ n.free = st.free
            /\ Coalesced(st) => Coalesced(n)
  <1> DEFINE n == SplitRange(st, r, nb, d)
             D == DOMAIN st.range
             t == Cut(st.range, r, nb, d)
             cut == [st EXCEPT !.range = t]
  <1>1. KmemShape(st) /\ RangesKept(st) /\ Shaped(st)
    BY DEF KmemKept, KmemShape
  <1>2. /\ HasBounds(st) /\ r \in D /\ st.range[r] \in RangeRecord
        /\ ToSet(st.free) \subseteq D
        /\ ToSet(st.used) \subseteq D
        /\ ToSet(st.ranges_to_free) \subseteq D
        /\ \A e \in D : st.range[e].base \in Nat /\ st.range[e].nb_pages \in Nat
    BY <1>1, ShapeFacts
  <1>3. /\ DOMAIN t = D \union {d} /\ t \in [D \union {d} -> RangeRecord]
        /\ t[d].base = st.range[r].base /\ t[d].nb_pages = nb /\ t[d].slab = NULL
        /\ \A e \in D : e # r => t[e] = st.range[e]
        /\ t[r].base = st.range[r].base + nb /\ t[r].nb_pages = st.range[r].nb_pages - nb
        /\ t[r].slab = st.range[r].slab /\ IsCut(st.range, r, nb, d, t)
    <2>1. st.range \in [D -> RangeRecord] /\ nb \in Nat /\ nb <= st.range[r].nb_pages
      BY <1>1, <1>2 DEF KmemShape
    <2>2. CanCut(st.range, r, nb, d)
      BY <1>2, <2>1 DEF CanCut
    <2>3. IsCut(st.range, r, nb, d, t)
      BY <2>2, CutTable
    <2> HIDE DEF t
    <2> QED BY <2>3 DEF IsCut
  <1> HIDE DEF t
  <1>4. /\ cut.range = t /\ Shaped(n)
        /\ n.free = st.free /\ n.used = InsertRange(cut, st.used, d) /\ n.range = t
        /\ n.ranges_to_free = st.ranges_to_free /\ n.slab = st.slab
        /\ n.owner = st.owner /\ n.ret = d
    <2>1. cut.range = t /\ cut.free = st.free /\ cut.used = st.used
          /\ cut.ranges_to_free = st.ranges_to_free /\ cut.slab = st.slab /\ cut.owner = st.owner
      BY <1>1 DEF Shaped, Field
    <2>2. Shaped(cut)
      BY <1>1 DEF Shaped
    <2>3. n = [cut EXCEPT !.used = InsertRange(cut, @, d), !.ret = d]
      BY DEF SplitRange, t
    <2> HIDE DEF n, cut
    <2>4. Shaped(n)
      BY <2>2, <2>3 DEF Shaped
    <2> QED BY <2>1, <2>2, <2>3, <2>4 DEF Shaped, Field
  <1> HIDE DEF n, cut
  <1>5. /\ \A e \in D : e # r => t[e].base = st.range[e].base /\ t[e].nb_pages = st.range[e].nb_pages
        /\ t[d].base = st.range[r].base /\ t[d].nb_pages = nb /\ t[d].slab = NULL
        /\ \A e \in D : t[e].slab = st.range[e].slab
    BY <1>3
  <1>6. /\ HasBounds(n) /\ HasBounds(cut)
    <2>1. \A e \in D \union {d} : t[e].base \in Nat /\ t[e].nb_pages \in Nat
      BY <1>3 DEF RangeRecord
    <2> QED BY <2>1, <1>3, <1>4 DEF HasBounds
  <1>7. /\ \A e \in D : End(n, e) = End(st, e) /\ st.range[e].base <= t[e].base
        /\ End(n, d) = t[r].base /\ t[r].base <= End(st, r) /\ t[d].base < t[r].base
    BY <1>2, <1>3, <1>4, <1>5 DEF End
  <1>8. \A e, f \in D \union {d} : e # f => Apart(n, e, f)
    <2>1. ASSUME NEW e \in D, NEW f \in D, e # f PROVE Apart(n, e, f)
      <3>1. Apart(st, e, f)
        BY <2>1, <1>1 DEF RangesKept, RangesApart
      <3>2. /\ End(st, e) \in Nat /\ End(st, f) \in Nat /\ t[e].base \in Nat /\ t[f].base \in Nat
            /\ st.range[e].base \in Nat /\ st.range[f].base \in Nat
        BY <1>1, <1>3, <1>4, <1>6, ShapeFacts DEF HasBounds
      <3> QED BY <3>1, <3>2, <1>4, <1>7 DEF Apart
    <2>2. ASSUME NEW e \in D PROVE Apart(n, e, d) /\ Apart(n, d, e)
      <3>1. CASE e = r
        BY <3>1, <1>4, <1>7, <1>6, <1>3 DEF Apart, HasBounds
      <3>2. CASE e # r
        <4>1. Apart(st, e, r)
          BY <3>2, <1>1, <1>2 DEF RangesKept, RangesApart
        <4>2. /\ End(st, e) \in Nat /\ End(st, r) \in Nat /\ t[r].base \in Nat /\ t[e].base = st.range[e].base
              /\ st.range[e].base \in Nat /\ st.range[r].base \in Nat
          BY <1>1, <1>2, <1>3, <1>4, <1>5, <1>6, <3>2, ShapeFacts DEF HasBounds
        <4> QED BY <4>1, <4>2, <1>4, <1>5, <1>7 DEF Apart
      <3> QED BY <3>1, <3>2
    <2> QED BY <2>1, <2>2
  <1>9. RangesApart(n)
    <2>1. \A e \in D \ ToSet(st.free) : st.range[e].nb_pages > 0 /\ e # r
      BY <1>1 DEF RangesKept, RangesApart
    <2>2. \A e \in (D \union {d}) \ ToSet(st.free) : t[e].nb_pages > 0
      BY <2>1, <1>5
    <2> QED BY <2>2, <1>3, <1>4, <1>8 DEF RangesApart
  <1>10. /\ n.used \in Seq(D \union {d}) /\ Sorted(n, n.used)
         /\ ToSet(n.used) = ToSet(st.used) \union {d}
    <2>1. /\ Sorted(st, st.used) /\ st.used \in Seq(D) /\ r \notin ToSet(st.used)
      BY <1>1 DEF RangesKept, ListsSorted, KmemShape
    <2>3. \A i \in 1 .. Len(st.used) : st.used[i] \in D /\ st.used[i] # r
      BY <2>1, ElementsAreContained
    <2>2. st.used \in Seq(D \union {d})
      BY <2>1, <2>3, SeqMono
    <2>4. Sorted(cut, st.used)
      BY <2>1, <2>3, <1>4, <1>5 DEF Sorted, End
    <2>5. \A e \in ToSet(st.used) : Apart(cut, d, e)
      BY <1>2, <1>4, <1>8 DEF Apart, End
    <2>6. d \in DOMAIN cut.range \ ToSet(st.used) /\ cut.range[d].nb_pages > 0 /\ DOMAIN cut.range = D \union {d}
      BY <1>2, <1>3, <1>4, <1>5
    <2>7. /\ n.used \in Seq(D \union {d}) /\ Sorted(cut, n.used)
          /\ ToSet(n.used) = ToSet(st.used) \union {d}
      BY <2>2, <2>4, <2>5, <2>6, <1>4, <1>6, Inserted
    <2> QED BY <2>7, <1>4 DEF Sorted, End
  <1>11. Sorted(n, n.free) /\ (Strict(st, st.free) => Strict(n, n.free))
    <2>1. Sorted(st, st.free) /\ st.free \in Seq(D)
      BY <1>1 DEF RangesKept, ListsSorted, KmemShape
    <2>2. \A i \in 1 .. Len(st.free) :
            /\ st.free[i] \in D /\ End(n, st.free[i]) = End(st, st.free[i]) /\ End(st, st.free[i]) \in Nat
            /\ st.range[st.free[i]].base \in Nat /\ n.range[st.free[i]].base \in Nat
            /\ st.range[st.free[i]].base <= n.range[st.free[i]].base
      <3>1. \A i \in 1 .. Len(st.free) : st.free[i] \in D
        BY <2>1, ElementsAreContained
      <3>2. \A e \in D : End(st, e) \in Nat
        BY <1>1, ShapeFacts
      <3> QED BY <3>1, <3>2, <1>2, <1>4, <1>6, <1>7, <1>3 DEF HasBounds
    <2>3. \A i, j \in 1 .. Len(st.free) :
            /\ End(st, st.free[i]) <= st.range[st.free[j]].base => End(n, st.free[i]) <= n.range[st.free[j]].base
            /\ End(st, st.free[i]) < st.range[st.free[j]].base => End(n, st.free[i]) < n.range[st.free[j]].base
      BY <2>2
    <2> QED BY <2>1, <2>3, <1>4 DEF Sorted, Strict
  <1>12. KmemShape(n)
    <2>1. /\ st.free \in Seq(D \union {d}) /\ st.ranges_to_free \in Seq(D \union {d})
          /\ st.owner \in [DOMAIN st.owner -> D \union {d}]
      <3>1. /\ st.free \in Seq(D) /\ st.ranges_to_free \in Seq(D)
            /\ st.owner \in [DOMAIN st.owner -> D]
        BY <1>1 DEF KmemShape
      <3>2. \A q \in Seq(D) : q \in Seq(D \union {d})
        BY ElementOfSeq, SeqMono
      <3> QED BY <3>1, <3>2
    <2>2. D \union {d} \subseteq Nat \ {NULL}
      BY <1>1 DEF KmemShape
    <2> QED BY <2>1, <2>2, <1>1, <1>3, <1>4, <1>10 DEF KmemShape
  <1>13. ListsSorted(n)
    BY <1>1, <1>2, <1>4, <1>10, <1>11 DEF RangesKept, ListsSorted
  <1>14. OwnersKnown(n)
    <2>1. \A e \in D \ ToSet(st.free) : PagesOf(n, e) = PagesOf(st, e)
      BY <1>4, <1>5, <1>7 DEF PagesOf
    <2> QED BY <2>1, <1>1, <1>3, <1>4 DEF RangesKept, OwnersKnown
  <1>15. SlabsBound(n)
    BY <1>1, <1>2, <1>3, <1>4, <1>5, <1>10 DEF RangesKept, SlabsBound
  <1>19. SlabsFit(n)
    <2>1. r \notin ToSet(st.used)
      BY <1>1 DEF RangesKept, ListsSorted
    <2> QED BY <2>1, <1>1, <1>2, <1>4, <1>5 DEF RangesKept, SlabsFit, SlabsBound
  <1>16. KmemKept(n)
    BY <1>9, <1>12, <1>13, <1>14, <1>15, <1>19 DEF KmemKept, RangesKept
  <1>17. Covered(n) = Covered(st)
    <2>1. \A e \in D : e # r => PagesOf(n, e) = PagesOf(st, e)
      BY <1>4, <1>5, <1>7 DEF PagesOf
    <2>2. PagesOf(n, d) \union PagesOf(n, r) = PagesOf(st, r)
      <3>1. /\ t[r].base \in Nat /\ t[d].base \in Nat /\ End(st, r) \in Nat
        BY <1>1, <1>2, <1>3, <1>4, <1>6, ShapeFacts DEF HasBounds
      <3>2. /\ PagesOf(n, d) = st.range[r].base .. t[r].base - 1
            /\ PagesOf(n, r) = t[r].base .. End(st, r) - 1
            /\ PagesOf(st, r) = st.range[r].base .. End(st, r) - 1
        BY <1>2, <1>4, <1>5, <1>7 DEF PagesOf
      <3> QED BY <3>1, <3>2, <1>5, <1>7
    <2> QED BY <2>1, <2>2, <1>2, <1>3, <1>4 DEF Covered
  <1>18. Coalesced(st) => Coalesced(n)
    BY <1>4, <1>11, <1>16, CoalescedIsStrict
  <1> QED BY <1>3, <1>4, <1>5, <1>10, <1>16, <1>17, <1>18 DEF n

-----------------------------------------------------------------------------
(* STEPS THAT LEAVE THE LISTS ALONE                                        *)

(* The pages of a new range are mapped one by one, all of them or the      *)
(* first ones: KmemKept holds on the way.                                  *)
THEOREM MapFirstKeeps ==
  ASSUME NEW st, KmemKept(st), NEW d \in DOMAIN st.range \ ToSet(st.free),
         NEW nb \in 0 .. st.range[d].nb_pages
  PROVE  LET n == MapFirst(st, d, nb)
         IN /\ KmemKept(n)
            /\ n.range = st.range /\ n.free = st.free /\ n.used = st.used
            /\ DOMAIN n.owner = DOMAIN st.owner \union st.range[d].base .. st.range[d].base + nb - 1
  <1> DEFINE n == MapFirst(st, d, nb)
             first == st.range[d].base .. st.range[d].base + nb - 1
  <1>1. KmemShape(st) /\ RangesKept(st) /\ Shaped(st)
    BY DEF KmemKept, KmemShape
  <1>2. st.range[d].base \in Nat /\ st.range[d].nb_pages \in Nat /\ nb \in Nat
    BY <1>1, ShapeFacts
  <1>3. /\ Shaped(n) /\ n.range = st.range /\ n.free = st.free /\ n.used = st.used
        /\ n.ranges_to_free = st.ranges_to_free /\ n.slab = st.slab
        /\ n.owner = [p \in DOMAIN st.owner \union first |-> IF p \in first THEN d ELSE st.owner[p]]
    <2>1. Shaped(n)
      BY <1>1 DEF Shaped, MapFirst
    <2> QED BY <2>1, <1>1 DEF Shaped, Field, MapFirst
  <1> HIDE DEF n
  <1>4. first \subseteq PagesOf(n, d) /\ first \subseteq Nat
    BY <1>2, <1>3 DEF PagesOf, End
  <1> HIDE DEF first
  <1>5. /\ DOMAIN n.owner = DOMAIN st.owner \union first
        /\ \A p \in DOMAIN n.owner : n.owner[p] = IF p \in first THEN d ELSE st.owner[p]
    BY <1>3
  <1>6. KmemShape(n)
    <2>1. \A p \in DOMAIN n.owner : n.owner[p] \in DOMAIN st.range
      BY <1>1, <1>5 DEF KmemShape
    <2>2. n.owner \in [DOMAIN n.owner -> DOMAIN st.range]
      <3>1. n.owner = [p \in DOMAIN n.owner |-> n.owner[p]]
        BY <1>3
      <3> QED BY <3>1, <2>1
    <2> QED BY <2>2, <1>1, <1>3, <1>4, <1>5 DEF KmemShape
  <1>7. \A e \in DOMAIN st.range : PagesOf(n, e) = PagesOf(st, e)
    BY <1>3 DEF PagesOf, End
  <1>8. OwnersKnown(n)
    BY <1>1, <1>3, <1>4, <1>5, <1>7 DEF RangesKept, OwnersKnown
  <1>9. RangesApart(n) /\ ListsSorted(n) /\ SlabsBound(n) /\ SlabsFit(n)
    BY <1>1, <1>3
       DEF RangesKept, RangesApart, Apart, ListsSorted, Sorted, End, SlabsBound, SlabsFit
  <1> QED BY <1>3, <1>5, <1>6, <1>8, <1>9 DEF KmemKept, RangesKept, n, first

(* What the steps that only take or return objects leave alone. *)
SameRanges(st, n) ==
  /\ n.range = st.range /\ n.free = st.free /\ n.used = st.used
  /\ n.ranges_to_free = st.ranges_to_free /\ n.owner = st.owner
  /\ DOMAIN n.slab = DOMAIN st.slab
  /\ \A s \in DOMAIN st.slab :
       /\ n.slab[s].range = st.slab[s].range /\ n.slab[s].base = st.slab[s].base
       /\ n.slab[s].cache = st.slab[s].cache

(* A step on slabs and caches that leaves every range and every binding    *)
(* alone keeps all that is said of them.                                   *)
LEMMA SameRangesKept ==
  ASSUME NEW st, KmemKept(st), NEW n, SameRanges(st, n), Shaped(n),
         n.slab \in [DOMAIN n.slab -> SlabRecord]
  PROVE  /\ KmemKept(n)
         /\ Coalesced(st) <=> Coalesced(n)
         /\ Covered(n) = Covered(st)
  <1>1. KmemShape(st) /\ RangesKept(st)
    BY DEF KmemKept
  <1>2. KmemShape(n)
    BY <1>1 DEF KmemShape, SameRanges
  <1>3. \A e : End(n, e) = End(st, e) /\ PagesOf(n, e) = PagesOf(st, e)
    BY DEF SameRanges, End, PagesOf
  <1>4. RangesApart(n) /\ ListsSorted(n) /\ OwnersKnown(n)
    BY <1>1, <1>3
       DEF SameRanges, RangesKept, RangesApart, Apart, ListsSorted, Sorted, OwnersKnown
  <1>5. SlabsBound(n) /\ SlabsFit(n)
    BY <1>1 DEF SameRanges, RangesKept, SlabsBound, SlabsFit
  <1>6. Coalesced(st) <=> Coalesced(n)
    <2>1. \A i : Touch(n, i) <=> Touch(st, i)
      BY <1>3 DEF SameRanges, Touch
    <2> QED BY <2>1 DEF SameRanges, Coalesced
  <1>7. Covered(n) = Covered(st)
    BY <1>3 DEF SameRanges, Covered
  <1> QED BY <1>2, <1>4, <1>5, <1>6, <1>7 DEF KmemKept, RangesKept

(* A slab whose set of free objects changes is still that slab. *)
FreeChanged(table, s, F, t) ==
  /\ t \in [DOMAIN table -> SlabRecord] /\ DOMAIN t = DOMAIN table /\ t[s].free = F
  /\ \A e \in DOMAIN table :
       /\ t[e].cache = table[e].cache /\ t[e].range = table[e].range /\ t[e].base = table[e].base
       /\ e # s => t[e] = table[e]

(* The slabs after a change of the free objects of one of them. *)
LEMMA FreeFieldSet ==
  ASSUME NEW table, table \in [DOMAIN table -> SlabRecord], NEW s \in DOMAIN table,
         NEW F \in SUBSET Nat, NEW t, t = [table EXCEPT ![s].free = F]
  PROVE  FreeChanged(table, s, F, t)
  <1> DEFINE D == DOMAIN table
  <1>1. DOMAIN t = D /\ table[s] \in SlabRecord /\ t[s] = [table[s] EXCEPT !.free = F]
    OBVIOUS
  <1>2. \A e \in D : e # s => t[e] = table[e]
    OBVIOUS
  <1>3. /\ t[s].free = F /\ t[s].cache = table[s].cache /\ t[s].range = table[s].range
        /\ t[s].base = table[s].base /\ t[s] \in SlabRecord
    BY <1>1 DEF SlabRecord
  <1>4. \A e \in D : t[e] \in SlabRecord
    BY <1>2, <1>3
  <1>5. t \in [D -> SlabRecord]
    BY <1>1, <1>4
  <1> HIDE DEF D
  <1>6. \A e \in D : /\ t[e].cache = table[e].cache /\ t[e].range = table[e].range
                     /\ t[e].base = table[e].base
                     /\ e # s => t[e] = table[e]
    BY <1>2, <1>3
  <1> QED BY <1>1, <1>3, <1>5, <1>6 DEF FreeChanged, D

(* sos_kmem_cache_alloc() takes an object that was free, and no other. *)
THEOREM TakeObjectKeeps ==
  ASSUME NEW st, KmemKept(st), NEW c, NEW s \in DOMAIN st.slab,
         s = Head(st.cache[c].slab_list), st.slab[s].free # {}
  PROVE  LET n == TakeObject(st, c)
         IN /\ KmemKept(n) /\ SameRanges(st, n)
            /\ n.ret \in st.slab[s].free
            /\ n.slab[s].free = st.slab[s].free \ {n.ret}
            /\ \A e \in DOMAIN st.slab : e # s => n.slab[e] = st.slab[e]
            /\ Coalesced(st) => Coalesced(n)
  <1> DEFINE n == TakeObject(st, c)
             object == Min(st.slab[s].free)
  <1>1. KmemShape(st) /\ Shaped(st) /\ st.slab \in [DOMAIN st.slab -> SlabRecord]
    BY DEF KmemKept, KmemShape
  <1>2. st.slab[s].free \in SUBSET Nat
    BY <1>1 DEF SlabRecord
  <1>3. object \in st.slab[s].free
    BY <1>2, MinOfNaturals
  <1> HIDE DEF object
  <1>4. /\ Shaped(n) /\ n.range = st.range /\ n.free = st.free /\ n.used = st.used
        /\ n.ranges_to_free = st.ranges_to_free /\ n.owner = st.owner
        /\ n.slab = [st.slab EXCEPT ![s].free = st.slab[s].free \ {object}]
        /\ n.ret = object
    <2>1. Shaped(n)
      <3>1. n = [f \in DOMAIN st |-> n[f]]
        BY DEF TakeObject
      <3>2. DOMAIN st = Field
        BY <1>1 DEF Shaped
      <3> HIDE DEF n
      <3> QED BY <3>1, <3>2 DEF Shaped
    <2> QED BY <2>1, <1>1 DEF Shaped, Field, TakeObject, object
  <1> HIDE DEF n
  <1>5. /\ n.slab \in [DOMAIN st.slab -> SlabRecord] /\ DOMAIN n.slab = DOMAIN st.slab
        /\ n.slab[s].free = st.slab[s].free \ {object}
        /\ \A e \in DOMAIN st.slab :
             /\ n.slab[e].cache = st.slab[e].cache /\ n.slab[e].range = st.slab[e].range
             /\ n.slab[e].base = st.slab[e].base
             /\ e # s => n.slab[e] = st.slab[e]
    <2> DEFINE F == st.slab[s].free \ {object}
    <2>1. F \in SUBSET Nat
      BY <1>2
    <2>2. n.slab = [st.slab EXCEPT ![s].free = F]
      BY <1>4
    <2> HIDE DEF F
    <2>3. FreeChanged(st.slab, s, F, n.slab)
      BY <2>1, <2>2, <1>1, FreeFieldSet
    <2> QED BY <2>3 DEF F, FreeChanged
  <1>6. SameRanges(st, n)
    BY <1>4, <1>5 DEF SameRanges
  <1>7. KmemKept(n) /\ (Coalesced(st) <=> Coalesced(n))
    BY <1>4, <1>5, <1>6, SameRangesKept
  <1> QED BY <1>3, <1>4, <1>5, <1>6, <1>7 DEF n

-----------------------------------------------------------------------------
(* THE RANGE AND THE SLAB OF AN ADDRESS                                    *)

(* lookup_range() finds the used range that a page lies in, and no other,  *)
(* through the physical page as well as through the list.                  *)
THEOREM LookupFinds ==
  ASSUME NEW st, KmemKept(st), NEW page \in Nat
  PROVE  /\ Lookup(st, page) # NULL =>
              /\ Lookup(st, page) \in DOMAIN st.range \ ToSet(st.free)
              /\ page \in PagesOf(st, Lookup(st, page))
         /\ \A u \in ToSet(st.used) : page \in PagesOf(st, u) => Lookup(st, page) = u
  <1>1. KmemShape(st) /\ RangesKept(st)
    BY DEF KmemKept
  <1>2. \A d \in DOMAIN st.range :
          /\ st.range[d].base \in Nat /\ st.range[d].nb_pages \in Nat /\ End(st, d) \in Nat
    BY <1>1, ShapeFacts
  <1>3. ASSUME NEW d \in DOMAIN st.range, NEW e \in DOMAIN st.range,
               page \in PagesOf(st, d), page \in PagesOf(st, e)
        PROVE  d = e
    <2>1. d # e => Apart(st, d, e)
      BY <1>1 DEF RangesKept, RangesApart
    <2> QED BY <2>1, <1>2, <1>3 DEF Apart, PagesOf
  <1>4. CASE page \in DOMAIN st.owner
    <2>1. Lookup(st, page) = st.owner[page]
      BY <1>4 DEF Lookup
    <2>2. /\ st.owner[page] \in DOMAIN st.range \ ToSet(st.free)
          /\ page \in PagesOf(st, st.owner[page])
      BY <1>1, <1>4 DEF RangesKept, OwnersKnown
    <2>3. ToSet(st.used) \subseteq DOMAIN st.range
      BY <1>1, ShapeFacts
    <2> QED BY <2>1, <2>2, <2>3, <1>3
  <1>5. CASE page \notin DOMAIN st.owner
    <2> DEFINE i == Preceding(st, st.used, page)
    <2>1. /\ st.used \in Seq(DOMAIN st.range) /\ Sorted(st, st.used) /\ HasBounds(st)
          /\ ToSet(st.used) \intersect ToSet(st.free) = {}
      BY <1>1, ShapeFacts DEF RangesKept, ListsSorted, KmemShape
    <2>2. /\ i \in 0 .. Len(st.used)
          /\ \A j \in 1 .. Len(st.used) : j <= i <=> st.range[st.used[j]].base <= page
      BY <2>1, PrecedingSplits
    <2>3. /\ Len(st.used) \in Nat
          /\ \A j \in 1 .. Len(st.used) : st.used[j] \in DOMAIN st.range /\ st.used[j] \in ToSet(st.used)
          /\ \A u \in ToSet(st.used) : \E j \in 1 .. Len(st.used) : st.used[j] = u
      BY <2>1, ElementsAreContained
    <2>4. Lookup(st, page) = IF i > 0 /\ page < End(st, st.used[i]) THEN st.used[i] ELSE NULL
      BY <1>5 DEF Lookup, UsedAt
    <2> HIDE DEF i
    <2>5. ASSUME Lookup(st, page) # NULL
          PROVE  /\ Lookup(st, page) \in DOMAIN st.range \ ToSet(st.free)
                 /\ page \in PagesOf(st, Lookup(st, page))
      <3>1. i \in 1 .. Len(st.used) /\ page < End(st, st.used[i]) /\ Lookup(st, page) = st.used[i]
        BY <2>2, <2>3, <2>4, <2>5
      <3>2. st.range[st.used[i]].base <= page
        BY <3>1, <2>2, <2>3
      <3> DEFINE u == st.used[i]
      <3>3. u \in DOMAIN st.range \ ToSet(st.free) /\ u \in DOMAIN st.range
        BY <3>1, <2>1, <2>3
      <3>4. st.range[u].base \in Nat /\ End(st, u) \in Nat
        BY <3>3, <1>2
      <3>5. Lookup(st, page) = u /\ st.range[u].base <= page /\ page < End(st, u)
        BY <3>1, <3>2
      <3> HIDE DEF u
      <3> QED BY <3>3, <3>4, <3>5 DEF PagesOf
    <2>6. ASSUME NEW u \in ToSet(st.used), page \in PagesOf(st, u)
          PROVE  Lookup(st, page) = u
      <3>1. PICK j \in 1 .. Len(st.used) : st.used[j] = u
        BY <2>3
      <3>2. u \in DOMAIN st.range /\ st.range[u].base <= page /\ page < End(st, u)
        <4>1. u \in DOMAIN st.range
          BY <3>1, <2>3
        <4>2. st.range[u].base \in Nat /\ End(st, u) \in Nat
          BY <4>1, <1>2
        <4> QED BY <4>1, <4>2, <2>6 DEF PagesOf
      <3>3. j <= i /\ i \in 1 .. Len(st.used)
        <4>1. j <= i
          BY <3>1, <3>2, <2>2
        <4> QED BY <4>1, <2>2, <2>3
      <3>4. CASE j = i
        <4>1. st.used[i] = u /\ i > 0 /\ page < End(st, st.used[i])
          BY <3>1, <3>2, <3>3, <3>4
        <4> QED BY <4>1, <2>4
      <3>5. CASE j < i
        <4>1. End(st, u) <= st.range[st.used[i]].base
          BY <3>1, <3>3, <3>5, <2>1 DEF Sorted
        <4>2. st.range[st.used[i]].base <= page
          BY <3>3, <2>2, <2>3
        <4>3. st.range[st.used[i]].base \in Nat /\ End(st, u) \in Nat /\ page < End(st, u)
          BY <3>2, <3>3, <2>3, <1>2
        <4> QED BY <4>1, <4>2, <4>3
      <3> QED BY <3>3, <3>4, <3>5, <2>3
    <2> QED BY <2>5, <2>6
  <1> QED BY <1>4, <1>5

(* sos_kmem_vmm_resolve_slab() finds, for an address in the range of a     *)
(* slab, that slab.                                                        *)
THEOREM ResolveSlabFinds ==
  ASSUME NEW st, KmemKept(st), NEW page \in Nat
  PROVE  /\ ResolveSlab(st, page) # NULL => ResolveSlab(st, page) \in DOMAIN st.slab
         /\ \A s \in DOMAIN st.slab :
              page \in PagesOf(st, st.slab[s].range) => ResolveSlab(st, page) = s
  <1> DEFINE d == Lookup(st, page)
  <1>1. SlabsBound(st) /\ KmemShape(st)
    BY DEF KmemKept, RangesKept
  <1>2. /\ d # NULL => d \in DOMAIN st.range
        /\ \A u \in ToSet(st.used) : page \in PagesOf(st, u) => d = u
    BY LookupFinds
  <1>3. ResolveSlab(st, page) = IF d = NULL THEN NULL ELSE st.range[d].slab
    BY DEF ResolveSlab, SlabOf
  <1>4. \A u \in ToSet(st.used) : u # NULL
    BY <1>1, ShapeFacts
  <1> HIDE DEF d
  <1> QED BY <1>1, <1>2, <1>3, <1>4 DEF SlabsBound

(* free_object(): the object returns to its slab, and the slab to release  *)
(* has all its objects free.                                               *)
LEMMA PutBackKeeps ==
  ASSUME NEW st, KmemKept(st), NEW s \in DOMAIN st.slab, NEW addr \in Nat
  PROVE  LET n == PutBack(st, s, addr)
         IN /\ KmemKept(n) /\ SameRanges(st, n)
            /\ n.slab[s].free = st.slab[s].free \union {addr}
            /\ \A e \in DOMAIN st.slab : e # s => n.slab[e] = st.slab[e]
  <1> DEFINE n == PutBack(st, s, addr)
             F == st.slab[s].free \union {addr}
  <1>1. KmemShape(st) /\ Shaped(st) /\ st.slab \in [DOMAIN st.slab -> SlabRecord]
    BY DEF KmemKept, KmemShape
  <1>2. F \in SUBSET Nat
    BY <1>1 DEF SlabRecord
  <1>3. Shaped(n)
    <2>1. n = [f \in DOMAIN st |-> n[f]]
      BY DEF PutBack
    <2>2. DOMAIN st = Field
      BY <1>1 DEF Shaped
    <2> HIDE DEF n
    <2> QED BY <2>1, <2>2 DEF Shaped
  <1>4. /\ n.range = st.range /\ n.free = st.free /\ n.used = st.used
        /\ n.ranges_to_free = st.ranges_to_free /\ n.owner = st.owner
        /\ n.slab = [st.slab EXCEPT ![s].free = F]
    BY <1>1, <1>3 DEF Shaped, Field, PutBack
  <1> HIDE DEF n, F
  <1>5. FreeChanged(st.slab, s, F, n.slab)
    BY <1>1, <1>2, <1>4, FreeFieldSet
  <1>6. SameRanges(st, n) /\ n.slab \in [DOMAIN n.slab -> SlabRecord]
    BY <1>4, <1>5 DEF SameRanges, FreeChanged
  <1>7. KmemKept(n)
    BY <1>3, <1>6, SameRangesKept
  <1> QED BY <1>5, <1>6, <1>7 DEF n, F, FreeChanged

(* A returned value changes nothing else. *)
LEMMA ReturnKeeps ==
  ASSUME NEW st, KmemKept(st), NEW v
  PROVE  LET n == Return(st, v)
         IN KmemKept(n) /\ SameRanges(st, n) /\ n.ret = v /\ n.slab = st.slab
  <1> DEFINE n == Return(st, v)
  <1>1. KmemShape(st) /\ Shaped(st) /\ st.slab \in [DOMAIN st.slab -> SlabRecord]
    BY DEF KmemKept, KmemShape
  <1>2. Shaped(n)
    BY <1>1 DEF Shaped, Return
  <1>3. /\ n.range = st.range /\ n.free = st.free /\ n.used = st.used
        /\ n.ranges_to_free = st.ranges_to_free /\ n.owner = st.owner
        /\ n.slab = st.slab /\ n.ret = v
    BY <1>1, <1>2 DEF Shaped, Field, Return
  <1> HIDE DEF n
  <1>4. SameRanges(st, n)
    BY <1>3 DEF SameRanges
  <1>5. KmemKept(n)
    BY <1>1, <1>2, <1>3, <1>4, SameRangesKept
  <1> QED BY <1>3, <1>4, <1>5 DEF n

(* sos_kmem_cache_free() of an address: an object joins the free ones of   *)
(* its slab, and another address is refused; the slab to release is the one *)
(* of the address, with all its objects free.                              *)
THEOREM FreeObjectKeeps ==
  ASSUME NEW st, KmemKept(st), NEW addr \in Nat
  PROVE  LET n == FreeObject(st, addr)
             s == ResolveSlab(st, PageOf(addr))
         IN /\ KmemKept(n) /\ SameRanges(st, n)
            /\ Coalesced(st) <=> Coalesced(n)
            /\ IsObject(st, addr) => n.slab[s].free = st.slab[s].free \union {addr}
            /\ n.ret # NULL => /\ n.ret = s /\ s \in DOMAIN n.slab
                               /\ n.slab[s].free = Objects(n, s)
  <1> DEFINE n == FreeObject(st, addr)
             s == ResolveSlab(st, PageOf(addr))
             p == PutBack(st, s, addr)
  <1>1. PageOf(addr) \in Nat
    BY KmemAssumption DEF PageOf
  <1>2. s # NULL => s \in DOMAIN st.slab
    BY <1>1, ResolveSlabFinds
  <1>3. ASSUME IsObject(st, addr)
        PROVE  KmemKept(n) /\ SameRanges(st, n)
               /\ (IsObject(st, addr) => n.slab[s].free = st.slab[s].free \union {addr})
               /\ (n.ret # NULL => /\ n.ret = s /\ s \in DOMAIN n.slab
                                  /\ n.slab[s].free = Objects(n, s))
    <2>1. s \in DOMAIN st.slab /\ ObjectIn(st, s, addr)
      BY <1>2, <1>3 DEF IsObject, ObjectIn
    <2>2. n = Spared(p, s)
      BY <2>1 DEF FreeObject, FreeObjectIn
    <2>3. /\ KmemKept(p) /\ SameRanges(st, p)
          /\ p.slab[s].free = st.slab[s].free \union {addr}
      BY <2>1, PutBackKeeps
    <2> HIDE DEF n, p, s
    <2>4. /\ KmemKept(n) /\ SameRanges(p, n) /\ n.slab = p.slab
          /\ n.ret = IF CanBeSpared(p, s) THEN s ELSE NULL
      BY <2>2, <2>3, ReturnKeeps DEF Spared
    <2>5. n.ret # NULL => n.ret = s /\ n.slab[s].free = Objects(n, s)
      BY <2>4 DEF CanBeSpared, Objects
    <2>6. SameRanges(st, n) /\ s \in DOMAIN n.slab
      BY <2>1, <2>3, <2>4 DEF SameRanges
    <2> QED BY <2>3, <2>4, <2>5, <2>6, <1>3
  <1>4. ASSUME ~ IsObject(st, addr)
        PROVE  KmemKept(n) /\ SameRanges(st, n)
               /\ (IsObject(st, addr) => n.slab[s].free = st.slab[s].free \union {addr})
               /\ (n.ret # NULL => /\ n.ret = s /\ s \in DOMAIN n.slab
                                  /\ n.slab[s].free = Objects(n, s))
    <2>1. n = Return(st, NULL)
      BY <1>4 DEF FreeObject, FreeObjectIn, IsObject, Fail
    <2> HIDE DEF n, s, p
    <2> QED BY <2>1, <1>4, ReturnKeeps
  <1>5. KmemKept(n) /\ SameRanges(st, n)
    BY <1>3, <1>4
  <1>6. Coalesced(st) <=> Coalesced(n)
    <2> HIDE DEF n
    <2>1. Shaped(n) /\ n.slab \in [DOMAIN n.slab -> SlabRecord]
      BY <1>5 DEF KmemKept, KmemShape
    <2> QED BY <2>1, <1>5, SameRangesKept
  <1> QED BY <1>3, <1>4, <1>6

-----------------------------------------------------------------------------
(* SLABS THAT COME AND GO                                                  *)

(* The greatest number of objects that lie before the structure. *)
LEMMA Division ==
  ASSUME NEW a \in Int, NEW b \in Nat \ {0}
  PROVE  /\ a \div b \in Int /\ a % b \in 0 .. b - 1
         /\ a = (a \div b) * b + (a % b)
  OBVIOUS

(* Products keep the order. *)
LEMMA ProductGrows ==
  ASSUME NEW i \in Int, NEW j \in Int, NEW m \in Nat, i <= j
  PROVE  i * m <= j * m
  OBVIOUS

(* cache_initialize(): the objects of a slab fit in its pages, before the  *)
(* structure when that is in the slab.                                     *)
LEMMA GeometryFits ==
  ASSUME NEW c \in DOMAIN Cache
  PROVE  /\ Cache[c].size \in Nat \ {0} /\ Cache[c].pages \in Nat \ {0}
         /\ Cache[c].objects \in Int
         /\ Cache[c].objects * Cache[c].size <= Cache[c].pages * PageSize
         /\ Cache[c].onslab =>
              Cache[c].objects * Cache[c].size <= Cache[c].pages * PageSize - KslabSize
  <1> DEFINE p == Parameters(c)
             small == p.onslab \/ p.size <= KslabSize
             space == p.pages * PageSize - (IF small THEN KslabSize ELSE 0)
  <1>1. c \in {"caches", "ranges", "kslabs"} \union DOMAIN Shape /\ Cache[c] = Geometry(p)
    BY DEF Cache
  <1>2. p.size \in Nat \ {0} /\ p.pages \in Nat \ {0}
    <2>1. CASE c \in {"caches", "ranges", "kslabs"}
      BY <2>1, KmemAssumption DEF Parameters
    <2>2. CASE c \notin {"caches", "ranges", "kslabs"}
      <3>1. p = Shape[c] /\ c \in DOMAIN Shape
        BY <2>2, <1>1 DEF Parameters
      <3>2. Shape[c] \in [size : Nat \ {0}, pages : Nat \ {0}, min : Nat, onslab : {FALSE}]
        BY <3>1, KmemAssumption
      <3> QED BY <3>1, <3>2
    <2> QED BY <2>1, <2>2
  <1> HIDE DEF p
  <1>3. /\ Cache[c].size = p.size /\ Cache[c].pages = p.pages
        /\ Cache[c].objects = space \div p.size
        /\ Cache[c].onslab = (small \/ space % p.size >= KslabSize)
    BY <1>1 DEF Geometry
  <1>4. p.pages * PageSize \in Nat /\ KslabSize \in Nat
    BY <1>2, KmemAssumption
  <1>5. space \in Int /\ space <= p.pages * PageSize /\ (small => space = p.pages * PageSize - KslabSize)
    BY <1>4
  <1> HIDE DEF space
  <1>6. /\ space \div p.size \in Int /\ space % p.size \in 0 .. p.size - 1
        /\ space = (space \div p.size) * p.size + (space % p.size)
    BY <1>2, <1>5, Division
  <1> DEFINE n == space \div p.size
             rest == space % p.size
             used == n * p.size
             all == p.pages * PageSize
  <1>7. used \in Int /\ all \in Int /\ space = used + rest /\ rest \in Nat
    <2>1. n \in Int /\ rest \in 0 .. p.size - 1 /\ space = used + rest
      BY <1>6
    <2> HIDE DEF n, rest
    <2>2. used \in Int /\ rest \in Nat
      BY <1>2, <2>1
    <2> QED BY <2>1, <2>2, <1>4
  <1>8. space <= all /\ (small => space = all - KslabSize)
    BY <1>5
  <1>9. used <= all /\ (small \/ rest >= KslabSize => used <= all - KslabSize)
    <2> HIDE DEF used, all, rest, small
    <2> QED BY <1>4, <1>5, <1>7, <1>8
  <1> QED BY <1>2, <1>3, <1>6, <1>9

(* The objects of a slab do not overlap, and lie in its pages. *)
THEOREM ObjectsApart ==
  ASSUME NEW c \in DOMAIN Cache, NEW base \in Nat
  PROVE  /\ ObjectsAt(c, base) \subseteq Nat
         /\ \A a \in ObjectsAt(c, base) :
              /\ base * PageSize <= a
              /\ a + Cache[c].size <= (base + Cache[c].pages) * PageSize
              /\ Cache[c].onslab => a + Cache[c].size <= OnSlab(c, base)
         /\ \A a, b \in ObjectsAt(c, base) :
              a # b => a + Cache[c].size <= b \/ b + Cache[c].size <= a
  <1> DEFINE size == Cache[c].size
             first == base * PageSize
             at(i) == first + i * size
  <1>1. /\ size \in Nat \ {0} /\ Cache[c].pages \in Nat \ {0} /\ Cache[c].objects \in Int
        /\ Cache[c].objects * size <= Cache[c].pages * PageSize
        /\ Cache[c].onslab => Cache[c].objects * size <= Cache[c].pages * PageSize - KslabSize
    BY GeometryFits
  <1>2. /\ PageSize \in Nat /\ KslabSize \in Nat /\ first \in Nat
        /\ Cache[c].pages * PageSize \in Nat
        /\ (base + Cache[c].pages) * PageSize = first + Cache[c].pages * PageSize
    BY <1>1, KmemAssumption
  <1>3. \A a \in ObjectsAt(c, base) : \E i \in 0 .. Cache[c].objects - 1 : a = at(i)
    BY DEF ObjectsAt
  <1> HIDE DEF size, first
  <1>4. ASSUME NEW i \in 0 .. Cache[c].objects - 1
        PROVE  /\ at(i) \in Nat /\ first <= at(i)
               /\ at(i) + size <= first + Cache[c].objects * size
    <2>1. i \in Nat /\ i + 1 <= Cache[c].objects /\ i * size \in Nat
      BY <1>1
    <2>2. (i + 1) * size <= Cache[c].objects * size
      BY <2>1, <1>1, ProductGrows
    <2>3. (i + 1) * size = i * size + size
      BY <2>1, <1>1
    <2> QED BY <2>1, <2>2, <2>3, <1>1, <1>2
  <1>5. ASSUME NEW i \in 0 .. Cache[c].objects - 1, NEW j \in 0 .. Cache[c].objects - 1, i < j
        PROVE  at(i) + size <= at(j)
    <2>1. i \in Nat /\ j \in Nat /\ i + 1 <= j /\ i * size \in Nat /\ j * size \in Nat
      BY <1>1, <1>5
    <2>2. (i + 1) * size <= j * size
      BY <2>1, <1>1, ProductGrows
    <2>3. (i + 1) * size = i * size + size
      BY <2>1, <1>1
    <2> QED BY <2>1, <2>2, <2>3, <1>1, <1>2
  <1>6. ASSUME NEW a \in ObjectsAt(c, base)
        PROVE  /\ a \in Nat /\ first <= a
               /\ a + size <= (base + Cache[c].pages) * PageSize
               /\ Cache[c].onslab => a + size <= OnSlab(c, base)
    <2>1. PICK i \in 0 .. Cache[c].objects - 1 : a = at(i)
      BY <1>3
    <2>2. /\ a \in Nat /\ first <= a /\ a + size <= first + Cache[c].objects * size
      BY <2>1, <1>4
    <2>3. Cache[c].objects * size \in Int
      BY <1>1
    <2>4. OnSlab(c, base) = first + Cache[c].pages * PageSize - KslabSize
      BY <1>2 DEF OnSlab
    <2> QED BY <2>2, <2>3, <2>4, <1>1, <1>2
  <1>7. ASSUME NEW a \in ObjectsAt(c, base), NEW b \in ObjectsAt(c, base), a # b
        PROVE  a + size <= b \/ b + size <= a
    <2>1. PICK i \in 0 .. Cache[c].objects - 1 : a = at(i)
      BY <1>3
    <2>2. PICK j \in 0 .. Cache[c].objects - 1 : b = at(j)
      BY <1>3
    <2>3. i < j \/ j < i
      BY <1>7, <2>1, <2>2, <1>1
    <2> HIDE DEF at
    <2> QED BY <2>1, <2>2, <2>3, <1>5
  <1> QED BY <1>6, <1>7 DEF size, first

(* cache_grow() gives its new range to the new slab: they designate each   *)
(* other, and KmemKept holds.                                              *)
THEOREM AddSlabKeeps ==
  ASSUME NEW st, KmemKept(st), NEW c \in DOMAIN Cache,
         NEW d \in ToSet(st.used), st.range[d].slab = NULL,
         st.range[d].nb_pages = Cache[c].pages,
         NEW s \in Nat \ {NULL}, s \notin DOMAIN st.slab
  PROVE  LET n == AddSlab(st, c, st.range[d].base, d, s)
         IN /\ KmemKept(n) /\ SameBounds(st, n)
            /\ n.free = st.free /\ n.used = st.used /\ n.ranges_to_free = st.ranges_to_free
            /\ n.ret = s /\ s \in DOMAIN n.slab
            /\ Coalesced(st) => Coalesced(n)
  <1> DEFINE base == st.range[d].base
             n == AddSlab(st, c, base, d, s)
             rec == [cache |-> c, free |-> ObjectsAt(c, base), range |-> d, base |-> base]
  <1>1. KmemShape(st) /\ RangesKept(st) /\ Shaped(st)
    BY DEF KmemKept, KmemShape
  <1>2. /\ d \in DOMAIN st.range /\ d \in Nat /\ d # NULL /\ base \in Nat
        /\ ToSet(st.used) \subseteq DOMAIN st.range
        /\ st.range \in [DOMAIN st.range -> RangeRecord]
    BY <1>1, ShapeFacts DEF KmemShape
  <1>3. Shaped(n)
    <2>1. n = [f \in DOMAIN st |-> n[f]]
      BY DEF AddSlab
    <2>2. DOMAIN st = Field
      BY <1>1 DEF Shaped
    <2> HIDE DEF n
    <2> QED BY <2>1, <2>2 DEF Shaped
  <1>4. /\ n.free = st.free /\ n.used = st.used
        /\ n.ranges_to_free = st.ranges_to_free /\ n.owner = st.owner
        /\ n.range = [st.range EXCEPT ![d].slab = s]
        /\ n.slab = With(st.slab, s, rec) /\ n.ret = s
    BY <1>1, <1>2, <1>3 DEF Shaped, Field, AddSlab
  <1>5. /\ rec \in SlabRecord /\ rec.range = d /\ rec.base = base /\ rec.cache = c
    <2>1. ObjectsAt(c, base) \subseteq Nat
      BY <1>2, ObjectsApart
    <2> QED BY <2>1, <1>2 DEF SlabRecord
  <1> HIDE DEF n, rec
  <1>6. /\ DOMAIN n.slab = DOMAIN st.slab \union {s} /\ n.slab[s] = rec
        /\ \A e \in DOMAIN st.slab : n.slab[e] = st.slab[e]
        /\ n.slab \in [DOMAIN n.slab -> SlabRecord]
    <2>1. /\ DOMAIN n.slab = DOMAIN st.slab \union {s} /\ n.slab[s] = rec
          /\ \A e \in DOMAIN st.slab : n.slab[e] = st.slab[e]
          /\ n.slab = [e \in DOMAIN n.slab |-> n.slab[e]]
      BY <1>4 DEF With
    <2>2. \A e \in DOMAIN n.slab : n.slab[e] \in SlabRecord
      BY <2>1, <1>1, <1>5 DEF KmemShape
    <2> QED BY <2>1, <2>2
  <1>7. /\ n.range \in [DOMAIN st.range -> RangeRecord] /\ DOMAIN n.range = DOMAIN st.range
        /\ SameBounds(st, n)
        /\ \A e \in DOMAIN st.range : n.range[e].slab = IF e = d THEN s ELSE st.range[e].slab
    BY <1>2, <1>4, SlabFieldSet DEF SameBounds
  <1>8. /\ \A e \in DOMAIN st.range : End(n, e) = End(st, e) /\ PagesOf(n, e) = PagesOf(st, e)
        /\ \A e, f \in DOMAIN st.range : Apart(n, e, f) <=> Apart(st, e, f)
        /\ \A q \in Seq(DOMAIN st.range) :
             (Sorted(n, q) <=> Sorted(st, q)) /\ (Strict(n, q) <=> Strict(st, q))
    BY <1>7, SameBoundsSame
  <1>9. KmemShape(n)
    BY <1>1, <1>3, <1>4, <1>6, <1>7 DEF KmemShape
  <1>10. RangesApart(n)
    BY <1>1, <1>4, <1>7, <1>8 DEF RangesKept, RangesApart, SameBounds
  <1>11. ListsSorted(n)
    BY <1>1, <1>4, <1>8 DEF RangesKept, ListsSorted, KmemShape
  <1>12. OwnersKnown(n)
    BY <1>1, <1>4, <1>7, <1>8 DEF RangesKept, OwnersKnown
  <1>13. \A e \in DOMAIN st.slab : st.slab[e].range # d
    BY <1>1 DEF RangesKept, SlabsBound, KmemShape
  <1>14. SlabsBound(n)
    BY <1>1, <1>2, <1>4, <1>5, <1>6, <1>7, <1>13 DEF RangesKept, SlabsBound
  <1>15. SlabsFit(n)
    <2>1. \A e \in DOMAIN st.slab : st.slab[e].range \in DOMAIN st.range
      BY <1>1, <1>2 DEF RangesKept, SlabsBound
    <2> QED BY <2>1, <1>1, <1>2, <1>5, <1>6, <1>7 DEF RangesKept, SlabsFit, SameBounds
  <1>16. KmemKept(n)
    BY <1>9, <1>10, <1>11, <1>12, <1>14, <1>15 DEF KmemKept, RangesKept
  <1>17. Coalesced(st) => Coalesced(n)
    BY <1>1, <1>4, <1>8, <1>16, CoalescedIsStrict DEF KmemShape
  <1> QED BY <1>4, <1>6, <1>7, <1>16, <1>17 DEF n

(* cache_release_slab(): the slab leaves its cache, then its range, which  *)
(* is used and ready to be deleted.                                        *)
LEMMA DropSlabKeeps ==
  ASSUME NEW st, KmemKept(st), NEW s
  PROVE  LET n == DropSlab(st, s)
         IN KmemKept(n) /\ SameRanges(st, n) /\ n.slab = st.slab /\ n.ret = st.ret
  <1> DEFINE n == DropSlab(st, s)
  <1>1. KmemShape(st) /\ Shaped(st) /\ st.slab \in [DOMAIN st.slab -> SlabRecord]
    BY DEF KmemKept, KmemShape
  <1>2. Shaped(n)
    <2>1. n = [f \in DOMAIN st |-> n[f]]
      BY DEF DropSlab
    <2>2. DOMAIN st = Field
      BY <1>1 DEF Shaped
    <2> HIDE DEF n
    <2> QED BY <2>1, <2>2 DEF Shaped
  <1>3. /\ n.range = st.range /\ n.free = st.free /\ n.used = st.used
        /\ n.ranges_to_free = st.ranges_to_free /\ n.owner = st.owner
        /\ n.slab = st.slab /\ n.ret = st.ret
    BY <1>1, <1>2 DEF Shaped, Field, DropSlab
  <1> HIDE DEF n
  <1>4. SameRanges(st, n)
    BY <1>3 DEF SameRanges
  <1>5. KmemKept(n)
    BY <1>1, <1>2, <1>3, <1>4, SameRangesKept
  <1> QED BY <1>3, <1>4, <1>5 DEF n

(* The slab disappears, its range is used by no slab any more, and the     *)
(* other slabs keep theirs.                                                *)
THEOREM UnbindRangeKeeps ==
  ASSUME NEW st, KmemKept(st), NEW s \in DOMAIN st.slab
  PROVE  LET n == UnbindRange(st, s)
         IN /\ KmemKept(n) /\ SameBounds(st, n)
            /\ n.free = st.free /\ n.used = st.used /\ n.ranges_to_free = st.ranges_to_free
            /\ n.owner = st.owner
            /\ n.ret = st.slab[s].range /\ n.ret \in ToSet(n.used)
            /\ n.range[n.ret].slab = NULL /\ DOMAIN n.slab = DOMAIN st.slab \ {s}
            /\ Coalesced(st) <=> Coalesced(n)
  <1> DEFINE n == UnbindRange(st, s)
             d == st.slab[s].range
  <1>1. KmemShape(st) /\ RangesKept(st) /\ Shaped(st)
    BY DEF KmemKept, KmemShape
  <1>2. /\ d \in ToSet(st.used) /\ d \in DOMAIN st.range /\ NULL \in Nat
        /\ ToSet(st.used) \subseteq DOMAIN st.range
        /\ st.range \in [DOMAIN st.range -> RangeRecord]
    BY <1>1, ShapeFacts DEF KmemShape, RangesKept, SlabsBound, NULL
  <1>3. Shaped(n)
    BY <1>1 DEF Shaped, UnbindRange
  <1>4. /\ n.free = st.free /\ n.used = st.used
        /\ n.ranges_to_free = st.ranges_to_free /\ n.owner = st.owner
        /\ n.range = [st.range EXCEPT ![d].slab = NULL]
        /\ n.slab = Restrict(st.slab, DOMAIN st.slab \ {s}) /\ n.ret = d
    BY <1>1, <1>3 DEF Shaped, Field, UnbindRange
  <1> HIDE DEF n
  <1>6. /\ DOMAIN n.slab = DOMAIN st.slab \ {s}
        /\ \A e \in DOMAIN st.slab : e # s => n.slab[e] = st.slab[e]
        /\ n.slab \in [DOMAIN n.slab -> SlabRecord]
    <2>1. /\ DOMAIN n.slab = DOMAIN st.slab \ {s}
          /\ \A e \in DOMAIN st.slab : e # s => n.slab[e] = st.slab[e]
          /\ n.slab = [e \in DOMAIN n.slab |-> n.slab[e]]
      BY <1>4 DEF Restrict
    <2>2. \A e \in DOMAIN n.slab : n.slab[e] \in SlabRecord
      BY <2>1, <1>1 DEF KmemShape
    <2> QED BY <2>1, <2>2
  <1>7. /\ n.range \in [DOMAIN st.range -> RangeRecord] /\ DOMAIN n.range = DOMAIN st.range
        /\ SameBounds(st, n)
        /\ \A e \in DOMAIN st.range : n.range[e].slab = IF e = d THEN NULL ELSE st.range[e].slab
    <2> HIDE DEF d
    <2> QED BY <1>2, <1>4, SlabFieldSet DEF SameBounds
  <1>8. /\ \A e \in DOMAIN st.range : End(n, e) = End(st, e) /\ PagesOf(n, e) = PagesOf(st, e)
        /\ \A e, f \in DOMAIN st.range : Apart(n, e, f) <=> Apart(st, e, f)
        /\ \A q \in Seq(DOMAIN st.range) :
             (Sorted(n, q) <=> Sorted(st, q)) /\ (Strict(n, q) <=> Strict(st, q))
    BY <1>7, SameBoundsSame
  <1>9. KmemShape(n)
    BY <1>1, <1>3, <1>4, <1>6, <1>7 DEF KmemShape
  <1>10. RangesApart(n)
    BY <1>1, <1>4, <1>7, <1>8 DEF RangesKept, RangesApart, SameBounds
  <1>11. ListsSorted(n)
    BY <1>1, <1>4, <1>8 DEF RangesKept, ListsSorted, KmemShape
  <1>12. OwnersKnown(n)
    BY <1>1, <1>4, <1>7, <1>8 DEF RangesKept, OwnersKnown
  <1>13. \A e \in DOMAIN st.slab : e # s => st.slab[e].range # d
    BY <1>1 DEF RangesKept, SlabsBound
  <1>14. SlabsBound(n)
    <2>1. ASSUME NEW e \in DOMAIN n.slab
          PROVE  n.slab[e].range \in ToSet(n.used) /\ n.range[n.slab[e].range].slab = e
      <3>1. e \in DOMAIN st.slab /\ e # s /\ n.slab[e] = st.slab[e] /\ st.slab[e].range # d
        BY <1>6, <1>13
      <3>2. st.slab[e].range \in ToSet(st.used) /\ st.range[st.slab[e].range].slab = e
        BY <3>1, <1>1 DEF RangesKept, SlabsBound
      <3> QED BY <3>1, <3>2, <1>2, <1>4, <1>7
    <2>2. ASSUME NEW e \in DOMAIN n.range, n.range[e].slab # NULL
          PROVE  n.range[e].slab \in DOMAIN n.slab /\ n.slab[n.range[e].slab].range = e
      <3>1. e \in DOMAIN st.range /\ e # d /\ n.range[e].slab = st.range[e].slab
        BY <2>2, <1>7
      <3>2. st.range[e].slab \in DOMAIN st.slab /\ st.slab[st.range[e].slab].range = e
        BY <3>1, <2>2, <1>1 DEF RangesKept, SlabsBound
      <3>3. st.range[e].slab # s
        BY <3>1, <3>2
      <3> QED BY <3>1, <3>2, <3>3, <1>6
    <2> QED BY <2>1, <2>2 DEF SlabsBound
  <1>15. SlabsFit(n)
    <2>1. \A e \in DOMAIN st.slab : st.slab[e].range \in DOMAIN st.range
      BY <1>1, <1>2 DEF RangesKept, SlabsBound
    <2> QED BY <2>1, <1>1, <1>6, <1>7 DEF RangesKept, SlabsFit, SameBounds
  <1>16. KmemKept(n)
    BY <1>9, <1>10, <1>11, <1>12, <1>14, <1>15 DEF KmemKept, RangesKept
  <1>17. Coalesced(st) <=> Coalesced(n)
    BY <1>1, <1>4, <1>8, <1>16, CoalescedIsStrict DEF KmemShape
  <1> QED BY <1>2, <1>4, <1>6, <1>7, <1>16, <1>17 DEF n

-----------------------------------------------------------------------------
(* THE DELETION OF A RANGE                                                 *)

(* A used range without slab leaves its list, to be deleted; the others    *)
(* stay sorted and mapped.                                                 *)
THEOREM UnusedKeeps ==
  ASSUME NEW st, KmemKept(st), NEW d \in ToSet(st.used), st.range[d].slab = NULL
  PROVE  LET n == Unused(st, d)
         IN /\ KmemKept(n) /\ InHand(n, d)
            /\ n.range = st.range /\ n.free = st.free /\ n.owner = st.owner
            /\ n.ranges_to_free = st.ranges_to_free
            /\ ToSet(n.used) = ToSet(st.used) \ {d}
            /\ Coalesced(st) <=> Coalesced(n)
  <1> DEFINE n == Unused(st, d)
  <1>1. KmemShape(st) /\ RangesKept(st) /\ Shaped(st)
    BY DEF KmemKept, KmemShape
  <1>2. /\ d \in DOMAIN st.range /\ ToSet(st.used) \subseteq DOMAIN st.range
        /\ st.used \in Seq(DOMAIN st.range) /\ Sorted(st, st.used) /\ IsInjective(st.used)
    BY <1>1, ShapeFacts DEF KmemShape, RangesKept, ListsSorted, Sorted
  <1>3. Shaped(n)
    BY <1>1 DEF Shaped, Unused
  <1>4. /\ n.range = st.range /\ n.free = st.free /\ n.used = RemoveFirst(st.used, d)
        /\ n.ranges_to_free = st.ranges_to_free /\ n.owner = st.owner /\ n.slab = st.slab
    BY <1>1, <1>3 DEF Shaped, Field, Unused
  <1> HIDE DEF n
  <1>5. /\ n.used \in Seq(DOMAIN st.range) /\ ToSet(n.used) = ToSet(st.used) \ {d}
        /\ Sorted(st, n.used)
    <2>1. n.used \in Seq(DOMAIN st.range) /\ ToSet(n.used) = ToSet(st.used) \ {d}
      BY <1>2, <1>4, Removed
    <2>2. Sorted(st, n.used)
      BY <1>2, <1>4, RemovedSorted
    <2> QED BY <2>1, <2>2
  <1>6. KmemShape(n)
    BY <1>1, <1>3, <1>4, <1>5 DEF KmemShape
  <1>7. RangesApart(n) /\ OwnersKnown(n)
    BY <1>1, <1>4 DEF RangesKept, RangesApart, OwnersKnown, Apart, End, PagesOf
  <1>8. ListsSorted(n)
    <2>1. Sorted(n, n.used) /\ Sorted(n, n.free)
      BY <1>1, <1>4, <1>5 DEF RangesKept, ListsSorted, Sorted, End
    <2> QED BY <2>1, <1>1, <1>4, <1>5 DEF RangesKept, ListsSorted
  <1>9. SlabsBound(n) /\ SlabsFit(n)
    <2>1. \A s \in DOMAIN st.slab : st.slab[s].range # d
      BY <1>1 DEF RangesKept, SlabsBound, KmemShape
    <2> QED BY <2>1, <1>1, <1>4, <1>5 DEF RangesKept, SlabsBound, SlabsFit
  <1>10. KmemKept(n)
    BY <1>6, <1>7, <1>8, <1>9 DEF KmemKept, RangesKept
  <1>11. InHand(n, d)
    BY <1>1, <1>2, <1>4, <1>5 DEF InHand, RangesKept, ListsSorted
  <1>12. Coalesced(st) <=> Coalesced(n)
    <2>1. \A i : Touch(n, i) <=> Touch(st, i)
      BY <1>4 DEF Touch, End
    <2> QED BY <2>1, <1>4 DEF Coalesced
  <1> QED BY <1>4, <1>5, <1>10, <1>11, <1>12 DEF n

(* The range of a slab that a merge has emptied is queued. *)
LEMMA QueuedKeeps ==
  ASSUME NEW st, KmemKept(st), st.ret \in ToSet(st.used), st.range[st.ret].slab = NULL
  PROVE  LET n == Queued(st)
         IN /\ KmemKept(n)
            /\ n.range = st.range /\ n.free = st.free /\ n.owner = st.owner
            /\ ToSet(n.used) = ToSet(st.used) \ {st.ret}
            /\ n.ranges_to_free = Append(st.ranges_to_free, st.ret)
  <1> DEFINE n == Queued(st)
             d == st.ret
  <1>1. KmemShape(st) /\ RangesKept(st) /\ Shaped(st)
    BY DEF KmemKept, KmemShape
  <1>2. /\ d \in DOMAIN st.range /\ d \in ToSet(st.used) /\ ToSet(st.used) \subseteq DOMAIN st.range
        /\ st.used \in Seq(DOMAIN st.range) /\ Sorted(st, st.used) /\ IsInjective(st.used)
        /\ st.ranges_to_free \in Seq(DOMAIN st.range) /\ IsInjective(st.ranges_to_free)
        /\ d \notin ToSet(st.ranges_to_free) /\ d \notin ToSet(st.free)
    BY <1>1, ShapeFacts DEF KmemShape, RangesKept, ListsSorted, Sorted
  <1>3. Shaped(n)
    BY <1>1 DEF Shaped, Queued
  <1>4. /\ n.range = st.range /\ n.free = st.free /\ n.used = RemoveFirst(st.used, d)
        /\ n.ranges_to_free = Append(st.ranges_to_free, d) /\ n.owner = st.owner
        /\ n.slab = st.slab
    BY <1>1, <1>3 DEF Shaped, Field, Queued
  <1> HIDE DEF n, d
  <1>5. /\ n.used \in Seq(DOMAIN st.range) /\ ToSet(n.used) = ToSet(st.used) \ {d}
        /\ Sorted(st, n.used)
    <2>1. n.used \in Seq(DOMAIN st.range) /\ ToSet(n.used) = ToSet(st.used) \ {d}
      BY <1>2, <1>4, Removed
    <2>2. Sorted(st, n.used)
      BY <1>2, <1>4, RemovedSorted
    <2> QED BY <2>1, <2>2
  <1>6. /\ n.ranges_to_free \in Seq(DOMAIN st.range) /\ IsInjective(n.ranges_to_free)
        /\ ToSet(n.ranges_to_free) = ToSet(st.ranges_to_free) \union {d}
    <2> DEFINE q == st.ranges_to_free
               D == DOMAIN st.range
    <2>1. q \in Seq(D) /\ d \in D /\ d \notin ToSet(q) /\ IsInjective(q)
      BY <1>2
    <2>2. n.ranges_to_free = Append(q, d)
      BY <1>4
    <2> HIDE DEF q, D
    <2>3. /\ Append(q, d) \in Seq(D) /\ IsInjective(Append(q, d))
          /\ ToSet(Append(q, d)) = ToSet(q) \union {d}
      BY <2>1, Appended
    <2> QED BY <2>2, <2>3 DEF q, D
  <1>7. KmemShape(n)
    BY <1>1, <1>3, <1>4, <1>5, <1>6 DEF KmemShape
  <1>8. RangesApart(n) /\ OwnersKnown(n)
    BY <1>1, <1>4 DEF RangesKept, RangesApart, OwnersKnown, Apart, End, PagesOf
  <1>9. ListsSorted(n)
    <2>1. Sorted(n, n.used) /\ Sorted(n, n.free)
      BY <1>1, <1>4, <1>5 DEF RangesKept, ListsSorted, Sorted, End
    <2> QED BY <2>1, <1>1, <1>2, <1>4, <1>5, <1>6 DEF RangesKept, ListsSorted
  <1>10. SlabsBound(n) /\ SlabsFit(n)
    <2>1. \A s \in DOMAIN st.slab : st.slab[s].range # d
      BY <1>1 DEF RangesKept, SlabsBound, KmemShape, d
    <2> QED BY <2>1, <1>1, <1>4, <1>5 DEF RangesKept, SlabsBound, SlabsFit
  <1>11. KmemKept(n)
    BY <1>7, <1>8, <1>9, <1>10 DEF KmemKept, RangesKept
  <1> QED BY <1>4, <1>5, <1>11 DEF n, d

(* The next range to delete leaves the queue, and KmemKept holds of the    *)
(* other ranges.                                                           *)
THEOREM DequeuedKeeps ==
  ASSUME NEW st, KmemKept(st), st.ranges_to_free # <<>>
  PROVE  LET n == Dequeued(st)
             d == Head(st.ranges_to_free)
         IN /\ KmemKept(n) /\ InHand(n, d)
            /\ n.range = st.range /\ n.free = st.free /\ n.used = st.used /\ n.owner = st.owner
            /\ ToSet(n.ranges_to_free) = ToSet(st.ranges_to_free) \ {d}
            /\ Coalesced(st) <=> Coalesced(n)
  <1> DEFINE n == Dequeued(st)
             d == Head(st.ranges_to_free)
  <1>1. KmemShape(st) /\ RangesKept(st) /\ Shaped(st)
    BY DEF KmemKept, KmemShape
  <1>2. Shaped(n)
    BY <1>1 DEF Shaped, Dequeued
  <1>3. /\ n.range = st.range /\ n.free = st.free /\ n.used = st.used
        /\ n.ranges_to_free = Tail(st.ranges_to_free) /\ n.owner = st.owner
        /\ n.slab = st.slab
    BY <1>1, <1>2 DEF Shaped, Field, Dequeued
  <1> HIDE DEF n, d
  <1>4. /\ n.ranges_to_free \in Seq(DOMAIN st.range) /\ IsInjective(n.ranges_to_free)
        /\ ToSet(n.ranges_to_free) = ToSet(st.ranges_to_free) \ {d}
        /\ d \in ToSet(st.ranges_to_free) /\ d \in DOMAIN st.range
    <2>1. st.ranges_to_free \in Seq(DOMAIN st.range) /\ IsInjective(st.ranges_to_free)
      BY <1>1 DEF KmemShape, RangesKept, ListsSorted
    <2> DEFINE q == st.ranges_to_free
               D == DOMAIN st.range
    <2>2. q \in Seq(D) /\ q # <<>> /\ IsInjective(q) /\ n.ranges_to_free = Tail(q) /\ d = Head(q)
      BY <2>1, <1>3 DEF d
    <2> HIDE DEF q, D
    <2>3. /\ Tail(q) \in Seq(D) /\ Head(q) \in D /\ IsInjective(Tail(q))
          /\ ToSet(Tail(q)) = ToSet(q) \ {Head(q)} /\ Head(q) \in ToSet(q)
      BY <2>2, Popped
    <2> QED BY <2>2, <2>3 DEF q, D
  <1>5. KmemShape(n)
    BY <1>1, <1>2, <1>3, <1>4 DEF KmemShape
  <1>6. RangesApart(n) /\ OwnersKnown(n)
    BY <1>1, <1>3 DEF RangesKept, RangesApart, OwnersKnown, Apart, End, PagesOf
  <1>7. ListsSorted(n)
    <2>1. Sorted(n, n.used) /\ Sorted(n, n.free)
      BY <1>1, <1>3 DEF RangesKept, ListsSorted, Sorted, End
    <2> QED BY <2>1, <1>1, <1>3, <1>4 DEF RangesKept, ListsSorted
  <1>8. SlabsBound(n) /\ SlabsFit(n)
    BY <1>1, <1>3 DEF RangesKept, SlabsBound, SlabsFit
  <1>9. KmemKept(n)
    BY <1>5, <1>6, <1>7, <1>8 DEF KmemKept, RangesKept
  <1>10. InHand(n, d)
    <2>1. st.range[d].slab = NULL
      BY <1>1, <1>4 DEF RangesKept, ListsSorted, SlabsBound
    <2> QED BY <2>1, <1>1, <1>3, <1>4 DEF InHand, RangesKept, ListsSorted
  <1>11. Coalesced(st) <=> Coalesced(n)
    <2>1. \A i : Touch(n, i) <=> Touch(st, i)
      BY <1>3 DEF Touch, End
    <2> QED BY <2>1, <1>3 DEF Coalesced
  <1> QED BY <1>3, <1>4, <1>9, <1>10, <1>11 DEF n, d

(* A range in hand joins the free ranges, and its pages have no owner. *)
LEMMA FreeRangeKeeps ==
  ASSUME NEW st, KmemKept(st), NEW d, InHand(st, d)
  PROVE  LET n == FreeRange(st, d)
         IN /\ KmemKept(n)
            /\ n.range = st.range /\ n.used = st.used /\ n.ranges_to_free = st.ranges_to_free
            /\ n.free = InsertRange(st, st.free, d)
            /\ ToSet(n.free) = ToSet(st.free) \union {d}
            /\ DOMAIN n.owner = DOMAIN st.owner \ PagesOf(st, d)
  <1> DEFINE n == FreeRange(st, d)
  <1>1. KmemShape(st) /\ RangesKept(st) /\ Shaped(st)
    BY DEF KmemKept, KmemShape
  <1>2. /\ d \in DOMAIN st.range /\ d \notin ToSet(st.free) /\ d \notin ToSet(st.used)
        /\ d \notin ToSet(st.ranges_to_free) /\ st.range[d].nb_pages > 0
        /\ ToSet(st.free) \subseteq DOMAIN st.range /\ HasBounds(st)
    BY <1>1, ShapeFacts DEF InHand, RangesKept, RangesApart
  <1>3. Shaped(n)
    BY <1>1 DEF Shaped, FreeRange
  <1>4. /\ n.range = st.range /\ n.free = InsertRange(st, st.free, d) /\ n.used = st.used
        /\ n.ranges_to_free = st.ranges_to_free /\ n.slab = st.slab
        /\ n.owner = Restrict(st.owner, DOMAIN st.owner \ PagesOf(st, d))
    BY <1>1, <1>3 DEF Shaped, Field, FreeRange
  <1> HIDE DEF n
  <1>5. /\ n.free \in Seq(DOMAIN st.range) /\ Sorted(st, n.free)
        /\ ToSet(n.free) = ToSet(st.free) \union {d}
    <2>1. st.free \in Seq(DOMAIN st.range) /\ Sorted(st, st.free)
      BY <1>1 DEF KmemShape, RangesKept, ListsSorted
    <2>2. \A e \in ToSet(st.free) : Apart(st, d, e)
      BY <1>1, <1>2 DEF RangesKept, RangesApart
    <2> QED BY <2>1, <2>2, <1>2, <1>4, Inserted
  <1>6. /\ DOMAIN n.owner = DOMAIN st.owner \ PagesOf(st, d)
        /\ \A p \in DOMAIN n.owner : n.owner[p] = st.owner[p]
        /\ n.owner \in [DOMAIN n.owner -> DOMAIN st.range]
    <2>1. /\ DOMAIN n.owner = DOMAIN st.owner \ PagesOf(st, d)
          /\ \A p \in DOMAIN n.owner : n.owner[p] = st.owner[p]
          /\ n.owner = [p \in DOMAIN n.owner |-> n.owner[p]]
      BY <1>4 DEF Restrict
    <2>2. \A p \in DOMAIN n.owner : n.owner[p] \in DOMAIN st.range
      BY <2>1, <1>1 DEF KmemShape
    <2> QED BY <2>1, <2>2
  <1>7. KmemShape(n)
    BY <1>1, <1>3, <1>4, <1>5, <1>6 DEF KmemShape
  <1>8. RangesApart(n)
    BY <1>1, <1>4, <1>5 DEF RangesKept, RangesApart, Apart, End
  <1>9. ListsSorted(n)
    <2>1. Sorted(n, n.used) /\ Sorted(n, n.free)
      BY <1>1, <1>4, <1>5 DEF RangesKept, ListsSorted, Sorted, End
    <2> QED BY <2>1, <1>1, <1>2, <1>4, <1>5 DEF RangesKept, ListsSorted
  <1>10. OwnersKnown(n)
    <2>1. \A e : PagesOf(n, e) = PagesOf(st, e)
      BY <1>4 DEF PagesOf, End
    <2> QED BY <2>1, <1>1, <1>4, <1>5, <1>6 DEF RangesKept, OwnersKnown
  <1>11. SlabsBound(n) /\ SlabsFit(n)
    BY <1>1, <1>4 DEF RangesKept, SlabsBound, SlabsFit
  <1>12. KmemKept(n)
    BY <1>7, <1>8, <1>9, <1>10, <1>11 DEF KmemKept, RangesKept
  <1> QED BY <1>4, <1>5, <1>6, <1>12 DEF n

-----------------------------------------------------------------------------
(* THE MERGE OF TWO FREE RANGES                                            *)

(* The range p extended by e, whose descriptor is gone. *)
IsJoin(table, p, e, t) ==
  /\ DOMAIN t = DOMAIN table \ {e} /\ t \in [DOMAIN t -> RangeRecord]
  /\ t[p].base = table[p].base /\ t[p].slab = table[p].slab
  /\ t[p].nb_pages = table[p].nb_pages + table[e].nb_pages
  /\ \A f \in DOMAIN t : f # p => t[f] = table[f]

(* The descriptors after a merge: the pages of the second go to the first. *)
LEMMA JoinTable ==
  ASSUME NEW table, table \in [DOMAIN table -> RangeRecord],
         NEW p \in DOMAIN table, NEW e \in DOMAIN table, p # e, NEW long, NEW t,
         long = [table EXCEPT ![p].nb_pages = @ + table[e].nb_pages],
         t = Restrict(long, DOMAIN long \ {e})
  PROVE  IsJoin(table, p, e, t)
  <1>1. /\ table[p] \in RangeRecord /\ table[p].nb_pages \in Nat /\ table[e].nb_pages \in Nat
    BY DEF RangeRecord
  <1>2. /\ DOMAIN long = DOMAIN table
        /\ long[p] = [table[p] EXCEPT !.nb_pages = table[p].nb_pages + table[e].nb_pages]
        /\ \A f \in DOMAIN table : f # p => long[f] = table[f]
    OBVIOUS
  <1>3. /\ long[p].base = table[p].base /\ long[p].slab = table[p].slab
        /\ long[p].nb_pages = table[p].nb_pages + table[e].nb_pages
        /\ long[p] \in RangeRecord
    BY <1>1, <1>2 DEF RangeRecord
  <1>4. /\ DOMAIN t = DOMAIN table \ {e} /\ \A f \in DOMAIN t : t[f] = long[f]
        /\ t = [f \in DOMAIN t |-> t[f]]
    BY <1>2 DEF Restrict
  <1>5. \A f \in DOMAIN t : t[f] \in RangeRecord
    <2>1. \A f \in DOMAIN table : table[f] \in RangeRecord
      OBVIOUS
    <2>2. \A f \in DOMAIN table : long[f] \in RangeRecord
      BY <2>1, <1>2, <1>3
    <2> QED BY <2>2, <1>2, <1>4
  <1>6. t \in [DOMAIN t -> RangeRecord]
    BY <1>4, <1>5
  <1> QED BY <1>2, <1>3, <1>4, <1>6 DEF IsJoin

(* Where the free ranges of n begin and end, when the one after place i of *)
(* st has been merged into that at place i.                                *)
FreeJoined(st, i, n) ==
  /\ Len(n.free) = Len(st.free) - 1
  /\ \A j \in 1 .. Len(n.free) :
       /\ n.range[n.free[j]].base = st.range[st.free[IF j <= i THEN j ELSE j + 1]].base
       /\ End(n, n.free[j]) = End(st, st.free[IF j < i THEN j ELSE j + 1])

(* The merge of two free ranges that touch, before the descriptor of the   *)
(* second is freed.                                                        *)
LEMMA JoinKeeps ==
  ASSUME NEW st, KmemKept(st), NEW i, Touch(st, i)
  PROVE  LET prev == st.free[i]
             next == st.free[i + 1]
             n == Forget(Join(st, prev, next), next)
         IN /\ KmemKept(n) /\ FreeJoined(st, i, n)
            /\ n.used = st.used /\ n.ranges_to_free = st.ranges_to_free /\ n.owner = st.owner
            /\ n.slab = st.slab
            /\ ToSet(n.free) = ToSet(st.free) \ {next}
            /\ Covered(n) = Covered(st)
            /\ next \in Nat
  <1> DEFINE prev == st.free[i]
             next == st.free[i + 1]
             m == Join(st, prev, next)
             n == Forget(m, next)
  <1>1. KmemShape(st) /\ RangesKept(st) /\ Shaped(st)
    BY DEF KmemKept, KmemShape
  <1>2. /\ st.range \in [DOMAIN st.range -> RangeRecord]
        /\ st.free \in Seq(DOMAIN st.range) /\ Sorted(st, st.free) /\ IsInjective(st.free)
        /\ Len(st.free) \in Nat /\ DOMAIN st.free = 1 .. Len(st.free)
        /\ \A j \in 1 .. Len(st.free) : st.free[j] \in DOMAIN st.range /\ st.free[j] \in ToSet(st.free)
    <2>1. st.free \in Seq(DOMAIN st.range) /\ Sorted(st, st.free)
      BY <1>1 DEF KmemShape, RangesKept, ListsSorted
    <2>2. /\ Len(st.free) \in Nat /\ DOMAIN st.free = 1 .. Len(st.free)
          /\ \A j \in 1 .. Len(st.free) : st.free[j] \in DOMAIN st.range /\ st.free[j] \in ToSet(st.free)
      BY <2>1, ElementsAreContained
    <2> QED BY <2>1, <2>2, <1>1 DEF KmemShape, Sorted
  <1>3. /\ i \in 1 .. Len(st.free) /\ i + 1 \in 1 .. Len(st.free) /\ i \in Nat
        /\ End(st, prev) = st.range[next].base
    BY <1>2 DEF Touch
  <1>4. /\ prev \in ToSet(st.free) /\ prev \in DOMAIN st.range
        /\ next \in ToSet(st.free) /\ next \in DOMAIN st.range /\ next \in Nat /\ prev # next
    <2>1. prev # next
      BY <1>2, <1>3 DEF IsInjective
    <2>2. next \in DOMAIN st.range /\ next \in Nat
      BY <1>1, <1>2, <1>3, ShapeFacts
    <2> QED BY <2>1, <2>2, <1>2, <1>3
  <1>5. /\ st.range[prev].base \in Nat /\ st.range[prev].nb_pages \in Nat
        /\ st.range[next].base \in Nat /\ st.range[next].nb_pages \in Nat
        /\ \A d \in DOMAIN st.range :
             st.range[d].base \in Nat /\ st.range[d].nb_pages \in Nat /\ End(st, d) \in Nat
    BY <1>1, <1>4, ShapeFacts
  <1>6. Shaped(m)
    <2>1. m = [f \in DOMAIN st |-> m[f]]
      BY DEF Join
    <2>2. DOMAIN st = Field
      BY <1>1 DEF Shaped
    <2> HIDE DEF m
    <2> QED BY <2>1, <2>2 DEF Shaped
  <1>7. /\ m.range = [st.range EXCEPT ![prev].nb_pages = @ + st.range[next].nb_pages]
        /\ m.free = RemoveFirst(st.free, next) /\ m.used = st.used
        /\ m.ranges_to_free = st.ranges_to_free /\ m.owner = st.owner /\ m.slab = st.slab
    <2> HIDE DEF prev, next
    <2> QED BY <1>1, <1>6 DEF Shaped, Field, Join
  <1> HIDE DEF m
  <1>8. Shaped(n)
    BY <1>6 DEF Shaped, Forget
  <1>9. /\ n.range = Restrict(m.range, DOMAIN m.range \ {next})
        /\ n.free = m.free /\ n.used = st.used
        /\ n.ranges_to_free = st.ranges_to_free /\ n.owner = st.owner /\ n.slab = st.slab
    <2> HIDE DEF prev, next
    <2> QED BY <1>6, <1>7, <1>8 DEF Shaped, Field, Forget
  <1> HIDE DEF n, prev, next
  <1>10. IsJoin(st.range, prev, next, n.range)
    BY <1>2, <1>4, <1>7, <1>9, JoinTable
  <1>11. /\ DOMAIN n.range = DOMAIN st.range \ {next}
         /\ \A d \in DOMAIN n.range :
              /\ n.range[d].base = st.range[d].base /\ n.range[d].slab = st.range[d].slab
              /\ d # prev => n.range[d].nb_pages = st.range[d].nb_pages /\ End(n, d) = End(st, d)
         /\ n.range[prev].nb_pages = st.range[prev].nb_pages + st.range[next].nb_pages
         /\ End(n, prev) = End(st, next)
         /\ prev \in DOMAIN n.range
    <2>1. \A d \in DOMAIN n.range : d # prev => n.range[d] = st.range[d]
      BY <1>10 DEF IsJoin
    <2>2. /\ n.range[prev].base = st.range[prev].base /\ n.range[prev].slab = st.range[prev].slab
          /\ n.range[prev].nb_pages = st.range[prev].nb_pages + st.range[next].nb_pages
          /\ DOMAIN n.range = DOMAIN st.range \ {next}
      BY <1>10 DEF IsJoin
    <2>3. End(n, prev) = End(st, next)
      <3>1. End(n, prev) = st.range[prev].base + (st.range[prev].nb_pages + st.range[next].nb_pages)
        BY <2>2 DEF End
      <3>2. st.range[prev].base + st.range[prev].nb_pages = st.range[next].base
        BY <1>3 DEF End
      <3> QED BY <3>1, <3>2, <1>5 DEF End
    <2>4. \A d \in DOMAIN n.range : d # prev => End(n, d) = End(st, d)
      BY <2>1 DEF End
    <2> QED BY <2>1, <2>2, <2>3, <2>4, <1>4
  <1>12. /\ n.free \in Seq(DOMAIN st.range) /\ IsInjective(n.free)
         /\ ToSet(n.free) = ToSet(st.free) \ {next}
         /\ Len(n.free) = Len(st.free) - 1
         /\ \A j \in 1 .. Len(n.free) : n.free[j] = st.free[IF j < i + 1 THEN j ELSE j + 1]
    <2> DEFINE q == st.free
               D == DOMAIN st.range
    <2>1. q \in Seq(D) /\ next \in ToSet(q) /\ IsInjective(q) /\ n.free = RemoveFirst(q, next)
      BY <1>2, <1>4, <1>7, <1>9
    <2>2. next = q[i + 1] /\ \A p \in 1 .. Len(q) : q[p] = next => p = i + 1
      BY <1>2, <1>3 DEF IsInjective, next
    <2> HIDE DEF q, D
    <2>3. /\ n.free \in Seq(D) /\ IsInjective(n.free)
          /\ ToSet(n.free) = ToSet(q) \ {next}
          /\ \E p \in 1 .. Len(q) :
               /\ q[p] = next /\ Len(n.free) = Len(q) - 1
               /\ \A j \in 1 .. Len(q) - 1 : n.free[j] = IF j < p THEN q[j] ELSE q[j + 1]
      BY <2>1, Removed
    <2>4. /\ Len(n.free) = Len(q) - 1
          /\ \A j \in 1 .. Len(q) - 1 : n.free[j] = IF j < i + 1 THEN q[j] ELSE q[j + 1]
      BY <2>2, <2>3
    <2> QED BY <2>3, <2>4 DEF q, D
  <1>13. FreeJoined(st, i, n)
    <2>1. ASSUME NEW j \in 1 .. Len(n.free)
          PROVE  /\ n.range[n.free[j]].base = st.range[st.free[IF j <= i THEN j ELSE j + 1]].base
                 /\ End(n, n.free[j]) = End(st, st.free[IF j < i THEN j ELSE j + 1])
      <3>1. /\ n.free[j] \in DOMAIN n.range /\ j \in Nat
            /\ n.free[j] = prev <=> j = i
        <4> DEFINE k == IF j < i + 1 THEN j ELSE j + 1
        <4>1. k \in 1 .. Len(st.free) /\ k # i + 1 /\ (k = i <=> j = i) /\ j \in Nat
          BY <1>2, <1>3, <1>12
        <4>2. n.free[j] = st.free[k]
          BY <1>12
        <4> HIDE DEF k
        <4>3. st.free[k] \in DOMAIN st.range /\ st.free[k] # next /\ (st.free[k] = prev <=> k = i)
          BY <4>1, <1>2, <1>3 DEF IsInjective, next, prev
        <4> QED BY <4>1, <4>2, <4>3, <1>11
      <3>2. CASE j = i
        BY <3>1, <3>2, <1>11, <1>3 DEF prev, next
      <3>3. CASE j # i
        <4> DEFINE k == IF j < i + 1 THEN j ELSE j + 1
        <4>1. /\ k = IF j <= i THEN j ELSE j + 1
              /\ k = IF j < i THEN j ELSE j + 1
          BY <3>1, <3>3, <1>3
        <4>2. n.free[j] = st.free[k] /\ n.free[j] \in DOMAIN n.range /\ n.free[j] # prev
          BY <3>1, <3>3, <1>12
        <4> HIDE DEF k
        <4>3. /\ n.range[n.free[j]].base = st.range[n.free[j]].base
              /\ End(n, n.free[j]) = End(st, n.free[j])
          BY <4>2, <1>11
        <4>4. /\ n.range[n.free[j]].base = st.range[st.free[k]].base
              /\ End(n, n.free[j]) = End(st, st.free[k])
          BY <4>2, <4>3
        <4> QED BY <4>1, <4>4
      <3> QED BY <3>2, <3>3
    <2> QED BY <2>1, <1>12 DEF FreeJoined
  <1>14. /\ ToSet(st.used) \subseteq DOMAIN n.range \ {prev} /\ st.used \in Seq(DOMAIN n.range)
         /\ ToSet(st.ranges_to_free) \subseteq DOMAIN n.range \ {prev}
         /\ st.ranges_to_free \in Seq(DOMAIN n.range)
         /\ n.free \in Seq(DOMAIN n.range)
    <2>1. /\ ToSet(st.used) \subseteq DOMAIN n.range \ {prev}
          /\ ToSet(st.ranges_to_free) \subseteq DOMAIN n.range \ {prev}
      BY <1>1, <1>4, <1>11, ShapeFacts DEF RangesKept, ListsSorted
    <2>2. /\ st.used \in Seq(DOMAIN st.range) /\ st.ranges_to_free \in Seq(DOMAIN st.range)
      BY <1>1 DEF KmemShape
    <2>3. /\ \A j \in 1 .. Len(st.used) : st.used[j] \in ToSet(st.used)
          /\ \A j \in 1 .. Len(st.ranges_to_free) : st.ranges_to_free[j] \in ToSet(st.ranges_to_free)
          /\ \A j \in 1 .. Len(n.free) : n.free[j] \in ToSet(n.free)
          /\ ToSet(n.free) \subseteq DOMAIN st.range
      BY <2>2, <1>12, ElementsAreContained
    <2>4. /\ \A j \in 1 .. Len(st.used) : st.used[j] \in DOMAIN n.range
          /\ \A j \in 1 .. Len(st.ranges_to_free) : st.ranges_to_free[j] \in DOMAIN n.range
          /\ \A j \in 1 .. Len(n.free) : n.free[j] \in DOMAIN n.range
      BY <2>1, <2>3, <1>11, <1>12
    <2>5. st.used \in Seq(DOMAIN n.range)
      BY <2>2, <2>4, SeqMono
    <2>6. st.ranges_to_free \in Seq(DOMAIN n.range)
      BY <2>2, <2>4, SeqMono
    <2>7. n.free \in Seq(DOMAIN n.range)
      BY <2>4, <1>12, SeqMono
    <2> QED BY <2>1, <2>5, <2>6, <2>7
  <1>15. \A p \in DOMAIN st.owner : st.owner[p] \in DOMAIN n.range \ {prev}
    BY <1>1, <1>4, <1>11 DEF RangesKept, OwnersKnown
  <1>16. KmemShape(n)
    <2>1. st.owner = [p \in DOMAIN st.owner |-> st.owner[p]]
      BY <1>1 DEF KmemShape
    <2>2. n.owner \in [DOMAIN n.owner -> DOMAIN n.range]
      BY <2>1, <1>9, <1>15
    <2>3. n.range \in [DOMAIN n.range -> RangeRecord]
      BY <1>10 DEF IsJoin
    <2> QED BY <2>2, <2>3, <1>1, <1>8, <1>9, <1>11, <1>14 DEF KmemShape
  <1>17. ASSUME NEW e \in DOMAIN n.range, e # prev
         PROVE  Apart(n, prev, e)
    <2>1. e \in DOMAIN st.range /\ e # next /\ n.range[e].base = st.range[e].base
          /\ End(n, e) = End(st, e) /\ End(n, prev) = End(st, next)
          /\ n.range[prev].base = st.range[prev].base
      BY <1>11, <1>17
    <2>2. CASE e \in ToSet(st.free)
      <3>1. PICK j \in 1 .. Len(st.free) : st.free[j] = e
        BY <2>2, <1>2, ElementsAreContained
      <3>2. j < i \/ j > i + 1
        BY <3>1, <1>2, <1>3, <1>17, <2>1 DEF prev, next
      <3>3. \A a, b \in 1 .. Len(st.free) : a < b => End(st, st.free[a]) <= st.range[st.free[b]].base
        BY <1>2 DEF Sorted
      <3>4. CASE j < i
        <4>1. End(st, e) <= st.range[prev].base
          BY <3>1, <3>3, <3>4, <1>3 DEF prev
        <4> QED BY <4>1, <2>1 DEF Apart
      <3>5. CASE j > i + 1
        <4>1. End(st, next) <= st.range[e].base
          BY <3>1, <3>3, <3>5, <1>3 DEF next
        <4> QED BY <4>1, <2>1 DEF Apart
      <3> QED BY <3>2, <3>4, <3>5
    <2>3. CASE e \notin ToSet(st.free)
      <3>1. st.range[e].nb_pages > 0 /\ Apart(st, prev, e) /\ Apart(st, next, e)
        BY <2>1, <2>3, <1>1, <1>4, <1>17 DEF RangesKept, RangesApart
      <3>2. st.range[e].base \in Nat /\ st.range[e].nb_pages \in Nat
        BY <2>1, <1>5
      <3>3. End(st, e) > st.range[e].base
        BY <3>1, <3>2 DEF End
      <3>4. /\ End(st, prev) \in Nat /\ End(st, next) \in Nat /\ End(st, e) \in Nat
            /\ End(st, prev) = st.range[next].base
        BY <1>3, <1>4, <1>5, <2>1
      <3> QED BY <3>1, <3>2, <3>3, <3>4, <2>1, <1>5 DEF Apart
    <2> QED BY <2>2, <2>3
  <1>18. RangesApart(n)
    <2>1. \A d, e \in DOMAIN n.range : d # e => Apart(n, d, e)
      <3>1. ASSUME NEW d \in DOMAIN n.range, NEW e \in DOMAIN n.range, d # e
            PROVE  Apart(n, d, e)
        <4>1. CASE d = prev
          BY <4>1, <3>1, <1>17
        <4>2. CASE e = prev
          BY <4>2, <3>1, <1>17 DEF Apart
        <4>3. CASE d # prev /\ e # prev
          <5>1. Apart(st, d, e)
            BY <3>1, <1>1, <1>11 DEF RangesKept, RangesApart
          <5> QED BY <5>1, <4>3, <1>11 DEF Apart
        <4> QED BY <4>1, <4>2, <4>3
      <3> QED BY <3>1
    <2>2. \A d \in DOMAIN n.range \ ToSet(n.free) : n.range[d].nb_pages > 0
      BY <1>1, <1>4, <1>11, <1>12 DEF RangesKept, RangesApart
    <2> QED BY <2>1, <2>2 DEF RangesApart
  <1>19. ListsSorted(n)
    <2>1. Sorted(n, n.free)
      <3>1. ASSUME NEW a \in 1 .. Len(n.free), NEW b \in 1 .. Len(n.free), a < b
            PROVE  End(n, n.free[a]) <= n.range[n.free[b]].base
        <4> DEFINE A == IF a < i THEN a ELSE a + 1
                   B == IF b <= i THEN b ELSE b + 1
        <4>1. A \in 1 .. Len(st.free) /\ B \in 1 .. Len(st.free) /\ A < B
          BY <3>1, <1>2, <1>3, <1>12
        <4>2. End(n, n.free[a]) = End(st, st.free[A]) /\ n.range[n.free[b]].base = st.range[st.free[B]].base
          BY <1>13 DEF FreeJoined
        <4> HIDE DEF A, B
        <4> QED BY <4>1, <4>2, <1>2 DEF Sorted
      <3> QED BY <3>1, <1>12 DEF Sorted
    <2>2. Sorted(n, n.used)
      <3>1. \A j \in 1 .. Len(st.used) : st.used[j] \in DOMAIN n.range \ {prev}
        BY <1>14, ElementsAreContained
      <3>2. \A j \in 1 .. Len(st.used) :
              End(n, st.used[j]) = End(st, st.used[j]) /\ n.range[st.used[j]].base = st.range[st.used[j]].base
        BY <3>1, <1>11
      <3>3. Sorted(st, st.used)
        BY <1>1 DEF RangesKept, ListsSorted
      <3> QED BY <3>2, <3>3, <1>9 DEF Sorted
    <2> QED BY <2>1, <2>2, <1>1, <1>9, <1>12 DEF RangesKept, ListsSorted
  <1>20. OwnersKnown(n)
    <2>1. \A d \in DOMAIN n.range \ {prev} : PagesOf(n, d) = PagesOf(st, d)
      BY <1>11 DEF PagesOf
    <2> QED BY <2>1, <1>1, <1>9, <1>12, <1>15 DEF RangesKept, OwnersKnown
  <1>21. SlabsBound(n)
    <2>1. SlabsBound(st)
      BY <1>1 DEF RangesKept
    <2>2. ASSUME NEW s \in DOMAIN n.slab
          PROVE  n.slab[s].range \in ToSet(n.used) /\ n.range[n.slab[s].range].slab = s
      <3>1. st.slab[s].range \in ToSet(st.used) /\ st.range[st.slab[s].range].slab = s
        BY <2>1, <2>2, <1>9 DEF SlabsBound
      <3>2. st.slab[s].range \in DOMAIN n.range
        BY <3>1, <1>14
      <3> QED BY <3>1, <3>2, <1>9, <1>11
    <2>3. ASSUME NEW d \in DOMAIN n.range, n.range[d].slab # NULL
          PROVE  n.range[d].slab \in DOMAIN n.slab /\ n.slab[n.range[d].slab].range = d
      BY <2>1, <2>3, <1>9, <1>11 DEF SlabsBound
    <2> QED BY <2>2, <2>3 DEF SlabsBound
  <1>22. SlabsFit(n)
    <2>1. ASSUME NEW s \in DOMAIN n.slab
          PROVE  LET d == n.slab[s].range
                 IN /\ n.range[d].base = n.slab[s].base
                    /\ n.range[d].nb_pages = Cache[n.slab[s].cache].pages
      <3>1. n.slab = st.slab /\ st.slab[s].range \in ToSet(st.used)
        BY <2>1, <1>1, <1>9 DEF RangesKept, SlabsBound
      <3>2. st.slab[s].range \in DOMAIN n.range /\ st.slab[s].range # prev
        BY <3>1, <1>14
      <3>3. /\ st.range[st.slab[s].range].base = st.slab[s].base
            /\ st.range[st.slab[s].range].nb_pages = Cache[st.slab[s].cache].pages
        BY <2>1, <3>1, <1>1 DEF RangesKept, SlabsFit
      <3> QED BY <3>1, <3>2, <3>3, <1>11
    <2> QED BY <2>1 DEF SlabsFit
  <1>23. KmemKept(n)
    BY <1>16, <1>18, <1>19, <1>20, <1>21, <1>22 DEF KmemKept, RangesKept
  <1>24. Covered(n) = Covered(st)
    <2>1. PagesOf(n, prev) = PagesOf(st, prev) \union PagesOf(st, next)
      <3>1. /\ n.range[prev].base = st.range[prev].base /\ End(n, prev) = End(st, next)
            /\ st.range[prev].base <= End(st, prev) /\ st.range[next].base <= End(st, next)
            /\ End(st, prev) \in Nat /\ End(st, next) \in Nat
        BY <1>4, <1>5, <1>11 DEF End
      <3> QED BY <3>1, <1>3, <1>5 DEF PagesOf
    <2>2. \A d \in DOMAIN n.range \ {prev} : PagesOf(n, d) = PagesOf(st, d)
      BY <1>11 DEF PagesOf
    <2> QED BY <2>1, <2>2, <1>4, <1>11 DEF Covered
  <1> QED BY <1>4, <1>9, <1>12, <1>13, <1>23, <1>24 DEF n, m, prev, next

(* The descriptor of the merged range is freed; when its slab gets empty,  *)
(* the range of that slab is queued, and no list loses a range.            *)
THEOREM MergeKeeps ==
  ASSUME NEW st, KmemKept(st), NEW i, Touch(st, i)
  PROVE  LET n == MergeTouching(st, i)
         IN /\ KmemKept(n) /\ FreeJoined(st, i, n)
            /\ n.owner = st.owner
            /\ ToSet(n.free) = ToSet(st.free) \ {st.free[i + 1]}
            /\ ToSet(n.used) \union ToSet(n.ranges_to_free)
                 = ToSet(st.used) \union ToSet(st.ranges_to_free)
            /\ Covered(n) = Covered(st)
  <1> DEFINE prev == st.free[i]
             next == st.free[i + 1]
             j == Forget(Join(st, prev, next), next)
             f == FreeObject(j, next)
             g == DropSlab(f, f.ret)
             u == UnbindRange(g, f.ret)
             n == MergeTouching(st, i)
  <1>1. /\ KmemKept(j) /\ FreeJoined(st, i, j) /\ next \in Nat
        /\ j.used = st.used /\ j.ranges_to_free = st.ranges_to_free /\ j.owner = st.owner
        /\ ToSet(j.free) = ToSet(st.free) \ {next} /\ Covered(j) = Covered(st)
    BY JoinKeeps
  <1>2. n = Merge(st, prev, next)
    BY DEF MergeTouching
  <1>3. n = AndThen(AndThen(f, LAMBDA freed : UnbindRange(DropSlab(freed, freed.ret), freed.ret)), Queued)
    BY <1>2 DEF Merge, ReleaseStructRange
  <1> HIDE DEF prev, next, j
  <1>4. /\ KmemKept(f) /\ SameRanges(j, f)
        /\ f.ret # NULL => f.ret \in DOMAIN f.slab
    BY <1>1, FreeObjectKeeps
  <1>5. /\ f.range = j.range /\ f.free = j.free /\ f.used = j.used
        /\ f.ranges_to_free = j.ranges_to_free /\ f.owner = j.owner
    BY <1>4 DEF SameRanges
  <1> HIDE DEF f
  <1>6. CASE f.ret = NULL
    <2>1. n = f
      BY <1>3, <1>6 DEF AndThen
    <2>2. FreeJoined(st, i, f) /\ Covered(f) = Covered(j)
      BY <1>1, <1>5 DEF FreeJoined, End, Covered, PagesOf
    <2> QED BY <2>1, <2>2, <1>1, <1>4, <1>5 DEF n, next
  <1>7. CASE f.ret # NULL
    <2>1. /\ KmemKept(g) /\ SameRanges(f, g) /\ f.ret \in DOMAIN g.slab
          /\ g.range = f.range /\ g.free = f.free /\ g.used = f.used
          /\ g.ranges_to_free = f.ranges_to_free /\ g.owner = f.owner
      BY <1>4, <1>7, DropSlabKeeps DEF SameRanges
    <2> HIDE DEF g
    <2>2. /\ KmemKept(u) /\ SameBounds(g, u)
          /\ u.free = g.free /\ u.used = g.used /\ u.ranges_to_free = g.ranges_to_free
          /\ u.owner = g.owner
          /\ u.ret \in ToSet(u.used) /\ u.range[u.ret].slab = NULL
      BY <2>1, UnbindRangeKeeps
    <2>3. n = AndThen(AndThen(f, LAMBDA freed : UnbindRange(DropSlab(freed, freed.ret), freed.ret)), Queued)
      BY <1>3
    <2>4. n = AndThen(u, Queued)
      BY <2>3, <1>7 DEF AndThen, u, g
    <2> HIDE DEF u, n
    <2>5. u.ret # NULL
      BY <2>2, ShapeFacts DEF KmemKept
    <2>6. n = Queued(u)
      BY <2>4, <2>5 DEF AndThen
    <2>7. /\ KmemKept(n) /\ n.range = u.range /\ n.free = u.free /\ n.owner = u.owner
          /\ ToSet(n.used) = ToSet(u.used) \ {u.ret}
          /\ n.ranges_to_free = Append(u.ranges_to_free, u.ret)
      BY <2>2, <2>6, QueuedKeeps
    <2>8. ToSet(n.ranges_to_free) = ToSet(u.ranges_to_free) \union {u.ret}
      <3> DEFINE q == u.ranges_to_free
                 D == DOMAIN u.range
      <3>1. /\ q \in Seq(D) /\ u.ret \in D /\ IsInjective(q) /\ u.ret \notin ToSet(q)
        BY <2>2, ShapeFacts DEF KmemKept, KmemShape, RangesKept, ListsSorted
      <3> HIDE DEF q, D
      <3>2. ToSet(Append(q, u.ret)) = ToSet(q) \union {u.ret}
        BY <3>1, Appended
      <3> QED BY <3>2, <2>7 DEF q
    <2>9. Covered(u) = Covered(g)
      BY <2>2, SameBoundsSame
    <2>10. Covered(n) = Covered(st)
      BY <2>1, <2>7, <2>9, <1>1, <1>5 DEF Covered, PagesOf, End
    <2>11. FreeJoined(st, i, n)
      <3>1. \A k \in 1 .. Len(j.free) : j.free[k] \in DOMAIN j.range
        BY <1>1, ElementsAreContained DEF KmemKept, KmemShape
      <3>2. j.range = g.range /\ n.free = j.free /\ n.range = u.range
        BY <2>1, <2>2, <2>7, <1>5
      <3>3. \A k \in 1 .. Len(j.free) :
              /\ n.range[n.free[k]].base = j.range[j.free[k]].base
              /\ n.range[n.free[k]].nb_pages = j.range[j.free[k]].nb_pages
        BY <3>1, <3>2, <2>2 DEF SameBounds
      <3> QED BY <3>2, <3>3, <1>1 DEF FreeJoined, End
    <2>12. /\ n.owner = st.owner /\ ToSet(n.free) = ToSet(st.free) \ {next}
           /\ ToSet(u.used) = ToSet(st.used) /\ ToSet(u.ranges_to_free) = ToSet(st.ranges_to_free)
      BY <2>1, <2>2, <2>7, <1>1, <1>5
    <2> QED BY <2>2, <2>7, <2>8, <2>10, <2>11, <2>12 DEF n, next
  <1> QED BY <1>6, <1>7

(* After a merge, the free ranges that touch are those that touched. *)
LEMMA TouchAfterMerge ==
  ASSUME NEW st, KmemKept(st), NEW i, Touch(st, i), NEW n, FreeJoined(st, i, n),
         NEW j, Touch(n, j)
  PROVE  Touch(st, IF j < i THEN j ELSE j + 1)
  <1>1. Len(st.free) \in Nat
    BY LenProperties DEF KmemKept, KmemShape
  <1>2. /\ i \in 1 .. Len(st.free) - 1 /\ Len(n.free) = Len(st.free) - 1
        /\ j \in 1 .. Len(n.free) - 1 /\ j + 1 \in 1 .. Len(n.free) /\ j \in 1 .. Len(n.free)
    BY <1>1 DEF Touch, FreeJoined
  <1>3. /\ End(n, n.free[j]) = End(st, st.free[IF j < i THEN j ELSE j + 1])
        /\ n.range[n.free[j + 1]].base = st.range[st.free[IF j + 1 <= i THEN j + 1 ELSE j + 1 + 1]].base
        /\ End(n, n.free[j]) = n.range[n.free[j + 1]].base
    BY <1>2 DEF FreeJoined, Touch
  <1>4. CASE j < i
    <2>1. j + 1 <= i /\ j \in 1 .. Len(st.free) - 1
      BY <1>1, <1>2, <1>4
    <2> QED BY <2>1, <1>3, <1>4 DEF Touch
  <1>5. CASE ~ (j < i)
    <2>1. ~ (j + 1 <= i) /\ j + 1 \in 1 .. Len(st.free) - 1
      BY <1>1, <1>2, <1>5
    <2> QED BY <2>1, <1>3, <1>5 DEF Touch
  <1> QED BY <1>4, <1>5

(* A free range that does not begin after the page, before one that does,  *)
(* is the one that precedes the page.                                      *)
LEMMA PrecedingIs ==
  ASSUME NEW st, KmemKept(st), NEW page \in Nat, NEW i \in 1 .. Len(st.free),
         st.range[st.free[i]].base <= page,
         i < Len(st.free) => ~ (st.range[st.free[i + 1]].base <= page)
  PROVE  Preceding(st, st.free, page) = i
  <1> DEFINE p == Preceding(st, st.free, page)
  <1>1. /\ HasBounds(st) /\ st.free \in Seq(DOMAIN st.range) /\ Sorted(st, st.free)
        /\ Len(st.free) \in Nat
    BY ShapeFacts, LenProperties DEF KmemKept, KmemShape, RangesKept, ListsSorted
  <1>2. /\ p \in 0 .. Len(st.free)
        /\ \A k \in 1 .. Len(st.free) : k <= p <=> st.range[st.free[k]].base <= page
    BY <1>1, PrecedingSplits
  <1> HIDE DEF p
  <1>3. i <= p
    BY <1>2
  <1>4. i < Len(st.free) => i + 1 \in 1 .. Len(st.free) /\ ~ (i + 1 <= p)
    BY <1>1, <1>2
  <1> QED BY <1>1, <1>2, <1>3, <1>4 DEF p

(* What freeing a range leaves, when no two free ranges touched: only that *)
(* one touches its neighbours.                                             *)
LEMMA OnlyTheNewTouches ==
  ASSUME NEW st, KmemKept(st), Coalesced(st), NEW d, InHand(st, d)
  PROVE  LET f == FreeRange(st, d)
         IN \E k \in 1 .. Len(f.free) :
              /\ f.free[k] = d
              /\ \A i : Touch(f, i) => i = k - 1 \/ i = k
              /\ \A i \in 1 .. Len(f.free) :
                   f.range[f.free[i]].base <= f.range[d].base <=> i <= k
  <1> DEFINE f == FreeRange(st, d)
             k == Preceding(st, st.free, st.range[d].base) + 1
  <1>1. /\ HasBounds(st) /\ st.free \in Seq(DOMAIN st.range) /\ Sorted(st, st.free)
        /\ Len(st.free) \in Nat /\ d \in DOMAIN st.range \ ToSet(st.free)
        /\ st.range[d].nb_pages > 0
        /\ \A e \in ToSet(st.free) : Apart(st, d, e)
    BY ShapeFacts, LenProperties
       DEF KmemKept, KmemShape, RangesKept, ListsSorted, RangesApart, InHand
  <1>2. f.range = st.range /\ f.free = InsertRange(st, st.free, d)
    BY FreeRangeKeeps
  <1>3. /\ k - 1 \in 0 .. Len(st.free) /\ Len(f.free) = Len(st.free) + 1
        /\ \A j \in 1 .. Len(st.free) + 1 :
             f.free[j] = IF j < k THEN st.free[j] ELSE IF j = k THEN d ELSE st.free[j - 1]
        /\ \A j \in 1 .. Len(st.free) :
             IF j <= k - 1 THEN End(st, st.free[j]) <= st.range[d].base
                           ELSE End(st, d) <= st.range[st.free[j]].base
    BY <1>1, <1>2, Inserted
  <1>4. k \in 1 .. Len(f.free) /\ k \in Nat /\ f.free[k] = d
    <2> DEFINE p == Preceding(st, st.free, st.range[d].base)
    <2>1. k = p + 1 /\ p \in 0 .. Len(st.free)
      BY <1>1, <1>2, Inserted
    <2> HIDE DEF p, k, f
    <2>2. k \in 1 .. Len(st.free) + 1 /\ ~ (k < k)
      BY <2>1, <1>1
    <2> QED BY <2>2, <1>3
  <1> HIDE DEF f, k
  <1>5. ASSUME NEW i, Touch(f, i), i # k - 1, i # k PROVE FALSE
    <2>1. i \in 1 .. Len(st.free) /\ End(st, f.free[i]) = st.range[f.free[i + 1]].base
      BY <1>1, <1>2, <1>3, <1>5 DEF Touch, End
    <2>2. CASE i < k
      <3>1. i + 1 < k /\ i \in 1 .. Len(st.free) - 1
        BY <2>1, <2>2, <1>1, <1>3, <1>4, <1>5
      <3>2. f.free[i] = st.free[i] /\ f.free[i + 1] = st.free[i + 1]
        BY <3>1, <2>2, <1>1, <1>3
      <3> QED BY <3>1, <3>2, <2>1 DEF Coalesced, Touch
    <2>3. CASE i > k
      <3>1. i - 1 \in 1 .. Len(st.free) - 1 /\ (i - 1) + 1 = i /\ (i + 1) - 1 = i
        BY <2>1, <2>3, <1>1, <1>4
      <3>2. f.free[i] = st.free[i - 1] /\ f.free[i + 1] = st.free[i]
        <4>1. /\ i \in 1 .. Len(st.free) + 1 /\ i + 1 \in 1 .. Len(st.free) + 1
              /\ ~ (i < k) /\ i # k /\ ~ (i + 1 < k) /\ i + 1 # k
          BY <2>1, <2>3, <1>1, <1>4
        <4> QED BY <4>1, <3>1, <1>3
      <3> QED BY <3>1, <3>2, <2>1 DEF Coalesced, Touch
    <2> QED BY <2>1, <2>2, <2>3, <1>4, <1>5
  <1>6. ASSUME NEW i \in 1 .. Len(f.free)
        PROVE  f.range[f.free[i]].base <= f.range[d].base <=> i <= k
    <2>1. st.range[d].base \in Nat /\ st.range[d].nb_pages \in Nat
      BY <1>1 DEF HasBounds
    <2>2. CASE i < k
      <3>1. i \in 1 .. Len(st.free) /\ i <= k - 1 /\ f.free[i] = st.free[i]
        BY <2>2, <1>1, <1>3, <1>4
      <3>2. End(st, st.free[i]) <= st.range[d].base
        BY <3>1, <1>3
      <3>3. st.range[st.free[i]].base \in Nat /\ st.range[st.free[i]].nb_pages \in Nat
        BY <3>1, <1>1, ElementsAreContained DEF HasBounds
      <3> QED BY <3>1, <3>2, <3>3, <2>1, <2>2, <1>2, <1>4 DEF End
    <2>3. CASE i = k
      BY <2>1, <2>3, <1>2, <1>4
    <2>4. CASE i > k
      <3>1. i - 1 \in 1 .. Len(st.free) /\ ~ (i - 1 <= k - 1) /\ f.free[i] = st.free[i - 1]
        BY <2>4, <1>1, <1>3, <1>4
      <3>2. End(st, d) <= st.range[st.free[i - 1]].base
        BY <3>1, <1>3
      <3>3. st.range[st.free[i - 1]].base \in Nat
        BY <3>1, <1>1, ElementsAreContained DEF HasBounds
      <3> QED BY <3>1, <3>2, <3>3, <2>1, <2>4, <1>1, <1>2, <1>4 DEF End
    <2> QED BY <2>2, <2>3, <2>4, <1>4
  <1> QED BY <1>4, <1>5, <1>6 DEF f

(* The loop of sos_kmem_vmm_del_range(): the range in hand becomes free,   *)
(* with its two neighbours when they touch it, and no two free ranges      *)
(* touch; no page is lost, and those of the range have no owner any more.  *)
THEOREM FreedAndMergedKeeps ==
  ASSUME NEW st, KmemKept(st), Coalesced(st), NEW d, InHand(st, d)
  PROVE  LET n == FreedAndMerged(st, d)
         IN /\ KmemKept(n) /\ Coalesced(n)
            /\ Covered(n) = Covered(st)
            /\ DOMAIN n.owner = DOMAIN st.owner \ PagesOf(st, d)
            /\ ToSet(n.used) \union ToSet(n.ranges_to_free)
                 = ToSet(st.used) \union ToSet(st.ranges_to_free)
  <1> DEFINE f == FreeRange(st, d)
             page == st.range[d].base
             g == MergePrevious(f, page)
             n == MergeNext(g, page)
             Same(x) == /\ KmemKept(x) /\ Covered(x) = Covered(st)
                        /\ DOMAIN x.owner = DOMAIN st.owner \ PagesOf(st, d)
                        /\ ToSet(x.used) \union ToSet(x.ranges_to_free)
                             = ToSet(st.used) \union ToSet(st.ranges_to_free)
  <1>1. Same(f) /\ f.range = st.range
    <2>1. /\ KmemKept(f) /\ f.range = st.range /\ f.used = st.used
          /\ f.ranges_to_free = st.ranges_to_free
          /\ DOMAIN f.owner = DOMAIN st.owner \ PagesOf(st, d)
      BY FreeRangeKeeps
    <2> HIDE DEF f
    <2>2. Covered(f) = Covered(st)
      BY <2>1 DEF Covered, PagesOf, End
    <2> QED BY <2>1, <2>2
  <1>2. PICK k \in 1 .. Len(f.free) :
          /\ f.free[k] = d
          /\ \A i : Touch(f, i) => i = k - 1 \/ i = k
          /\ \A i \in 1 .. Len(f.free) : f.range[f.free[i]].base <= f.range[d].base <=> i <= k
    BY OnlyTheNewTouches
  <1> HIDE DEF f
  <1>3. page \in Nat /\ Len(f.free) \in Nat
    BY <1>1, ShapeFacts, LenProperties DEF InHand, KmemKept, KmemShape
  <1>4. Preceding(f, f.free, page) = k
    <2>1. k < Len(f.free) => k + 1 \in 1 .. Len(f.free) /\ ~ (k + 1 <= k)
      BY <1>3
    <2> HIDE DEF page
    <2>2. f.range[d].base = page
      BY <1>1 DEF page
    <2>3. f.range[f.free[k]].base <= page
      BY <1>2, <1>3, <2>2
    <2> QED BY <2>1, <2>2, <2>3, <1>1, <1>2, <1>3, PrecedingIs
  <1>5. g = MergeTouching(f, k - 1)
    BY <1>4 DEF MergePrevious
  <1>6. ASSUME NEW x, Same(x), NEW i, x = g, Preceding(x, x.free, page) = i,
               \A j : Touch(x, j) => j = i
        PROVE  Same(n) /\ Coalesced(n)
    <2>1. n = MergeTouching(x, i)
      BY <1>6 DEF MergeNext
    <2> HIDE DEF n, g, page
    <2>2. CASE ~ Touch(x, i)
      BY <2>1, <2>2, <1>6 DEF MergeTouching, Coalesced
    <2>3. CASE Touch(x, i)
      <3>1. Same(n) /\ FreeJoined(x, i, n)
        BY <2>1, <2>3, <1>6, MergeKeeps
      <3>2. ASSUME NEW j, Touch(n, j) PROVE FALSE
        <4>1. Touch(x, IF j < i THEN j ELSE j + 1)
          BY <2>3, <3>1, <3>2, <1>6, TouchAfterMerge
        <4>2. j \in Int /\ i \in Int
          BY <2>3, <3>2 DEF Touch
        <4>3. (IF j < i THEN j ELSE j + 1) = i
          BY <4>1, <1>6
        <4> QED BY <4>2, <4>3
      <3> QED BY <3>1, <3>2 DEF Coalesced
    <2> QED BY <2>2, <2>3
  <1>7. CASE ~ Touch(f, k - 1)
    <2>1. g = f
      BY <1>5, <1>7 DEF MergeTouching
    <2>2. \A j : Touch(f, j) => j = k
      BY <1>2, <1>7
    <2>3. Same(n) /\ Coalesced(n)
      <3> HIDE DEF n, g, page, Same
      <3> QED BY <2>1, <2>2, <1>1, <1>4, <1>6
    <2> QED BY <2>3, <1>1 DEF FreedAndMerged, f
  <1>8. CASE Touch(f, k - 1)
    <2>1. Same(g) /\ FreeJoined(f, k - 1, g)
      BY <1>1, <1>5, <1>8, MergeKeeps
    <2> HIDE DEF g, n
    <2>2. k \in Nat /\ k - 1 \in 1 .. Len(f.free) - 1 /\ k \in 1 .. Len(f.free)
      BY <1>3, <1>8 DEF Touch
    <2>3. \A j : Touch(g, j) => j = k - 1
      <3>1. ASSUME NEW j, Touch(g, j) PROVE j = k - 1
        <4>1. Touch(f, IF j < k - 1 THEN j ELSE j + 1)
          BY <3>1, <2>1, <1>1, <1>8, TouchAfterMerge
        <4>2. (IF j < k - 1 THEN j ELSE j + 1) \in {k - 1, k} /\ j \in Int
          <5>1. j \in Int
            BY <3>1 DEF Touch
          <5> QED BY <4>1, <5>1, <1>2
        <4> QED BY <4>2, <2>2
      <3> QED BY <3>1
    <2>4. Preceding(g, g.free, page) = k - 1
      <3>1. /\ Len(g.free) = Len(f.free) - 1 /\ k - 1 \in 1 .. Len(g.free)
            /\ k - 1 < Len(g.free) =>
                 k \in 1 .. Len(g.free) /\ k + 1 \in 1 .. Len(f.free) /\ (k - 1) + 1 = k
        BY <2>1, <2>2, <1>3 DEF FreeJoined
      <3>2. g.range[g.free[k - 1]].base = f.range[f.free[k - 1]].base
        BY <2>1, <2>2, <3>1 DEF FreeJoined
      <3>3. k - 1 < Len(g.free) => g.range[g.free[k]].base = f.range[f.free[k + 1]].base
        BY <2>1, <2>2, <3>1 DEF FreeJoined
      <3>4. g.range[g.free[k - 1]].base <= page
        BY <2>2, <3>2, <1>1, <1>2, <1>3
      <3>5. k - 1 < Len(g.free) => ~ (g.range[g.free[(k - 1) + 1]].base <= page)
        BY <2>2, <3>1, <3>3, <1>1, <1>2, <1>3
      <3> HIDE DEF page
      <3> QED BY <3>1, <3>4, <3>5, <2>1, <1>3, PrecedingIs
    <2>5. Same(n) /\ Coalesced(n)
      <3> HIDE DEF page, Same
      <3> QED BY <2>1, <2>3, <2>4, <1>6
    <2> QED BY <2>5, <1>1 DEF FreedAndMerged, f, g, n
  <1> QED BY <1>7, <1>8

(* The ranges that are used, or that wait for their deletion. *)
Pending(st) == ToSet(st.used) \union ToSet(st.ranges_to_free)

(* sos_kmem_vmm_del_range(): its first turn frees the range it was given. *)
THEOREM DeletionStarts ==
  ASSUME NEW st, KmemKept(st), Coalesced(st),
         NEW d \in ToSet(st.used), st.range[d].slab = NULL
  PROVE  LET n == FreedAndMerged(Unused(st, d), d)
         IN /\ KmemKept(n) /\ Coalesced(n) /\ Covered(n) = Covered(st)
            /\ DOMAIN n.owner = DOMAIN st.owner \ PagesOf(st, d)
            /\ Pending(n) = Pending(st) \ {d}
  <1> DEFINE u == Unused(st, d)
             n == FreedAndMerged(u, d)
  <1>1. /\ KmemKept(u) /\ InHand(u, d) /\ Coalesced(u)
        /\ u.range = st.range /\ u.owner = st.owner
        /\ u.ranges_to_free = st.ranges_to_free
        /\ ToSet(u.used) = ToSet(st.used) \ {d}
    BY UnusedKeeps
  <1> HIDE DEF u
  <1>2. /\ KmemKept(n) /\ Coalesced(n) /\ Covered(n) = Covered(u)
        /\ DOMAIN n.owner = DOMAIN u.owner \ PagesOf(u, d)
        /\ ToSet(n.used) \union ToSet(n.ranges_to_free)
              = ToSet(u.used) \union ToSet(u.ranges_to_free)
    BY <1>1, FreedAndMergedKeeps
  <1>3. Covered(u) = Covered(st) /\ PagesOf(u, d) = PagesOf(st, d)
    BY <1>1 DEF Covered, PagesOf, End
  <1>4. d \notin ToSet(st.ranges_to_free)
    BY DEF KmemKept, RangesKept, ListsSorted
  <1> QED BY <1>1, <1>2, <1>3, <1>4 DEF Pending, u

(* Its next turns free the ranges that the merges have queued.  Each turn  *)
(* keeps the invariant and takes one range out of a set that none enters:  *)
(* the loop ends.                                                          *)
THEOREM DeletionTurns ==
  ASSUME NEW st, KmemKept(st), Coalesced(st), st.ranges_to_free # <<>>
  PROVE  LET d == Head(st.ranges_to_free)
             n == FreedAndMerged(Dequeued(st), d)
         IN /\ KmemKept(n) /\ Coalesced(n) /\ Covered(n) = Covered(st)
            /\ DOMAIN n.owner = DOMAIN st.owner \ PagesOf(st, d)
            /\ d \in Pending(st) /\ Pending(n) = Pending(st) \ {d}
  <1> DEFINE d == Head(st.ranges_to_free)
             u == Dequeued(st)
             n == FreedAndMerged(u, d)
  <1>1. /\ KmemKept(u) /\ InHand(u, d) /\ Coalesced(u)
        /\ u.range = st.range /\ u.owner = st.owner /\ u.used = st.used
        /\ ToSet(u.ranges_to_free) = ToSet(st.ranges_to_free) \ {d}
    BY DequeuedKeeps
  <1>2. d \in ToSet(st.ranges_to_free) /\ d \notin ToSet(st.used)
    <2> DEFINE q == st.ranges_to_free
               D == DOMAIN st.range
    <2>1. q \in Seq(D) /\ IsInjective(q) /\ q # <<>>
      BY DEF KmemKept, KmemShape, RangesKept, ListsSorted
    <2> HIDE DEF q, D
    <2>2. Head(q) \in ToSet(q)
      BY <2>1, Popped
    <2> QED BY <2>2 DEF q, KmemKept, RangesKept, ListsSorted
  <1> HIDE DEF u, d
  <1>3. /\ KmemKept(n) /\ Coalesced(n) /\ Covered(n) = Covered(u)
        /\ DOMAIN n.owner = DOMAIN u.owner \ PagesOf(u, d)
        /\ ToSet(n.used) \union ToSet(n.ranges_to_free)
              = ToSet(u.used) \union ToSet(u.ranges_to_free)
    BY <1>1, FreedAndMergedKeeps
  <1>4. Covered(u) = Covered(st) /\ PagesOf(u, d) = PagesOf(st, d)
    BY <1>1 DEF Covered, PagesOf, End
  <1> QED BY <1>1, <1>2, <1>3, <1>4 DEF Pending, u, d

-----------------------------------------------------------------------------
(* WHAT THE INVARIANT GIVES TO THE CALLERS                                 *)

(* Where a slab, its used range and its objects lie: the objects in the    *)
(* pages of the range.                                                     *)
LEMMA SlabLies ==
  ASSUME NEW st, KmemKept(st), NEW s \in DOMAIN st.slab
  PROVE  LET c == st.slab[s].cache
             d == st.slab[s].range
         IN /\ c \in DOMAIN Cache /\ d \in ToSet(st.used) /\ d \in DOMAIN st.range
            /\ st.range[d].slab = s /\ st.slab[s].base \in Nat
            /\ st.range[d].base = st.slab[s].base
            /\ End(st, d) = st.slab[s].base + Cache[c].pages
            /\ Cache[c].pages \in Nat /\ Cache[c].size \in Nat \ {0}
            /\ Objects(st, s) = ObjectsAt(c, st.slab[s].base)
  <1>1. st.slab[s] \in SlabRecord /\ KmemShape(st) /\ SlabsBound(st) /\ SlabsFit(st)
    BY DEF KmemKept, KmemShape, RangesKept
  <1>2. st.slab[s].cache \in DOMAIN Cache /\ st.slab[s].base \in Nat
    BY <1>1 DEF SlabRecord
  <1>3. /\ st.slab[s].range \in ToSet(st.used) /\ st.slab[s].range \in DOMAIN st.range
        /\ st.range[st.slab[s].range].slab = s
    BY <1>1, ShapeFacts DEF SlabsBound
  <1>4. /\ st.range[st.slab[s].range].base = st.slab[s].base
        /\ st.range[st.slab[s].range].nb_pages = Cache[st.slab[s].cache].pages
    BY <1>1 DEF SlabsFit
  <1>5. Cache[st.slab[s].cache].pages \in Nat /\ Cache[st.slab[s].cache].size \in Nat \ {0}
    BY <1>2, GeometryFits
  <1> QED BY <1>2, <1>3, <1>4, <1>5 DEF End, Objects

(* An object lies in the range of its slab, from its first byte to its last *)
(* one.                                                                    *)
LEMMA ObjectLies ==
  ASSUME NEW st, KmemKept(st), NEW s \in DOMAIN st.slab, NEW a \in Objects(st, s)
  PROVE  LET d == st.slab[s].range
         IN /\ a \in Nat
            /\ st.range[d].base * PageSize <= a
            /\ a + Cache[st.slab[s].cache].size <= End(st, d) * PageSize
            /\ PageOf(a) \in PagesOf(st, d)
  <1> DEFINE c == st.slab[s].cache
             d == st.slab[s].range
             base == st.slab[s].base
             last == base + Cache[c].pages
  <1>1. /\ c \in DOMAIN Cache /\ base \in Nat /\ st.range[d].base = base
        /\ End(st, d) = last /\ last \in Nat
        /\ Cache[c].size \in Nat \ {0} /\ a \in ObjectsAt(c, base)
    BY SlabLies
  <1> HIDE DEF c, d, base, last
  <1>2. a \in Nat /\ base * PageSize <= a /\ a + Cache[c].size <= last * PageSize
    BY <1>1, ObjectsApart DEF last
  <1> DEFINE q == a \div PageSize
             rest == a % PageSize
  <1>3. /\ PageSize \in Nat \ {0} /\ q \in Int /\ rest \in 0 .. PageSize - 1
        /\ a = q * PageSize + rest
    <2>1. PageSize \in Nat \ {0} /\ a \in Int
      BY <1>2, KmemAssumption
    <2> QED BY <2>1, Division
  <1> HIDE DEF q, rest
  <1>4. base <= q
    <2>1. CASE q + 1 <= base
      <3>1. (q + 1) * PageSize <= base * PageSize
        <4> DEFINE r == q + 1
        <4>1. r \in Int /\ base \in Int /\ PageSize \in Nat /\ r <= base
          BY <2>1, <1>1, <1>3
        <4> HIDE DEF r
        <4>2. r * PageSize <= base * PageSize
          BY <4>1, ProductGrows
        <4> QED BY <4>2 DEF r
      <3>2. (q + 1) * PageSize = q * PageSize + PageSize
        BY <1>3
      <3>3. q * PageSize \in Int /\ base * PageSize \in Int
        BY <1>1, <1>3
      <3> QED BY <3>1, <3>2, <3>3, <1>2, <1>3
    <2> QED BY <2>1, <1>1, <1>3
  <1>5. q < last
    <2>1. CASE last <= q
      <3>1. last * PageSize <= q * PageSize
        BY <2>1, <1>1, <1>3, ProductGrows
      <3>2. q * PageSize \in Int /\ last * PageSize \in Int
        BY <1>1, <1>3
      <3> QED BY <3>1, <3>2, <1>1, <1>2, <1>3
    <2> QED BY <2>1, <1>1, <1>3
  <1>6. PageOf(a) \in PagesOf(st, d)
    BY <1>1, <1>3, <1>4, <1>5 DEF PageOf, PagesOf, q
  <1> QED BY <1>1, <1>2, <1>6 DEF c, d

(* sos_kmem_cache_free() and kfree() find the slab of every object: the    *)
(* lookup of its address returns the slab it was taken from.               *)
THEOREM ObjectResolved ==
  ASSUME NEW st, KmemKept(st), NEW s \in DOMAIN st.slab, NEW a \in Objects(st, s)
  PROVE  ResolveSlab(st, PageOf(a)) = s /\ IsObject(st, a)
  <1>1. PageOf(a) \in PagesOf(st, st.slab[s].range) /\ a \in Nat
    BY ObjectLies
  <1>2. PageOf(a) \in Nat
    BY <1>1, KmemAssumption DEF PageOf
  <1>3. ResolveSlab(st, PageOf(a)) = s
    BY <1>1, <1>2, ResolveSlabFinds
  <1>4. s # NULL
    BY DEF KmemKept, KmemShape
  <1> QED BY <1>3, <1>4 DEF IsObject, ObjectIn

(* No two objects share a word, of one slab or of two, of one cache or of  *)
(* two.                                                                    *)
THEOREM AllObjectsApart ==
  ASSUME NEW st, KmemKept(st), NEW s \in DOMAIN st.slab, NEW t \in DOMAIN st.slab,
         NEW a \in Objects(st, s), NEW b \in Objects(st, t), s # t \/ a # b
  PROVE  \/ a + Cache[st.slab[s].cache].size <= b
         \/ b + Cache[st.slab[t].cache].size <= a
  <1> DEFINE d == st.slab[s].range
             e == st.slab[t].range
  <1>1. CASE s = t
    <2>1. /\ st.slab[s].cache \in DOMAIN Cache /\ st.slab[s].base \in Nat
          /\ a \in ObjectsAt(st.slab[s].cache, st.slab[s].base)
          /\ b \in ObjectsAt(st.slab[s].cache, st.slab[s].base)
      BY <1>1, SlabLies
    <2> QED BY <2>1, <1>1, ObjectsApart
  <1>2. CASE s # t
    <2>1. d \in DOMAIN st.range /\ e \in DOMAIN st.range /\ d # e
      BY <1>2, SlabLies
    <2>2. Apart(st, d, e)
      BY <2>1 DEF KmemKept, RangesKept, RangesApart
    <2>3. /\ a \in Nat /\ st.range[d].base * PageSize <= a
          /\ a + Cache[st.slab[s].cache].size <= End(st, d) * PageSize
          /\ b \in Nat /\ st.range[e].base * PageSize <= b
          /\ b + Cache[st.slab[t].cache].size <= End(st, e) * PageSize
      BY ObjectLies
    <2>4. /\ Cache[st.slab[s].cache].size \in Nat /\ Cache[st.slab[t].cache].size \in Nat
          /\ PageSize \in Nat
          /\ st.range[d].base \in Nat /\ st.range[e].base \in Nat
          /\ End(st, d) \in Nat /\ End(st, e) \in Nat
      BY <2>1, SlabLies, ShapeFacts, KmemAssumption DEF KmemKept
    <2> HIDE DEF d, e
    <2>5. CASE End(st, d) <= st.range[e].base
      <3>1. End(st, d) * PageSize <= st.range[e].base * PageSize
        BY <2>4, <2>5, ProductGrows
      <3>2. End(st, d) * PageSize \in Int /\ st.range[e].base * PageSize \in Int
        BY <2>4
      <3> QED BY <3>1, <3>2, <2>3, <2>4
    <2>6. CASE End(st, e) <= st.range[d].base
      <3>1. End(st, e) * PageSize <= st.range[d].base * PageSize
        BY <2>4, <2>6, ProductGrows
      <3>2. End(st, e) * PageSize \in Int /\ st.range[d].base * PageSize \in Int
        BY <2>4
      <3> QED BY <3>1, <3>2, <2>3, <2>4
    <2> QED BY <2>2, <2>5, <2>6 DEF Apart
  <1> QED BY <1>1, <1>2

-----------------------------------------------------------------------------
(* THE CACHES AND THEIR SLABS                                              *)

(* What sos_kslab_cache keeps of its slabs, and where it lies itself. *)
CacheRecord == [slab_list : Seq(Nat), nb_free : Nat, addr : Nat]

(* The caches that exist are known, and each has its record. *)
Tabled(st) ==
  /\ DOMAIN st.cache \subseteq DOMAIN Cache
  /\ st.cache \in [DOMAIN st.cache -> CacheRecord]

(* The table of caches after a change of the list and the count of one of  *)
(* them.                                                                   *)
CacheIs(table, t, c, list, nb) ==
  /\ DOMAIN t = DOMAIN table
  /\ t[c] = [slab_list |-> list, nb_free |-> nb, addr |-> table[c].addr]
  /\ \A e \in DOMAIN table : e # c => t[e] = table[e]

(* The list and the count of a cache change, and nothing of the others. *)
LEMMA CacheSet ==
  ASSUME NEW table, table \in [DOMAIN table -> CacheRecord], NEW c \in DOMAIN table, NEW list, NEW nb
  PROVE  CacheIs(table, [table EXCEPT ![c].nb_free = nb, ![c].slab_list = list], c, list, nb)
  <1> DEFINE t == [table EXCEPT ![c].nb_free = nb, ![c].slab_list = list]
  <1>1. DOMAIN t = DOMAIN table /\ \A e \in DOMAIN table : e # c => t[e] = table[e]
    OBVIOUS
  <1>2. table[c] \in CacheRecord
    OBVIOUS
  <1>3. t[c] = [[table[c] EXCEPT !.nb_free = nb] EXCEPT !.slab_list = list]
    OBVIOUS
  <1>4. t[c] = [slab_list |-> list, nb_free |-> nb, addr |-> table[c].addr]
    BY <1>2, <1>3 DEF CacheRecord
  <1> QED BY <1>1, <1>4 DEF CacheIs

(* sos_kmem_cache_alloc() takes an object of the slab s at the head, which *)
(* goes to the tail when it gets full.                                     *)
TakeIs(st, n, c, s) ==
  LET list == st.cache[c].slab_list
  IN /\ CacheIs(st.cache, n.cache, c, IF st.slab[s].free = {n.ret} THEN Tail(list) \o <<s>> ELSE list,
               st.cache[c].nb_free - 1)
     /\ n.avail = st.avail
     /\ n.slab = [st.slab EXCEPT ![s].free = st.slab[s].free \ {n.ret}]

(* TakeObject does that, and nothing else. *)
LEMMA TakeObjectIs ==
  ASSUME NEW st, KmemShape(st), Tabled(st), NEW c \in DOMAIN st.cache, NEW s \in DOMAIN st.slab,
         s = Head(st.cache[c].slab_list)
  PROVE  TakeIs(st, TakeObject(st, c), c, s)
  <1> DEFINE n == TakeObject(st, c)
             object == Min(st.slab[s].free)
             list == st.cache[c].slab_list
             longer == IF st.slab[s].free = {object} THEN Tail(list) \o <<s>> ELSE list
             nb == st.cache[c].nb_free - 1
  <1>1. Shaped(st)
    BY DEF KmemShape
  <1> HIDE DEF object
  <1>2. DOMAIN st = Field
    BY <1>1 DEF Shaped
  <1>3. /\ n.avail = st.avail /\ n.ret = object
        /\ n.slab = [st.slab EXCEPT ![s].free = st.slab[s].free \ {object}]
    BY <1>2 DEF TakeObject, Field, object
  <1>4. n.cache = [st.cache EXCEPT ![c].nb_free = nb, ![c].slab_list = longer]
    BY <1>2 DEF TakeObject, Field, object, Tabled, CacheRecord
  <1> HIDE DEF n, nb, longer
  <1>5. CacheIs(st.cache, n.cache, c, longer, nb)
    <2>1. st.cache \in [DOMAIN st.cache -> CacheRecord]
      BY DEF Tabled
    <2>2. CacheIs(st.cache, [st.cache EXCEPT ![c].nb_free = nb, ![c].slab_list = longer], c, longer, nb)
      BY <2>1, CacheSet
    <2> QED BY <1>4, <2>2
  <1> QED BY <1>3, <1>5 DEF n, nb, longer, TakeIs

-----------------------------------------------------------------------------

(* The slabs of a cache; the objects of it that are allocated; those that  *)
(* are free in the slabs but U.                                            *)
SlabsIn(st, c) == {s \in DOMAIN st.slab : st.slab[s].cache = c}

TakenIn(st, c) == UNION {Objects(st, s) \ st.slab[s].free : s \in SlabsIn(st, c)}

FreeIn(st, U, c) == UNION {st.slab[s].free : s \in SlabsIn(st, c) \ U}

(* The full slabs of a list come after the others. *)
FullLast(slab, list) ==
  \A i, j \in 1 .. Len(list) : i < j /\ slab[list[i]].free = {} => slab[list[j]].free = {}

(* The list of a cache has its slabs, but for those of U that an operation *)
(* has in hand, and its count is that of their free objects.               *)
CacheExact(st, U, c) ==
  /\ IsInjective(st.cache[c].slab_list)
  /\ ToSet(st.cache[c].slab_list) = SlabsIn(st, c) \ U
  /\ FullLast(st.slab, st.cache[c].slab_list)
  /\ IsFiniteSet(FreeIn(st, U, c)) /\ st.cache[c].nb_free = Cardinality(FreeIn(st, U, c))

(* Every slab is of a cache and its free objects are its own; those of U,  *)
(* that an operation has in hand, are empty.                               *)
Slabbed(st, U) ==
  /\ U \subseteq DOMAIN st.slab
  /\ \A s \in DOMAIN st.slab :
       /\ st.slab[s].cache \in DOMAIN st.cache
       /\ st.slab[s].free \subseteq Objects(st, s)
       /\ s \in U => st.slab[s].free = Objects(st, s)

(* Nothing of the caches is lost, but for the slabs of U. *)
CachesOK(st, U) ==
  /\ Tabled(st) /\ Slabbed(st, U)
  /\ \A c \in DOMAIN st.cache : CacheExact(st, U, c)

(* What is left alone by an operation on the caches of C. *)
Only(st, n, C) ==
  /\ DOMAIN n.cache = DOMAIN st.cache
  /\ \A c \in DOMAIN st.cache : n.cache[c].addr = st.cache[c].addr
  /\ \A c \in DOMAIN st.cache \ C : n.cache[c] = st.cache[c]
  /\ \A s \in DOMAIN st.slab : st.slab[s].cache \notin C => s \in DOMAIN n.slab /\ n.slab[s] = st.slab[s]
  /\ \A s \in DOMAIN n.slab : n.slab[s].cache \notin C => s \in DOMAIN st.slab /\ n.slab[s] = st.slab[s]

(* One operation on some caches after another. *)
LEMMA OnlyComposed ==
  ASSUME NEW a, NEW b, NEW d, NEW C, NEW D, Only(a, b, C), Only(b, d, D)
  PROVE  Only(a, d, C \union D)
  BY DEF Only

(* Being an operation on fewer caches is to say more. *)
LEMMA OnlyLess ==
  ASSUME NEW a, NEW b, NEW C, NEW D, Only(a, b, C), C \subseteq D
  PROVE  Only(a, b, D)
  BY DEF Only

(* The slabs of the other caches have the same objects, free or not. *)
LEMMA OnlyOthers ==
  ASSUME NEW st, NEW n, NEW C, Only(st, n, C), NEW e, e \notin C
  PROVE  /\ SlabsIn(n, e) = SlabsIn(st, e)
         /\ TakenIn(n, e) = TakenIn(st, e)
         /\ \A U : FreeIn(n, U, e) = FreeIn(st, U, e)
         /\ \A s \in SlabsIn(st, e) : n.slab[s] = st.slab[s] /\ Objects(n, s) = Objects(st, s)
  <1>1. SlabsIn(n, e) = SlabsIn(st, e)
    BY DEF Only, SlabsIn
  <1>2. \A s \in SlabsIn(st, e) : n.slab[s] = st.slab[s]
    BY DEF Only, SlabsIn
  <1>3. \A s \in SlabsIn(st, e) : Objects(n, s) = Objects(st, s)
    BY <1>2 DEF Objects
  <1>4. TakenIn(n, e) = TakenIn(st, e)
    BY <1>1, <1>2, <1>3 DEF TakenIn
  <1>5. \A U : FreeIn(n, U, e) = FreeIn(st, U, e)
    BY <1>1, <1>2 DEF FreeIn
  <1> QED BY <1>1, <1>2, <1>3, <1>4, <1>5

(* An operation on one cache leaves every cache exact when it leaves that  *)
(* one exact.                                                              *)
LEMMA OneCache ==
  ASSUME NEW st, NEW U, CachesOK(st, U), NEW n, NEW V, NEW c \in DOMAIN st.cache,
         Only(st, n, {c}), n.cache[c] \in CacheRecord, n.cache = [e \in DOMAIN n.cache |-> n.cache[e]],
         V \subseteq DOMAIN n.slab,
         \A s : s \notin SlabsIn(st, c) \union SlabsIn(n, c) => (s \in V <=> s \in U),
         \A s \in SlabsIn(n, c) :
           /\ n.slab[s].free \subseteq Objects(n, s)
           /\ s \in V => n.slab[s].free = Objects(n, s),
         CacheExact(n, V, c)
  PROVE  CachesOK(n, V)
  <1>1. Tabled(st) /\ Slabbed(st, U) /\ \A e \in DOMAIN st.cache : CacheExact(st, U, e)
    BY DEF CachesOK
  <1>2. Tabled(n)
    <2>1. \A e \in DOMAIN n.cache : n.cache[e] \in CacheRecord
      BY <1>1 DEF Only, Tabled
    <2> QED BY <1>1, <2>1 DEF Only, Tabled
  <1>3. Slabbed(n, V)
    <2>1. ASSUME NEW s \in DOMAIN n.slab
          PROVE  /\ n.slab[s].cache \in DOMAIN n.cache
                 /\ n.slab[s].free \subseteq Objects(n, s)
                 /\ s \in V => n.slab[s].free = Objects(n, s)
      <3>1. CASE n.slab[s].cache = c
        <4>1. s \in SlabsIn(n, c)
          BY <3>1 DEF SlabsIn
        <4>2. c \in DOMAIN n.cache
          BY DEF Only
        <4>3. n.slab[s].cache \in DOMAIN n.cache
          BY <3>1, <4>2
        <4>4. n.slab[s].free \subseteq Objects(n, s)
          BY <4>1
        <4>5. s \in V => n.slab[s].free = Objects(n, s)
          BY <4>1
        <4> QED BY <4>3, <4>4, <4>5
      <3>2. CASE n.slab[s].cache # c
        <4>1. s \in DOMAIN st.slab /\ n.slab[s] = st.slab[s] /\ Objects(n, s) = Objects(st, s)
          BY <3>2 DEF Only, Objects
        <4>2. s \in V <=> s \in U
          BY <4>1, <3>2 DEF SlabsIn
        <4>3. /\ st.slab[s].cache \in DOMAIN st.cache
              /\ st.slab[s].free \subseteq Objects(st, s)
              /\ s \in U => st.slab[s].free = Objects(st, s)
          BY <4>1, <1>1 DEF Slabbed
        <4>4. DOMAIN n.cache = DOMAIN st.cache
          BY DEF Only
        <4>5. n.slab[s].cache \in DOMAIN n.cache
          BY <4>1, <4>3, <4>4
        <4>6. n.slab[s].free \subseteq Objects(n, s)
          BY <4>1, <4>3
        <4>7. s \in V => n.slab[s].free = Objects(n, s)
          BY <4>1, <4>2, <4>3
        <4> QED BY <4>5, <4>6, <4>7
      <3> QED BY <3>1, <3>2
    <2> QED BY <2>1 DEF Slabbed
  <1>4. ASSUME NEW e \in DOMAIN n.cache, e # c PROVE CacheExact(n, V, e)
    <2>1. /\ e \in DOMAIN st.cache /\ n.cache[e] = st.cache[e]
          /\ SlabsIn(n, e) = SlabsIn(st, e)
          /\ \A s \in SlabsIn(st, e) : n.slab[s] = st.slab[s]
      <3>1. e \notin {c} /\ e \in DOMAIN st.cache \ {c}
        BY <1>4 DEF Only
      <3>2. SlabsIn(n, e) = SlabsIn(st, e) /\ \A s \in SlabsIn(st, e) : n.slab[s] = st.slab[s]
        BY <3>1, OnlyOthers
      <3> QED BY <3>1, <3>2 DEF Only
    <2>2. SlabsIn(n, e) \ V = SlabsIn(st, e) \ U
      BY <2>1, <1>4 DEF SlabsIn
    <2>3. FreeIn(n, V, e) = FreeIn(st, U, e)
      BY <2>1, <2>2 DEF FreeIn
    <2>4. CacheExact(st, U, e)
      BY <2>1, <1>1
    <2>5. FullLast(n.slab, n.cache[e].slab_list)
      <3> DEFINE list == st.cache[e].slab_list
      <3>1. list \in Seq(Nat)
        BY <2>1, <1>1 DEF Tabled, CacheRecord
      <3>2. \A i \in 1 .. Len(list) : list[i] \in ToSet(list)
        BY <3>1, ElementsAreContained
      <3>3. \A i \in 1 .. Len(list) : n.slab[list[i]] = st.slab[list[i]]
        BY <3>2, <2>1, <2>4 DEF CacheExact
      <3>4. FullLast(st.slab, list) /\ n.cache[e].slab_list = list
        BY <2>1, <2>4 DEF CacheExact
      <3> HIDE DEF list
      <3>5. FullLast(n.slab, list)
        <4>1. SUFFICES ASSUME NEW i \in 1 .. Len(list), NEW j \in 1 .. Len(list), i < j, n.slab[list[i]].free = {}
                       PROVE  n.slab[list[j]].free = {}
          BY DEF FullLast
        <4>2. n.slab[list[i]] = st.slab[list[i]] /\ n.slab[list[j]] = st.slab[list[j]]
          BY <3>3
        <4>3. st.slab[list[i]].free = {}
          BY <4>1, <4>2
        <4>4. st.slab[list[j]].free = {}
          BY <3>4, <4>1, <4>3 DEF FullLast
        <4> QED BY <4>2, <4>4
      <3> QED BY <3>4, <3>5
    <2> QED BY <2>1, <2>2, <2>3, <2>4, <2>5 DEF CacheExact
  <1> QED BY <1>2, <1>3, <1>4 DEF CachesOK, Only

(* No object lies in two slabs: their ranges are apart. *)
LEMMA ObjectsDisjoint ==
  ASSUME NEW st, KmemKept(st), NEW s \in DOMAIN st.slab, NEW t \in DOMAIN st.slab, s # t
  PROVE  Objects(st, s) \intersect Objects(st, t) = {}
  <1>1. SUFFICES ASSUME NEW a \in Objects(st, s), a \in Objects(st, t) PROVE FALSE
    OBVIOUS
  <1>2. /\ a + Cache[st.slab[s].cache].size <= a \/ a + Cache[st.slab[t].cache].size <= a
    BY <1>1, AllObjectsApart
  <1>3. /\ Cache[st.slab[s].cache].size \in Nat \ {0} /\ Cache[st.slab[t].cache].size \in Nat \ {0}
        /\ a \in Nat
    BY SlabLies, ObjectLies
  <1> QED BY <1>2, <1>3

(* The head moved to the tail. *)
LEMMA Rotated ==
  ASSUME NEW S, NEW q \in Seq(S), q # <<>>, IsInjective(q)
  PROVE  LET r == Tail(q) \o <<Head(q)>>
         IN /\ r \in Seq(S) /\ Len(r) = Len(q)
            /\ \A j \in 1 .. Len(q) : r[j] = IF j < Len(q) THEN q[j + 1] ELSE q[1]
            /\ IsInjective(r) /\ ToSet(r) = ToSet(q)
  <1> DEFINE r == Tail(q) \o <<Head(q)>>
  <1>1. /\ Tail(q) \in Seq(S) /\ Head(q) \in S /\ Head(q) = q[1] /\ Len(q) \in Nat \ {0}
        /\ Len(Tail(q)) = Len(q) - 1
        /\ \A i \in 1 .. (Len(q) - 1) : Tail(q)[i] = q[i + 1]
    BY TailPlaces, HeadTailProperties
  <1>2. r = Append(Tail(q), Head(q))
    BY <1>1, AppendIsConcat
  <1>3. /\ IsInjective(Tail(q)) /\ ToSet(Tail(q)) = ToSet(q) \ {Head(q)} /\ Head(q) \in ToSet(q)
    BY Popped
  <1>4. r \in Seq(S) /\ IsInjective(r) /\ ToSet(r) = ToSet(q)
    <2>1. Head(q) \notin ToSet(Tail(q))
      BY <1>3
    <2> DEFINE t == Tail(q)
               h == Head(q)
    <2>2. t \in Seq(S) /\ h \in S /\ h \notin ToSet(t) /\ IsInjective(t)
      BY <1>1, <1>3, <2>1
    <2> HIDE DEF t, h
    <2>3. Append(t, h) \in Seq(S) /\ IsInjective(Append(t, h)) /\ ToSet(Append(t, h)) = ToSet(t) \union {h}
      BY <2>2, Appended
    <2> QED BY <2>3, <1>2, <1>3 DEF t, h
  <1>5. Len(r) = Len(q)
    BY <1>1, <1>2, AppendPlaces
  <1>6. \A j \in 1 .. Len(q) : r[j] = IF j < Len(q) THEN q[j + 1] ELSE q[1]
    BY <1>1, <1>2, AppendPlaces
  <1> QED BY <1>4, <1>5, <1>6

(* A new head. *)
LEMMA Prepended ==
  ASSUME NEW S, NEW q \in Seq(S), NEW e \in S, e \notin ToSet(q), IsInjective(q)
  PROVE  LET r == <<e>> \o q
         IN /\ r \in Seq(S) /\ Len(r) = Len(q) + 1
            /\ \A j \in 1 .. Len(q) + 1 : r[j] = IF j = 1 THEN e ELSE q[j - 1]
            /\ IsInjective(r) /\ ToSet(r) = ToSet(q) \union {e}
  <1> DEFINE r == <<e>> \o q
  <1>1. r \in Seq(S) /\ IsInjective(r) /\ \A t \in S : Contains(r, t) <=> Contains(q, t) \/ t = e
    BY PrependContains, ElementsAreContained
  <1>2. ToSet(r) = ToSet(q) \union {e}
    <2>1. /\ ToSet(r) \subseteq S /\ ToSet(q) \subseteq S
          /\ \A t : t \in ToSet(r) <=> Contains(r, t)
          /\ \A t : t \in ToSet(q) <=> Contains(q, t)
      BY <1>1, ElementsAreContained
    <2> QED BY <2>1, <1>1
  <1>3. <<e>> \in Seq(S) /\ Len(<<e>>) = 1 /\ <<e>>[1] = e /\ Len(q) \in Nat
    BY LenProperties
  <1> HIDE DEF r
  <1>4. /\ Len(r) = Len(q) + 1
        /\ \A j \in 1 .. Len(q) + 1 : r[j] = IF j = 1 THEN e ELSE q[j - 1]
    <2>1. Len(r) = Len(<<e>>) + Len(q)
      BY <1>3, ConcatProperties DEF r
    <2>2. \A j \in 1 .. Len(<<e>>) + Len(q) : r[j] = IF j <= Len(<<e>>) THEN <<e>>[j] ELSE q[j - Len(<<e>>)]
      BY <1>3, ConcatProperties DEF r
    <2>3. ASSUME NEW j \in 1 .. Len(q) + 1 PROVE r[j] = IF j = 1 THEN e ELSE q[j - 1]
      <3>1. j \in 1 .. Len(<<e>>) + Len(q) /\ j \in Nat /\ j >= 1
        BY <1>3
      <3>2. r[j] = IF j <= 1 THEN <<e>>[j] ELSE q[j - 1]
        BY <2>2, <3>1, <1>3
      <3> QED BY <3>1, <3>2, <1>3
    <2> QED BY <2>1, <2>3, <1>3
  <1> QED BY <1>1, <1>2, <1>4 DEF r

(* The first slab has a free object when any has. *)
LEMMA HasFreeFound ==
  ASSUME NEW st, NEW U, CachesOK(st, U), NEW c \in DOMAIN st.cache
  PROVE  LET list == st.cache[c].slab_list
         IN /\ HasFreeObject(st, c) <=> st.cache[c].nb_free # 0
            /\ HasFreeObject(st, c) =>
                 /\ list # <<>> /\ Head(list) \in SlabsIn(st, c) \ U /\ Head(list) \in DOMAIN st.slab
                 /\ st.slab[Head(list)].free # {}
  <1> DEFINE list == st.cache[c].slab_list
             F == FreeIn(st, U, c)
  <1>1. /\ IsInjective(list) /\ ToSet(list) = SlabsIn(st, c) \ U /\ FullLast(st.slab, list)
        /\ IsFiniteSet(F) /\ st.cache[c].nb_free = Cardinality(F)
    BY DEF CachesOK, CacheExact
  <1>2. list \in Seq(Nat)
    BY DEF CachesOK, Tabled, CacheRecord
  <1>3. /\ DOMAIN list = 1 .. Len(list) /\ Len(list) \in Nat
        /\ \A t : t \in ToSet(list) <=> \E i \in 1 .. Len(list) : list[i] = t
    BY <1>2, ElementsAreContained
  <1>4. list # <<>> => Head(list) = list[1] /\ Len(list) >= 1
    BY <1>2, TailPlaces
  <1>5. HasFreeObject(st, c) => /\ list # <<>> /\ Head(list) \in SlabsIn(st, c) \ U
                                /\ Head(list) \in DOMAIN st.slab /\ st.slab[Head(list)].free # {}
    <2>1. list # <<>> => Head(list) \in ToSet(list)
      BY <1>3, <1>4
    <2> QED BY <2>1, <1>1 DEF HasFreeObject, SlabsIn
  <1>6. HasFreeObject(st, c) => F # {}
    BY <1>5 DEF FreeIn
  <1>7. ASSUME F # {} PROVE HasFreeObject(st, c)
    <2>1. PICK s \in SlabsIn(st, c) \ U : st.slab[s].free # {}
      BY <1>7 DEF FreeIn
    <2>2. PICK i \in 1 .. Len(list) : list[i] = s
      BY <2>1, <1>1, <1>3
    <2>3. list # <<>>
      BY <2>2, <1>2, <1>3, LongIsNotEmpty
    <2>4. ASSUME st.slab[list[1]].free = {} PROVE FALSE
      <3>1. CASE i = 1
        BY <3>1, <2>4, <2>1, <2>2
      <3>2. CASE i # 1
        <4>1. 1 \in 1 .. Len(list) /\ 1 < i
          BY <3>2, <2>2, <1>3
        <4>2. st.slab[list[i]].free = {}
          BY <4>1, <2>2, <2>4, <1>1 DEF FullLast
        <4> QED BY <4>2, <2>1, <2>2
      <3> QED BY <3>1, <3>2
    <2> QED BY <2>3, <2>4, <1>4 DEF HasFreeObject
  <1>8. st.cache[c].nb_free = 0 <=> F = {}
    BY <1>1, FS_EmptySet
  <1> QED BY <1>5, <1>6, <1>7, <1>8

(* No object lies in two slabs. *)
Disjoint(st) ==
  \A s, t \in DOMAIN st.slab : s # t => Objects(st, s) \intersect Objects(st, t) = {}

(* This is what the steps keep. *)
LEMMA KeptDisjoint ==
  ASSUME NEW st, KmemKept(st)
  PROVE  Disjoint(st)
  BY ObjectsDisjoint DEF Disjoint

(* An object is free or taken in its slab, and nowhere else. *)
LEMMA FreeOnce ==
  ASSUME NEW st, NEW U, Disjoint(st), CachesOK(st, U), NEW s \in DOMAIN st.slab,
         NEW a \in Objects(st, s)
  PROVE  /\ s \notin U => (a \in FreeIn(st, U, st.slab[s].cache) <=> a \in st.slab[s].free)
         /\ a \in TakenIn(st, st.slab[s].cache) <=> a \notin st.slab[s].free
  <1> DEFINE c == st.slab[s].cache
  <1>1. \A t \in DOMAIN st.slab : st.slab[t].free \subseteq Objects(st, t)
    BY DEF CachesOK, Slabbed
  <1>2. \A t \in DOMAIN st.slab : a \in Objects(st, t) => t = s
    BY DEF Disjoint
  <1>3. s \in SlabsIn(st, c) /\ SlabsIn(st, c) \subseteq DOMAIN st.slab
    BY DEF SlabsIn
  <1> HIDE DEF c
  <1>4. s \notin U => (a \in FreeIn(st, U, c) <=> a \in st.slab[s].free)
    BY <1>1, <1>2, <1>3 DEF FreeIn
  <1>5. a \in TakenIn(st, c) <=> a \notin st.slab[s].free
    BY <1>1, <1>2, <1>3 DEF TakenIn
  <1> QED BY <1>4, <1>5 DEF c

(* The free objects of the slab s of c become those of F. *)
FreeSetIs(st, n, U, c, s, F) ==
  /\ \A e : SlabsIn(n, e) = SlabsIn(st, e)
  /\ \A t \in DOMAIN st.slab : Objects(n, t) = Objects(st, t)
  /\ FreeIn(n, U, c) = (FreeIn(st, U, c) \ Objects(st, s)) \union F
  /\ TakenIn(n, c) = (TakenIn(st, c) \ Objects(st, s)) \union (Objects(st, s) \ F)
  /\ FreeIn(st, U, c) \intersect Objects(st, s) = st.slab[s].free
  /\ TakenIn(st, c) \intersect Objects(st, s) = Objects(st, s) \ st.slab[s].free

(* Every object of the slabs of a cache is free or taken. *)
LEMMA FreeSetChanged ==
  ASSUME NEW st, NEW U, Disjoint(st), CachesOK(st, U), NEW s \in DOMAIN st.slab, s \notin U,
         NEW F, F \subseteq Objects(st, s), NEW n, FreeChanged(st.slab, s, F, n.slab),
         NEW c, s \in SlabsIn(st, c)
  PROVE  FreeSetIs(st, n, U, c, s, F)
  <1>1. /\ DOMAIN n.slab = DOMAIN st.slab /\ n.slab[s].free = F
        /\ \A t \in DOMAIN st.slab :
             /\ n.slab[t].cache = st.slab[t].cache /\ n.slab[t].base = st.slab[t].base
             /\ t # s => n.slab[t].free = st.slab[t].free
    BY DEF FreeChanged
  <1>2. \A e : SlabsIn(n, e) = SlabsIn(st, e)
    BY <1>1 DEF SlabsIn
  <1>3. \A t \in DOMAIN st.slab : Objects(n, t) = Objects(st, t)
    BY <1>1 DEF Objects
  <1>4. \A t \in DOMAIN st.slab : st.slab[t].free \subseteq Objects(st, t)
    BY DEF CachesOK, Slabbed
  <1>5. \A t \in DOMAIN st.slab, a \in Objects(st, s) : a \in Objects(st, t) => t = s
    BY DEF Disjoint
  <1>6. s \in SlabsIn(st, c) /\ SlabsIn(st, c) \subseteq DOMAIN st.slab
    BY DEF SlabsIn
  <1>7. /\ SlabsIn(n, c) = SlabsIn(st, c)
        /\ n.slab[s].free = F /\ Objects(n, s) = Objects(st, s)
        /\ \A t \in SlabsIn(st, c) : t # s => n.slab[t].free = st.slab[t].free
        /\ \A t \in SlabsIn(st, c) : Objects(n, t) = Objects(st, t)
    BY <1>1, <1>2, <1>3, <1>6
  <1>8. FreeIn(n, U, c) = (FreeIn(st, U, c) \ Objects(st, s)) \union F
    <2>1. ASSUME NEW a \in FreeIn(n, U, c) PROVE a \in (FreeIn(st, U, c) \ Objects(st, s)) \union F
      <3>1. PICK t \in SlabsIn(st, c) \ U : a \in n.slab[t].free
        BY <1>7 DEF FreeIn
      <3>2. CASE t = s
        BY <3>1, <3>2, <1>7
      <3>3. CASE t # s
        <4>1. a \in st.slab[t].free /\ a \in Objects(st, t)
          BY <3>1, <3>3, <1>4, <1>6, <1>7
        <4>2. a \notin Objects(st, s)
          BY <4>1, <3>1, <3>3, <1>5, <1>6
        <4> QED BY <3>1, <4>1, <4>2 DEF FreeIn
      <3> QED BY <3>2, <3>3
    <2>2. ASSUME NEW a \in (FreeIn(st, U, c) \ Objects(st, s)) \union F PROVE a \in FreeIn(n, U, c)
      <3>1. CASE a \in F
        BY <3>1, <1>6, <1>7 DEF FreeIn
      <3>2. CASE a \notin F
        <4>1. PICK t \in SlabsIn(st, c) \ U : a \in st.slab[t].free
          BY <2>2, <3>2 DEF FreeIn
        <4>2. t # s
          BY <4>1, <2>2, <3>2, <1>4
        <4> QED BY <4>1, <4>2, <1>7 DEF FreeIn
      <3> QED BY <3>1, <3>2
    <2> QED BY <2>1, <2>2
  <1>9. TakenIn(n, c) = (TakenIn(st, c) \ Objects(st, s)) \union (Objects(st, s) \ F)
    <2>1. ASSUME NEW a \in TakenIn(n, c) PROVE a \in (TakenIn(st, c) \ Objects(st, s)) \union (Objects(st, s) \ F)
      <3>1. PICK t \in SlabsIn(st, c) : a \in Objects(st, t) \ n.slab[t].free
        BY <1>7 DEF TakenIn
      <3>2. CASE t = s
        BY <3>1, <3>2, <1>7
      <3>3. CASE t # s
        <4>1. a \in Objects(st, t) \ st.slab[t].free
          BY <3>1, <3>3, <1>7
        <4>2. a \notin Objects(st, s)
          BY <4>1, <3>1, <3>3, <1>5, <1>6
        <4> QED BY <3>1, <4>1, <4>2 DEF TakenIn
      <3> QED BY <3>2, <3>3
    <2>2. ASSUME NEW a \in (TakenIn(st, c) \ Objects(st, s)) \union (Objects(st, s) \ F) PROVE a \in TakenIn(n, c)
      <3>1. CASE a \in Objects(st, s)
        <4>1. a \in Objects(n, s) \ n.slab[s].free
          BY <2>2, <3>1, <1>7
        <4> QED BY <4>1, <1>6, <1>7 DEF TakenIn
      <3>2. CASE a \notin Objects(st, s)
        <4>1. PICK t \in SlabsIn(st, c) : a \in Objects(st, t) \ st.slab[t].free
          BY <2>2, <3>2 DEF TakenIn
        <4>2. t # s
          BY <4>1, <3>2
        <4>3. a \in Objects(n, t) \ n.slab[t].free
          BY <4>1, <4>2, <1>7
        <4> QED BY <4>1, <4>3, <1>7 DEF TakenIn
      <3> QED BY <3>1, <3>2
    <2> QED BY <2>1, <2>2
  <1>10. /\ FreeIn(st, U, c) \intersect Objects(st, s) = st.slab[s].free
         /\ TakenIn(st, c) \intersect Objects(st, s) = Objects(st, s) \ st.slab[s].free
    <2>0. c = st.slab[s].cache
      BY DEF SlabsIn
    <2>1. \A a \in Objects(st, s) : /\ a \in FreeIn(st, U, c) <=> a \in st.slab[s].free
                                    /\ a \in TakenIn(st, c) <=> a \notin st.slab[s].free
      BY <2>0, FreeOnce
    <2> QED BY <2>1, <1>4
  <1> QED BY <1>2, <1>3, <1>8, <1>9, <1>10 DEF FreeSetIs

(* A change of the free objects of a slab, and of the place of this slab in *)
(* its list.                                                               *)
FreeStep(st, n, c, s, F, list, nb) ==
  /\ FreeChanged(st.slab, s, F, n.slab) /\ CacheIs(st.cache, n.cache, c, list, nb)
  /\ n.cache = [e \in DOMAIN n.cache |-> n.cache[e]]

(* A cache whose list and count follow the free objects of one of its slabs *)
(* stays exact.                                                            *)
LEMMA FreeStepKeeps ==
  ASSUME NEW st, NEW U, Disjoint(st), CachesOK(st, U), NEW c \in DOMAIN st.cache,
         NEW s, s \in SlabsIn(st, c), s \notin U, NEW F, F \subseteq Objects(st, s),
         NEW n, NEW list \in Seq(Nat), NEW nb \in Nat, FreeStep(st, n, c, s, F, list, nb),
         IsInjective(list), ToSet(list) = ToSet(st.cache[c].slab_list), FullLast(n.slab, list),
         IsFiniteSet((FreeIn(st, U, c) \ Objects(st, s)) \union F),
         nb = Cardinality((FreeIn(st, U, c) \ Objects(st, s)) \union F)
  PROVE  CachesOK(n, U) /\ Only(st, n, {c}) /\ Disjoint(n)
  <1>0. s \in DOMAIN st.slab /\ st.slab[s].cache = c
    BY DEF SlabsIn
  <1>1. FreeSetIs(st, n, U, c, s, F) /\ FreeChanged(st.slab, s, F, n.slab)
    BY <1>0, FreeSetChanged DEF FreeStep
  <1>2. CacheIs(st.cache, n.cache, c, list, nb)
    BY DEF FreeStep
  <1>3. Only(st, n, {c})
    BY <1>0, <1>1, <1>2 DEF Only, CacheIs, FreeChanged
  <1>4. Tabled(st) /\ Slabbed(st, U) /\ CacheExact(st, U, c)
    BY DEF CachesOK
  <1>5. n.cache[c] \in CacheRecord
    <2>1. st.cache[c].addr \in Nat
      BY <1>4 DEF Tabled, CacheRecord
    <2>2. n.cache[c] = [slab_list |-> list, nb_free |-> nb, addr |-> st.cache[c].addr]
      BY <1>2 DEF CacheIs
    <2> QED BY <2>1, <2>2 DEF CacheRecord
  <1>6. CacheExact(n, U, c)
    <2>1. n.cache[c].slab_list = list /\ n.cache[c].nb_free = nb
      BY <1>2 DEF CacheIs
    <2>2. ToSet(list) = SlabsIn(n, c) \ U
      BY <1>1, <1>4 DEF CacheExact, FreeSetIs
    <2>3. IsFiniteSet(FreeIn(n, U, c)) /\ nb = Cardinality(FreeIn(n, U, c))
      BY <1>1 DEF FreeSetIs
    <2> QED BY <2>1, <2>2, <2>3 DEF CacheExact
  <1>7. \A t \in SlabsIn(n, c) : /\ n.slab[t].free \subseteq Objects(n, t)
                                 /\ t \in U => n.slab[t].free = Objects(n, t)
    <2>1. ASSUME NEW t \in SlabsIn(n, c)
          PROVE  /\ n.slab[t].free \subseteq Objects(n, t)
                 /\ t \in U => n.slab[t].free = Objects(n, t)
      <3>1. t \in DOMAIN st.slab /\ Objects(n, t) = Objects(st, t)
        BY <1>1 DEF FreeSetIs, SlabsIn
      <3>2. CASE t = s
        BY <3>1, <3>2, <1>1 DEF FreeChanged
      <3>3. CASE t # s
        <4>1. n.slab[t] = st.slab[t]
          BY <3>1, <3>3, <1>1 DEF FreeChanged
        <4>2. /\ st.slab[t].free \subseteq Objects(st, t)
              /\ t \in U => st.slab[t].free = Objects(st, t)
          BY <3>1, <1>4 DEF Slabbed
        <4> QED BY <3>1, <4>1, <4>2
      <3> QED BY <3>2, <3>3
    <2> QED BY <2>1
  <1>8. U \subseteq DOMAIN n.slab /\ SlabsIn(n, c) = SlabsIn(st, c)
    BY <1>1, <1>4 DEF FreeChanged, Slabbed, FreeSetIs
  <1>9. CachesOK(n, U)
    <2>1. n.cache = [e \in DOMAIN n.cache |-> n.cache[e]]
      BY DEF FreeStep
    <2> QED BY <2>1, <1>3, <1>5, <1>6, <1>7, <1>8, OneCache
  <1>10. Disjoint(n)
    <2>1. DOMAIN n.slab = DOMAIN st.slab /\ \A t \in DOMAIN st.slab : Objects(n, t) = Objects(st, t)
      BY <1>1 DEF FreeChanged, FreeSetIs
    <2> QED BY <2>1 DEF Disjoint
  <1> QED BY <1>3, <1>9, <1>10

(* The slabs of a cache are in its list, once each. *)
LEMMA ListFacts ==
  ASSUME NEW st, NEW U, CachesOK(st, U), NEW c \in DOMAIN st.cache
  PROVE  LET list == st.cache[c].slab_list
         IN /\ list \in Seq(Nat) /\ list \in Seq(DOMAIN st.slab) /\ Len(list) \in Nat
            /\ IsInjective(list) /\ ToSet(list) = SlabsIn(st, c) \ U /\ FullLast(st.slab, list)
            /\ IsFiniteSet(FreeIn(st, U, c)) /\ st.cache[c].nb_free = Cardinality(FreeIn(st, U, c))
            /\ st.cache[c].nb_free \in Nat
            /\ \A i \in 1 .. Len(list) : list[i] \in SlabsIn(st, c) \ U /\ list[i] \in DOMAIN st.slab
            /\ \A t \in SlabsIn(st, c) \ U : \E i \in 1 .. Len(list) : list[i] = t
  <1> DEFINE list == st.cache[c].slab_list
  <1>1. Tabled(st) /\ CacheExact(st, U, c)
    BY DEF CachesOK
  <1>2. list \in Seq(Nat) /\ st.cache[c].nb_free \in Nat
    BY <1>1 DEF Tabled, CacheRecord
  <1>3. /\ \A i \in 1 .. Len(list) : list[i] \in ToSet(list)
        /\ \A t \in ToSet(list) : \E i \in 1 .. Len(list) : list[i] = t
        /\ Len(list) \in Nat
    BY <1>2, ElementsAreContained
  <1>4. \A i \in 1 .. Len(list) : list[i] \in SlabsIn(st, c) \ U /\ list[i] \in DOMAIN st.slab
    BY <1>1, <1>3 DEF CacheExact, SlabsIn
  <1>5. list \in Seq(DOMAIN st.slab)
    BY <1>2, <1>4, SeqMono
  <1>6. \A t \in SlabsIn(st, c) \ U : \E i \in 1 .. Len(list) : list[i] = t
    BY <1>1, <1>3 DEF CacheExact
  <1> HIDE DEF list
  <1> QED BY <1>1, <1>2, <1>3, <1>4, <1>5, <1>6 DEF CacheExact, list

(* A step on slabs that leaves the ranges alone keeps the shape of the     *)
(* state.                                                                  *)
LEMMA SameRangesShape ==
  ASSUME NEW st, KmemShape(st), NEW n, SameRanges(st, n), Shaped(n),
         n.slab \in [DOMAIN n.slab -> SlabRecord]
  PROVE  KmemShape(n)
  BY DEF KmemShape, SameRanges

(* From a slab at the head of the list: *)
ObjectTaken(st, n, U, c) ==
  /\ KmemShape(n) /\ SameRanges(st, n)
  /\ CachesOK(n, U) /\ Only(st, n, {c}) /\ Disjoint(n)
  /\ n.ret \notin TakenIn(st, c) /\ TakenIn(n, c) = TakenIn(st, c) \union {n.ret}
  /\ n.cache[c].nb_free = st.cache[c].nb_free - 1
  /\ n.avail = st.avail
  /\ LET s == Head(st.cache[c].slab_list)
     IN /\ s \in SlabsIn(st, c) \ U
        /\ n.ret \in st.slab[s].free /\ n.slab[s].free = st.slab[s].free \ {n.ret}
        /\ n.ret \in Objects(st, s)
        /\ \A e \in DOMAIN st.slab : e # s => n.slab[e] = st.slab[e]

(* Taking an object keeps the caches exact, and takes one that was free. *)
LEMMA TakeObjectCaches ==
  ASSUME NEW st, NEW U, KmemShape(st), Disjoint(st), CachesOK(st, U), NEW c \in DOMAIN st.cache,
         HasFreeObject(st, c)
  PROVE  ObjectTaken(st, TakeObject(st, c), U, c)
  <1> DEFINE n == TakeObject(st, c)
             list == st.cache[c].slab_list
             s == Head(list)
             a == Min(st.slab[s].free)
             F == st.slab[s].free \ {a}
             longer == IF st.slab[s].free = {a} THEN Tail(list) \o <<s>> ELSE list
             nb == st.cache[c].nb_free - 1
  <1>1. /\ list # <<>> /\ s \in SlabsIn(st, c) \ U /\ s \in DOMAIN st.slab /\ st.slab[s].free # {}
        /\ st.slab[s].cache = c
    BY HasFreeFound DEF SlabsIn
  <1>3. Tabled(st) /\ Shaped(st) /\ st.slab \in [DOMAIN st.slab -> SlabRecord]
    BY DEF KmemShape, CachesOK
  <1>2. st.slab[s].free \in SUBSET Nat /\ a \in st.slab[s].free /\ F \in SUBSET Nat
    <2>1. st.slab[s].free \in SUBSET Nat
      BY <1>1, <1>3 DEF SlabRecord
    <2> QED BY <2>1, <1>1, MinOfNaturals
  <1> HIDE DEF a
  <1>4. /\ n.ret = a /\ n.avail = st.avail /\ n.slab = [st.slab EXCEPT ![s].free = F]
        /\ CacheIs(st.cache, n.cache, c, longer, nb)
    <2>1. n.ret = a
      BY <1>3 DEF TakeObject, a, Shaped, Field
    <2> HIDE DEF n
    <2>2. TakeIs(st, n, c, s)
      BY <1>1, <1>3, TakeObjectIs DEF n
    <2> QED BY <2>1, <2>2 DEF TakeIs
  <1>5. FreeChanged(st.slab, s, F, n.slab)
    <2> HIDE DEF F
    <2>2. n.slab = [st.slab EXCEPT ![s].free = F]
      BY <1>4
    <2> QED BY <2>2, <1>1, <1>2, <1>3, FreeFieldSet
  <1>6. Shaped(n)
    <2>1. n = [f \in DOMAIN st |-> n[f]]
      BY DEF TakeObject
    <2> HIDE DEF n
    <2> QED BY <2>1, <1>3 DEF Shaped
  <1>7. SameRanges(st, n)
    <2>1. /\ n.range = st.range /\ n.free = st.free /\ n.used = st.used
          /\ n.ranges_to_free = st.ranges_to_free /\ n.owner = st.owner
      BY <1>3 DEF TakeObject, Shaped, Field
    <2> HIDE DEF n
    <2> QED BY <2>1, <1>5 DEF SameRanges, FreeChanged
  <1>8. n.cache = [e \in DOMAIN n.cache |-> n.cache[e]]
    BY <1>3 DEF TakeObject, Tabled, Shaped, Field
  <1> HIDE DEF n, F, longer, s
  <1>9. KmemShape(n)
    <2>1. n.slab \in [DOMAIN n.slab -> SlabRecord]
      BY <1>5 DEF FreeChanged
    <2> QED BY <2>1, <1>6, <1>7, SameRangesShape
  <1>10. /\ list \in Seq(Nat) /\ list \in Seq(DOMAIN st.slab) /\ Len(list) \in Nat
         /\ IsInjective(list) /\ ToSet(list) = SlabsIn(st, c) \ U /\ FullLast(st.slab, list)
         /\ IsFiniteSet(FreeIn(st, U, c)) /\ st.cache[c].nb_free = Cardinality(FreeIn(st, U, c))
         /\ \A i \in 1 .. Len(list) : list[i] \in SlabsIn(st, c) \ U /\ list[i] \in DOMAIN st.slab
    BY ListFacts
  <1>11. /\ longer \in Seq(Nat) /\ IsInjective(longer) /\ ToSet(longer) = ToSet(list)
         /\ FullLast(n.slab, longer)
    <2>1. /\ Len(list) \in Nat /\ s = list[1] /\ Len(list) >= 1
          /\ \A i \in 1 .. Len(list) : list[i] \in DOMAIN st.slab
          /\ DOMAIN list = 1 .. Len(list)
      BY <1>1, <1>10, TailPlaces, ElementsAreContained DEF s
    <2>2. \A i \in 1 .. Len(list) : i # 1 => list[i] # s /\ n.slab[list[i]] = st.slab[list[i]]
      BY <2>1, <1>5, <1>10 DEF IsInjective, FreeChanged
    <2>3. CASE st.slab[s].free = {a}
      <3> DEFINE r == Tail(list) \o <<Head(list)>>
      <3>1. /\ r \in Seq(Nat) /\ Len(r) = Len(list)
            /\ \A j \in 1 .. Len(list) : r[j] = IF j < Len(list) THEN list[j + 1] ELSE list[1]
            /\ IsInjective(r) /\ ToSet(r) = ToSet(list)
        BY <1>1, <1>10, Rotated
      <3>2. longer = r
        BY <2>3 DEF longer, s
      <3> HIDE DEF r
      <3>3. n.slab[s].free = {}
        BY <1>5, <2>3 DEF F, FreeChanged
      <3>4. FullLast(n.slab, r)
        <4>1. SUFFICES ASSUME NEW i \in 1 .. Len(r), NEW j \in 1 .. Len(r), i < j, n.slab[r[i]].free = {}
                       PROVE  n.slab[r[j]].free = {}
          BY DEF FullLast
        <4>2. CASE j = Len(list)
          BY <4>2, <3>1, <3>3, <2>1
        <4>3. CASE j # Len(list)
          <5>1. /\ i + 1 \in 1 .. Len(list) /\ j + 1 \in 1 .. Len(list) /\ i + 1 # 1 /\ j + 1 # 1
                /\ r[i] = list[i + 1] /\ r[j] = list[j + 1] /\ i + 1 < j + 1
            <6>1. i \in Nat /\ j \in Nat /\ i >= 1 /\ i < j /\ j < Len(list) /\ Len(list) \in Nat
              BY <4>1, <4>3, <3>1, <2>1
            <6>2. i + 1 \in 1 .. Len(list) /\ j + 1 \in 1 .. Len(list) /\ i + 1 # 1 /\ j + 1 # 1 /\ i + 1 < j + 1
              BY <6>1
            <6>3. i \in 1 .. Len(list) /\ j \in 1 .. Len(list) /\ i < Len(list)
              BY <6>1
            <6> QED BY <6>1, <6>2, <6>3, <3>1
          <5>2. st.slab[list[i + 1]].free = {}
            BY <5>1, <4>1, <2>2
          <5>3. st.slab[list[j + 1]].free = {}
            BY <5>1, <5>2, <1>10 DEF FullLast
          <5> QED BY <5>1, <5>3, <2>2
        <4> QED BY <4>2, <4>3
      <3> QED BY <3>1, <3>2, <3>4, <1>10
    <2>4. CASE st.slab[s].free # {a}
      <3>1. longer = list
        BY <2>4 DEF longer
      <3>2. n.slab[s].free # {}
        BY <2>4, <1>2, <1>5 DEF F, FreeChanged
      <3>3. FullLast(n.slab, list)
        <4>1. SUFFICES ASSUME NEW i \in 1 .. Len(list), NEW j \in 1 .. Len(list), i < j, n.slab[list[i]].free = {}
                       PROVE  n.slab[list[j]].free = {}
          BY DEF FullLast
        <4>2. i # 1 /\ j # 1
          BY <4>1, <3>2, <2>1
        <4>3. st.slab[list[j]].free = {}
          BY <4>1, <4>2, <2>2, <1>10 DEF FullLast
        <4> QED BY <4>2, <4>3, <2>2
      <3> QED BY <3>1, <3>3, <1>10
    <2> QED BY <2>3, <2>4
  <1>12. FreeSetIs(st, n, U, c, s, F) /\ F \subseteq Objects(st, s) /\ st.slab[s].free \subseteq Objects(st, s)
    <2>1. st.slab[s].free \subseteq Objects(st, s)
      BY <1>1 DEF CachesOK, Slabbed
    <2>2. F \subseteq Objects(st, s)
      BY <2>1 DEF F
    <2>3. s \in DOMAIN st.slab /\ s \notin U /\ s \in SlabsIn(st, c)
      BY <1>1
    <2> QED BY <2>1, <2>2, <2>3, <1>5, FreeSetChanged
  <1>13. /\ (FreeIn(st, U, c) \ Objects(st, s)) \union F = FreeIn(st, U, c) \ {a} /\ a \in FreeIn(st, U, c)
         /\ TakenIn(n, c) = TakenIn(st, c) \union {a} /\ a \notin TakenIn(st, c)
    BY <1>2, <1>12 DEF F, FreeSetIs
  <1>14. /\ IsFiniteSet(FreeIn(st, U, c) \ {a}) /\ Cardinality(FreeIn(st, U, c) \ {a}) = nb
         /\ nb \in Nat
    <2> DEFINE A == FreeIn(st, U, c)
    <2>1. IsFiniteSet(A) /\ a \in A /\ st.cache[c].nb_free = Cardinality(A)
      BY <1>10, <1>13
    <2> HIDE DEF A
    <2>2. IsFiniteSet(A \ {a}) /\ Cardinality(A \ {a}) = Cardinality(A) - 1
      BY <2>1, FS_RemoveElement
    <2>3. Cardinality(A \ {a}) \in Nat
      BY <2>2, FS_CardinalityType
    <2> QED BY <2>1, <2>2, <2>3 DEF A
  <1> HIDE DEF nb
  <1>15. CachesOK(n, U) /\ Only(st, n, {c}) /\ Disjoint(n)
    <2>1. FreeStep(st, n, c, s, F, longer, nb)
      BY <1>4, <1>5, <1>8 DEF FreeStep
    <2>2. longer \in Seq(Nat) /\ IsInjective(longer) /\ ToSet(longer) = ToSet(st.cache[c].slab_list) /\ FullLast(n.slab, longer)
      BY <1>11
    <2>3. /\ IsFiniteSet((FreeIn(st, U, c) \ Objects(st, s)) \union F)
          /\ nb = Cardinality((FreeIn(st, U, c) \ Objects(st, s)) \union F)
      BY <1>13, <1>14
    <2>4. s \in SlabsIn(st, c) /\ s \notin U
      BY <1>1
    <2> QED BY <2>1, <2>2, <2>3, <2>4, <1>12, <1>14, FreeStepKeeps
  <1>16. n.cache[c].nb_free = st.cache[c].nb_free - 1
    BY <1>4 DEF CacheIs, nb
  <1>17. /\ s \in SlabsIn(st, c) \ U
         /\ n.ret \in st.slab[s].free /\ n.slab[s].free = st.slab[s].free \ {n.ret}
         /\ n.ret \in Objects(st, s)
         /\ \A e \in DOMAIN st.slab : e # s => n.slab[e] = st.slab[e]
    BY <1>1, <1>2, <1>4, <1>5, <1>12 DEF FreeChanged, F
  <1> QED BY <1>4, <1>7, <1>9, <1>13, <1>15, <1>16, <1>17 DEF n, s, ObjectTaken

(* r is q with s moved to the head. *)
IsMoved(S, q, s, r) ==
  /\ r \in Seq(S) /\ IsInjective(r) /\ ToSet(r) = ToSet(q) /\ Len(r) = Len(q)
  /\ r[1] = s
  /\ \A i, j \in 1 .. Len(r) : i < j /\ i # 1 =>
       \E k, m \in 1 .. Len(q) : k < m /\ r[i] = q[k] /\ r[j] = q[m]

(* A slab moved to the head of the list, which is no longer full. *)
LEMMA MovedToHead ==
  ASSUME NEW S, NEW q \in Seq(S), NEW s \in ToSet(q), IsInjective(q)
  PROVE  IsMoved(S, q, s, <<s>> \o RemoveFirst(q, s))
  <1> DEFINE t == RemoveFirst(q, s)
             r == <<s>> \o t
  <1>1. t \in Seq(S) /\ IsInjective(t) /\ ToSet(t) = ToSet(q) \ {s}
    BY Removed
  <1>2. PICK p \in 1 .. Len(q) :
          /\ q[p] = s /\ Len(t) = Len(q) - 1
          /\ \A j \in 1 .. Len(q) - 1 : t[j] = IF j < p THEN q[j] ELSE q[j + 1]
    BY Removed
  <1>3. s \in S /\ Len(q) \in Nat
    BY ElementsAreContained
  <1> HIDE DEF t
  <1>4. /\ r \in Seq(S) /\ Len(r) = Len(t) + 1
        /\ \A j \in 1 .. Len(t) + 1 : r[j] = IF j = 1 THEN s ELSE t[j - 1]
        /\ IsInjective(r) /\ ToSet(r) = ToSet(t) \union {s}
    BY <1>1, <1>3, Prepended
  <1> HIDE DEF r
  <1>5. Len(t) \in Nat /\ Len(r) = Len(q) /\ r[1] = s
    <2>1. Len(t) \in Nat
      BY <1>2, <1>3
    <2>2. 1 \in 1 .. Len(t) + 1
      BY <2>1
    <2> QED BY <2>1, <2>2, <1>2, <1>3, <1>4
  <1>6. \A i, j \in 1 .. Len(r) : i < j /\ i # 1 =>
          \E k, m \in 1 .. Len(q) : k < m /\ r[i] = q[k] /\ r[j] = q[m]
    <2>1. SUFFICES ASSUME NEW i \in 1 .. Len(r), NEW j \in 1 .. Len(r), i < j, i # 1
                   PROVE  \E k, m \in 1 .. Len(q) : k < m /\ r[i] = q[k] /\ r[j] = q[m]
      OBVIOUS
    <2>2. /\ r[i] = t[i - 1] /\ r[j] = t[j - 1] /\ i - 1 \in 1 .. Len(q) - 1 /\ j - 1 \in 1 .. Len(q) - 1
      <3>1. i \in 1 .. Len(t) + 1 /\ j \in 1 .. Len(t) + 1 /\ j # 1
        BY <2>1, <1>5, <1>2, <1>4
      <3>2. r[i] = t[i - 1] /\ r[j] = t[j - 1]
        BY <3>1, <2>1, <1>4
      <3>3. i - 1 \in 1 .. Len(q) - 1 /\ j - 1 \in 1 .. Len(q) - 1
        BY <3>1, <2>1, <1>3, <1>5
      <3> QED BY <3>2, <3>3
    <2> DEFINE k == IF i - 1 < p THEN i - 1 ELSE i
               m == IF j - 1 < p THEN j - 1 ELSE j
    <2>3. r[i] = q[k] /\ r[j] = q[m]
      <3>1. t[i - 1] = IF i - 1 < p THEN q[i - 1] ELSE q[(i - 1) + 1]
        BY <2>2, <1>2
      <3>2. t[j - 1] = IF j - 1 < p THEN q[j - 1] ELSE q[(j - 1) + 1]
        BY <2>2, <1>2
      <3>3. (i - 1) + 1 = i /\ (j - 1) + 1 = j
        BY <2>1, <1>3, <1>5
      <3> QED BY <3>1, <3>2, <3>3, <2>2
    <2>4. k \in 1 .. Len(q) /\ m \in 1 .. Len(q) /\ k < m
      BY <2>1, <1>3, <1>5, <2>2
    <2> QED BY <2>3, <2>4
  <1>7. ToSet(r) = ToSet(q)
    BY <1>1, <1>4
  <1> QED BY <1>4, <1>5, <1>6, <1>7 DEF r, t, IsMoved

(* An object is put back in its slab, and that is all. *)
ObjectPut(st, n, U, c, s, addr) ==
  /\ KmemShape(n) /\ SameRanges(st, n)
  /\ CachesOK(n, U) /\ Only(st, n, {c}) /\ Disjoint(n)
  /\ TakenIn(n, c) = TakenIn(st, c) \ {addr}
  /\ n.cache[c].nb_free = st.cache[c].nb_free + 1
  /\ n.avail = st.avail
  /\ n.slab[s].free = st.slab[s].free \union {addr}
  /\ \A e \in DOMAIN st.slab : e # s => n.slab[e] = st.slab[e]

(* Putting an object back keeps the caches exact. *)
LEMMA PutBackCaches ==
  ASSUME NEW st, NEW U, KmemShape(st), Disjoint(st), CachesOK(st, U), NEW c \in DOMAIN st.cache,
         NEW s, s \in SlabsIn(st, c), s \notin U, NEW addr \in Objects(st, s), addr \notin st.slab[s].free
  PROVE  ObjectPut(st, PutBack(st, s, addr), U, c, s, addr)
  <1> DEFINE n == PutBack(st, s, addr)
             list == st.cache[c].slab_list
             F == st.slab[s].free \union {addr}
             moved == IF st.slab[s].free = {} THEN <<s>> \o RemoveFirst(list, s) ELSE list
             nb == st.cache[c].nb_free + 1
  <1>1. s \in DOMAIN st.slab /\ st.slab[s].cache = c
    BY DEF SlabsIn
  <1>2. Tabled(st) /\ Shaped(st) /\ st.slab \in [DOMAIN st.slab -> SlabRecord]
    BY DEF KmemShape, CachesOK
  <1>3. addr \in Nat /\ F \in SUBSET Nat
    <2>1. st.slab[s] \in SlabRecord
      BY <1>1, <1>2
    <2>2. addr \in Nat
      BY <2>1, ObjectsApart DEF Objects, SlabRecord
    <2> QED BY <2>1, <2>2 DEF SlabRecord
  <1>4. /\ n.avail = st.avail /\ n.slab = [st.slab EXCEPT ![s].free = F]
        /\ n.cache = [st.cache EXCEPT ![c].nb_free = nb, ![c].slab_list = moved]
    BY <1>1, <1>2 DEF PutBack, Shaped, Field, Tabled, CacheRecord
  <1>5. SameRanges(st, n) /\ FreeChanged(st.slab, s, F, n.slab)
    <2>1. /\ n.range = st.range /\ n.free = st.free /\ n.used = st.used
          /\ n.ranges_to_free = st.ranges_to_free /\ n.owner = st.owner
      BY <1>2 DEF PutBack, Shaped, Field
    <2> HIDE DEF n, F
    <2>2. FreeChanged(st.slab, s, F, n.slab)
      BY <1>1, <1>2, <1>3, <1>4, FreeFieldSet
    <2> QED BY <2>1, <2>2 DEF SameRanges, FreeChanged
  <1>6. Shaped(n)
    <2>1. n = [f \in DOMAIN st |-> n[f]]
      BY DEF PutBack
    <2> HIDE DEF n
    <2> QED BY <2>1, <1>2 DEF Shaped
  <1>7. n.cache = [e \in DOMAIN n.cache |-> n.cache[e]]
    BY <1>2 DEF PutBack, Tabled, Shaped, Field
  <1> HIDE DEF n, F, moved, nb
  <1>8. KmemShape(n)
    <2>1. n.slab \in [DOMAIN n.slab -> SlabRecord]
      BY <1>5 DEF FreeChanged
    <2> QED BY <2>1, <1>5, <1>6, SameRangesShape
  <1>9. CacheIs(st.cache, n.cache, c, moved, nb)
    <2>1. CacheIs(st.cache, [st.cache EXCEPT ![c].nb_free = nb, ![c].slab_list = moved], c, moved, nb)
      BY <1>2, CacheSet DEF Tabled
    <2> QED BY <2>1, <1>4
  <1>10. /\ list \in Seq(Nat) /\ Len(list) \in Nat
         /\ IsInjective(list) /\ ToSet(list) = SlabsIn(st, c) \ U /\ FullLast(st.slab, list)
         /\ IsFiniteSet(FreeIn(st, U, c)) /\ st.cache[c].nb_free = Cardinality(FreeIn(st, U, c))
         /\ \A i \in 1 .. Len(list) : list[i] \in SlabsIn(st, c) \ U /\ list[i] \in DOMAIN st.slab
    BY ListFacts
  <1>11. n.slab[s].free = F /\ \A e \in DOMAIN st.slab : e # s => n.slab[e] = st.slab[e]
    BY <1>5 DEF FreeChanged
  <1>12. F # {}
    BY DEF F
  <1>13. moved \in Seq(Nat) /\ IsInjective(moved) /\ ToSet(moved) = ToSet(list) /\ FullLast(n.slab, moved)
    <2>1. CASE st.slab[s].free = {}
      <3> DEFINE r == <<s>> \o RemoveFirst(list, s)
      <3>1. s \in ToSet(list)
        BY <1>10
      <3>2. /\ r \in Seq(Nat) /\ IsInjective(r) /\ ToSet(r) = ToSet(list) /\ Len(r) = Len(list)
            /\ r[1] = s
            /\ \A i, j \in 1 .. Len(r) : i < j /\ i # 1 =>
                 \E k, m \in 1 .. Len(list) : k < m /\ r[i] = list[k] /\ r[j] = list[m]
        <4>1. IsMoved(Nat, list, s, r)
          BY <3>1, <1>10, MovedToHead
        <4> QED BY <4>1 DEF IsMoved
      <3>3. moved = r
        BY <2>1 DEF moved
      <3> HIDE DEF r
      <3>4. FullLast(n.slab, r)
        <4>1. SUFFICES ASSUME NEW i \in 1 .. Len(r), NEW j \in 1 .. Len(r), i < j, n.slab[r[i]].free = {}
                       PROVE  n.slab[r[j]].free = {}
          BY DEF FullLast
        <4>2. i # 1
          BY <4>1, <3>2, <1>11, <1>12
        <4>3. PICK k \in 1 .. Len(list), m \in 1 .. Len(list) : k < m /\ r[i] = list[k] /\ r[j] = list[m]
          BY <4>1, <4>2, <3>2
        <4>4. n.slab[list[k]].free = {}
          BY <4>1, <4>3
        <4>5. list[k] # s
          BY <4>4, <1>11, <1>12
        <4>6. st.slab[list[k]].free = {}
          BY <4>4, <4>5, <4>3, <1>10, <1>11
        <4>7. st.slab[list[m]].free = {}
          BY <4>6, <4>3, <1>10 DEF FullLast
        <4>8. list[m] # s
          <5>0. Len(r) \in Nat
            BY <3>2
          <5>1. 1 \in 1 .. Len(r) /\ j # 1
            BY <5>0, i < j
          <5>2. DOMAIN r = 1 .. Len(r)
            BY <3>2
          <5>3. r[j] # r[1]
            BY <5>1, <5>2, <3>2 DEF IsInjective
          <5> QED BY <5>3, <4>3, <3>2
        <4>9. n.slab[list[m]].free = {}
          BY <4>7, <4>8, <4>3, <1>10, <1>11
        <4> QED BY <4>3, <4>9
      <3> QED BY <3>2, <3>3, <3>4
    <2>2. CASE st.slab[s].free # {}
      <3>1. moved = list
        BY <2>2 DEF moved
      <3>2. FullLast(n.slab, list)
        <4>1. SUFFICES ASSUME NEW i \in 1 .. Len(list), NEW j \in 1 .. Len(list), i < j, n.slab[list[i]].free = {}
                       PROVE  n.slab[list[j]].free = {}
          BY DEF FullLast
        <4>2. st.slab[list[i]].free = {}
          BY <4>1, <1>10, <1>11, <1>12
        <4>3. st.slab[list[j]].free = {}
          BY <4>1, <4>2, <1>10 DEF FullLast
        <4> QED BY <4>3, <2>2, <1>10, <1>11
      <3> QED BY <3>1, <3>2, <1>10
    <2> QED BY <2>1, <2>2
  <1>14. FreeSetIs(st, n, U, c, s, F) /\ F \subseteq Objects(st, s) /\ st.slab[s].free \subseteq Objects(st, s)
    <2>1. st.slab[s].free \subseteq Objects(st, s)
      BY <1>1 DEF CachesOK, Slabbed
    <2>2. F \subseteq Objects(st, s)
      BY <2>1 DEF F
    <2> QED BY <2>1, <2>2, <1>1, <1>5, FreeSetChanged
  <1>15. /\ (FreeIn(st, U, c) \ Objects(st, s)) \union F = FreeIn(st, U, c) \union {addr} /\ addr \notin FreeIn(st, U, c)
         /\ TakenIn(n, c) = TakenIn(st, c) \ {addr}
    BY <1>14 DEF F, FreeSetIs
  <1>16. /\ IsFiniteSet(FreeIn(st, U, c) \union {addr}) /\ Cardinality(FreeIn(st, U, c) \union {addr}) = nb
         /\ nb \in Nat
    <2> DEFINE A == FreeIn(st, U, c)
    <2>1. IsFiniteSet(A) /\ addr \notin A /\ st.cache[c].nb_free = Cardinality(A)
      BY <1>10, <1>15
    <2> HIDE DEF A
    <2>2. IsFiniteSet(A \union {addr}) /\ Cardinality(A \union {addr}) = Cardinality(A) + 1
      BY <2>1, FS_AddElement
    <2>3. Cardinality(A \union {addr}) \in Nat
      BY <2>2, FS_CardinalityType
    <2> QED BY <2>1, <2>2, <2>3 DEF A, nb
  <1>17. CachesOK(n, U) /\ Only(st, n, {c}) /\ Disjoint(n)
    <2>1. FreeStep(st, n, c, s, F, moved, nb)
      BY <1>5, <1>7, <1>9 DEF FreeStep
    <2>2. moved \in Seq(Nat) /\ IsInjective(moved) /\ ToSet(moved) = ToSet(st.cache[c].slab_list) /\ FullLast(n.slab, moved)
      BY <1>13
    <2>3. /\ IsFiniteSet((FreeIn(st, U, c) \ Objects(st, s)) \union F)
          /\ nb = Cardinality((FreeIn(st, U, c) \ Objects(st, s)) \union F)
      BY <1>15, <1>16
    <2> QED BY <2>1, <2>2, <2>3, <1>14, <1>16, FreeStepKeeps
  <1>18. n.cache[c].nb_free = st.cache[c].nb_free + 1
    BY <1>9 DEF CacheIs, nb
  <1>19. /\ n.slab[s].free = st.slab[s].free \union {addr}
         /\ \A e \in DOMAIN st.slab : e # s => n.slab[e] = st.slab[e]
    BY <1>11 DEF F
  <1> QED BY <1>4, <1>5, <1>8, <1>15, <1>17, <1>18, <1>19 DEF n, ObjectPut

(* A slab has as many objects as its cache says. *)
LEMMA ObjectsCounted ==
  ASSUME NEW c \in DOMAIN Cache, Cache[c].objects \in Nat, NEW base \in Nat
  PROVE  IsFiniteSet(ObjectsAt(c, base)) /\ Cardinality(ObjectsAt(c, base)) = Cache[c].objects
  <1> DEFINE m == Cache[c].objects
             z == Cache[c].size
             first == base * PageSize
             f == [i \in 0 .. m - 1 |-> first + i * z]
             S == 0 .. m - 1
             T == ObjectsAt(c, base)
  <1>1. m \in Nat /\ z \in Nat \ {0} /\ first \in Nat
    <2>1. PageSize \in Nat
      BY KmemAssumption
    <2> QED BY <2>1, GeometryFits
  <1>2. T = {first + i * z : i \in S}
    BY DEF ObjectsAt
  <1> HIDE DEF m, z, first, T
  <1>3. IsFiniteSet(S) /\ Cardinality(S) = m
    <2>1. 0 \in Int /\ m - 1 \in Int
      BY <1>1
    <2>2. IsFiniteSet(S) /\ Cardinality(S) = IF 0 > m - 1 THEN 0 ELSE m - 1 - 0 + 1
      BY <2>1, FS_Interval
    <2> QED BY <2>2, <1>1
  <1>4. \A i, j \in S : i # j => first + i * z # first + j * z
    <2>1. SUFFICES ASSUME NEW i \in S, NEW j \in S, i < j PROVE first + i * z # first + j * z
      <3>1. \A i, j \in S : i < j => first + i * z # first + j * z
        BY <2>1
      <3>2. \A i, j \in S : i # j => i < j \/ j < i
        BY <1>1
      <3> QED BY <3>1, <3>2
    <2>2. i \in Nat /\ j \in Nat /\ i + 1 <= j /\ i + 1 \in Int
      BY <2>1, <1>1
    <2>3. (i + 1) * z <= j * z
      BY <2>2, <1>1, ProductGrows
    <2>4. (i + 1) * z = i * z + z /\ i * z \in Int /\ j * z \in Int
      BY <2>2, <1>1
    <2> QED BY <2>3, <2>4, <1>1
  <1>5. f \in Surjection(S, T) /\ f \in Injection(S, T)
    <2>1. f \in [S -> T] /\ \A i \in S : f[i] = first + i * z
      BY <1>2
    <2>2. \A t \in T : \E i \in S : f[i] = t
      BY <1>2, <2>1
    <2>3. \A i, j \in S : f[i] = f[j] => i = j
      BY <2>1, <1>4
    <2> HIDE DEF f, S
    <2>4. f \in Surjection(S, T)
      BY <2>1, <2>2 DEF Surjection
    <2>5. f \in Injection(S, T)
      BY <2>1, <2>3 DEF Injection, IsInjective
    <2> QED BY <2>4, <2>5
  <1> HIDE DEF f, S
  <1>6. IsFiniteSet(T) /\ Cardinality(T) = Cardinality(S)
    BY <1>3, <1>5, FS_Surjection
  <1> QED BY <1>3, <1>6 DEF T, m

(* A step that leaves the slabs and the caches alone. *)
Cached(st, n) == n.slab = st.slab /\ n.cache = st.cache

(* What is known of the caches depends on nothing but their records and the *)
(* slabs.                                                                  *)
LEMMA CachedKept ==
  ASSUME NEW st, NEW n, Cached(st, n)
  PROVE  /\ \A U : CachesOK(st, U) <=> CachesOK(n, U)
         /\ \A e : SlabsIn(n, e) = SlabsIn(st, e) /\ TakenIn(n, e) = TakenIn(st, e)
         /\ \A U, e : FreeIn(n, U, e) = FreeIn(st, U, e)
         /\ \A s : Objects(n, s) = Objects(st, s)
         /\ \A C : Only(st, n, C)
         /\ Disjoint(st) <=> Disjoint(n)
         /\ \A e : HasFreeObject(n, e) <=> HasFreeObject(st, e)
  <1>1. \A s : Objects(n, s) = Objects(st, s)
    BY DEF Objects, Cached
  <1>2. \A e : SlabsIn(n, e) = SlabsIn(st, e)
    BY DEF SlabsIn, Cached
  <1>3. \A e : TakenIn(n, e) = TakenIn(st, e)
    <2>1. SUFFICES ASSUME NEW e PROVE TakenIn(n, e) = TakenIn(st, e)
      OBVIOUS
    <2> QED BY <1>1, <1>2 DEF TakenIn, Cached
  <1>4. \A U, e : FreeIn(n, U, e) = FreeIn(st, U, e)
    BY <1>2 DEF FreeIn, Cached
  <1>5. \A U : CachesOK(st, U) <=> CachesOK(n, U)
    <2>1. Tabled(n) <=> Tabled(st)
      BY DEF Tabled, Cached
    <2>2. \A U : Slabbed(n, U) <=> Slabbed(st, U)
      BY <1>1 DEF Slabbed, Cached
    <2>3. \A U, e : CacheExact(n, U, e) <=> CacheExact(st, U, e)
      BY <1>2, <1>4 DEF CacheExact, Cached
    <2>4. DOMAIN n.cache = DOMAIN st.cache
      BY DEF Cached
    <2> QED BY <2>1, <2>2, <2>3, <2>4 DEF CachesOK
  <1>6. \A C : Only(st, n, C)
    BY DEF Only, Cached
  <1>7. Disjoint(st) <=> Disjoint(n)
    BY <1>1 DEF Disjoint, Cached
  <1>8. \A e : HasFreeObject(n, e) <=> HasFreeObject(st, e)
    BY DEF HasFreeObject, Cached
  <1> QED BY <1>1, <1>2, <1>3, <1>4, <1>5, <1>6, <1>7, <1>8

(* free_object() of an object of s that is allocated. *)
ObjectFreed(st, n, U, c, s, addr) ==
  /\ KmemKept(n) /\ SameRanges(st, n) /\ (Coalesced(st) <=> Coalesced(n))
  /\ CachesOK(n, U) /\ Only(st, n, {c})
  /\ TakenIn(n, c) = TakenIn(st, c) \ {addr}
  /\ n.cache[c].nb_free = st.cache[c].nb_free + 1
  /\ n.avail = st.avail
  /\ n.slab[s].free = st.slab[s].free \union {addr}
  /\ \A e \in DOMAIN st.slab : e # s => n.slab[e] = st.slab[e]
  /\ \/ /\ n.ret = NULL
        /\ \/ n.slab[s].free # Objects(n, s)
           \/ ~ (n.cache[c].nb_free - Cardinality(Objects(n, s)) >= Cache[c].min)
     \/ /\ n.ret = s /\ n.slab[s].free = Objects(n, s)
        /\ n.cache[c].nb_free - Cardinality(Objects(n, s)) >= Cache[c].min

(* Freeing an object keeps the caches exact: the slab that holds it is     *)
(* found through its page.                                                 *)
LEMMA FreeObjectCaches ==
  ASSUME NEW st, NEW U, KmemKept(st), CachesOK(st, U), NEW c \in DOMAIN st.cache,
         NEW s, s \in SlabsIn(st, c), s \notin U, NEW addr \in Objects(st, s), addr \notin st.slab[s].free
  PROVE  ObjectFreed(st, FreeObject(st, addr), U, c, s, addr)
  <1> DEFINE n == FreeObject(st, addr)
             p == PutBack(st, s, addr)
  <1>1. s \in DOMAIN st.slab /\ st.slab[s].cache = c /\ s # NULL /\ KmemShape(st) /\ Disjoint(st)
    BY KeptDisjoint DEF SlabsIn, KmemKept, KmemShape
  <1>2. ResolveSlab(st, PageOf(addr)) = s /\ addr \in Nat
    BY <1>1, ObjectResolved, ObjectLies
  <1>3. n = Spared(p, s)
    BY <1>1, <1>2 DEF FreeObject, FreeObjectIn, ObjectIn
  <1>4. ObjectPut(st, p, U, c, s, addr)
    BY <1>1, PutBackCaches
  <1>5. KmemKept(n) /\ SameRanges(st, n) /\ (Coalesced(st) <=> Coalesced(n))
    <2>1. KmemKept(n) /\ SameRanges(st, n)
      BY <1>2, FreeObjectKeeps
    <2>2. Coalesced(st) <=> Coalesced(n)
      BY <1>2, FreeObjectKeeps
    <2> QED BY <2>1, <2>2
  <1> HIDE DEF p, n
  <1>6. /\ Cached(p, n) /\ n.avail = p.avail
        /\ n.ret = IF CanBeSpared(p, s) THEN s ELSE NULL
    <2>1. Shaped(p)
      BY <1>4 DEF ObjectPut, KmemShape
    <2> QED BY <2>1, <1>3 DEF Spared, Return, Cached, Shaped, Field
  <1>7. CachesOK(n, U) /\ TakenIn(n, c) = TakenIn(p, c) /\ Objects(n, s) = Objects(p, s)
    BY <1>4, <1>6, CachedKept DEF ObjectPut
  <1>8. Only(st, n, {c})
    BY <1>4, <1>6 DEF ObjectPut, Only, Cached
  <1>9. p.slab[s].cache = c /\ p.slab[s].free = n.slab[s].free /\ p.cache = n.cache
    BY <1>1, <1>4, <1>6 DEF ObjectPut, SameRanges, Cached
  <1>10. CanBeSpared(p, s) <=> /\ n.slab[s].free = Objects(n, s)
                               /\ n.cache[c].nb_free - Cardinality(Objects(n, s)) >= Cache[c].min
    BY <1>7, <1>9 DEF CanBeSpared
  <1>11. /\ TakenIn(n, c) = TakenIn(st, c) \ {addr}
         /\ n.cache[c].nb_free = st.cache[c].nb_free + 1
         /\ n.avail = st.avail
         /\ n.slab[s].free = st.slab[s].free \union {addr}
         /\ \A e \in DOMAIN st.slab : e # s => n.slab[e] = st.slab[e]
    BY <1>4, <1>6, <1>7 DEF ObjectPut, Cached
  <1>12. \/ /\ n.ret = NULL
            /\ \/ n.slab[s].free # Objects(n, s)
               \/ ~ (n.cache[c].nb_free - Cardinality(Objects(n, s)) >= Cache[c].min)
         \/ /\ n.ret = s /\ n.slab[s].free = Objects(n, s)
            /\ n.cache[c].nb_free - Cardinality(Objects(n, s)) >= Cache[c].min
    BY <1>6, <1>10
  <1> QED BY <1>5, <1>7, <1>8, <1>11, <1>12 DEF n, ObjectFreed

(* A list keeps its order when it loses a slab. *)
LEMMA RemovedFullLast ==
  ASSUME NEW S, NEW q \in Seq(S), NEW s \in ToSet(q), IsInjective(q), NEW slab, FullLast(slab, q)
  PROVE  FullLast(slab, RemoveFirst(q, s))
  <1> DEFINE t == RemoveFirst(q, s)
  <1>1. PICK p \in 1 .. Len(q) :
          /\ q[p] = s /\ Len(t) = Len(q) - 1
          /\ \A j \in 1 .. Len(q) - 1 : t[j] = IF j < p THEN q[j] ELSE q[j + 1]
    BY Removed
  <1>2. Len(q) \in Nat
    BY ElementsAreContained
  <1> HIDE DEF t
  <1>3. SUFFICES ASSUME NEW i \in 1 .. Len(t), NEW j \in 1 .. Len(t), i < j, slab[t[i]].free = {}
                 PROVE  slab[t[j]].free = {}
    BY DEF FullLast, t
  <1> DEFINE k == IF i < p THEN i ELSE i + 1
             m == IF j < p THEN j ELSE j + 1
  <1>4. t[i] = q[k] /\ t[j] = q[m]
    BY <1>1, <1>3
  <1>5. k \in 1 .. Len(q) /\ m \in 1 .. Len(q) /\ k < m
    BY <1>1, <1>2, <1>3
  <1>6. slab[q[k]].free = {}
    BY <1>3, <1>4
  <1> HIDE DEF k, m
  <1> QED BY <1>4, <1>5, <1>6 DEF FullLast

(* cache_release_slab(): a slab with all its objects free leaves its cache. *)
SlabDropped(st, n, U, c, s) ==
  /\ KmemKept(n) /\ SameRanges(st, n) /\ (Coalesced(st) <=> Coalesced(n))
  /\ n.slab = st.slab /\ n.ret = st.ret /\ n.avail = st.avail
  /\ CachesOK(n, U \union {s}) /\ Only(st, n, {c})
  /\ \A e : TakenIn(n, e) = TakenIn(st, e)
  /\ n.cache[c].nb_free = st.cache[c].nb_free - Cache[c].objects
  /\ n.cache[c].slab_list = RemoveFirst(st.cache[c].slab_list, s)

(* Dropping an empty slab from its list keeps the caches exact, but for    *)
(* this slab.                                                              *)
LEMMA DropSlabCaches ==
  ASSUME NEW st, NEW U, KmemKept(st), CachesOK(st, U), NEW c \in DOMAIN st.cache,
         NEW s, s \in SlabsIn(st, c), s \notin U, st.slab[s].free = Objects(st, s),
         Cache[c].objects \in Nat
  PROVE  SlabDropped(st, DropSlab(st, s), U, c, s)
  <1> DEFINE n == DropSlab(st, s)
             list == st.cache[c].slab_list
             less == RemoveFirst(list, s)
             nb == st.cache[c].nb_free - Cache[c].objects
             V == U \union {s}
  <1>1. s \in DOMAIN st.slab /\ st.slab[s].cache = c /\ KmemShape(st) /\ Disjoint(st) /\ Shaped(st)
        /\ Tabled(st) /\ Slabbed(st, U) /\ c \in DOMAIN Cache
    BY KeptDisjoint DEF SlabsIn, KmemKept, KmemShape, CachesOK, Tabled
  <1>2. KmemKept(n) /\ SameRanges(st, n) /\ n.slab = st.slab /\ n.ret = st.ret
    BY DropSlabKeeps
  <1>3. /\ n.avail = st.avail
        /\ n.cache = [st.cache EXCEPT ![c].nb_free = nb, ![c].slab_list = less]
    BY <1>1 DEF DropSlab, Shaped, Field, Tabled, CacheRecord
  <1> HIDE DEF n, less, nb
  <1>4. Coalesced(st) <=> Coalesced(n)
    <2>1. Shaped(n) /\ n.slab \in [DOMAIN n.slab -> SlabRecord]
      BY <1>2 DEF KmemKept, KmemShape
    <2> QED BY <1>2, <2>1, SameRangesKept
  <1>5. CacheIs(st.cache, n.cache, c, less, nb)
    <2>1. CacheIs(st.cache, [st.cache EXCEPT ![c].nb_free = nb, ![c].slab_list = less], c, less, nb)
      BY <1>1, CacheSet DEF Tabled
    <2> QED BY <2>1, <1>3
  <1>6. Only(st, n, {c})
    BY <1>1, <1>2, <1>5 DEF Only, CacheIs
  <1>7. /\ list \in Seq(Nat) /\ Len(list) \in Nat
        /\ IsInjective(list) /\ ToSet(list) = SlabsIn(st, c) \ U /\ FullLast(st.slab, list)
        /\ IsFiniteSet(FreeIn(st, U, c)) /\ st.cache[c].nb_free = Cardinality(FreeIn(st, U, c))
    BY ListFacts
  <1>8. /\ less \in Seq(Nat) /\ IsInjective(less) /\ ToSet(less) = ToSet(list) \ {s}
        /\ FullLast(n.slab, less)
    <2>1. s \in ToSet(list)
      BY <1>7
    <2>2. less \in Seq(Nat) /\ IsInjective(less) /\ ToSet(less) = ToSet(list) \ {s}
      BY <2>1, <1>7, Removed DEF less
    <2>3. FullLast(st.slab, less)
      BY <2>1, <1>7, RemovedFullLast DEF less
    <2> QED BY <2>2, <2>3, <1>2
  <1>9. /\ \A e : SlabsIn(n, e) = SlabsIn(st, e)
        /\ \A t : Objects(n, t) = Objects(st, t)
    BY <1>2 DEF SlabsIn, Objects
  <1>10. \A e : TakenIn(n, e) = TakenIn(st, e)
    <2>1. SUFFICES ASSUME NEW e PROVE TakenIn(n, e) = TakenIn(st, e)
      OBVIOUS
    <2> QED BY <1>2, <1>9 DEF TakenIn
  <1>11. FreeIn(n, V, c) = FreeIn(st, U, c) \ Objects(st, s) /\ Objects(st, s) \subseteq FreeIn(st, U, c)
    <2>1. FreeIn(n, V, c) = UNION {st.slab[t].free : t \in SlabsIn(st, c) \ V}
      BY <1>2, <1>9 DEF FreeIn
    <2>2. \A t \in SlabsIn(st, c) : t # s => st.slab[t].free \intersect Objects(st, s) = {}
      BY <1>1 DEF Slabbed, Disjoint, SlabsIn
    <2> HIDE DEF V
    <2>3. SlabsIn(st, c) \ V = (SlabsIn(st, c) \ U) \ {s}
      BY DEF V
    <2>4. FreeIn(st, U, c) = UNION {st.slab[t].free : t \in SlabsIn(st, c) \ U}
      BY DEF FreeIn
    <2> QED BY <2>1, <2>2, <2>3, <2>4
  <1>12. IsFiniteSet(FreeIn(n, V, c)) /\ nb = Cardinality(FreeIn(n, V, c)) /\ nb \in Nat
    <2> DEFINE A == FreeIn(st, U, c)
               B == Objects(st, s)
    <2>1. IsFiniteSet(A) /\ st.cache[c].nb_free = Cardinality(A) /\ B \subseteq A
          /\ FreeIn(n, V, c) = A \ B
      BY <1>7, <1>11
    <2>2. IsFiniteSet(B) /\ Cardinality(B) = Cache[c].objects
      <3>1. st.slab[s].base \in Nat
        BY <1>1 DEF KmemShape, SlabRecord
      <3> QED BY <3>1, <1>1, ObjectsCounted DEF Objects
    <2> HIDE DEF A, B
    <2>3. IsFiniteSet(A \ B) /\ Cardinality(A \ B) = Cardinality(A) - Cardinality(A \intersect B)
      BY <2>1, FS_Difference
    <2>4. A \intersect B = B
      BY <2>1
    <2>5. Cardinality(A \ B) \in Nat
      BY <2>3, FS_CardinalityType
    <2>6. nb = Cardinality(A \ B)
      BY <2>1, <2>2, <2>3, <2>4 DEF nb
    <2> QED BY <2>1, <2>3, <2>5, <2>6
  <1>13. n.cache[c] = [slab_list |-> less, nb_free |-> nb, addr |-> st.cache[c].addr]
         /\ n.cache[c] \in CacheRecord
    <2>1. st.cache[c].addr \in Nat
      BY <1>1 DEF Tabled, CacheRecord
    <2>2. n.cache[c] = [slab_list |-> less, nb_free |-> nb, addr |-> st.cache[c].addr]
      BY <1>5 DEF CacheIs
    <2> QED BY <2>1, <2>2, <1>8, <1>12 DEF CacheRecord
  <1>14. CacheExact(n, V, c)
    <2>1. n.cache[c].slab_list = less /\ n.cache[c].nb_free = nb
      BY <1>13
    <2>2. ToSet(less) = SlabsIn(n, c) \ V
      BY <1>7, <1>8, <1>9
    <2> QED BY <2>1, <2>2, <1>8, <1>12 DEF CacheExact
  <1>15. CachesOK(n, V)
    <2>1. n.cache = [e \in DOMAIN n.cache |-> n.cache[e]]
      BY <1>1, <1>3 DEF Tabled
    <2>2. V \subseteq DOMAIN n.slab
      BY <1>1, <1>2 DEF Slabbed
    <2>3. \A t : t \notin SlabsIn(st, c) \union SlabsIn(n, c) => (t \in V <=> t \in U)
      OBVIOUS
    <2>4. \A t \in SlabsIn(n, c) : n.slab[t].free \subseteq Objects(n, t)
      BY <1>1, <1>2, <1>9 DEF Slabbed, SlabsIn
    <2>5. \A t \in SlabsIn(n, c) : t \in V => n.slab[t].free = Objects(n, t)
      BY <1>1, <1>2, <1>9 DEF Slabbed, SlabsIn
    <2> HIDE DEF V
    <2> QED BY <2>1, <2>2, <2>3, <2>4, <2>5, <1>6, <1>13, <1>14, OneCache
  <1>16. /\ n.cache[c].nb_free = st.cache[c].nb_free - Cache[c].objects
         /\ n.cache[c].slab_list = RemoveFirst(st.cache[c].slab_list, s)
    BY <1>13 DEF nb, less
  <1> QED BY <1>2, <1>3, <1>4, <1>6, <1>10, <1>15, <1>16 DEF n, SlabDropped

(* Its range is unbound from it. *)
SlabUnbound(st, n, U, c, s) ==
  /\ n.cache = st.cache /\ n.avail = st.avail
  /\ DOMAIN n.slab = DOMAIN st.slab \ {s}
  /\ \A e \in DOMAIN n.slab : n.slab[e] = st.slab[e]
  /\ CachesOK(n, U \ {s}) /\ Only(st, n, {c})
  /\ \A e : TakenIn(n, e) = TakenIn(st, e)

(* A slab whose range is unbound is no slab any more. *)
LEMMA UnbindRangeCaches ==
  ASSUME NEW st, NEW U, KmemShape(st), CachesOK(st, U), NEW s, s \in U, NEW c, c = st.slab[s].cache
  PROVE  SlabUnbound(st, UnbindRange(st, s), U, c, s)
  <1> DEFINE n == UnbindRange(st, s)
             V == U \ {s}
  <1>1. s \in DOMAIN st.slab /\ Shaped(st) /\ Tabled(st) /\ Slabbed(st, U) /\ c \in DOMAIN st.cache
        /\ st.slab[s].free = Objects(st, s)
    BY DEF KmemShape, CachesOK, Slabbed
  <1>2. /\ n.cache = st.cache /\ n.avail = st.avail
        /\ n.slab = Restrict(st.slab, DOMAIN st.slab \ {s})
    BY <1>1 DEF UnbindRange, Shaped, Field
  <1> HIDE DEF n
  <1>3. DOMAIN n.slab = DOMAIN st.slab \ {s} /\ \A e \in DOMAIN n.slab : n.slab[e] = st.slab[e]
    BY <1>2 DEF Restrict
  <1>4. Only(st, n, {c})
    BY <1>2, <1>3 DEF Only
  <1>5. /\ \A e : SlabsIn(n, e) = SlabsIn(st, e) \ {s}
        /\ \A t \in DOMAIN n.slab : Objects(n, t) = Objects(st, t)
    BY <1>3 DEF SlabsIn, Objects
  <1>6. \A e : TakenIn(n, e) = TakenIn(st, e)
    <2>1. SUFFICES ASSUME NEW e PROVE TakenIn(n, e) = TakenIn(st, e)
      OBVIOUS
    <2>2. \A t \in SlabsIn(n, e) : t \in DOMAIN n.slab /\ t \in SlabsIn(st, e)
      BY <1>5 DEF SlabsIn
    <2>3. \A t \in SlabsIn(n, e) : Objects(n, t) \ n.slab[t].free = Objects(st, t) \ st.slab[t].free
      BY <2>2, <1>3, <1>5
    <2>4. Objects(st, s) \ st.slab[s].free = {}
      BY <1>1
    <2> QED BY <2>2, <2>3, <2>4, <1>5 DEF TakenIn
  <1>7. SlabsIn(n, c) \ V = SlabsIn(st, c) \ U
    BY <1>5
  <1>8. FreeIn(n, V, c) = FreeIn(st, U, c)
    <2> HIDE DEF V
    <2>1. \A t \in SlabsIn(st, c) \ U : n.slab[t] = st.slab[t]
      BY <1>3, <1>7 DEF SlabsIn
    <2> QED BY <2>1, <1>7 DEF FreeIn
  <1>9. CacheExact(st, U, c) /\ n.cache[c] \in CacheRecord
    BY <1>1, <1>2 DEF CachesOK, Tabled
  <1>10. CacheExact(n, V, c)
    <2> DEFINE list == st.cache[c].slab_list
    <2>1. \A i \in 1 .. Len(list) : list[i] \in SlabsIn(st, c) \ U
      BY <1>1, ListFacts
    <2>2. \A i \in 1 .. Len(list) : n.slab[list[i]] = st.slab[list[i]]
      BY <2>1, <1>7, <1>3 DEF SlabsIn
    <2> HIDE DEF list
    <2>3. FullLast(st.slab, list) => FullLast(n.slab, list)
      BY <2>2 DEF FullLast
    <2>4. FullLast(n.slab, n.cache[c].slab_list)
      BY <2>3, <1>2, <1>9 DEF CacheExact, list
    <2>5. ToSet(n.cache[c].slab_list) = SlabsIn(n, c) \ V /\ IsInjective(n.cache[c].slab_list)
      BY <1>2, <1>7, <1>9 DEF CacheExact
    <2>6. IsFiniteSet(FreeIn(n, V, c)) /\ n.cache[c].nb_free = Cardinality(FreeIn(n, V, c))
      BY <1>2, <1>8, <1>9 DEF CacheExact
    <2> QED BY <2>4, <2>5, <2>6 DEF CacheExact
  <1>11. CachesOK(n, V)
    <2>1. n.cache = [e \in DOMAIN n.cache |-> n.cache[e]]
      BY <1>1, <1>2 DEF Tabled
    <2>2. V \subseteq DOMAIN n.slab
      BY <1>1, <1>3 DEF Slabbed
    <2>3. \A t : t \notin SlabsIn(st, c) \union SlabsIn(n, c) => (t \in V <=> t \in U)
      BY <1>1 DEF SlabsIn
    <2>4. \A t \in SlabsIn(n, c) : n.slab[t].free \subseteq Objects(n, t)
      BY <1>1, <1>3, <1>5 DEF Slabbed, SlabsIn
    <2>5. \A t \in SlabsIn(n, c) : t \in V => n.slab[t].free = Objects(n, t)
      BY <1>1, <1>3, <1>5 DEF Slabbed, SlabsIn
    <2> HIDE DEF V
    <2> QED BY <2>1, <2>2, <2>3, <2>4, <2>5, <1>1, <1>4, <1>9, <1>10, OneCache
  <1> QED BY <1>2, <1>3, <1>4, <1>6, <1>11 DEF n, SlabUnbound

(* cache_add_slab(): *)
SlabAdded(st, n, U, c, s, d, base) ==
  /\ n.avail = st.avail /\ n.ret = s
  /\ DOMAIN n.slab = DOMAIN st.slab \union {s}
  /\ n.slab[s] = [cache |-> c, free |-> ObjectsAt(c, base), range |-> d, base |-> base]
  /\ \A e \in DOMAIN st.slab : n.slab[e] = st.slab[e]
  /\ CachesOK(n, U) /\ Only(st, n, {c})
  /\ \A e : TakenIn(n, e) = TakenIn(st, e)
  /\ n.cache[c].nb_free = st.cache[c].nb_free + Cache[c].objects
  /\ n.cache[c].slab_list # <<>> /\ Head(n.cache[c].slab_list) = s
  /\ n.range = IF d = NULL THEN st.range ELSE [st.range EXCEPT ![d].slab = s]
  /\ n.free = st.free /\ n.used = st.used
  /\ n.ranges_to_free = st.ranges_to_free /\ n.owner = st.owner

(* Adding a slab keeps the caches exact, and adds as many free objects as  *)
(* it has.                                                                 *)
LEMMA AddSlabCaches ==
  ASSUME NEW st, NEW U, KmemShape(st), CachesOK(st, U), NEW c \in DOMAIN st.cache,
         NEW base \in Nat, NEW d, NEW s \in Nat \ {NULL}, s \notin DOMAIN st.slab,
         Cache[c].objects \in Nat, Disjoint(AddSlab(st, c, base, d, s))
  PROVE  SlabAdded(st, AddSlab(st, c, base, d, s), U, c, s, d, base)
  <1> DEFINE n == AddSlab(st, c, base, d, s)
             list == st.cache[c].slab_list
             longer == <<s>> \o list
             nb == st.cache[c].nb_free + Cache[c].objects
             F == ObjectsAt(c, base)
             rec == [cache |-> c, free |-> F, range |-> d, base |-> base]
  <1>1. Shaped(st) /\ Tabled(st) /\ Slabbed(st, U) /\ c \in DOMAIN Cache
    BY DEF KmemShape, CachesOK, Tabled
  <1>2. /\ n.avail = st.avail /\ n.ret = s
        /\ n.slab = With(st.slab, s, rec)
        /\ n.range = IF d = NULL THEN st.range ELSE [st.range EXCEPT ![d].slab = s]
        /\ n.free = st.free /\ n.used = st.used
        /\ n.ranges_to_free = st.ranges_to_free /\ n.owner = st.owner
    BY <1>1 DEF AddSlab, Shaped, Field
  <1>21. CacheIs(st.cache, n.cache, c, longer, nb) /\ n.cache = [e \in DOMAIN n.cache |-> n.cache[e]]
    <2>1. n.cache = [st.cache EXCEPT ![c] = [slab_list |-> longer, nb_free |-> nb, addr |-> st.cache[c].addr]]
      BY <1>1 DEF AddSlab, Shaped, Field
    <2>2. st.cache \in [DOMAIN st.cache -> CacheRecord]
      BY <1>1 DEF Tabled
    <2> HIDE DEF n
    <2> QED BY <2>1, <2>2 DEF CacheIs
  <1> HIDE DEF n, longer, nb, F
  <1>3. /\ DOMAIN n.slab = DOMAIN st.slab \union {s} /\ n.slab[s] = rec
        /\ \A e \in DOMAIN st.slab : n.slab[e] = st.slab[e]
    BY <1>2 DEF With
  <1>4. /\ DOMAIN n.cache = DOMAIN st.cache
        /\ n.cache[c] = [slab_list |-> longer, nb_free |-> nb, addr |-> st.cache[c].addr]
        /\ \A e \in DOMAIN st.cache : e # c => n.cache[e] = st.cache[e]
        /\ n.cache = [e \in DOMAIN n.cache |-> n.cache[e]]
    BY <1>21 DEF CacheIs
  <1>5. Only(st, n, {c})
    BY <1>3, <1>4 DEF Only
  <1>6. /\ SlabsIn(n, c) = SlabsIn(st, c) \union {s}
        /\ \A e : e # c => SlabsIn(n, e) = SlabsIn(st, e)
        /\ \A t \in DOMAIN st.slab : Objects(n, t) = Objects(st, t)
        /\ Objects(n, s) = F /\ n.slab[s].free = F
    BY <1>3 DEF SlabsIn, Objects, F
  <1>7. s \notin U /\ s \notin SlabsIn(st, c)
    BY <1>1 DEF Slabbed, SlabsIn
  <1>8. \A e : TakenIn(n, e) = TakenIn(st, e)
    <2>1. SUFFICES ASSUME NEW e PROVE TakenIn(n, e) = TakenIn(st, e)
      OBVIOUS
    <2>2. \A t \in SlabsIn(st, e) : Objects(n, t) \ n.slab[t].free = Objects(st, t) \ st.slab[t].free
      BY <1>3, <1>6 DEF SlabsIn
    <2>3. Objects(n, s) \ n.slab[s].free = {}
      BY <1>6
    <2>4. \A t : t \in SlabsIn(n, e) => t \in SlabsIn(st, e) \/ t = s
      BY <1>6
    <2>5. SlabsIn(st, e) \subseteq SlabsIn(n, e)
      BY <1>6
    <2> QED BY <2>2, <2>3, <2>4, <2>5 DEF TakenIn
  <1>9. /\ list \in Seq(Nat) /\ Len(list) \in Nat
        /\ IsInjective(list) /\ ToSet(list) = SlabsIn(st, c) \ U /\ FullLast(st.slab, list)
        /\ IsFiniteSet(FreeIn(st, U, c)) /\ st.cache[c].nb_free = Cardinality(FreeIn(st, U, c))
        /\ \A i \in 1 .. Len(list) : list[i] \in SlabsIn(st, c) \ U /\ list[i] \in DOMAIN st.slab
    BY ListFacts
  <1>10. /\ longer \in Seq(Nat) /\ Len(longer) = Len(list) + 1
         /\ \A j \in 1 .. Len(list) + 1 : longer[j] = IF j = 1 THEN s ELSE list[j - 1]
         /\ IsInjective(longer) /\ ToSet(longer) = ToSet(list) \union {s}
    <2>1. s \notin ToSet(list) /\ s \in Nat
      BY <1>7, <1>9
    <2> HIDE DEF list
    <2> QED BY <2>1, <1>9, Prepended DEF longer
  <1>11. longer # <<>> /\ Head(longer) = s
    <2>1. Len(longer) >= 1 /\ 1 \in 1 .. Len(list) + 1
      BY <1>9, <1>10
    <2>2. longer # <<>>
      BY <2>1, <1>10, LongIsNotEmpty
    <2> QED BY <2>1, <2>2, <1>10, TailPlaces
  <1>12. FullLast(n.slab, longer)
    <2>1. SUFFICES ASSUME NEW i \in 1 .. Len(longer), NEW j \in 1 .. Len(longer), i < j, n.slab[longer[i]].free = {}
                   PROVE  n.slab[longer[j]].free = {}
      BY DEF FullLast
    <2>2. /\ j - 1 \in 1 .. Len(list) /\ longer[j] = list[j - 1] /\ n.slab[longer[j]] = st.slab[list[j - 1]]
      <3>1. j \in 1 .. Len(list) + 1 /\ j # 1 /\ j - 1 \in 1 .. Len(list)
        BY <2>1, <1>9, <1>10
      <3> QED BY <3>1, <1>3, <1>9, <1>10
    <2>3. CASE i = 1
      <3>1. F = {}
        BY <2>1, <2>3, <1>6, <1>10
      <3>2. Cache[c].objects = 0
        BY <3>1, ObjectsCounted, <1>1, FS_EmptySet DEF F
      <3>3. \A b \in Nat : ObjectsAt(c, b) = {}
        BY <3>2, ObjectsCounted, <1>1, FS_EmptySet
      <3>4. st.slab[list[j - 1]].free \subseteq Objects(st, list[j - 1]) /\ st.slab[list[j - 1]].cache = c
            /\ st.slab[list[j - 1]].base \in Nat
        BY <2>2, <1>1, <1>9 DEF Slabbed, SlabsIn, KmemShape, SlabRecord
      <3>5. st.slab[list[j - 1]].free = {}
        BY <3>3, <3>4 DEF Objects
      <3> QED BY <3>5, <2>2
    <2>4. CASE i # 1
      <3>1. i - 1 \in 1 .. Len(list) /\ i \in 1 .. Len(list) + 1 /\ i - 1 < j - 1
        BY <2>1, <2>4, <1>9, <1>10
      <3>2. longer[i] = list[i - 1] /\ n.slab[longer[i]] = st.slab[list[i - 1]]
        BY <3>1, <2>4, <1>3, <1>9, <1>10
      <3>3. st.slab[list[i - 1]].free = {}
        BY <3>2, <2>1
      <3>4. st.slab[list[j - 1]].free = {}
        BY <3>1, <3>3, <2>2, <1>9 DEF FullLast
      <3> QED BY <3>4, <2>2
    <2> QED BY <2>3, <2>4
  <1>13. FreeIn(n, U, c) = FreeIn(st, U, c) \union F /\ FreeIn(st, U, c) \intersect F = {}
    <2>1. \A t \in SlabsIn(st, c) \ U : n.slab[t].free = st.slab[t].free
      BY <1>3 DEF SlabsIn
    <2>2. SlabsIn(n, c) \ U = (SlabsIn(st, c) \ U) \union {s}
      BY <1>6, <1>7
    <2>3. FreeIn(n, U, c) = FreeIn(st, U, c) \union F
      BY <2>1, <2>2, <1>6 DEF FreeIn
    <2>4. \A t \in SlabsIn(st, c) : Objects(st, t) \intersect F = {} /\ st.slab[t].free \subseteq Objects(st, t)
      <3>1. ASSUME NEW t \in SlabsIn(st, c) PROVE Objects(st, t) \intersect F = {} /\ st.slab[t].free \subseteq Objects(st, t)
        <4>1. t \in DOMAIN st.slab /\ t # s /\ t \in DOMAIN n.slab /\ s \in DOMAIN n.slab
          BY <1>3 DEF SlabsIn
        <4>2. Objects(n, t) \intersect Objects(n, s) = {}
          BY <4>1 DEF Disjoint, n
        <4> QED BY <4>1, <4>2, <1>1, <1>6 DEF Slabbed
      <3> QED BY <3>1
    <2>5. FreeIn(st, U, c) \intersect F = {}
      BY <2>4 DEF FreeIn
    <2> QED BY <2>3, <2>5
  <1>14. IsFiniteSet(FreeIn(n, U, c)) /\ nb = Cardinality(FreeIn(n, U, c)) /\ nb \in Nat
    <2> DEFINE A == FreeIn(st, U, c)
    <2>1. IsFiniteSet(A) /\ st.cache[c].nb_free = Cardinality(A) /\ FreeIn(n, U, c) = A \union F
          /\ A \intersect F = {}
      BY <1>9, <1>13
    <2>2. IsFiniteSet(F) /\ Cardinality(F) = Cache[c].objects
      BY <1>1, ObjectsCounted DEF F
    <2> HIDE DEF A
    <2>3. IsFiniteSet(A \union F)
          /\ Cardinality(A \union F) = Cardinality(A) + Cardinality(F) - Cardinality(A \intersect F)
      BY <2>1, <2>2, FS_Union
    <2>4. Cardinality(A \intersect F) = 0
      BY <2>1, FS_EmptySet
    <2>5. Cardinality(A) \in Nat /\ Cardinality(F) \in Nat
      BY <2>1, <2>2, FS_CardinalityType
    <2>6. nb = Cardinality(A \union F) /\ nb \in Nat
      BY <2>1, <2>2, <2>3, <2>4, <2>5 DEF nb
    <2> QED BY <2>1, <2>3, <2>6
  <1>15. n.cache[c] \in CacheRecord
    <2>1. st.cache[c].addr \in Nat
      BY <1>1 DEF Tabled, CacheRecord
    <2> QED BY <2>1, <1>4, <1>10, <1>14 DEF CacheRecord
  <1>16. CacheExact(n, U, c)
    <2>1. n.cache[c].slab_list = longer /\ n.cache[c].nb_free = nb
      BY <1>4
    <2>2. ToSet(longer) = SlabsIn(n, c) \ U
      BY <1>6, <1>7, <1>9, <1>10
    <2> QED BY <2>1, <2>2, <1>10, <1>12, <1>14 DEF CacheExact
  <1>17. CachesOK(n, U)
    <2>1. U \subseteq DOMAIN n.slab
      BY <1>1, <1>3 DEF Slabbed
    <2>2. ASSUME NEW t \in SlabsIn(n, c)
          PROVE  n.slab[t].free \subseteq Objects(n, t) /\ (t \in U => n.slab[t].free = Objects(n, t))
      <3>1. CASE t = s
        BY <3>1, <1>6
      <3>2. CASE t # s
        <4>1. t \in DOMAIN st.slab
          BY <3>2, <2>2, <1>6 DEF SlabsIn
        <4> QED BY <4>1, <1>1, <1>3, <1>6 DEF Slabbed
      <3> QED BY <3>1, <3>2
    <2> QED BY <2>1, <2>2, <1>4, <1>5, <1>15, <1>16, OneCache
  <1>18. /\ n.cache[c].nb_free = st.cache[c].nb_free + Cache[c].objects
         /\ n.cache[c].slab_list # <<>> /\ Head(n.cache[c].slab_list) = s
    BY <1>4, <1>11 DEF nb
  <1> QED BY <1>2, <1>3, <1>5, <1>8, <1>17, <1>18 DEF n, F, SlabAdded

-----------------------------------------------------------------------------
(* WHAT HOLDS THROUGHOUT AN OPERATION                                      *)

(* A slab of a cache that is accepted holds an object at least. *)
LEMMA Accepted ==
  ASSUME NEW c \in DOMAIN Cache, ~ CacheRefused(c)
  PROVE  /\ Cache[c].objects \in Nat \ {0} /\ Cache[c].min \in Nat /\ Cache[c].min <= Cache[c].objects
         /\ Cache[c].pages \in Nat \ {0} /\ Cache[c].size \in Nat \ {0}
  <1> DEFINE p == Parameters(c)
             small == p.onslab \/ p.size <= KslabSize
             space == p.pages * PageSize - (IF small THEN KslabSize ELSE 0)
  <1>1. c \in {"caches", "ranges", "kslabs"} \union DOMAIN Shape /\ Cache[c] = Geometry(p)
    BY DEF Cache
  <1>2. p.size \in Nat \ {0} /\ p.pages \in Nat \ {0} /\ p.min \in Nat
        /\ (c \notin {"caches", "ranges"} => p.onslab = FALSE)
    <2>1. CASE c \in {"caches", "ranges", "kslabs"}
      BY <2>1, KmemAssumption DEF Parameters
    <2>2. CASE c \notin {"caches", "ranges", "kslabs"}
      <3>1. p = Shape[c] /\ c \in DOMAIN Shape
        BY <2>2, <1>1 DEF Parameters
      <3>2. Shape[c] \in [size : Nat \ {0}, pages : Nat \ {0}, min : Nat, onslab : {FALSE}]
        BY <3>1, KmemAssumption
      <3> QED BY <3>1, <3>2
    <2> QED BY <2>1, <2>2
  <1> HIDE DEF p
  <1>3. /\ Cache[c].size = p.size /\ Cache[c].pages = p.pages /\ Cache[c].min = p.min
        /\ Cache[c].objects = space \div p.size
    BY <1>1 DEF Geometry
  <1>4. /\ Cache[c].size \in Nat \ {0} /\ Cache[c].pages \in Nat \ {0} /\ Cache[c].objects \in Int
    BY GeometryFits
  <1>5. Cache[c].objects >= 1
    <2>1. CASE c \in {"caches", "ranges"}
      <3>1. Cache["caches"].objects >= 3 /\ Cache["ranges"].objects >= 5
        BY KmemAssumption
      <3> QED BY <3>1, <2>1, <1>4
    <2>2. CASE c \notin {"caches", "ranges"}
      <3>1. p.size <= p.pages * PageSize
        <4>1. ~ (p.size > p.pages * PageSize)
          BY <1>3 DEF CacheRefused
        <4>2. p.pages * PageSize \in Nat
          BY <1>2, KmemAssumption
        <4> QED BY <4>1, <4>2, <1>2
      <3>2. small => p.size <= KslabSize
        BY <2>2, <1>2
      <3>3. KslabSize \in Nat /\ PageSize \in Nat /\ KslabSize + KslabSize <= PageSize
        BY KmemAssumption
      <3>4. PageSize <= p.pages * PageSize /\ p.pages * PageSize \in Nat
        <4>1. 1 * PageSize <= p.pages * PageSize
          BY <1>2, <3>3, ProductGrows
        <4> QED BY <4>1, <1>2, <3>3
      <3>5. space \in Int /\ p.size <= space
        BY <3>1, <3>2, <3>3, <3>4, <1>2
      <3> HIDE DEF space
      <3>6. space \div p.size >= 1
        <4> DEFINE q == space \div p.size
                   r == space % p.size
        <4>1. q \in Int /\ r \in 0 .. p.size - 1 /\ space = q * p.size + r
          BY <3>5, <1>2, Division
        <4> HIDE DEF q, r
        <4>2. SUFFICES ASSUME q <= 0 PROVE FALSE
          BY <4>1 DEF q
        <4>3. q * p.size <= 0 * p.size
          BY <4>1, <4>2, <1>2, ProductGrows
        <4> QED BY <4>1, <4>3, <3>5, <1>2
      <3> QED BY <3>6, <1>3
    <2> QED BY <2>1, <2>2
  <1>6. Cache[c].min <= Cache[c].objects
    BY <1>2, <1>3, <1>4 DEF CacheRefused
  <1> QED BY <1>2, <1>3, <1>4, <1>5, <1>6

(* The structure of a slab lies at its end when the objects are as small as *)
(* it is.                                                                  *)
LEMMA GeometrySmall ==
  ASSUME NEW p, p.onslab \/ p.size <= KslabSize
  PROVE  Geometry(p).onslab
  BY DEF Geometry

(* The parameters of a cache that its geometry keeps. *)
LEMMA GeometryOf ==
  ASSUME NEW p
  PROVE  Geometry(p).size = p.size /\ Geometry(p).pages = p.pages /\ Geometry(p).min = p.min
  BY DEF Geometry

(* The three caches of the kernel itself. *)
LEMMA OwnCaches ==
  /\ {"caches", "ranges", "kslabs"} \subseteq DOMAIN Cache
  /\ Cache["caches"].pages = 1 /\ Cache["caches"].min = 0 /\ Cache["caches"].onslab
  /\ Cache["ranges"].pages = 1 /\ Cache["ranges"].min = 2 /\ Cache["ranges"].onslab
  /\ Cache["kslabs"].pages = 1 /\ Cache["kslabs"].min = 0 /\ Cache["kslabs"].onslab
  /\ Cache["caches"].objects \in Nat /\ Cache["caches"].objects >= 3
  /\ Cache["ranges"].objects \in Nat /\ Cache["ranges"].objects >= 5
  /\ Cache["kslabs"].objects \in Nat \ {0}
  /\ \A c \in {"caches", "ranges", "kslabs"} : ~ CacheRefused(c)
  <1>1. {"caches", "ranges", "kslabs"} \subseteq DOMAIN Cache
    BY DEF Cache
  <1>2. /\ Cache["caches"] = Geometry([size |-> CacheSize, pages |-> 1, min |-> 0, onslab |-> TRUE])
        /\ Cache["ranges"] = Geometry([size |-> RangeSize, pages |-> 1, min |-> 2, onslab |-> TRUE])
        /\ Cache["kslabs"] = Geometry([size |-> KslabSize, pages |-> 1, min |-> 0, onslab |-> FALSE])
    BY DEF Cache, Parameters
  <1>3. /\ Cache["caches"].pages = 1 /\ Cache["caches"].min = 0 /\ Cache["caches"].onslab
        /\ Cache["caches"].size = CacheSize
    <2> DEFINE p == [size |-> CacheSize, pages |-> 1, min |-> 0, onslab |-> TRUE]
    <2>1. p.size = CacheSize /\ p.pages = 1 /\ p.min = 0
      OBVIOUS
    <2>2. p.onslab \/ p.size <= KslabSize
      BY Zenon
    <2>3. Cache["caches"] = Geometry(p)
      BY <1>2
    <2> HIDE DEF p
    <2>4. Geometry(p).onslab
      BY <2>2, GeometrySmall
    <2>5. Geometry(p).size = p.size /\ Geometry(p).pages = p.pages /\ Geometry(p).min = p.min
      BY GeometryOf
    <2> QED BY <2>1, <2>3, <2>4, <2>5
  <1>4. /\ Cache["ranges"].pages = 1 /\ Cache["ranges"].min = 2 /\ Cache["ranges"].onslab
        /\ Cache["ranges"].size = RangeSize
    <2> DEFINE p == [size |-> RangeSize, pages |-> 1, min |-> 2, onslab |-> TRUE]
    <2>1. p.size = RangeSize /\ p.pages = 1 /\ p.min = 2
      OBVIOUS
    <2>2. p.onslab \/ p.size <= KslabSize
      BY Zenon
    <2>3. Cache["ranges"] = Geometry(p)
      BY <1>2
    <2> HIDE DEF p
    <2>4. Geometry(p).onslab
      BY <2>2, GeometrySmall
    <2>5. Geometry(p).size = p.size /\ Geometry(p).pages = p.pages /\ Geometry(p).min = p.min
      BY GeometryOf
    <2> QED BY <2>1, <2>3, <2>4, <2>5
  <1>5. KslabSize <= KslabSize
    BY KmemAssumption
  <1>6. /\ Cache["kslabs"].pages = 1 /\ Cache["kslabs"].min = 0 /\ Cache["kslabs"].onslab
        /\ Cache["kslabs"].size = KslabSize
    <2> DEFINE p == [size |-> KslabSize, pages |-> 1, min |-> 0, onslab |-> FALSE]
    <2>1. p.size = KslabSize /\ p.pages = 1 /\ p.min = 0
      OBVIOUS
    <2>2. p.onslab \/ p.size <= KslabSize
      BY <1>5
    <2>3. Cache["kslabs"] = Geometry(p)
      BY <1>2
    <2> HIDE DEF p
    <2>4. Geometry(p).onslab
      BY <2>2, GeometrySmall
    <2>5. Geometry(p).size = p.size /\ Geometry(p).pages = p.pages /\ Geometry(p).min = p.min
      BY GeometryOf
    <2> QED BY <2>1, <2>3, <2>4, <2>5
  <1>7. Cache["caches"].objects \in Int /\ Cache["ranges"].objects \in Int /\ Cache["kslabs"].objects \in Int
        /\ Cache["caches"].objects * CacheSize <= 1 * PageSize
        /\ Cache["ranges"].objects * RangeSize <= 1 * PageSize
    BY <1>1, <1>3, <1>4, GeometryFits
  <1>8. Cache["caches"].objects >= 3 /\ Cache["ranges"].objects >= 5 /\ PageSize \in Nat
        /\ CacheSize \in Nat /\ RangeSize \in Nat /\ KslabSize \in Nat /\ 1 <= MaxPagesPerSlab
        /\ KslabSize + KslabSize <= PageSize
    BY KmemAssumption
  <1>9. CacheSize <= PageSize /\ RangeSize <= PageSize
    <2>1. 1 * CacheSize <= Cache["caches"].objects * CacheSize
      BY <1>7, <1>8, ProductGrows
    <2>2. 1 * RangeSize <= Cache["ranges"].objects * RangeSize
      BY <1>7, <1>8, ProductGrows
    <2>3. Cache["caches"].objects * CacheSize \in Int /\ Cache["ranges"].objects * RangeSize \in Int
      BY <1>7, <1>8
    <2> QED BY <2>1, <2>2, <2>3, <1>7, <1>8
  <1>10. ~ CacheRefused("caches") /\ ~ CacheRefused("ranges")
    <2>1. ~ (Cache["caches"].size > Cache["caches"].pages * PageSize)
      BY <1>3, <1>8, <1>9
    <2>2. ~ (Cache["ranges"].size > Cache["ranges"].pages * PageSize)
      BY <1>4, <1>8, <1>9
    <2>3. MaxPagesPerSlab \in Nat
      BY KmemAssumption
    <2> QED BY <2>1, <2>2, <2>3, <1>3, <1>4, <1>7, <1>8 DEF CacheRefused
  <1>11. Cache["kslabs"].objects >= 0
    <2> DEFINE space == 1 * PageSize - KslabSize
               q == space \div KslabSize
               r == space % KslabSize
    <2>1. Cache["kslabs"].objects = q
      BY <1>2, <1>5 DEF Geometry
    <2>2. KslabSize \in Nat \ {0} /\ space \in Int /\ space >= KslabSize
      BY <1>8, KmemAssumption
    <2> HIDE DEF space
    <2>3. q \in Int /\ r \in 0 .. KslabSize - 1 /\ space = q * KslabSize + r
      BY <2>2, Division
    <2> HIDE DEF q, r
    <2>4. SUFFICES ASSUME q <= -1 PROVE FALSE
      BY <2>1, <2>3
    <2>5. q * KslabSize <= (-1) * KslabSize
      BY <2>2, <2>3, <2>4, ProductGrows
    <2> QED BY <2>2, <2>3, <2>5
  <1>12. ~ CacheRefused("kslabs")
    <2>1. ~ (Cache["kslabs"].size > Cache["kslabs"].pages * PageSize)
      BY <1>6, <1>8
    <2>2. MaxPagesPerSlab \in Nat
      BY KmemAssumption
    <2> QED BY <2>1, <2>2, <1>6, <1>7, <1>8, <1>11 DEF CacheRefused
  <1>13. Cache["kslabs"].objects \in Nat \ {0}
    BY <1>1, <1>12, Accepted
  <1> QED BY <1>1, <1>3, <1>4, <1>6, <1>7, <1>8, <1>10, <1>12, <1>13

(* The caches of the allocators themselves. *)
OwnNames == {"caches", "ranges", "kslabs"}

(* Where the structures of the allocators themselves lie. *)
Placed(st, U) ==
  /\ OwnNames \subseteq DOMAIN st.cache
  /\ \A c \in DOMAIN st.cache : ~ CacheRefused(c)
  /\ \A c \in DOMAIN st.cache : st.cache[c].addr \in TakenIn(st, "caches")
  /\ \A c, e \in DOMAIN st.cache : st.cache[c].addr = st.cache[e].addr => c = e
  /\ \A s \in DOMAIN st.slab :
       IF Cache[st.slab[s].cache].onslab THEN s = OnSlab(st.slab[s].cache, st.slab[s].base)
                                         ELSE s \in U \/ s \in TakenIn(st, "kslabs")

(* The descriptors of the ranges are objects allocated in their cache. *)
Descriptors(st) == DOMAIN st.range \subseteq TakenIn(st, "ranges")

(* Every range is used, free or still to be freed. *)
AllListed(st) == DOMAIN st.range = Pending(st) \union ToSet(st.free)

(* The ranges share all the pages, and no other. *)
Tiled(st) ==
  /\ Covered(st) = Pages
  /\ \A d \in DOMAIN st.range : 1 <= st.range[d].base /\ End(st, d) <= TopPage + 1

(* What holds throughout an operation, but for the slabs of U that it has  *)
(* in hand.                                                                *)
Firm(st, U) ==
  /\ KmemKept(st) /\ CachesOK(st, U) /\ Placed(st, U) /\ Descriptors(st) /\ AllListed(st) /\ Tiled(st)

(* The used ranges that no slab lies in. *)
Loose(st) == {d \in ToSet(st.used) : st.range[d].slab = NULL}

(* The descriptors that are allocated and not in use. *)
Spare(st) == TakenIn(st, "ranges") \ DOMAIN st.range

(* Descriptors are returned, never taken, and nothing else changes. *)
Freeing(a, b) ==
  /\ Only(a, b, {"ranges"})
  /\ \A s \in SlabsIn(b, "ranges") : s \in SlabsIn(a, "ranges") /\ b.slab[s].base = a.slab[s].base
  /\ Spare(b) = Spare(a)
  /\ ToSet(b.used) \subseteq ToSet(a.used)
  /\ \A e \in ToSet(b.used) :
       b.range[e].base = a.range[e].base /\ b.range[e].nb_pages = a.range[e].nb_pages
  /\ Loose(b) = Loose(a) /\ b.avail = a.avail

(* The descriptors that the cache of ranges still has. *)
NbRanges(st) == st.cache["ranges"].nb_free

(* One return of descriptors after another. *)
LEMMA FreeingComposed ==
  ASSUME NEW a, NEW b, NEW e, Freeing(a, b), Freeing(b, e)
  PROVE  Freeing(a, e)
  <1>1. Only(a, e, {"ranges"})
    <2>1. Only(a, e, {"ranges"} \union {"ranges"})
      BY OnlyComposed DEF Freeing
    <2> QED BY <2>1
  <1> QED BY <1>1 DEF Freeing

(* Returning descriptors moves no structure of the other caches. *)
LEMMA PlacedFrame ==
  ASSUME NEW st, NEW U, Placed(st, U), NEW n, Only(st, n, {"ranges"}),
         \A s \in SlabsIn(n, "ranges") : s \in SlabsIn(st, "ranges") /\ n.slab[s].base = st.slab[s].base
  PROVE  Placed(n, U)
  <1>1. TakenIn(n, "caches") = TakenIn(st, "caches") /\ TakenIn(n, "kslabs") = TakenIn(st, "kslabs")
    BY OnlyOthers
  <1>2. DOMAIN n.cache = DOMAIN st.cache /\ \A c \in DOMAIN st.cache : n.cache[c].addr = st.cache[c].addr
    BY DEF Only
  <1>3. ASSUME NEW s \in DOMAIN n.slab
        PROVE  s \in DOMAIN st.slab /\ n.slab[s].cache = st.slab[s].cache /\ n.slab[s].base = st.slab[s].base
    <2>1. CASE n.slab[s].cache = "ranges"
      BY <2>1 DEF SlabsIn
    <2>2. CASE n.slab[s].cache # "ranges"
      BY <2>2 DEF Only
    <2> QED BY <2>1, <2>2
  <1> QED BY <1>1, <1>2, <1>3 DEF Placed

(* The merge of two free ranges leaves slabs and caches alone, before the  *)
(* descriptor of the second is freed.                                      *)
LEMMA JoinCached ==
  ASSUME NEW st, KmemKept(st), NEW i, Touch(st, i)
  PROVE  LET n == Forget(Join(st, st.free[i], st.free[i + 1]), st.free[i + 1])
         IN /\ Cached(st, n) /\ n.avail = st.avail
            /\ IsJoin(st.range, st.free[i], st.free[i + 1], n.range)
            /\ st.free[i] \in ToSet(st.free) /\ st.free[i + 1] \in ToSet(st.free)
            /\ st.free[i] # st.free[i + 1]
  <1> DEFINE prev == st.free[i]
             next == st.free[i + 1]
             m == Join(st, prev, next)
             n == Forget(m, next)
  <1>1. KmemShape(st) /\ Shaped(st) /\ IsInjective(st.free)
    BY DEF KmemKept, KmemShape, RangesKept, ListsSorted, Sorted
  <1>2. /\ Len(st.free) \in Nat /\ DOMAIN st.free = 1 .. Len(st.free)
        /\ \A j \in 1 .. Len(st.free) : st.free[j] \in DOMAIN st.range /\ st.free[j] \in ToSet(st.free)
    BY <1>1, ElementsAreContained DEF KmemShape
  <1>3. i \in 1 .. Len(st.free) /\ i + 1 \in 1 .. Len(st.free) /\ i # i + 1
    BY <1>2 DEF Touch
  <1>4. /\ prev \in ToSet(st.free) /\ next \in ToSet(st.free) /\ prev # next
        /\ prev \in DOMAIN st.range /\ next \in DOMAIN st.range
    BY <1>1, <1>2, <1>3 DEF IsInjective
  <1>5. st.range \in [DOMAIN st.range -> RangeRecord]
    BY <1>1 DEF KmemShape
  <1> HIDE DEF prev, next
  <1>6. Shaped(m) /\ m.range = [st.range EXCEPT ![prev].nb_pages = @ + st.range[next].nb_pages]
        /\ m.slab = st.slab /\ m.cache = st.cache /\ m.avail = st.avail
    BY <1>1 DEF Join, Shaped, Field
  <1> HIDE DEF m
  <1>7. /\ n.range = Restrict(m.range, DOMAIN m.range \ {next})
        /\ n.slab = m.slab /\ n.cache = m.cache /\ n.avail = m.avail
    BY <1>6 DEF Forget, Shaped, Field
  <1> HIDE DEF n
  <1>8. IsJoin(st.range, prev, next, n.range)
    BY <1>4, <1>5, <1>6, <1>7, JoinTable
  <1> QED BY <1>4, <1>6, <1>7, <1>8 DEF n, m, prev, next, Cached

-----------------------------------------------------------------------------
(* ALL THE TURNS OF THE DELETION                                           *)

(* A descriptor that is freed, and the range of its slab that is queued if *)
(* it gets empty.                                                          *)
DescriptorGone(st, n, U, d) ==
  /\ CachesOK(n, U) /\ Only(st, n, {"ranges"})
  /\ \A s \in SlabsIn(n, "ranges") : s \in SlabsIn(st, "ranges") /\ n.slab[s].base = st.slab[s].base
  /\ TakenIn(n, "ranges") = TakenIn(st, "ranges") \ {d}
  /\ SameBounds(st, n) /\ ToSet(n.used) \subseteq ToSet(st.used)
  /\ Loose(n) = Loose(st) /\ n.avail = st.avail
  /\ NbRanges(n) >= NbRanges(st) + 1 \/ NbRanges(n) >= 2

(* Freeing a descriptor, with the slab of descriptors it may have been the *)
(* last of, loses nothing.                                                 *)
LEMMA DescriptorFreed ==
  ASSUME NEW st, NEW U, KmemKept(st), CachesOK(st, U), "ranges" \in DOMAIN st.cache,
         NEW d \in TakenIn(st, "ranges"),
         NEW f, f = FreeObject(st, d)
  PROVE  DescriptorGone(st, IF f.ret = NULL THEN f ELSE Queued(UnbindRange(DropSlab(f, f.ret), f.ret)), U, d)
  <1> DEFINE c == "ranges"
             g == DropSlab(f, f.ret)
             u == UnbindRange(g, f.ret)
             q == Queued(u)
             n == IF f.ret = NULL THEN f ELSE q
  <1>1. PICK s \in SlabsIn(st, c) : d \in Objects(st, s) /\ d \notin st.slab[s].free
    BY DEF TakenIn
  <1>2. s \notin U /\ s \in DOMAIN st.slab
    BY <1>1 DEF CachesOK, Slabbed, SlabsIn
  <1>3. ObjectFreed(st, f, U, c, s, d)
    BY <1>1, <1>2, FreeObjectCaches
  <1>4. /\ KmemKept(f) /\ SameRanges(st, f) /\ CachesOK(f, U) /\ Only(st, f, {c})
        /\ TakenIn(f, c) = TakenIn(st, c) \ {d} /\ f.avail = st.avail
        /\ f.cache[c].nb_free = st.cache[c].nb_free + 1
    BY <1>3 DEF ObjectFreed
  <1>5. \A t \in SlabsIn(f, c) : t \in SlabsIn(st, c) /\ f.slab[t].base = st.slab[t].base
    BY <1>4 DEF SameRanges, SlabsIn
  <1>6. SameBounds(st, f) /\ f.used = st.used /\ f.range = st.range
    BY <1>4 DEF SameRanges, SameBounds
  <1>7. f.cache[c].nb_free \in Nat /\ st.cache[c].nb_free \in Nat
    BY <1>4, ListFacts DEF Only
  <1>8. CASE f.ret = NULL
    <2>1. Loose(f) = Loose(st)
      BY <1>6 DEF Loose
    <2>2. NbRanges(f) >= NbRanges(st) + 1
      BY <1>4, <1>7 DEF NbRanges
    <2>3. DescriptorGone(st, f, U, d)
      BY <2>1, <2>2, <1>4, <1>5, <1>6 DEF DescriptorGone
    <2> QED BY <2>3, <1>8
  <1>9. CASE f.ret # NULL
    <2>1. /\ f.ret = s /\ f.slab[s].free = Objects(f, s)
          /\ f.cache[c].nb_free - Cardinality(Objects(f, s)) >= Cache[c].min
      BY <1>3, <1>9 DEF ObjectFreed
    <2>2. s \in SlabsIn(f, c) /\ c \in DOMAIN f.cache /\ Cache[c].objects \in Nat /\ Cache[c].min = 2
      BY <1>1, <1>4, OwnCaches DEF SameRanges, SlabsIn, Only
    <2>3. SlabDropped(f, g, U, c, s)
      BY <2>1, <2>2, <1>2, <1>4, DropSlabCaches
    <2> HIDE DEF g, u, q
    <2>4. /\ KmemKept(g) /\ SameRanges(f, g) /\ g.slab = f.slab /\ g.avail = f.avail
          /\ CachesOK(g, U \union {s}) /\ Only(f, g, {c}) /\ TakenIn(g, c) = TakenIn(f, c)
          /\ g.cache[c].nb_free = f.cache[c].nb_free - Cache[c].objects
      BY <2>3 DEF SlabDropped
    <2>5. s \in DOMAIN g.slab /\ g.slab[s].cache = c /\ s \in DOMAIN f.slab /\ f.slab[s].cache = c
      BY <2>2, <2>4 DEF SlabsIn
    <2>6. SlabUnbound(g, u, U \union {s}, c, s)
      <3>1. KmemShape(g)
        BY <2>4 DEF KmemKept
      <3> QED BY <3>1, <2>1, <2>4, <2>5, UnbindRangeCaches DEF u
    <2>7. /\ KmemKept(u) /\ SameBounds(g, u) /\ u.used = g.used
          /\ u.ret = g.slab[s].range /\ u.ret \in ToSet(u.used) /\ u.range[u.ret].slab = NULL
      BY <2>1, <2>4, <2>5, UnbindRangeKeeps DEF u
    <2>8. /\ u.cache = g.cache /\ u.avail = g.avail /\ DOMAIN u.slab = DOMAIN g.slab \ {s}
          /\ \A e \in DOMAIN u.slab : u.slab[e] = g.slab[e]
          /\ CachesOK(u, U) /\ Only(g, u, {c}) /\ TakenIn(u, c) = TakenIn(g, c)
      <3>1. (U \union {s}) \ {s} = U
        BY <1>2
      <3> QED BY <3>1, <2>6 DEF SlabUnbound
    <2>9. u.range = [g.range EXCEPT ![u.ret].slab = NULL]
      <3>1. Shaped(g)
        BY <2>4 DEF KmemKept, KmemShape
      <3> QED BY <3>1, <2>1, <2>7 DEF u, UnbindRange, Shaped, Field
    <2>10. /\ q.range = u.range /\ ToSet(q.used) = ToSet(u.used) \ {u.ret}
      BY <2>7, QueuedKeeps DEF q
    <2>11. Cached(u, q) /\ q.avail = u.avail
      <3>1. Shaped(u)
        BY <2>7 DEF KmemKept, KmemShape
      <3> QED BY <3>1 DEF q, Queued, Shaped, Field, Cached
    <2>12. CachesOK(q, U) /\ TakenIn(q, c) = TakenIn(u, c)
      BY <2>8, <2>11, CachedKept
    <2>13. Only(st, q, {c})
      <3>1. Only(f, u, {c} \union {c})
        BY <2>4, <2>8, OnlyComposed
      <3>2. Only(st, u, {c} \union ({c} \union {c}))
        BY <3>1, <1>4, OnlyComposed
      <3> QED BY <3>2, <2>11 DEF Only, Cached
    <2>14. \A t \in SlabsIn(q, c) : t \in SlabsIn(f, c) /\ q.slab[t].base = f.slab[t].base
      BY <2>4, <2>8, <2>11 DEF SlabsIn, Cached
    <2>15. SameBounds(st, q)
      <3>1. g.range = st.range
        BY <2>4, <1>6 DEF SameRanges
      <3> QED BY <3>1, <2>7, <2>10 DEF SameBounds
    <2>16. Loose(q) = Loose(st)
      <3>1. g.range = st.range /\ u.used = st.used
        BY <2>4, <2>7, <1>6 DEF SameRanges
      <3>2. st.range[u.ret].slab = s /\ u.ret \in ToSet(st.used)
        BY <3>1, <2>4, <2>5, <2>7 DEF KmemKept, RangesKept, SlabsBound
      <3>3. s # NULL
        BY <2>5, <2>4 DEF KmemKept, KmemShape
      <3>4. \A e \in ToSet(st.used) : e # u.ret => q.range[e] = st.range[e]
        BY <3>1, <2>9, <2>10
      <3> QED BY <3>1, <3>2, <3>3, <3>4, <2>10 DEF Loose
    <2>17. NbRanges(q) >= 2
      <3>1. Cardinality(Objects(f, s)) = Cache[c].objects
        <4>1. f.slab[s].base \in Nat /\ Objects(f, s) = ObjectsAt(c, f.slab[s].base) /\ c \in DOMAIN Cache
          BY <2>5, <1>4, SlabLies
        <4> QED BY <4>1, <2>2, ObjectsCounted
      <3>2. q.cache[c].nb_free = f.cache[c].nb_free - Cache[c].objects
        BY <2>4, <2>8, <2>11 DEF Cached
      <3> QED BY <3>1, <3>2, <2>1, <2>2 DEF NbRanges
    <2>18. ToSet(q.used) \subseteq ToSet(st.used) /\ q.avail = st.avail
           /\ TakenIn(q, c) = TakenIn(st, c) \ {d}
      BY <2>4, <2>7, <2>8, <2>10, <2>11, <2>12, <1>4, <1>6 DEF SameRanges
    <2>19. DescriptorGone(st, q, U, d)
      <3>1. \A t \in SlabsIn(q, c) : t \in SlabsIn(st, c) /\ q.slab[t].base = st.slab[t].base
        BY <2>14, <1>5
      <3> QED BY <3>1, <2>12, <2>13, <2>15, <2>16, <2>17, <2>18 DEF DescriptorGone
    <2>20. q = Queued(UnbindRange(DropSlab(f, f.ret), f.ret))
      BY DEF q, u, g
    <2> QED BY <2>19, <2>20, <1>9
  <1> QED BY <1>8, <1>9

(* The cache of ranges has one more descriptor, or its reserve of two. *)
Grown(a, b) == NbRanges(b) >= NbRanges(a) + 1 \/ NbRanges(b) >= 2

(* A merge of two free ranges keeps Firm, and frees one descriptor. *)
LEMMA MergeFirm ==
  ASSUME NEW st, NEW U, Firm(st, U), NEW i, Touch(st, i), NEW n, n = MergeTouching(st, i)
  PROVE  Firm(n, U) /\ Freeing(st, n) /\ Grown(st, n)
  <1> DEFINE prev == st.free[i]
             next == st.free[i + 1]
             j == Forget(Join(st, prev, next), next)
             f == FreeObject(j, next)
  <1>1. KmemKept(st) /\ CachesOK(st, U) /\ Placed(st, U) /\ Descriptors(st) /\ AllListed(st) /\ Tiled(st)
    BY DEF Firm
  <1>2. /\ KmemKept(j) /\ j.used = st.used /\ j.ranges_to_free = st.ranges_to_free
        /\ ToSet(j.free) = ToSet(st.free) \ {next} /\ next \in Nat
    BY <1>1, JoinKeeps
  <1>3. /\ Cached(st, j) /\ j.avail = st.avail /\ IsJoin(st.range, prev, next, j.range)
        /\ prev \in ToSet(st.free) /\ next \in ToSet(st.free) /\ prev # next
    BY <1>1, JoinCached
  <1>4. n = IF f.ret = NULL THEN f ELSE Queued(UnbindRange(DropSlab(f, f.ret), f.ret))
    <2>1. n = Merge(st, prev, next)
      BY DEF MergeTouching
    <2>2. n = AndThen(AndThen(f, LAMBDA freed : UnbindRange(DropSlab(freed, freed.ret), freed.ret)), Queued)
      BY <2>1 DEF Merge, ReleaseStructRange
    <2>3. CASE f.ret = NULL
      BY <2>2, <2>3 DEF AndThen
    <2>4. CASE f.ret # NULL
      <3> DEFINE u == UnbindRange(DropSlab(f, f.ret), f.ret)
      <3>1. n = AndThen(u, Queued)
        BY <2>2, <2>4 DEF AndThen
      <3>2. u.ret # NULL
        <4>1. /\ KmemKept(f) /\ f.ret \in DOMAIN f.slab
          BY <1>2, <2>4, FreeObjectKeeps
        <4>2. KmemKept(DropSlab(f, f.ret)) /\ f.ret \in DOMAIN DropSlab(f, f.ret).slab
          BY <4>1, DropSlabKeeps
        <4>3. KmemKept(u) /\ u.ret \in ToSet(u.used)
          BY <4>2, UnbindRangeKeeps
        <4> HIDE DEF u
        <4> QED BY <4>3, ShapeFacts DEF KmemKept
      <3> HIDE DEF u
      <3>3. n = Queued(u)
        BY <3>1, <3>2 DEF AndThen
      <3> QED BY <3>3, <2>4 DEF u
    <2> QED BY <2>3, <2>4
  <1>5. KmemKept(n) /\ Covered(n) = Covered(st) /\ ToSet(n.free) = ToSet(st.free) \ {next}
        /\ Pending(n) = Pending(st)
    BY <1>1, MergeKeeps DEF Pending
  <1> HIDE DEF j, f, prev, next
  <1>6. /\ DOMAIN j.range = DOMAIN st.range \ {next}
        /\ \A e \in DOMAIN j.range : e # prev => j.range[e] = st.range[e]
        /\ j.range[prev].base = st.range[prev].base
        /\ j.range[prev].nb_pages = st.range[prev].nb_pages + st.range[next].nb_pages
    BY <1>3 DEF IsJoin
  <1>7. CachesOK(j, U) /\ TakenIn(j, "ranges") = TakenIn(st, "ranges")
        /\ SlabsIn(j, "ranges") = SlabsIn(st, "ranges")
    BY <1>1, <1>3, CachedKept
  <1>8. DescriptorGone(j, n, U, next)
    <2>1. "ranges" \in DOMAIN j.cache
      BY <1>1, <1>3 DEF Placed, OwnNames, Cached
    <2>2. next \in TakenIn(j, "ranges")
      BY <1>1, <1>3, <1>7, ShapeFacts DEF Descriptors, KmemKept
    <2>3. f = FreeObject(j, next)
      BY DEF f
    <2>4. DescriptorGone(j, IF f.ret = NULL THEN f ELSE Queued(UnbindRange(DropSlab(f, f.ret), f.ret)), U, next)
      BY <2>1, <2>2, <2>3, <1>2, <1>7, DescriptorFreed
    <2> QED BY <2>4, <1>4
  <1>9. /\ prev \notin ToSet(st.used) /\ next \notin ToSet(st.used)
        /\ ToSet(st.used) \subseteq DOMAIN j.range
        /\ \A e \in ToSet(st.used) : j.range[e] = st.range[e]
    <2>1. ToSet(st.used) \intersect ToSet(st.free) = {} /\ ToSet(st.used) \subseteq DOMAIN st.range
      BY <1>1, ShapeFacts DEF KmemKept, RangesKept, ListsSorted
    <2> QED BY <2>1, <1>3, <1>6
  <1>10. /\ CachesOK(n, U) /\ Only(j, n, {"ranges"}) /\ SameBounds(j, n)
         /\ TakenIn(n, "ranges") = TakenIn(j, "ranges") \ {next}
         /\ \A s \in SlabsIn(n, "ranges") : s \in SlabsIn(j, "ranges") /\ n.slab[s].base = j.slab[s].base
         /\ ToSet(n.used) \subseteq ToSet(j.used) /\ Loose(n) = Loose(j) /\ n.avail = j.avail
         /\ (NbRanges(n) >= NbRanges(j) + 1 \/ NbRanges(n) >= 2)
    BY <1>8 DEF DescriptorGone
  <1>11. DOMAIN n.range = DOMAIN st.range \ {next}
    BY <1>6, <1>10 DEF SameBounds
  <1>12. Only(st, n, {"ranges"})
    BY <1>3, <1>10 DEF Only, Cached
  <1>13. \A s \in SlabsIn(n, "ranges") : s \in SlabsIn(st, "ranges") /\ n.slab[s].base = st.slab[s].base
    BY <1>3, <1>7, <1>10 DEF Cached
  <1>14. Placed(n, U)
    BY <1>1, <1>12, <1>13, PlacedFrame
  <1>15. Descriptors(n)
    BY <1>1, <1>7, <1>10, <1>11 DEF Descriptors
  <1>16. AllListed(n)
    <2>1. next \notin Pending(st)
      BY <1>1, <1>3 DEF KmemKept, RangesKept, ListsSorted, Pending
    <2> QED BY <2>1, <1>1, <1>5, <1>11 DEF AllListed
  <1>17. Tiled(n)
    <2>1. ASSUME NEW e \in DOMAIN n.range PROVE 1 <= n.range[e].base /\ End(n, e) <= TopPage + 1
      <3>1. n.range[e].base = j.range[e].base /\ n.range[e].nb_pages = j.range[e].nb_pages
        BY <2>1, <1>10 DEF SameBounds
      <3>2. CASE e # prev
        BY <3>1, <3>2, <1>1, <1>6, <1>11 DEF Tiled, End
      <3>3. CASE e = prev
        <4>1. End(st, prev) = st.range[next].base
          BY DEF Touch, prev, next
        <4>2. prev \in DOMAIN st.range /\ next \in DOMAIN st.range
          BY <1>1, <1>3, ShapeFacts DEF KmemKept
        <4>3. st.range[prev].base \in Nat /\ st.range[prev].nb_pages \in Nat /\ st.range[next].nb_pages \in Nat
          BY <4>2, <1>1, ShapeFacts DEF KmemKept
        <4>4. End(n, e) = End(st, next)
          BY <3>1, <3>3, <4>1, <4>3, <1>6 DEF End
        <4>5. 1 <= st.range[prev].base /\ End(st, next) <= TopPage + 1
          BY <4>2, <1>1 DEF Tiled
        <4> QED BY <3>1, <3>3, <4>4, <4>5, <1>6
      <3> QED BY <3>2, <3>3
    <2> QED BY <2>1, <1>1, <1>5 DEF Tiled
  <1>18. Freeing(st, n)
    <2>1. Spare(n) = Spare(st)
      <3>1. next \in DOMAIN st.range
        BY <1>1, <1>3, ShapeFacts DEF KmemKept
      <3> QED BY <3>1, <1>7, <1>10, <1>11 DEF Spare
    <2>2. \A e \in ToSet(n.used) :
            n.range[e].base = st.range[e].base /\ n.range[e].nb_pages = st.range[e].nb_pages
      BY <1>2, <1>9, <1>10 DEF SameBounds
    <2>3. Loose(j) = Loose(st)
      BY <1>2, <1>9 DEF Loose
    <2> QED BY <2>1, <2>2, <2>3, <1>2, <1>3, <1>10, <1>12, <1>13 DEF Freeing
  <1>19. Grown(st, n)
    BY <1>3, <1>10 DEF Grown, NbRanges, Cached
  <1> QED BY <1>1, <1>5, <1>10, <1>14, <1>15, <1>16, <1>17, <1>18, <1>19 DEF Firm

(* A state with the range d in hand. *)
Holding(st, U, d) ==
  /\ KmemKept(st) /\ CachesOK(st, U) /\ Placed(st, U) /\ Descriptors(st) /\ Tiled(st)
  /\ InHand(st, d) /\ DOMAIN st.range = Pending(st) \union ToSet(st.free) \union {d}

(* Steps that leave slabs, caches and the table of ranges alone. *)
LEMMA CachedFirm ==
  ASSUME NEW st, NEW n, Cached(st, n), n.range = st.range
  PROVE  /\ \A U : (CachesOK(st, U) <=> CachesOK(n, U)) /\ (Placed(st, U) <=> Placed(n, U))
         /\ Descriptors(st) <=> Descriptors(n)
         /\ Spare(n) = Spare(st) /\ NbRanges(n) = NbRanges(st)
         /\ Tiled(st) <=> Tiled(n)
         /\ \A e : PagesOf(n, e) = PagesOf(st, e) /\ End(n, e) = End(st, e)
  <1>1. \A e : TakenIn(n, e) = TakenIn(st, e)
    BY CachedKept
  <1>2. n.slab = st.slab /\ n.cache = st.cache
    BY DEF Cached
  <1>3. \A U : Placed(st, U) <=> Placed(n, U)
    BY <1>1, <1>2 DEF Placed
  <1>4. \A e : PagesOf(n, e) = PagesOf(st, e) /\ End(n, e) = End(st, e)
    BY DEF PagesOf, End
  <1>5. Tiled(st) <=> Tiled(n)
    BY <1>4 DEF Tiled, Covered
  <1>6. \A U : CachesOK(st, U) <=> CachesOK(n, U)
    BY CachedKept
  <1> QED BY <1>1, <1>2, <1>3, <1>4, <1>5, <1>6 DEF Descriptors, Spare, NbRanges

(* A range in hand gets free, with its pages, and Firm is kept. *)
LEMMA FreeRangeFirm ==
  ASSUME NEW st, NEW U, NEW d, Holding(st, U, d), NEW f, f = FreeRange(st, d)
  PROVE  /\ Firm(f, U) /\ Freeing(st, f) /\ NbRanges(f) = NbRanges(st)
         /\ f.range = st.range /\ f.used = st.used /\ ToSet(f.free) = ToSet(st.free) \union {d}
  <1>1. /\ KmemKept(st) /\ CachesOK(st, U) /\ Placed(st, U) /\ Descriptors(st) /\ Tiled(st)
        /\ InHand(st, d) /\ DOMAIN st.range = Pending(st) \union ToSet(st.free) \union {d}
    BY DEF Holding
  <1>2. /\ KmemKept(f) /\ f.range = st.range /\ f.used = st.used /\ f.ranges_to_free = st.ranges_to_free
        /\ ToSet(f.free) = ToSet(st.free) \union {d}
    BY <1>1, FreeRangeKeeps
  <1>3. Cached(st, f) /\ f.avail = st.avail
    <2>1. Shaped(st)
      BY <1>1 DEF KmemKept, KmemShape
    <2> QED BY <2>1 DEF FreeRange, Shaped, Field, Cached
  <1>4. CachesOK(f, U) /\ Placed(f, U) /\ Descriptors(f) /\ Tiled(f) /\ Spare(f) = Spare(st)
        /\ NbRanges(f) = NbRanges(st)
    BY <1>1, <1>2, <1>3, CachedFirm
  <1>5. AllListed(f)
    BY <1>1, <1>2 DEF AllListed, Pending
  <1>6. Freeing(st, f)
    <2>1. Only(st, f, {"ranges"}) /\ SlabsIn(f, "ranges") = SlabsIn(st, "ranges")
      BY <1>3, CachedKept
    <2> QED BY <2>1, <1>2, <1>3, <1>4 DEF Freeing, Loose, Cached
  <1> QED BY <1>2, <1>4, <1>5, <1>6 DEF Firm

(* The range d is next to a free one. *)
Beside(st, d) == \E r \in ToSet(st.free) : End(st, d) = st.range[r].base

(* Merging two free ranges that touch returns a descriptor; no other merge *)
(* does anything.                                                          *)
LEMMA MergeFirmOrNone ==
  ASSUME NEW st, NEW U, Firm(st, U), NEW i, NEW n, n = MergeTouching(st, i)
  PROVE  Firm(n, U) /\ Freeing(st, n) /\ (n = st \/ Grown(st, n))
  <1>1. CASE Touch(st, i)
    BY <1>1, MergeFirm
  <1>2. CASE ~ Touch(st, i)
    <2>1. n = st
      BY <1>2 DEF MergeTouching
    <2> QED BY <2>1 DEF Freeing, Only
  <1> QED BY <1>1, <1>2

(* The descriptors of the cache of ranges are counted. *)
LEMMA NbRangesNat ==
  ASSUME NEW st, NEW U, Firm(st, U)
  PROVE  NbRanges(st) \in Nat
  <1>1. CachesOK(st, U) /\ "ranges" \in DOMAIN st.cache
    BY DEF Firm, Placed, OwnNames
  <1> QED BY <1>1, ListFacts DEF NbRanges

(* A turn of the loop of sos_kmem_vmm_del_range() frees the range in hand  *)
(* and merges it with its neighbours, if they touch.                       *)
LEMMA FreedFirm ==
  ASSUME NEW st, NEW U, NEW d, Holding(st, U, d), Coalesced(st), NEW n, n = FreedAndMerged(st, d)
  PROVE  /\ Firm(n, U) /\ Coalesced(n) /\ Freeing(st, n)
         /\ DOMAIN n.owner = DOMAIN st.owner \ PagesOf(st, d) /\ Pending(n) = Pending(st)
         /\ (NbRanges(n) = NbRanges(st) /\ ~ Beside(st, d)) \/ Grown(st, n)
  <1> DEFINE f == FreeRange(st, d)
             page == st.range[d].base
             g == MergePrevious(f, page)
  <1>1. KmemKept(st) /\ InHand(st, d)
    BY DEF Holding
  <1>2. /\ Firm(f, U) /\ Freeing(st, f) /\ NbRanges(f) = NbRanges(st)
        /\ f.range = st.range /\ ToSet(f.free) = ToSet(st.free) \union {d}
    BY FreeRangeFirm
  <1>3. /\ Coalesced(n) /\ DOMAIN n.owner = DOMAIN st.owner \ PagesOf(st, d) /\ Pending(n) = Pending(st)
    BY <1>1, FreedAndMergedKeeps DEF Pending
  <1>4. n = MergeNext(g, page)
    BY DEF FreedAndMerged
  <1> HIDE DEF f
  <1>5. Firm(g, U) /\ Freeing(f, g) /\ (g = f \/ Grown(f, g))
    BY <1>2, MergeFirmOrNone DEF MergePrevious
  <1> HIDE DEF g
  <1>6. Firm(n, U) /\ Freeing(g, n) /\ (n = g \/ Grown(g, n))
    BY <1>4, <1>5, MergeFirmOrNone DEF MergeNext
  <1>7. Freeing(st, n)
    <2>1. Freeing(f, n)
      BY <1>5, <1>6, FreeingComposed
    <2> QED BY <2>1, <1>2, FreeingComposed
  <1>8. NbRanges(f) \in Nat /\ NbRanges(g) \in Nat /\ NbRanges(n) \in Nat
    BY <1>2, <1>5, <1>6, NbRangesNat
  <1>9. CASE g # f \/ n # g
    <2>1. Grown(f, n)
      BY <1>5, <1>6, <1>8, <1>9 DEF Grown
    <2> QED BY <2>1, <1>2, <1>3, <1>6, <1>7 DEF Grown
  <1>10. CASE g = f /\ n = g
    <2>1. KmemKept(f) /\ Coalesced(f)
      BY <1>2, <1>3, <1>10 DEF Firm
    <2>2. Strict(f, f.free) /\ f.free \in Seq(DOMAIN f.range)
      BY <2>1, CoalescedIsStrict DEF KmemKept, KmemShape
    <2>3. ASSUME Beside(st, d) PROVE FALSE
      <3>1. PICK r \in ToSet(st.free) : End(st, d) = st.range[r].base
        BY <2>3 DEF Beside
      <3>2. r \in ToSet(f.free) /\ d \in ToSet(f.free) /\ r # d
        BY <3>1, <1>1, <1>2 DEF InHand
      <3>3. Len(f.free) \in Nat /\ (\E i \in 1 .. Len(f.free) : f.free[i] = r)
            /\ (\E i \in 1 .. Len(f.free) : f.free[i] = d)
        BY <3>2, <2>2, ElementsAreContained
      <3>4. PICK i \in 1 .. Len(f.free), j \in 1 .. Len(f.free) : f.free[i] = r /\ f.free[j] = d
        BY <3>3
      <3>5. i < j \/ j < i
        BY <3>2, <3>3, <3>4
      <3>6. /\ st.range[d].base \in Nat /\ st.range[d].nb_pages \in Nat /\ st.range[d].nb_pages > 0
            /\ st.range[r].base \in Nat /\ st.range[r].nb_pages \in Nat
        <4>1. d \in DOMAIN st.range \ ToSet(st.free) /\ r \in DOMAIN st.range
          BY <3>1, <1>1, ShapeFacts DEF InHand, KmemKept
        <4> QED BY <4>1, <1>1, ShapeFacts DEF KmemKept, RangesKept, RangesApart
      <3>7. CASE i < j
        <4>1. End(st, r) < st.range[d].base
          BY <3>4, <3>7, <2>2, <1>2 DEF Strict, End
        <4> HIDE DEF page
        <4>2. /\ End(st, r) = st.range[r].base + st.range[r].nb_pages
              /\ End(st, d) = st.range[d].base + st.range[d].nb_pages
          BY DEF End
        <4> QED BY <4>1, <4>2, <3>1, <3>6
      <3>8. CASE j < i
        <4>1. End(st, d) < st.range[r].base
          BY <3>4, <3>8, <2>2, <1>2 DEF Strict, End
        <4> QED BY <4>1, <3>1, <3>6 DEF End
      <3> QED BY <3>5, <3>7, <3>8
    <2> QED BY <2>3, <1>2, <1>3, <1>6, <1>7, <1>10
  <1> QED BY <1>9, <1>10

(* The states between the turns of the loop. *)
LEMMA TurnsAre ==
  ASSUME NEW first, NEW bound \in Nat
  PROVE  \E g : /\ g[0] = first /\ Turns(first, bound) = g[bound]
                /\ \A m \in 1 .. bound : g[m] = Turn(g[m - 1])
  <1> DEFINE Is(g, n) == g = [m \in 0 .. n |-> IF m = 0 THEN first ELSE Turn(g[m - 1])]
             Bad == {n \in 0 .. bound : ~ \E g : Is(g, n)}
  <1>1. Bad = {}
    <2>1. SUFFICES ASSUME Bad # {} PROVE FALSE
      OBVIOUS
    <2>2. Bad \in SUBSET Nat
      OBVIOUS
    <2> DEFINE n == Min(Bad)
    <2>3. n \in Bad /\ \A k \in Bad : n <= k
      <3> HIDE DEF Bad
      <3> QED BY <2>1, <2>2, MinOfNaturals
    <2>4. n \in 0 .. bound /\ ~ \E g : Is(g, n)
      BY <2>3
    <2> HIDE DEF n
    <2>5. CASE n = 0
      <3> DEFINE g == [m \in 0 .. n |-> first]
      <3>1. Is(g, n)
        BY <2>5
      <3> QED BY <3>1, <2>4
    <2>6. CASE n # 0
      <3>1. n - 1 \in 0 .. bound
        BY <2>4, <2>6
      <3>2. PICK g : Is(g, n - 1)
        <4>1. n \in Nat
          BY <2>4
        <4>2. n - 1 \notin Bad
          <5> HIDE DEF Bad
          <5> QED BY <4>1, <2>3
        <4> HIDE DEF Is
        <4> QED BY <3>1, <4>2
      <3> DEFINE h == [m \in 0 .. n |-> IF m = n THEN Turn(g[n - 1]) ELSE g[m]]
      <3>3. \A m \in 0 .. n - 1 : g[m] = IF m = 0 THEN first ELSE Turn(g[m - 1])
        BY <3>2
      <3>4. \A m \in 0 .. n : h[m] = IF m = 0 THEN first ELSE Turn(h[m - 1])
        <4>1. ASSUME NEW m \in 0 .. n PROVE h[m] = IF m = 0 THEN first ELSE Turn(h[m - 1])
          <5>1. CASE m = n
            <6>1. n - 1 \in 0 .. n /\ n - 1 # n
              BY <2>4, <2>6
            <6>2. h[n - 1] = g[n - 1] /\ h[n] = Turn(g[n - 1])
              BY <6>1, <2>4
            <6> HIDE DEF h
            <6> QED BY <5>1, <6>2, <2>6
          <5>2. CASE m # n
            <6>1. m \in 0 .. n - 1 /\ (m # 0 => m - 1 \in 0 .. n /\ m - 1 # n)
              BY <5>2, <2>4
            <6>2. h[m] = g[m] /\ (m # 0 => h[m - 1] = g[m - 1])
              BY <5>2, <6>1
            <6> HIDE DEF h
            <6> QED BY <6>1, <6>2, <3>3
          <5> QED BY <5>1, <5>2
        <4> QED BY <4>1
      <3>5. h = [m \in 0 .. n |-> h[m]]
        OBVIOUS
      <3> HIDE DEF h
      <3>6. Is(h, n)
        BY <3>4, <3>5
      <3> QED BY <3>6, <2>4
    <2> QED BY <2>5, <2>6
  <1>2. \E g : Is(g, bound)
    <2>1. bound \in 0 .. bound
      OBVIOUS
    <2>2. bound \notin Bad
      <3> HIDE DEF Bad
      <3> QED BY <1>1
    <2> HIDE DEF Is
    <2> QED BY <2>1, <2>2
  <1> DEFINE t == CHOOSE g : Is(g, bound)
  <1>3. Turns(first, bound) = t[bound]
    BY DEF Turns
  <1>4. Is(t, bound)
    BY <1>2
  <1> HIDE DEF t
  <1>5. t[0] = first /\ \A m \in 1 .. bound : t[m] = Turn(t[m - 1])
    BY <1>4
  <1> QED BY <1>3, <1>5

(* Every page of the used ranges is mapped. *)
AllMapped(st) == \A e \in ToSet(st.used) : PagesOf(st, e) \subseteq DOMAIN st.owner

(* No page lies in two ranges. *)
LEMMA ApartDisjoint ==
  ASSUME NEW st, KmemKept(st), NEW d \in DOMAIN st.range, NEW e \in DOMAIN st.range, d # e
  PROVE  PagesOf(st, d) \intersect PagesOf(st, e) = {}
  <1>1. Apart(st, d, e)
    BY DEF KmemKept, RangesKept, RangesApart
  <1>2. /\ st.range[d].base \in Nat /\ st.range[d].nb_pages \in Nat
        /\ st.range[e].base \in Nat /\ st.range[e].nb_pages \in Nat
    BY ShapeFacts DEF KmemKept
  <1>3. SUFFICES ASSUME NEW p \in PagesOf(st, d), p \in PagesOf(st, e) PROVE FALSE
    OBVIOUS
  <1>4. /\ p \in Int /\ st.range[d].base <= p /\ p <= End(st, d) - 1
        /\ st.range[e].base <= p /\ p <= End(st, e) - 1
        /\ End(st, d) \in Int /\ End(st, e) \in Int
    BY <1>2, <1>3 DEF PagesOf, End
  <1>5. CASE End(st, d) <= st.range[e].base
    BY <1>4, <1>5, <1>2
  <1>6. CASE End(st, e) <= st.range[d].base
    BY <1>4, <1>6, <1>2
  <1> QED BY <1>1, <1>5, <1>6 DEF Apart

(* The other used ranges stay mapped. *)
LEMMA FreedMapped ==
  ASSUME NEW st, NEW U, NEW d, Holding(st, U, d), Coalesced(st), AllMapped(st)
  PROVE  AllMapped(FreedAndMerged(st, d))
  <1> DEFINE n == FreedAndMerged(st, d)
  <1>1. /\ Firm(n, U) /\ Freeing(st, n) /\ DOMAIN n.owner = DOMAIN st.owner \ PagesOf(st, d)
    BY FreedFirm
  <1> HIDE DEF n
  <1>2. KmemKept(st) /\ d \in DOMAIN st.range /\ d \notin ToSet(st.used)
    BY DEF Holding, InHand
  <1>3. ASSUME NEW e \in ToSet(n.used) PROVE PagesOf(n, e) \subseteq DOMAIN n.owner
    <2>1. /\ e \in ToSet(st.used) /\ n.range[e].base = st.range[e].base
          /\ n.range[e].nb_pages = st.range[e].nb_pages
      BY <1>1 DEF Freeing
    <2>2. PagesOf(n, e) = PagesOf(st, e)
      BY <2>1 DEF PagesOf, End
    <2>3. e \in DOMAIN st.range /\ e # d
      BY <2>1, <1>2, ShapeFacts DEF KmemKept
    <2>4. PagesOf(st, e) \intersect PagesOf(st, d) = {}
      BY <2>3, <1>2, ApartDisjoint
    <2> QED BY <2>1, <2>2, <2>4, <1>1 DEF AllMapped
  <1> QED BY <1>3 DEF AllMapped, n

(* What the loop of the deletion has in hand when it takes the next range. *)
LEMMA DequeuedHolding ==
  ASSUME NEW st, NEW U, Firm(st, U), Coalesced(st), st.ranges_to_free # <<>>, AllMapped(st)
  PROVE  LET n == Dequeued(st)
             d == Head(st.ranges_to_free)
         IN /\ Holding(n, U, d) /\ Coalesced(n) /\ AllMapped(n) /\ Freeing(st, n)
            /\ NbRanges(n) = NbRanges(st)
            /\ d \in Pending(st) /\ Pending(n) = Pending(st) \ {d}
  <1> DEFINE n == Dequeued(st)
             d == Head(st.ranges_to_free)
  <1>1. KmemKept(st) /\ CachesOK(st, U) /\ Placed(st, U) /\ Descriptors(st) /\ AllListed(st) /\ Tiled(st)
    BY DEF Firm
  <1>2. /\ KmemKept(n) /\ InHand(n, d) /\ Coalesced(n)
        /\ n.range = st.range /\ n.free = st.free /\ n.used = st.used /\ n.owner = st.owner
        /\ ToSet(n.ranges_to_free) = ToSet(st.ranges_to_free) \ {d}
    BY <1>1, DequeuedKeeps
  <1>3. d \in ToSet(st.ranges_to_free) /\ d \notin ToSet(st.used)
    <2> DEFINE q == st.ranges_to_free
               D == DOMAIN st.range
    <2>1. q \in Seq(D) /\ IsInjective(q) /\ q # <<>>
      BY <1>1 DEF KmemKept, KmemShape, RangesKept, ListsSorted
    <2> HIDE DEF q, D
    <2>2. Head(q) \in ToSet(q)
      BY <2>1, Popped
    <2> QED BY <2>2, <1>1 DEF q, KmemKept, RangesKept, ListsSorted
  <1>4. Cached(st, n) /\ n.avail = st.avail
    <2>1. Shaped(st)
      BY <1>1 DEF KmemKept, KmemShape
    <2> QED BY <2>1 DEF Dequeued, Shaped, Field, Cached
  <1> HIDE DEF n, d
  <1>5. CachesOK(n, U) /\ Placed(n, U) /\ Descriptors(n) /\ Tiled(n) /\ Spare(n) = Spare(st)
        /\ NbRanges(n) = NbRanges(st) /\ \A e : PagesOf(n, e) = PagesOf(st, e)
    BY <1>1, <1>2, <1>4, CachedFirm
  <1>6. d \in Pending(st) /\ Pending(n) = Pending(st) \ {d}
    BY <1>2, <1>3 DEF Pending
  <1>7. DOMAIN n.range = Pending(n) \union ToSet(n.free) \union {d}
    BY <1>1, <1>2, <1>6 DEF AllListed
  <1>8. AllMapped(n)
    BY <1>2, <1>5 DEF AllMapped
  <1>9. Freeing(st, n)
    <2>1. Only(st, n, {"ranges"}) /\ SlabsIn(n, "ranges") = SlabsIn(st, "ranges")
      BY <1>4, CachedKept
    <2> QED BY <2>1, <1>2, <1>4, <1>5 DEF Freeing, Loose, Cached
  <1>10. Holding(n, U, d)
    BY <1>2, <1>5, <1>7 DEF Holding
  <1> QED BY <1>2, <1>5, <1>6, <1>8, <1>9, <1>10 DEF n, d

(* The cache of ranges has as many descriptors, or its reserve of two. *)
Grows(a, b) == NbRanges(b) >= NbRanges(a) \/ NbRanges(b) >= 2

(* A turn takes one range from those that are still to be freed, and frees *)
(* it.                                                                     *)
LEMMA TurnFirm ==
  ASSUME NEW st, NEW U, Firm(st, U), Coalesced(st), st.ranges_to_free # <<>>, AllMapped(st)
  PROVE  /\ Firm(Turn(st), U) /\ Coalesced(Turn(st)) /\ AllMapped(Turn(st)) /\ Freeing(st, Turn(st))
         /\ Grows(st, Turn(st))
         /\ \E d \in Pending(st) : Pending(Turn(st)) = Pending(st) \ {d}
  <1> DEFINE u == Dequeued(st)
             d == Head(st.ranges_to_free)
             n == FreedAndMerged(u, d)
  <1>1. Turn(st) = n
    BY DEF Turn
  <1>2. /\ Holding(u, U, d) /\ Coalesced(u) /\ AllMapped(u) /\ Freeing(st, u)
        /\ NbRanges(u) = NbRanges(st)
        /\ d \in Pending(st) /\ Pending(u) = Pending(st) \ {d}
    BY DequeuedHolding
  <1> HIDE DEF u, d
  <1>3. /\ Firm(n, U) /\ Coalesced(n) /\ Freeing(u, n) /\ Pending(n) = Pending(u)
        /\ NbRanges(n) = NbRanges(u) \/ Grown(u, n)
    BY <1>2, FreedFirm
  <1>4. AllMapped(n)
    BY <1>2, FreedMapped
  <1> HIDE DEF n
  <1>5. Freeing(st, n)
    BY <1>2, <1>3, FreeingComposed
  <1>6. Grows(st, n)
    <2>1. NbRanges(st) \in Nat /\ NbRanges(n) \in Nat
      BY <1>3, NbRangesNat
    <2> QED BY <2>1, <1>2, <1>3 DEF Grows, Grown
  <1> QED BY <1>1, <1>2, <1>3, <1>4, <1>5, <1>6

(* What the deletion of a range leaves. *)
Deleted(st, n, U, d) ==
  /\ Firm(n, U) /\ Coalesced(n) /\ AllMapped(n) /\ n.ranges_to_free = <<>>
  /\ Only(st, n, {"ranges"}) /\ Spare(n) = Spare(st) /\ n.avail = st.avail
  /\ ToSet(n.used) \subseteq ToSet(st.used) \ {d} /\ Loose(n) = Loose(st) \ {d}
  /\ \A e \in ToSet(n.used) :
       n.range[e].base = st.range[e].base /\ n.range[e].nb_pages = st.range[e].nb_pages
  /\ Grows(st, n) /\ (Beside(st, d) => Grown(st, n))

(* A list has no more elements than places. *)
LEMMA ElementsAreFinite ==
  ASSUME NEW S, NEW q \in Seq(S)
  PROVE  IsFiniteSet(ToSet(q)) /\ Cardinality(ToSet(q)) <= Len(q)
  <1> DEFINE I == 1 .. Len(q)
             T == ToSet(q)
  <1>1. Len(q) \in Nat /\ DOMAIN q = I /\ \A t : t \in T <=> \E i \in I : q[i] = t
    BY ElementsAreContained
  <1>2. IsFiniteSet(I) /\ Cardinality(I) = Len(q)
    <2>1. 1 \in Int /\ Len(q) \in Int
      BY <1>1
    <2>2. IsFiniteSet(I) /\ Cardinality(I) = IF 1 > Len(q) THEN 0 ELSE Len(q) - 1 + 1
      BY <2>1, FS_Interval
    <2> QED BY <2>2, <1>1
  <1> DEFINE f == [i \in I |-> q[i]]
  <1>3. f \in Surjection(I, T)
    <2>1. f \in [I -> T] /\ \A i \in I : f[i] = q[i]
      BY <1>1
    <2> HIDE DEF f, I, T
    <2> QED BY <2>1, <1>1 DEF Surjection
  <1> HIDE DEF f, I, T
  <1>4. IsFiniteSet(T) /\ Cardinality(T) <= Cardinality(I)
    BY <1>2, <1>3, FS_Surjection
  <1> QED BY <1>2, <1>4 DEF T

(* sos_kmem_vmm_del_range() takes its range from the used ones: the range  *)
(* is in hand, and nothing else has changed.                               *)
LEMMA UnusedHolding ==
  ASSUME NEW st, NEW U, Firm(st, U), Coalesced(st), NEW d \in ToSet(st.used), st.range[d].slab = NULL,
         \A e \in ToSet(st.used) \ {d} : PagesOf(st, e) \subseteq DOMAIN st.owner,
         NEW n, n = Unused(st, d)
  PROVE  /\ Holding(n, U, d) /\ Coalesced(n) /\ AllMapped(n) /\ Cached(st, n)
         /\ n.range = st.range /\ n.avail = st.avail /\ NbRanges(n) = NbRanges(st)
         /\ n.free = st.free /\ n.owner = st.owner
         /\ ToSet(n.used) = ToSet(st.used) \ {d} /\ Loose(n) = Loose(st) \ {d}
         /\ d \in Pending(st) /\ Pending(n) = Pending(st) \ {d}
         /\ Spare(n) = Spare(st)
  <1>1. KmemKept(st) /\ CachesOK(st, U) /\ Placed(st, U) /\ Descriptors(st) /\ AllListed(st) /\ Tiled(st)
    BY DEF Firm
  <1>2. /\ KmemKept(n) /\ InHand(n, d) /\ Coalesced(n)
        /\ n.range = st.range /\ n.free = st.free /\ n.owner = st.owner
        /\ n.ranges_to_free = st.ranges_to_free /\ ToSet(n.used) = ToSet(st.used) \ {d}
    BY <1>1, UnusedKeeps
  <1>3. Cached(st, n) /\ n.avail = st.avail
    <2>1. Shaped(st)
      BY <1>1 DEF KmemKept, KmemShape
    <2> QED BY <2>1 DEF Unused, Shaped, Field, Cached
  <1>5. CachesOK(n, U) /\ Placed(n, U) /\ Descriptors(n) /\ Tiled(n) /\ Spare(n) = Spare(st)
        /\ NbRanges(n) = NbRanges(st) /\ \A e : PagesOf(n, e) = PagesOf(st, e)
    BY <1>1, <1>2, <1>3, CachedFirm
  <1>6. d \in Pending(st) /\ Pending(n) = Pending(st) \ {d}
    <2>1. d \notin ToSet(st.ranges_to_free)
      BY <1>1 DEF KmemKept, RangesKept, ListsSorted
    <2> QED BY <2>1, <1>2 DEF Pending
  <1>7. DOMAIN n.range = Pending(n) \union ToSet(n.free) \union {d}
    BY <1>1, <1>2, <1>6 DEF AllListed
  <1>8. AllMapped(n)
    BY <1>2, <1>5 DEF AllMapped
  <1>9. Loose(n) = Loose(st) \ {d}
    BY <1>2 DEF Loose
  <1>10. Holding(n, U, d)
    BY <1>2, <1>5, <1>7 DEF Holding
  <1> QED BY <1>2, <1>3, <1>5, <1>6, <1>8, <1>9, <1>10

(* The first turn frees the range that is given. *)
LEMMA FirstTurn ==
  ASSUME NEW st, NEW d, Shaped(st), st.ranges_to_free = <<>>
  PROVE  Turn(ToFree(st, d)) = FreedAndMerged(Unused(st, d), d)
  <1> DEFINE u == Unused(st, d)
             t == ToFree(st, d)
             q == Dequeued(t)
  <1>1. Shaped(u) /\ u.ranges_to_free = <<>>
    BY DEF Unused, Shaped, Field
  <1>2. t = [u EXCEPT !.ranges_to_free = <<d>>]
    BY DEF ToFree
  <1> HIDE DEF u, t
  <1>3. Shaped(t) /\ t.ranges_to_free = <<d>> /\ \A f \in Field : f # "ranges_to_free" => t[f] = u[f]
    BY <1>1, <1>2 DEF Shaped, Field
  <1>4. t.ranges_to_free # <<>> /\ Head(t.ranges_to_free) = d /\ Tail(t.ranges_to_free) = <<>>
    BY <1>3
  <1>5. Shaped(q) /\ \A f \in Field : q[f] = u[f]
    BY <1>1, <1>3, <1>4 DEF Dequeued, Shaped, Field
  <1> HIDE DEF q
  <1>6. q = u
    BY <1>1, <1>5 DEF Shaped
  <1> QED BY <1>4, <1>6 DEF Turn, q, t, u

(* The first turn of sos_kmem_vmm_del_range(), on the range it was given. *)
LEMMA FirstTurnFirm ==
  ASSUME NEW st, NEW U, Firm(st, U), Coalesced(st), NEW d \in ToSet(st.used), st.range[d].slab = NULL,
         \A e \in ToSet(st.used) \ {d} : PagesOf(st, e) \subseteq DOMAIN st.owner,
         NEW n, n = FreedAndMerged(Unused(st, d), d)
  PROVE  /\ Firm(n, U) /\ Coalesced(n) /\ AllMapped(n)
         /\ Only(st, n, {"ranges"}) /\ Spare(n) = Spare(st) /\ n.avail = st.avail
         /\ ToSet(n.used) \subseteq ToSet(st.used) \ {d} /\ Loose(n) = Loose(st) \ {d}
         /\ \A e \in ToSet(n.used) :
              n.range[e].base = st.range[e].base /\ n.range[e].nb_pages = st.range[e].nb_pages
         /\ Grows(st, n) /\ (Beside(st, d) => Grown(st, n))
         /\ d \in Pending(st) /\ Pending(n) = Pending(st) \ {d}
  <1> DEFINE u == Unused(st, d)
  <1>1. /\ Holding(u, U, d) /\ Coalesced(u) /\ AllMapped(u) /\ Cached(st, u)
         /\ u.range = st.range /\ u.avail = st.avail /\ NbRanges(u) = NbRanges(st)
         /\ u.free = st.free /\ Spare(u) = Spare(st)
         /\ ToSet(u.used) = ToSet(st.used) \ {d} /\ Loose(u) = Loose(st) \ {d}
         /\ d \in Pending(st) /\ Pending(u) = Pending(st) \ {d}
    BY UnusedHolding
  <1> HIDE DEF u
  <1>2. /\ Firm(n, U) /\ Coalesced(n) /\ Freeing(u, n) /\ Pending(n) = Pending(u)
        /\ (NbRanges(n) = NbRanges(u) /\ ~ Beside(u, d)) \/ Grown(u, n)
    BY <1>1, FreedFirm DEF u
  <1>3. AllMapped(n)
    BY <1>1, FreedMapped DEF u
  <1>4. Only(st, n, {"ranges"})
    BY <1>1, <1>2 DEF Freeing, Only, Cached
  <1>5. Beside(st, d) <=> Beside(u, d)
    BY <1>1 DEF Beside, End
  <1>6. NbRanges(st) \in Nat /\ NbRanges(n) \in Nat
    BY <1>2, NbRangesNat
  <1>7. Grows(st, n) /\ (Beside(st, d) => Grown(st, n))
    BY <1>1, <1>2, <1>5, <1>6 DEF Grows, Grown
  <1> QED BY <1>1, <1>2, <1>3, <1>4, <1>7 DEF Freeing

(* The state after m turns, the first of which has left x1. *)
DeletionAt(x1, x, U, left) ==
  /\ Firm(x, U) /\ Coalesced(x) /\ AllMapped(x) /\ Freeing(x1, x) /\ Grows(x1, x)
  /\ IsFiniteSet(Pending(x))
  /\ x.ranges_to_free = <<>> \/ Cardinality(Pending(x)) <= left

(* A turn of the loop leaves one range less to free. *)
LEMMA NextTurn ==
  ASSUME NEW x1, NEW x, NEW U, NEW left \in Int, DeletionAt(x1, x, U, left), NbRanges(x1) \in Nat
  PROVE  DeletionAt(x1, Turn(x), U, left - 1)
  <1> DEFINE n == Turn(x)
  <1>1. CASE x.ranges_to_free = <<>>
    <2>1. n = x
      BY <1>1 DEF Turn
    <2> QED BY <2>1, <1>1 DEF DeletionAt
  <1>2. CASE x.ranges_to_free # <<>>
    <2>1. Firm(x, U) /\ Coalesced(x) /\ AllMapped(x) /\ Freeing(x1, x) /\ Grows(x1, x)
          /\ IsFiniteSet(Pending(x)) /\ Cardinality(Pending(x)) <= left
      BY <1>2 DEF DeletionAt
    <2>2. /\ Firm(n, U) /\ Coalesced(n) /\ AllMapped(n) /\ Freeing(x, n) /\ Grows(x, n)
          /\ \E d \in Pending(x) : Pending(n) = Pending(x) \ {d}
      BY <2>1, <1>2, TurnFirm
    <2> HIDE DEF n
    <2>3. PICK d \in Pending(x) : Pending(n) = Pending(x) \ {d}
      BY <2>2
    <2>4. IsFiniteSet(Pending(n)) /\ Cardinality(Pending(n)) = Cardinality(Pending(x)) - 1
      BY <2>1, <2>3, FS_RemoveElement
    <2>5. Cardinality(Pending(x)) \in Nat
      BY <2>1, FS_CardinalityType
    <2>6. Freeing(x1, n)
      BY <2>1, <2>2, FreeingComposed
    <2>7. Grows(x1, n)
      <3>1. NbRanges(x) \in Nat /\ NbRanges(n) \in Nat
        BY <2>1, <2>2, NbRangesNat
      <3> QED BY <3>1, <2>1, <2>2 DEF Grows
    <2>8. Cardinality(Pending(n)) <= left - 1
      BY <2>1, <2>4, <2>5
    <2>9. DeletionAt(x1, n, U, left - 1)
      BY <2>2, <2>4, <2>6, <2>7, <2>8 DEF DeletionAt
    <2> QED BY <2>9 DEF n
  <1> QED BY <1>1, <1>2

(* sos_kmem_vmm_del_range() deletes the range d: no other used range       *)
(* without slab is lost or moved, no page and no descriptor is lost,       *)
(* nothing stays queued and free ranges that touch are merged; only the    *)
(* cache of ranges changes, by what it gets back.                          *)
THEOREM DelRangeDeletes ==
  ASSUME NEW st, NEW U, Firm(st, U), Coalesced(st), st.ranges_to_free = <<>>,
         NEW d \in ToSet(st.used), st.range[d].slab = NULL,
         \A e \in ToSet(st.used) \ {d} : PagesOf(st, e) \subseteq DOMAIN st.owner
  PROVE  Deleted(st, DelRange(st, d), U, d)
  <1> DEFINE x1 == FreedAndMerged(Unused(st, d), d)
             bound == Len(st.used)
             n == DelRange(st, d)
  <1>1. /\ Firm(x1, U) /\ Coalesced(x1) /\ AllMapped(x1)
        /\ Only(st, x1, {"ranges"}) /\ Spare(x1) = Spare(st) /\ x1.avail = st.avail
        /\ ToSet(x1.used) \subseteq ToSet(st.used) \ {d} /\ Loose(x1) = Loose(st) \ {d}
        /\ \A e \in ToSet(x1.used) :
             x1.range[e].base = st.range[e].base /\ x1.range[e].nb_pages = st.range[e].nb_pages
        /\ Grows(st, x1) /\ (Beside(st, d) => Grown(st, x1))
        /\ d \in Pending(st) /\ Pending(x1) = Pending(st) \ {d}
    BY FirstTurnFirm
  <1>2. st.used \in Seq(DOMAIN st.range) /\ Shaped(st)
    BY DEF Firm, KmemKept, KmemShape
  <1>3. Turn(ToFree(st, d)) = x1
    BY <1>2, FirstTurn
  <1>4. /\ bound \in Nat /\ bound # 0
        /\ IsFiniteSet(Pending(st)) /\ Cardinality(Pending(st)) <= bound
    <2>1. ToSet(st.ranges_to_free) = {}
      BY DEF ToSet
    <2>2. Pending(st) = ToSet(st.used)
      BY <2>1 DEF Pending
    <2>3. bound \in Nat /\ \E i \in 1 .. bound : st.used[i] = d
      BY <1>2, ElementsAreContained
    <2>4. IsFiniteSet(ToSet(st.used)) /\ Cardinality(ToSet(st.used)) <= bound
      BY <1>2, ElementsAreFinite
    <2> HIDE DEF bound
    <2> QED BY <2>2, <2>3, <2>4
  <1>5. n = Turns(ToFree(st, d), bound)
    BY DEF DelRange
  <1> HIDE DEF x1, bound, n
  <1>6. NbRanges(x1) \in Nat /\ NbRanges(st) \in Nat
    BY <1>1, NbRangesNat
  <1>7. DeletionAt(x1, x1, U, bound - 1)
    <2>1. IsFiniteSet(Pending(x1)) /\ Cardinality(Pending(x1)) = Cardinality(Pending(st)) - 1
      BY <1>1, <1>4, FS_RemoveElement
    <2>2. Cardinality(Pending(st)) \in Nat
      BY <1>4, FS_CardinalityType
    <2>3. Cardinality(Pending(x1)) <= bound - 1
      BY <2>1, <2>2, <1>4
    <2>4. Freeing(x1, x1)
      BY DEF Freeing, Only
    <2>5. Grows(x1, x1)
      BY <1>6 DEF Grows
    <2> QED BY <2>1, <2>3, <2>4, <2>5, <1>1 DEF DeletionAt
  <1>8. PICK g : /\ g[0] = ToFree(st, d) /\ n = g[bound]
                 /\ \A m \in 1 .. bound : g[m] = Turn(g[m - 1])
    <2> DEFINE first == ToFree(st, d)
    <2> HIDE DEF first
    <2>1. \E g : /\ g[0] = first /\ Turns(first, bound) = g[bound]
                 /\ \A m \in 1 .. bound : g[m] = Turn(g[m - 1])
      BY <1>4, TurnsAre
    <2>2. n = Turns(first, bound)
      BY <1>5 DEF first
    <2> QED BY <2>1, <2>2 DEF first
  <1>9. \A m \in 1 .. bound : DeletionAt(x1, g[m], U, bound - m)
    <2> DEFINE Bad == {m \in 1 .. bound : ~ DeletionAt(x1, g[m], U, bound - m)}
    <2>1. SUFFICES ASSUME Bad # {} PROVE FALSE
      OBVIOUS
    <2> DEFINE m == Min(Bad)
    <2>2. m \in Bad /\ \A k \in Bad : m <= k
      <3>1. Bad \in SUBSET Nat
        BY <1>4
      <3> HIDE DEF Bad
      <3> QED BY <2>1, <3>1, MinOfNaturals
    <2>3. m \in 1 .. bound /\ ~ DeletionAt(x1, g[m], U, bound - m)
      BY <2>2
    <2> HIDE DEF m
    <2>4. CASE m = 1
      <3>1. g[m] = x1
        BY <2>3, <2>4, <1>3, <1>8
      <3> QED BY <3>1, <2>3, <2>4, <1>7
    <2>5. CASE m # 1
      <3>1. m - 1 \in 1 .. bound /\ m - 1 \notin Bad
        BY <2>2, <2>3, <2>5, <1>4
      <3>2. DeletionAt(x1, g[m - 1], U, bound - (m - 1))
        BY <3>1
      <3>3. bound - (m - 1) \in Int /\ (bound - (m - 1)) - 1 = bound - m
        BY <2>3, <1>4
      <3> HIDE DEF Bad
      <3>4. DeletionAt(x1, Turn(g[m - 1]), U, (bound - (m - 1)) - 1)
        BY <3>2, <3>3, <1>6, NextTurn
      <3>5. g[m] = Turn(g[m - 1])
        BY <2>3, <1>8
      <3> QED BY <2>3, <3>3, <3>4, <3>5
    <2> QED BY <2>4, <2>5
  <1>10. DeletionAt(x1, n, U, 0)
    <2>1. bound \in 1 .. bound /\ bound - bound = 0
      BY <1>4
    <2> QED BY <2>1, <1>8, <1>9
  <1>11. Firm(n, U) /\ Coalesced(n) /\ AllMapped(n) /\ Freeing(x1, n) /\ Grows(x1, n)
    BY <1>10 DEF DeletionAt
  <1>12. n.ranges_to_free = <<>>
    <2>1. SUFFICES ASSUME n.ranges_to_free # <<>> PROVE FALSE
      OBVIOUS
    <2>2. IsFiniteSet(Pending(n)) /\ Cardinality(Pending(n)) <= 0
      BY <1>10, <2>1 DEF DeletionAt
    <2>3. Pending(n) = {}
      BY <2>2, FS_EmptySet, FS_CardinalityType
    <2>4. n.ranges_to_free \in Seq(DOMAIN n.range)
      BY <1>11 DEF Firm, KmemKept, KmemShape
    <2> DEFINE q == n.ranges_to_free
               D == DOMAIN n.range
    <2>5. q \in Seq(D) /\ q # <<>>
      BY <2>1, <2>4
    <2> HIDE DEF q, D
    <2>6. Len(q) \in Nat /\ 1 \in 1 .. Len(q)
      BY <2>5, EmptySeq, LenProperties
    <2>7. q[1] \in ToSet(q)
      BY <2>5, <2>6, ElementsAreContained
    <2> QED BY <2>3, <2>7 DEF q, Pending
  <1>13. Only(st, n, {"ranges"})
    <2>1. Only(st, n, {"ranges"} \union {"ranges"})
      BY <1>1, <1>11, OnlyComposed DEF Freeing
    <2> QED BY <2>1
  <1>14. Grows(st, n) /\ (Beside(st, d) => Grown(st, n))
    <2>1. NbRanges(n) \in Nat
      BY <1>11, NbRangesNat
    <2> QED BY <2>1, <1>1, <1>6, <1>11 DEF Grows, Grown
  <1>15. Deleted(st, n, U, d)
    <2>1. Spare(n) = Spare(st) /\ n.avail = st.avail
          /\ ToSet(n.used) \subseteq ToSet(st.used) \ {d} /\ Loose(n) = Loose(st) \ {d}
      BY <1>1, <1>11 DEF Freeing
    <2>2. \A e \in ToSet(n.used) :
            n.range[e].base = st.range[e].base /\ n.range[e].nb_pages = st.range[e].nb_pages
      BY <1>1, <1>11 DEF Freeing
    <2> QED BY <2>1, <2>2, <1>11, <1>12, <1>13, <1>14 DEF Deleted
  <1> QED BY <1>15 DEF n

-----------------------------------------------------------------------------
(* THE RELEASE OF A SLAB, AND OF AN OBJECT                                 *)

(* What holds between the operations on ranges: there is nothing left to   *)
(* free, and free ranges that touch are merged.                            *)
Ready(st, U) == Firm(st, U) /\ Coalesced(st) /\ AllMapped(st) /\ st.ranges_to_free = <<>>

(* The slabs whose structure is an object. *)
Outside(st, U) == {s \in DOMAIN st.slab : ~ Cache[st.slab[s].cache].onslab} \ U

(* What the allocators use themselves of the objects of a cache, and what  *)
(* they do not.                                                            *)
Need(st, U, e) ==
  CASE e = "ranges" -> DOMAIN st.range
    [] e = "caches" -> {st.cache[c].addr : c \in DOMAIN st.cache}
    [] e = "kslabs" -> Outside(st, U)
    [] OTHER -> {}

(* The objects of a cache that are not for the allocators themselves. *)
Held(st, U, e) == TakenIn(st, e) \ Need(st, U, e)

(* A cache without reserve has no slab whose objects are all free. *)
Tidy(st, U, e) ==
  Cache[e].min = 0 => \A s \in SlabsIn(st, e) \ U : st.slab[s].free # Objects(st, s)

(* A cache has its reserve, or as many free objects as before. *)
Stocked(a, b, e) ==
  b.cache[e].nb_free >= Cache[e].min \/ b.cache[e].nb_free >= a.cache[e].nb_free

(* What an operation leaves of the other caches. *)
Frame(a, U, b, V, C) ==
  /\ DOMAIN b.cache = DOMAIN a.cache
  /\ \A e \in DOMAIN a.cache : b.cache[e].addr = a.cache[e].addr
  /\ \A e \in DOMAIN a.cache \ C :
       Held(b, V, e) = Held(a, U, e) /\ Stocked(a, b, e) /\ (Tidy(a, U, e) => Tidy(b, V, e))

(* The ranges that are used without slab, but for those of X. *)
LooseLess(a, b, X) ==
  /\ Loose(b) = Loose(a) \ X
  /\ \A e \in Loose(b) :
       b.range[e].base = a.range[e].base /\ b.range[e].nb_pages = a.range[e].nb_pages

(* The counts of a cache that exists are numbers, and a slab of it has its *)
(* reserve.                                                                *)
LEMMA Counts ==
  ASSUME NEW st, NEW U, CachesOK(st, U), Placed(st, U), NEW e \in DOMAIN st.cache
  PROVE  /\ st.cache[e].nb_free \in Nat /\ Cache[e].min \in Nat /\ Cache[e].objects \in Nat \ {0}
         /\ e \in DOMAIN Cache /\ Cache[e].min <= Cache[e].objects
  <1>1. e \in DOMAIN Cache /\ ~ CacheRefused(e)
    BY DEF CachesOK, Tabled, Placed
  <1> QED BY <1>1, ListFacts, Accepted

(* One operation that frames some caches after another. *)
LEMMA FrameComposed ==
  ASSUME NEW a, NEW U, NEW b, NEW V, NEW d, NEW W, NEW C, NEW D,
         Firm(a, U), Firm(b, V), Firm(d, W),
         Frame(a, U, b, V, C), Frame(b, V, d, W, D)
  PROVE  Frame(a, U, d, W, C \union D)
  <1>1. ASSUME NEW e \in DOMAIN a.cache \ (C \union D) PROVE Stocked(a, d, e)
    <2>1. e \in DOMAIN b.cache /\ e \in DOMAIN d.cache /\ Stocked(a, b, e) /\ Stocked(b, d, e)
      BY <1>1 DEF Frame
    <2>2. /\ a.cache[e].nb_free \in Nat /\ b.cache[e].nb_free \in Nat /\ d.cache[e].nb_free \in Nat
          /\ Cache[e].min \in Nat
      BY <2>1, <1>1, Counts DEF Firm
    <2> QED BY <2>1, <2>2 DEF Stocked
  <1> QED BY <1>1 DEF Frame

(* To frame fewer caches is to say more. *)
LEMMA FrameLess ==
  ASSUME NEW a, NEW U, NEW b, NEW V, NEW C, NEW D, Frame(a, U, b, V, C), C \subseteq D
  PROVE  Frame(a, U, b, V, D)
  BY DEF Frame

(* Ranges are taken from those without slab by one operation after another. *)
LEMMA LooseLessComposed ==
  ASSUME NEW a, NEW b, NEW d, NEW X, NEW Y, LooseLess(a, b, X), LooseLess(b, d, Y)
  PROVE  LooseLess(a, d, X \union Y)
  BY DEF LooseLess

(* The objects held of a cache that an operation leaves alone are the      *)
(* same.                                                                   *)
LEMMA OnlyHeld ==
  ASSUME NEW a, NEW U, NEW b, NEW V, NEW C, Only(a, b, C), Placed(a, U), NEW e \in DOMAIN a.cache, e \notin C,
         CachesOK(a, U),
         e = "ranges" => DOMAIN b.range = DOMAIN a.range,
         e = "kslabs" => Outside(b, V) = Outside(a, U),
         SlabsIn(b, e) \ V = SlabsIn(a, e) \ U
  PROVE  Held(b, V, e) = Held(a, U, e) /\ Stocked(a, b, e) /\ (Tidy(a, U, e) => Tidy(b, V, e))
  <1>1. /\ SlabsIn(b, e) = SlabsIn(a, e) /\ TakenIn(b, e) = TakenIn(a, e)
        /\ \A s \in SlabsIn(a, e) : b.slab[s] = a.slab[s] /\ Objects(b, s) = Objects(a, s)
    BY OnlyOthers
  <1>2. DOMAIN b.cache = DOMAIN a.cache /\ \A c \in DOMAIN a.cache : b.cache[c].addr = a.cache[c].addr
    BY DEF Only
  <1>3. Need(b, V, e) = Need(a, U, e)
    <2>1. {b.cache[c].addr : c \in DOMAIN b.cache} = {a.cache[c].addr : c \in DOMAIN a.cache}
      BY <1>2
    <2> QED BY <2>1 DEF Need
  <1>4. Stocked(a, b, e)
    <2>1. a.cache[e].nb_free \in Nat
      BY Counts
    <2>2. b.cache[e] = a.cache[e]
      BY DEF Only
    <2> QED BY <2>1, <2>2 DEF Stocked
  <1>5. Tidy(a, U, e) => Tidy(b, V, e)
    BY <1>1 DEF Tidy
  <1> QED BY <1>1, <1>3, <1>4, <1>5 DEF Held

(* The deletion of a range changes the objects of no cache but that of     *)
(* ranges.                                                                 *)
LEMMA DeletedFrame ==
  ASSUME NEW st, NEW U, Firm(st, U), NEW n, NEW d, Deleted(st, n, U, d)
  PROVE  /\ Ready(n, U) /\ Frame(st, U, n, U, {}) /\ LooseLess(st, n, {d}) /\ n.avail = st.avail
         /\ Only(st, n, {"ranges"})
  <1>1. /\ Firm(n, U) /\ Only(st, n, {"ranges"}) /\ Spare(n) = Spare(st) /\ Grows(st, n)
    BY DEF Deleted
  <1>2. CachesOK(st, U) /\ Placed(st, U)
    BY DEF Firm
  <1>3. ASSUME NEW e \in DOMAIN st.cache
        PROVE  Held(n, U, e) = Held(st, U, e) /\ Stocked(st, n, e) /\ (Tidy(st, U, e) => Tidy(n, U, e))
    <2>1. CASE e = "ranges"
      <3>1. Held(n, U, e) = Held(st, U, e)
        BY <2>1, <1>1 DEF Held, Need, Spare
      <3>2. Cache["ranges"].min = 2
        BY OwnCaches
      <3> QED BY <3>1, <3>2, <2>1, <1>1 DEF Grows, NbRanges, Stocked, Tidy
    <2>2. CASE e # "ranges"
      <3>1. Outside(n, U) = Outside(st, U)
        <4>1. Cache["ranges"].onslab
          BY OwnCaches
        <4>2. \A s : /\ s \in DOMAIN n.slab /\ ~ Cache[n.slab[s].cache].onslab
                 <=> /\ s \in DOMAIN st.slab /\ ~ Cache[st.slab[s].cache].onslab
          BY <4>1, <1>1 DEF Only
        <4> QED BY <4>2 DEF Outside
      <3>2. SlabsIn(n, e) = SlabsIn(st, e)
        BY <2>2, <1>1, OnlyOthers
      <3> QED BY <3>1, <3>2, <2>2, <1>1, <1>2, OnlyHeld
    <2> QED BY <2>1, <2>2
  <1>4. Frame(st, U, n, U, {})
    BY <1>1, <1>3 DEF Frame, Only
  <1>5. LooseLess(st, n, {d})
    BY DEF Deleted, LooseLess, Loose
  <1> QED BY <1>1, <1>4, <1>5 DEF Ready, Deleted

(* Steps that leave the ranges alone keep Firm when they keep the caches. *)
LEMMA SameRangesFirm ==
  ASSUME NEW st, NEW n, SameRanges(st, n)
  PROVE  /\ Tiled(st) <=> Tiled(n)
         /\ AllListed(st) <=> AllListed(n)
         /\ AllMapped(st) <=> AllMapped(n)
         /\ Loose(n) = Loose(st) /\ Pending(n) = Pending(st)
         /\ \A X : X \intersect Loose(st) = {} => LooseLess(st, n, X)
         /\ \A U : Outside(n, U) = Outside(st, U)
         /\ \A e : SlabsIn(n, e) = SlabsIn(st, e)
         /\ \A s \in DOMAIN st.slab : Objects(n, s) = Objects(st, s)
  <1>1. /\ n.range = st.range /\ n.free = st.free /\ n.used = st.used
        /\ n.ranges_to_free = st.ranges_to_free /\ n.owner = st.owner
        /\ DOMAIN n.slab = DOMAIN st.slab
        /\ \A s \in DOMAIN st.slab : n.slab[s].cache = st.slab[s].cache /\ n.slab[s].base = st.slab[s].base
    BY DEF SameRanges
  <1>2. \A e : PagesOf(n, e) = PagesOf(st, e) /\ End(n, e) = End(st, e)
    BY <1>1 DEF PagesOf, End
  <1>3. Tiled(st) <=> Tiled(n)
    BY <1>1, <1>2 DEF Tiled, Covered
  <1>4. AllMapped(st) <=> AllMapped(n)
    BY <1>1, <1>2 DEF AllMapped
  <1>5. Loose(n) = Loose(st) /\ Pending(n) = Pending(st)
    BY <1>1 DEF Loose, Pending
  <1>6. AllListed(st) <=> AllListed(n)
    BY <1>1, <1>5 DEF AllListed
  <1>7. \A X : X \intersect Loose(st) = {} => LooseLess(st, n, X)
    BY <1>1, <1>5 DEF LooseLess
  <1>8. \A U : Outside(n, U) = Outside(st, U)
    BY <1>1 DEF Outside
  <1>9. \A e : SlabsIn(n, e) = SlabsIn(st, e)
    BY <1>1 DEF SlabsIn
  <1>10. \A s \in DOMAIN st.slab : Objects(n, s) = Objects(st, s)
    BY <1>1 DEF Objects
  <1> QED BY <1>3, <1>4, <1>5, <1>6, <1>7, <1>8, <1>9, <1>10

(* The parts of what holds between the operations on ranges. *)
LEMMA FirmHas ==
  ASSUME NEW st, NEW U, Ready(st, U)
  PROVE  /\ KmemKept(st) /\ KmemShape(st) /\ CachesOK(st, U) /\ Placed(st, U) /\ Descriptors(st) /\ AllListed(st)
         /\ Tiled(st) /\ Coalesced(st) /\ AllMapped(st) /\ st.ranges_to_free = <<>> /\ Disjoint(st)
         /\ OwnNames \subseteq DOMAIN st.cache /\ Shaped(st) /\ Firm(st, U)
  BY KeptDisjoint DEF Ready, Firm, KmemKept, KmemShape, Placed

(* A slab all free leaves its cache. *)
DropReady(st, n, U, c, s) ==
  /\ Ready(n, U \union {s}) /\ Frame(st, U, n, U \union {s}, {c, "kslabs"})
  /\ Held(n, U \union {s}, c) = Held(st, U, c) \union ({s} \intersect (IF c = "kslabs" THEN Outside(st, U) ELSE {}))
  /\ Held(n, U \union {s}, "kslabs") = Held(st, U, "kslabs") \union ({s} \intersect Outside(st, U))
  /\ Tidy(st, U, c) => Tidy(n, U \union {s}, c)
  /\ Tidy(st, U, "kslabs") => Tidy(n, U \union {s}, "kslabs")
  /\ n.cache[c].nb_free = st.cache[c].nb_free - Cache[c].objects
  /\ n.cache[c].slab_list = RemoveFirst(st.cache[c].slab_list, s)
  /\ n.slab = st.slab /\ LooseLess(st, n, {}) /\ n.avail = st.avail /\ Only(st, n, {c}) /\ n.ret = st.ret

(* An empty slab is dropped from its list, and is in hand. *)
LEMMA DropSlabReady ==
  ASSUME NEW st, NEW U, Ready(st, U), NEW c, NEW s, s \in SlabsIn(st, c), s \notin U,
         st.slab[s].free = Objects(st, s),
         NEW n, n = DropSlab(st, s)
  PROVE  DropReady(st, n, U, c, s)
  <1> DEFINE V == U \union {s}
  <1>1. /\ KmemKept(st) /\ CachesOK(st, U) /\ Placed(st, U) /\ Descriptors(st) /\ AllListed(st)
        /\ Tiled(st) /\ Coalesced(st) /\ AllMapped(st) /\ st.ranges_to_free = <<>>
        /\ "kslabs" \in DOMAIN st.cache
    BY FirmHas DEF OwnNames
  <1>2. s \in DOMAIN st.slab /\ st.slab[s].cache = c /\ c \in DOMAIN st.cache /\ Cache[c].objects \in Nat
    <2>1. s \in DOMAIN st.slab /\ st.slab[s].cache = c /\ c \in DOMAIN st.cache
      BY <1>1 DEF SlabsIn, CachesOK, Slabbed
    <2> QED BY <2>1, <1>1, Counts
  <1>3. SlabDropped(st, n, U, c, s)
    BY <1>1, <1>2, DropSlabCaches
  <1>4. /\ KmemKept(n) /\ SameRanges(st, n) /\ Coalesced(n)
        /\ n.slab = st.slab /\ n.ret = st.ret /\ n.avail = st.avail
        /\ CachesOK(n, V) /\ Only(st, n, {c})
        /\ \A e : TakenIn(n, e) = TakenIn(st, e)
        /\ n.cache[c].nb_free = st.cache[c].nb_free - Cache[c].objects
        /\ n.cache[c].slab_list = RemoveFirst(st.cache[c].slab_list, s)
    <2>1. Coalesced(n)
      BY <1>1, <1>3 DEF SlabDropped
    <2> QED BY <2>1, <1>3 DEF SlabDropped
  <1> HIDE DEF V
  <1>5. /\ Tiled(n) /\ AllListed(n) /\ AllMapped(n) /\ n.ranges_to_free = <<>> /\ n.range = st.range
        /\ Loose(n) = Loose(st) /\ LooseLess(st, n, {})
    <2>1. /\ Tiled(n) /\ AllListed(n) /\ AllMapped(n) /\ Loose(n) = Loose(st) /\ LooseLess(st, n, {})
      BY <1>1, <1>4, SameRangesFirm
    <2> QED BY <2>1, <1>1, <1>4 DEF SameRanges
  <1>6. Placed(n, V)
    <2>1. DOMAIN n.cache = DOMAIN st.cache /\ \A e \in DOMAIN st.cache : n.cache[e].addr = st.cache[e].addr
      BY <1>4 DEF Only
    <2> QED BY <2>1, <1>1, <1>4 DEF Placed, V
  <1>7. Ready(n, V)
    BY <1>1, <1>4, <1>5, <1>6 DEF Ready, Firm, Descriptors
  <1>8. Outside(n, V) = Outside(st, U) \ {s} /\ \A e : SlabsIn(n, e) = SlabsIn(st, e)
    BY <1>4 DEF Outside, V, SlabsIn
  <1>9. \A e \in DOMAIN st.cache : n.cache[e].addr = st.cache[e].addr /\ DOMAIN n.cache = DOMAIN st.cache
    BY <1>4 DEF Only
  <1>10. \A e : Need(n, V, e) = IF e = "kslabs" THEN Need(st, U, e) \ {s} ELSE Need(st, U, e)
    <2>1. {n.cache[e].addr : e \in DOMAIN n.cache} = {st.cache[e].addr : e \in DOMAIN st.cache}
      BY <1>9, <1>2
    <2> QED BY <2>1, <1>5, <1>8 DEF Need
  <1>11. Held(n, V, "kslabs") = Held(st, U, "kslabs") \union ({s} \intersect Outside(st, U))
    <2>1. s \in Outside(st, U) => s \in TakenIn(st, "kslabs")
      BY <1>1 DEF Placed, Outside
    <2>2. Need(st, U, "kslabs") = Outside(st, U)
      BY DEF Need
    <2> QED BY <2>1, <2>2, <1>4, <1>10 DEF Held
  <1>12. \A e : e # "kslabs" => Held(n, V, e) = Held(st, U, e)
    BY <1>4, <1>10 DEF Held
  <1>13. \A e : Tidy(st, U, e) => Tidy(n, V, e)
    <2>1. \A t \in DOMAIN st.slab : Objects(n, t) = Objects(st, t)
      BY <1>4, SameRangesFirm
    <2>2. \A e : SlabsIn(st, e) \subseteq DOMAIN st.slab
      BY DEF SlabsIn
    <2> QED BY <2>1, <2>2, <1>4, <1>8 DEF Tidy, V
  <1>14. Frame(st, U, n, V, {c, "kslabs"})
    <2>1. ASSUME NEW e \in DOMAIN st.cache \ {c, "kslabs"} PROVE Stocked(st, n, e)
      <3>1. n.cache[e] = st.cache[e]
        BY <2>1, <1>4 DEF Only
      <3>2. st.cache[e].nb_free \in Nat
        BY <2>1, <1>1, Counts
      <3> QED BY <3>1, <3>2 DEF Stocked
    <2> QED BY <2>1, <1>9, <1>12, <1>13, <1>2 DEF Frame
  <1>15. Held(n, V, c) = Held(st, U, c) \union ({s} \intersect (IF c = "kslabs" THEN Outside(st, U) ELSE {}))
    BY <1>11, <1>12
  <1> QED BY <1>4, <1>5, <1>7, <1>11, <1>13, <1>14, <1>15 DEF V, DropReady

(* The range of a slab out of its cache is unbound and deleted. *)
RangeDeleted(st, n, V, c, s) ==
  /\ Ready(n, V \ {s}) /\ Frame(st, V, n, V \ {s}, {})
  /\ LooseLess(st, n, {}) /\ n.avail = st.avail
  /\ Only(st, n, {c, "ranges"})
  /\ c # "ranges" => /\ n.cache[c] = st.cache[c]
                     /\ SlabsIn(n, c) = SlabsIn(st, c) \ {s}
                     /\ \A t \in SlabsIn(n, c) : n.slab[t] = st.slab[t]

(* The slab in hand is no slab any more, and its range gets free. *)
LEMMA UnbindDeletes ==
  ASSUME NEW st, NEW V, Ready(st, V), NEW s \in V, NEW c, c = st.slab[s].cache,
         NEW n, n = DelBoundRange(UnbindRange(st, s))
  PROVE  RangeDeleted(st, n, V, c, s)
  <1> DEFINE u == UnbindRange(st, s)
             W == V \ {s}
  <1>1. /\ KmemKept(st) /\ KmemShape(st) /\ CachesOK(st, V) /\ Placed(st, V) /\ Descriptors(st) /\ AllListed(st)
        /\ Tiled(st) /\ Coalesced(st) /\ AllMapped(st) /\ st.ranges_to_free = <<>> /\ Shaped(st)
    BY FirmHas
  <1>2. s \in DOMAIN st.slab /\ c \in DOMAIN st.cache
    BY <1>1 DEF CachesOK, Slabbed
  <1>3. /\ KmemKept(u) /\ SameBounds(st, u)
        /\ u.free = st.free /\ u.used = st.used /\ u.ranges_to_free = st.ranges_to_free
        /\ u.owner = st.owner
        /\ u.ret = st.slab[s].range /\ u.ret \in ToSet(u.used)
        /\ u.range[u.ret].slab = NULL /\ Coalesced(u)
    BY <1>1, <1>2, UnbindRangeKeeps
  <1>4. u.range = [st.range EXCEPT ![u.ret].slab = NULL]
    BY <1>1, <1>3 DEF UnbindRange, Shaped, Field
  <1>5. SlabUnbound(st, u, V, c, s)
    BY <1>1, UnbindRangeCaches
  <1> HIDE DEF u, W
  <1>6. /\ u.cache = st.cache /\ u.avail = st.avail
        /\ DOMAIN u.slab = DOMAIN st.slab \ {s}
        /\ \A e \in DOMAIN u.slab : u.slab[e] = st.slab[e]
        /\ CachesOK(u, W) /\ Only(st, u, {c})
        /\ \A e : TakenIn(u, e) = TakenIn(st, e)
    BY <1>5 DEF SlabUnbound, W
  <1>7. /\ \A d \in DOMAIN st.range : End(u, d) = End(st, d) /\ PagesOf(u, d) = PagesOf(st, d)
        /\ Covered(u) = Covered(st) /\ DOMAIN u.range = DOMAIN st.range
    BY <1>3, SameBoundsSame DEF SameBounds
  <1>8. Tiled(u) /\ AllListed(u) /\ AllMapped(u)
    <2>1. Tiled(u)
      BY <1>1, <1>3, <1>7 DEF Tiled, SameBounds
    <2>2. AllListed(u)
      BY <1>1, <1>3, <1>7 DEF AllListed, Pending
    <2>3. AllMapped(u)
      BY <1>1, <1>3, <1>7, ShapeFacts DEF AllMapped
    <2> QED BY <2>1, <2>2, <2>3
  <1>9. Placed(u, W)
    <2>1. \A t \in DOMAIN u.slab : t \in DOMAIN st.slab /\ t # s /\ u.slab[t] = st.slab[t]
      BY <1>6
    <2> QED BY <2>1, <1>1, <1>6 DEF Placed, W
  <1>10. Firm(u, W)
    BY <1>1, <1>3, <1>6, <1>7, <1>8, <1>9 DEF Firm, Descriptors
  <1>11. n = DelRange(u, u.ret)
    BY DEF u, DelBoundRange
  <1>12. Deleted(u, n, W, u.ret)
    BY <1>1, <1>3, <1>8, <1>10, <1>11, DelRangeDeletes DEF AllMapped
  <1>13. /\ Ready(n, W) /\ Frame(u, W, n, W, {}) /\ LooseLess(u, n, {u.ret}) /\ n.avail = u.avail
         /\ Only(u, n, {"ranges"})
    BY <1>10, <1>12, DeletedFrame
  <1>14. Frame(st, V, u, W, {})
    <2>1. Outside(u, W) = Outside(st, V)
      BY <1>6 DEF Outside, W
    <2>2. \A e : SlabsIn(u, e) \ W = SlabsIn(st, e) \ V
      BY <1>6 DEF SlabsIn, W
    <2>3. \A e : Need(u, W, e) = Need(st, V, e)
      BY <2>1, <1>6, <1>7 DEF Need
    <2>4. \A e : Tidy(st, V, e) => Tidy(u, W, e)
      <3>1. \A t \in DOMAIN u.slab : u.slab[t] = st.slab[t] /\ Objects(u, t) = Objects(st, t)
        BY <1>6 DEF Objects
      <3>2. \A e : SlabsIn(u, e) \subseteq DOMAIN u.slab
        BY DEF SlabsIn
      <3> QED BY <3>1, <3>2, <2>2 DEF Tidy
    <2>5. \A e \in DOMAIN st.cache : Stocked(st, u, e)
      <3>1. \A e \in DOMAIN st.cache : st.cache[e].nb_free \in Nat
        BY <1>1, Counts
      <3> QED BY <3>1, <1>6 DEF Stocked
    <2> QED BY <2>3, <2>4, <2>5, <1>6 DEF Frame, Held
  <1>15. Frame(st, V, n, W, {})
    <2>1. Firm(st, V) /\ Firm(n, W)
      BY <1>13 DEF Ready
    <2>2. Frame(st, V, n, W, {} \union {})
      BY <2>1, <1>10, <1>13, <1>14, FrameComposed
    <2> QED BY <2>2
  <1>16. LooseLess(st, n, {})
    <2>1. st.range[u.ret].slab = s /\ u.ret \in DOMAIN st.range
      BY <1>1, <1>2, <1>3, SlabLies
    <2>2. s # NULL
      BY <1>1, <1>2 DEF KmemShape
    <2>3. u.ret \notin Loose(st)
      BY <2>1, <2>2 DEF Loose
    <2>4. \A e \in ToSet(st.used) : e # u.ret => u.range[e] = st.range[e]
      BY <1>1, <1>4, ShapeFacts
    <2>5. Loose(u) \ {u.ret} = Loose(st)
      BY <2>3, <2>4, <1>3 DEF Loose
    <2>6. Loose(n) = Loose(st)
      BY <2>5, <1>13 DEF LooseLess
    <2>7. \A e \in Loose(n) : e \in DOMAIN st.range
      BY <2>6, <1>1, ShapeFacts DEF Loose
    <2> QED BY <2>6, <2>7, <1>3, <1>13 DEF LooseLess, SameBounds
  <1>17. Only(st, n, {c, "ranges"})
    <2>1. Only(st, n, {c} \union {"ranges"})
      BY <1>6, <1>13, OnlyComposed
    <2> QED BY <2>1, OnlyLess
  <1>18. ASSUME c # "ranges"
         PROVE  /\ n.cache[c] = st.cache[c] /\ SlabsIn(n, c) = SlabsIn(st, c) \ {s}
                /\ \A t \in SlabsIn(n, c) : n.slab[t] = st.slab[t]
    <2>1. SlabsIn(n, c) = SlabsIn(u, c) /\ \A t \in SlabsIn(u, c) : n.slab[t] = u.slab[t]
      BY <1>13, <1>18, OnlyOthers
    <2>2. SlabsIn(u, c) = SlabsIn(st, c) \ {s}
      BY <1>6 DEF SlabsIn
    <2>3. n.cache[c] = u.cache[c]
      BY <1>2, <1>6, <1>13, <1>18 DEF Only
    <2> QED BY <2>1, <2>2, <2>3, <1>6 DEF SlabsIn
  <1>19. n.avail = st.avail
    BY <1>6, <1>13
  <1> QED BY <1>13, <1>15, <1>16, <1>17, <1>18, <1>19 DEF RangeDeleted, W

(* An object is freed: the slab that this leaves empty, if the cache can do *)
(* without it, is returned to be released.                                 *)
FreedReady(st, n, U, c, addr) ==
  /\ Ready(n, U) /\ Frame(st, U, n, U, {c}) /\ Held(n, U, c) = Held(st, U, c) \ {addr}
  /\ n.cache[c].nb_free = st.cache[c].nb_free + 1
  /\ LooseLess(st, n, {}) /\ n.avail = st.avail /\ Only(st, n, {c})
  /\ n.ret = NULL => (Tidy(st, U, c) => Tidy(n, U, c))
  /\ n.ret # NULL => /\ n.ret \in SlabsIn(n, c) /\ n.ret \notin U
                     /\ n.slab[n.ret].free = Objects(n, n.ret)
                     /\ n.cache[c].nb_free - Cache[c].objects >= Cache[c].min
                     /\ Tidy(st, U, c) => Tidy(n, U \union {n.ret}, c)

(* free_object() of an object that nothing needs any more. *)
LEMMA FreeObjectReady ==
  ASSUME NEW st, NEW U, Ready(st, U), NEW c \in DOMAIN st.cache, NEW addr \in Held(st, U, c),
         NEW n, n = FreeObject(st, addr)
  PROVE  FreedReady(st, n, U, c, addr)
  <1>1. /\ KmemKept(st) /\ CachesOK(st, U) /\ Placed(st, U) /\ Descriptors(st) /\ AllListed(st)
        /\ Tiled(st) /\ Coalesced(st) /\ AllMapped(st) /\ st.ranges_to_free = <<>>
    BY FirmHas
  <1>2. addr \in TakenIn(st, c) /\ addr \notin Need(st, U, c)
    BY DEF Held
  <1>3. PICK s \in SlabsIn(st, c) : addr \in Objects(st, s) /\ addr \notin st.slab[s].free
    BY <1>2 DEF TakenIn
  <1>4. s \notin U /\ s \in DOMAIN st.slab /\ st.slab[s].cache = c
    BY <1>1, <1>3 DEF CachesOK, Slabbed, SlabsIn
  <1>5. ObjectFreed(st, n, U, c, s, addr)
    BY <1>1, <1>3, <1>4, FreeObjectCaches
  <1>6. /\ KmemKept(n) /\ SameRanges(st, n) /\ CachesOK(n, U) /\ Only(st, n, {c})
        /\ TakenIn(n, c) = TakenIn(st, c) \ {addr} /\ n.avail = st.avail
        /\ n.cache[c].nb_free = st.cache[c].nb_free + 1
        /\ n.slab[s].free = st.slab[s].free \union {addr}
        /\ \A e \in DOMAIN st.slab : e # s => n.slab[e] = st.slab[e]
    BY <1>5 DEF ObjectFreed
  <1>7. Coalesced(n)
    BY <1>1, <1>5 DEF ObjectFreed
  <1>8. /\ Tiled(n) /\ AllListed(n) /\ AllMapped(n) /\ LooseLess(st, n, {})
        /\ Outside(n, U) = Outside(st, U) /\ \A e : SlabsIn(n, e) = SlabsIn(st, e)
        /\ \A t \in DOMAIN st.slab : Objects(n, t) = Objects(st, t)
    BY <1>1, <1>6, SameRangesFirm
  <1>9. /\ n.range = st.range /\ n.ranges_to_free = <<>> /\ DOMAIN n.slab = DOMAIN st.slab
        /\ \A t \in DOMAIN st.slab : n.slab[t].base = st.slab[t].base /\ n.slab[t].cache = st.slab[t].cache
    BY <1>1, <1>6 DEF SameRanges
  <1>10. DOMAIN n.cache = DOMAIN st.cache /\ \A e \in DOMAIN st.cache : n.cache[e].addr = st.cache[e].addr
    BY <1>6 DEF Only
  <1>11. \A e : Need(n, U, e) = Need(st, U, e)
    <2>1. {n.cache[e].addr : e \in DOMAIN n.cache} = {st.cache[e].addr : e \in DOMAIN st.cache}
      BY <1>10
    <2> QED BY <2>1, <1>8, <1>9 DEF Need
  <1>12. \A e : e # c => TakenIn(n, e) = TakenIn(st, e)
    BY <1>6, OnlyOthers
  <1>13. Placed(n, U)
    <2>1. \A e \in DOMAIN st.cache : st.cache[e].addr \in TakenIn(n, "caches")
      <3>1. CASE c = "caches"
        <4>1. \A e \in DOMAIN st.cache : st.cache[e].addr # addr
          BY <1>2, <3>1 DEF Need
        <4> QED BY <4>1, <3>1, <1>1, <1>6 DEF Placed
      <3>2. CASE c # "caches"
        BY <3>2, <1>1, <1>12 DEF Placed
      <3> QED BY <3>1, <3>2
    <2>2. \A t \in Outside(st, U) : t \in TakenIn(n, "kslabs")
      <3>0. \A t \in Outside(st, U) : t \in TakenIn(st, "kslabs")
        BY <1>1 DEF Placed, Outside
      <3>1. CASE c = "kslabs"
        <4>1. addr \notin Outside(st, U)
          BY <1>2, <3>1 DEF Need
        <4> QED BY <3>0, <4>1, <3>1, <1>6
      <3>2. CASE c # "kslabs"
        BY <3>0, <3>2, <1>12
      <3> QED BY <3>1, <3>2
    <2>3. \A t \in DOMAIN n.slab :
            IF Cache[n.slab[t].cache].onslab THEN t = OnSlab(n.slab[t].cache, n.slab[t].base)
                                              ELSE t \in U \/ t \in TakenIn(n, "kslabs")
      BY <2>2, <1>1, <1>9 DEF Placed, Outside
    <2> QED BY <2>1, <2>3, <1>1, <1>10 DEF Placed
  <1>14. Descriptors(n)
    <2>1. CASE c = "ranges"
      <3>1. addr \notin DOMAIN st.range
        BY <1>2, <2>1 DEF Need
      <3> QED BY <3>1, <2>1, <1>1, <1>6, <1>9 DEF Descriptors
    <2>2. CASE c # "ranges"
      BY <2>2, <1>1, <1>9, <1>12 DEF Descriptors
    <2> QED BY <2>1, <2>2
  <1>15. Ready(n, U)
    BY <1>6, <1>7, <1>8, <1>9, <1>13, <1>14 DEF Ready, Firm
  <1>16. Frame(st, U, n, U, {c})
    <2>1. ASSUME NEW e \in DOMAIN st.cache \ {c}
          PROVE  Held(n, U, e) = Held(st, U, e) /\ Stocked(st, n, e) /\ (Tidy(st, U, e) => Tidy(n, U, e))
      <3>1. e \in DOMAIN st.cache /\ e \notin {c}
        BY <2>1
      <3> QED BY <3>1, <1>1, <1>6, <1>8, <1>9, OnlyHeld
    <2> QED BY <2>1, <1>10 DEF Frame
  <1>17. Held(n, U, c) = Held(st, U, c) \ {addr}
    BY <1>6, <1>11 DEF Held
  <1>18. ASSUME Tidy(st, U, c) PROVE Tidy(n, U \union {s}, c)
    <2>1. \A t \in SlabsIn(st, c) : t \in DOMAIN st.slab
      BY DEF SlabsIn
    <2> QED BY <2>1, <1>6, <1>8, <1>18 DEF Tidy
  <1>19. Cardinality(Objects(n, s)) = Cache[c].objects
    <2>1. /\ n.slab[s].base \in Nat /\ Objects(n, s) = ObjectsAt(c, n.slab[s].base) /\ c \in DOMAIN Cache
          /\ Cache[c].objects \in Nat
      BY <1>1, <1>4, <1>6, <1>9, SlabLies, Counts
    <2> QED BY <2>1, ObjectsCounted
  <1>20. ASSUME n.ret = NULL, Tidy(st, U, c) PROVE Tidy(n, U, c)
    <2>1. CASE n.slab[s].free # Objects(n, s)
      BY <2>1, <1>18, <1>20 DEF Tidy
    <2>2. CASE n.slab[s].free = Objects(n, s)
      <3>1. ~ (n.cache[c].nb_free - Cardinality(Objects(n, s)) >= Cache[c].min)
        <4>1. n.ret # s
          BY <1>20, <1>1, <1>4 DEF KmemKept, KmemShape
        <4> QED BY <4>1, <2>2, <1>5 DEF ObjectFreed
      <3>2. SUFFICES ASSUME Cache[c].min = 0 PROVE FALSE
        BY DEF Tidy
      <3>3. /\ IsFiniteSet(FreeIn(n, U, c)) /\ n.cache[c].nb_free = Cardinality(FreeIn(n, U, c))
            /\ n.cache[c].nb_free \in Nat
        BY <1>6, <1>10, ListFacts
      <3>4. Objects(n, s) \subseteq FreeIn(n, U, c)
        BY <2>2, <1>3, <1>4, <1>8 DEF FreeIn
      <3>5. Cardinality(Objects(n, s)) <= Cardinality(FreeIn(n, U, c))
        BY <3>3, <3>4, FS_Subset
      <3>6. Cache[c].objects \in Nat
        BY <1>1, Counts
      <3> QED BY <3>1, <3>2, <3>3, <3>5, <3>6, <1>19
    <2> QED BY <2>1, <2>2
  <1>21. ASSUME n.ret # NULL
         PROVE  /\ n.ret \in SlabsIn(n, c) /\ n.ret \notin U
                /\ n.slab[n.ret].free = Objects(n, n.ret)
                /\ n.cache[c].nb_free - Cache[c].objects >= Cache[c].min
                /\ Tidy(st, U, c) => Tidy(n, U \union {n.ret}, c)
    <2>1. /\ n.ret = s /\ n.slab[s].free = Objects(n, s)
          /\ n.cache[c].nb_free - Cardinality(Objects(n, s)) >= Cache[c].min
      BY <1>5, <1>21 DEF ObjectFreed
    <2> QED BY <2>1, <1>3, <1>4, <1>8, <1>18, <1>19
  <1> QED BY <1>6, <1>8, <1>15, <1>16, <1>17, <1>20, <1>21 DEF FreedReady

(* The release of a slab whose objects are all free. *)
Released(st, n, U, c, s) ==
  /\ Ready(n, U) /\ Frame(st, U, n, U, {c}) /\ Held(n, U, c) = Held(st, U, c)
  /\ Tidy(st, U \union {s}, c) => Tidy(n, U, c)
  /\ LooseLess(st, n, {}) /\ n.avail = st.avail /\ Only(st, n, {c, "ranges", "kslabs"})
  /\ \/ n.cache[c].nb_free >= st.cache[c].nb_free - Cache[c].objects
     \/ n.cache[c].nb_free >= Cache[c].min
  /\ c \notin OwnNames =>
       /\ n.cache[c].slab_list = RemoveFirst(st.cache[c].slab_list, s)
       /\ SlabsIn(n, c) = SlabsIn(st, c) \ {s}
       /\ \A t \in SlabsIn(n, c) : n.slab[t] = st.slab[t]

(* Tidiness is a matter of the slabs only. *)
LEMMA SameSlabsTidy ==
  ASSUME NEW st, NEW n, n.slab = st.slab
  PROVE  /\ \A U, e : Tidy(st, U, e) <=> Tidy(n, U, e)
         /\ \A e : SlabsIn(n, e) = SlabsIn(st, e)
  <1>1. \A e : SlabsIn(n, e) = SlabsIn(st, e)
    BY DEF SlabsIn
  <1>2. \A t : Objects(n, t) = Objects(st, t)
    BY DEF Objects
  <1> QED BY <1>1, <1>2 DEF Tidy

(* What is known of a slab that an operation may take in hand. *)
LEMMA FullSlab ==
  ASSUME NEW st, NEW U, Ready(st, U), NEW c, NEW s, s \in SlabsIn(st, c), s \notin U
  PROVE  /\ s \in DOMAIN st.slab /\ st.slab[s].cache = c /\ c \in DOMAIN st.cache /\ c \in DOMAIN Cache
         /\ Cache[c].objects \in Nat /\ Cache[c].min \in Nat /\ st.cache[c].nb_free \in Nat
         /\ (U \union {s}) \ {s} = U
         /\ s \in Outside(st, U) <=> ~ Cache[c].onslab
  <1>1. CachesOK(st, U) /\ Placed(st, U)
    BY FirmHas
  <1>2. s \in DOMAIN st.slab /\ st.slab[s].cache = c /\ c \in DOMAIN st.cache
    BY <1>1 DEF SlabsIn, CachesOK, Slabbed
  <1>3. c \in DOMAIN Cache /\ Cache[c].objects \in Nat /\ Cache[c].min \in Nat /\ st.cache[c].nb_free \in Nat
    BY <1>1, <1>2, Counts
  <1> QED BY <1>2, <1>3 DEF Outside

(* cache_release_slab() of a slab that holds its structure. *)
LEMMA ReleaseOnSlabReady ==
  ASSUME NEW st, NEW U, Ready(st, U), NEW c, NEW s, s \in SlabsIn(st, c), s \notin U,
         st.slab[s].free = Objects(st, s), Cache[c].onslab,
         NEW n, n = DelBoundRange(UnbindRange(DropSlab(st, s), s))
  PROVE  Released(st, n, U, c, s)
  <1> DEFINE g == DropSlab(st, s)
             V == U \union {s}
  <1>1. /\ s \in DOMAIN st.slab /\ st.slab[s].cache = c /\ c \in DOMAIN st.cache
        /\ Cache[c].objects \in Nat /\ Cache[c].min \in Nat /\ st.cache[c].nb_free \in Nat
        /\ V \ {s} = U /\ s \notin Outside(st, U)
    BY FullSlab
  <1>2. DropReady(st, g, U, c, s)
    BY DropSlabReady
  <1>3. n = DelBoundRange(UnbindRange(g, s)) /\ s \in V
    OBVIOUS
  <1> HIDE DEF g, V
  <1>4. /\ Ready(g, V) /\ Frame(st, U, g, V, {c, "kslabs"}) /\ Held(g, V, c) = Held(st, U, c)
        /\ Held(g, V, "kslabs") = Held(st, U, "kslabs")
        /\ Tidy(st, U, "kslabs") => Tidy(g, V, "kslabs")
        /\ g.cache[c].nb_free = st.cache[c].nb_free - Cache[c].objects
        /\ g.cache[c].slab_list = RemoveFirst(st.cache[c].slab_list, s)
        /\ g.slab = st.slab /\ LooseLess(st, g, {}) /\ g.avail = st.avail /\ Only(st, g, {c})
    <2>1. {s} \intersect Outside(st, U) = {}
      BY <1>1
    <2> QED BY <2>1, <1>2 DEF DropReady, V
  <1>5. g.slab[s].cache = c
    BY <1>1, <1>4
  <1>6. RangeDeleted(g, n, V, c, s)
    BY <1>3, <1>4, <1>5, UnbindDeletes
  <1>7. /\ Ready(n, U) /\ Frame(g, V, n, U, {}) /\ LooseLess(g, n, {}) /\ n.avail = g.avail
        /\ Only(g, n, {c, "ranges"})
        /\ c # "ranges" => /\ n.cache[c] = g.cache[c] /\ SlabsIn(n, c) = SlabsIn(g, c) \ {s}
                           /\ \A t \in SlabsIn(n, c) : n.slab[t] = g.slab[t]
    BY <1>1, <1>6 DEF RangeDeleted
  <1>8. Frame(st, U, g, V, {c})
    <2>1. "kslabs" # c => Stocked(st, g, "kslabs")
      <3>1. "kslabs" # c => g.cache["kslabs"] = st.cache["kslabs"] /\ st.cache["kslabs"].nb_free \in Nat
        BY <1>4, FirmHas, Counts DEF Only, OwnNames
      <3> QED BY <3>1 DEF Stocked
    <2> QED BY <2>1, <1>4 DEF Frame
  <1>9. Frame(st, U, n, U, {c})
    <2>1. Firm(st, U) /\ Firm(g, V) /\ Firm(n, U)
      BY <1>4, <1>7 DEF Ready
    <2>2. Frame(st, U, n, U, {c} \union {})
      BY <2>1, <1>7, <1>8, FrameComposed
    <2> QED BY <2>2
  <1>10. /\ Held(n, U, c) = Held(g, V, c) /\ Stocked(g, n, c) /\ (Tidy(g, V, c) => Tidy(n, U, c))
    BY <1>1, <1>4, <1>7 DEF Frame
  <1>11. Tidy(st, V, c) => Tidy(g, V, c)
    BY <1>4, SameSlabsTidy
  <1>12. LooseLess(st, n, {})
    <2>1. LooseLess(st, n, {} \union {})
      BY <1>4, <1>7, LooseLessComposed
    <2> QED BY <2>1
  <1>13. Only(st, n, {c, "ranges", "kslabs"})
    <2>1. Only(st, n, {c} \union {c, "ranges"})
      BY <1>4, <1>7, OnlyComposed
    <2> QED BY <2>1, OnlyLess
  <1>14. \/ n.cache[c].nb_free >= st.cache[c].nb_free - Cache[c].objects
         \/ n.cache[c].nb_free >= Cache[c].min
    BY <1>4, <1>10 DEF Stocked
  <1>15. c \notin OwnNames =>
           /\ n.cache[c].slab_list = RemoveFirst(st.cache[c].slab_list, s)
           /\ SlabsIn(n, c) = SlabsIn(st, c) \ {s}
           /\ \A t \in SlabsIn(n, c) : n.slab[t] = st.slab[t]
    BY <1>4, <1>7, SameSlabsTidy DEF OwnNames
  <1> QED BY <1>4, <1>7, <1>9, <1>10, <1>11, <1>12, <1>13, <1>14, <1>15 DEF Released, V

(* sos_kmem_cache_free() of an object that nothing needs any more. *)
CacheFreed(st, n, U, c, addr) ==
  /\ Ready(n, U) /\ Frame(st, U, n, U, {c}) /\ Held(n, U, c) = Held(st, U, c) \ {addr}
  /\ Tidy(st, U, c) => Tidy(n, U, c)
  /\ LooseLess(st, n, {}) /\ n.avail = st.avail /\ Only(st, n, {c, "ranges", "kslabs"})
  /\ n.cache[c].nb_free >= st.cache[c].nb_free + 1 \/ n.cache[c].nb_free >= Cache[c].min

(* sos_kmem_cache_free() is done when the empty slab is released, or when  *)
(* there is none.                                                          *)
LEMMA FreeAndRelease ==
  ASSUME NEW st, NEW U, Ready(st, U), NEW c \in DOMAIN st.cache, NEW addr \in Held(st, U, c),
         NEW f, FreedReady(st, f, U, c, addr), NEW n,
         f.ret = NULL => n = f, f.ret # NULL => Released(f, n, U, c, f.ret)
  PROVE  CacheFreed(st, n, U, c, addr)
  <1>1. /\ Ready(f, U) /\ Frame(st, U, f, U, {c}) /\ Held(f, U, c) = Held(st, U, c) \ {addr}
        /\ f.cache[c].nb_free = st.cache[c].nb_free + 1
        /\ LooseLess(st, f, {}) /\ f.avail = st.avail /\ Only(st, f, {c})
    BY DEF FreedReady
  <1>2. st.cache[c].nb_free \in Nat /\ Cache[c].min \in Nat /\ Cache[c].objects \in Nat
    BY FirmHas, Counts
  <1>3. CASE f.ret = NULL
    <2>1. Tidy(st, U, c) => Tidy(f, U, c)
      BY <1>3 DEF FreedReady
    <2>2. Only(st, f, {c, "ranges", "kslabs"})
      BY <1>1, OnlyLess
    <2>3. f.cache[c].nb_free >= st.cache[c].nb_free + 1
      BY <1>1, <1>2
    <2> QED BY <1>1, <1>3, <2>1, <2>2, <2>3 DEF CacheFreed
  <1>4. CASE f.ret # NULL
    <2>1. Tidy(st, U, c) => Tidy(f, U \union {f.ret}, c)
      BY <1>4 DEF FreedReady
    <2>2. f.cache[c].nb_free - Cache[c].objects >= Cache[c].min
      BY <1>4 DEF FreedReady
    <2>3. /\ Ready(n, U) /\ Frame(f, U, n, U, {c}) /\ Held(n, U, c) = Held(f, U, c)
          /\ Tidy(f, U \union {f.ret}, c) => Tidy(n, U, c)
          /\ LooseLess(f, n, {}) /\ n.avail = f.avail /\ Only(f, n, {c, "ranges", "kslabs"})
          /\ \/ n.cache[c].nb_free >= f.cache[c].nb_free - Cache[c].objects
             \/ n.cache[c].nb_free >= Cache[c].min
      BY <1>4 DEF Released
    <2>4. Frame(st, U, n, U, {c})
      <3>1. Firm(st, U) /\ Firm(f, U) /\ Firm(n, U)
        BY <1>1, <2>3 DEF Ready
      <3>2. Frame(st, U, n, U, {c} \union {c})
        BY <3>1, <1>1, <2>3, FrameComposed
      <3> QED BY <3>2
    <2>5. LooseLess(st, n, {})
      <3>1. LooseLess(st, n, {} \union {})
        BY <1>1, <2>3, LooseLessComposed
      <3> QED BY <3>1
    <2>6. Only(st, n, {c, "ranges", "kslabs"})
      <3>1. Only(st, n, {c} \union {c, "ranges", "kslabs"})
        BY <1>1, <2>3, OnlyComposed
      <3> QED BY <3>1, OnlyLess
    <2>7. n.cache[c].nb_free >= Cache[c].min
      <3>1. c \in DOMAIN n.cache
        BY <2>4 DEF Frame
      <3>2. n.cache[c].nb_free \in Nat
        BY <3>1, <2>3, FirmHas, Counts
      <3> QED BY <3>2, <1>1, <1>2, <2>2, <2>3
    <2> QED BY <1>1, <2>1, <2>3, <2>4, <2>5, <2>6, <2>7 DEF CacheFreed
  <1> QED BY <1>3, <1>4

(* The structure of a slab returns to its cache. *)
LEMMA StructureFreeReady ==
  ASSUME NEW st, NEW U, Ready(st, U), NEW addr \in Held(st, U, "kslabs"),
         NEW n, n = StructureFree(st, addr)
  PROVE  CacheFreed(st, n, U, "kslabs", addr)
  <1> DEFINE f == FreeObject(st, addr)
  <1>1. "kslabs" \in DOMAIN st.cache /\ Cache["kslabs"].onslab
    BY FirmHas, OwnCaches DEF OwnNames
  <1>2. FreedReady(st, f, U, "kslabs", addr)
    BY <1>1, FreeObjectReady
  <1>3. n = IF f.ret = NULL THEN f ELSE ReleaseOnSlab(f, f.ret)
    BY DEF StructureFree, AndThen
  <1> HIDE DEF f
  <1>4. ASSUME f.ret # NULL PROVE Released(f, n, U, "kslabs", f.ret)
    <2> DEFINE s == f.ret
    <2>1. /\ Ready(f, U) /\ s \in SlabsIn(f, "kslabs") /\ s \notin U
          /\ f.slab[s].free = Objects(f, s)
      BY <1>2, <1>4 DEF FreedReady
    <2>2. f.slab[s].cache = "kslabs"
      BY <2>1 DEF SlabsIn
    <2>3. n = DelBoundRange(UnbindRange(DropSlab(f, s), s))
      BY <1>1, <1>3, <1>4, <2>2 DEF ReleaseOnSlab, Dropped
    <2> QED BY <1>1, <2>1, <2>3, ReleaseOnSlabReady
  <1> QED BY <1>1, <1>2, <1>3, <1>4, FreeAndRelease

(* A slab whose structure is an object of the cache of structures. *)
LEMMA ReleaseOffSlabReady ==
  ASSUME NEW st, NEW U, Ready(st, U), NEW c, NEW s, s \in SlabsIn(st, c), s \notin U,
         st.slab[s].free = Objects(st, s), ~ Cache[c].onslab,
         NEW n, n = DelBoundRange(UnbindRange(StructureFree(DropSlab(st, s), s), s))
  PROVE  Released(st, n, U, c, s)
  <1> DEFINE g == DropSlab(st, s)
             V == U \union {s}
             h == StructureFree(g, s)
  <1>1. /\ s \in DOMAIN st.slab /\ st.slab[s].cache = c /\ c \in DOMAIN st.cache
        /\ Cache[c].objects \in Nat /\ Cache[c].min \in Nat /\ st.cache[c].nb_free \in Nat
        /\ V \ {s} = U /\ s \in Outside(st, U)
    BY FullSlab
  <1>2. DropReady(st, g, U, c, s)
    BY DropSlabReady
  <1>3. n = DelBoundRange(UnbindRange(h, s)) /\ s \in V
    OBVIOUS
  <1>4. c \notin OwnNames /\ "kslabs" \in DOMAIN st.cache /\ Cache["kslabs"].min = 0
    BY OwnCaches, FirmHas DEF OwnNames
  <1>5. Held(g, V, "kslabs") = Held(st, U, "kslabs") \union {s}
    <2>1. {s} \intersect Outside(st, U) = {s}
      BY <1>1
    <2> QED BY <2>1, <1>2 DEF DropReady
  <1>6. Ready(g, V) /\ s \in Held(g, V, "kslabs")
    BY <1>2, <1>5 DEF DropReady
  <1>7. CacheFreed(g, h, V, "kslabs", s)
    <2> HIDE DEF g, V
    <2> QED BY <1>6, StructureFreeReady
  <1> HIDE DEF g, V, h
  <1>8. /\ Frame(st, U, g, V, {c, "kslabs"}) /\ Held(g, V, c) = Held(st, U, c)
        /\ Tidy(st, U, "kslabs") => Tidy(g, V, "kslabs")
        /\ g.cache[c].nb_free = st.cache[c].nb_free - Cache[c].objects
        /\ g.cache[c].slab_list = RemoveFirst(st.cache[c].slab_list, s)
        /\ g.slab = st.slab /\ LooseLess(st, g, {}) /\ g.avail = st.avail /\ Only(st, g, {c})
    <2>1. c # "kslabs"
      BY <1>4 DEF OwnNames
    <2> QED BY <2>1, <1>2 DEF DropReady, V
  <1>9. /\ Ready(h, V) /\ Frame(g, V, h, V, {"kslabs"}) /\ Held(h, V, "kslabs") = Held(g, V, "kslabs") \ {s}
        /\ Tidy(g, V, "kslabs") => Tidy(h, V, "kslabs")
        /\ LooseLess(g, h, {}) /\ h.avail = g.avail /\ Only(g, h, {"kslabs", "ranges"})
    <2>1. {"kslabs", "ranges", "kslabs"} = {"kslabs", "ranges"}
      OBVIOUS
    <2> QED BY <2>1, <1>7 DEF CacheFreed
  <1>10. /\ SlabsIn(h, c) = SlabsIn(g, c) /\ \A t \in SlabsIn(g, c) : h.slab[t] = g.slab[t]
         /\ h.cache[c] = g.cache[c]
    <2>1. c \notin {"kslabs", "ranges"} /\ c \in DOMAIN g.cache
      BY <1>1, <1>4, <1>8 DEF OwnNames, Only
    <2>2. SlabsIn(h, c) = SlabsIn(g, c) /\ \A t \in SlabsIn(g, c) : h.slab[t] = g.slab[t]
      BY <2>1, <1>9, OnlyOthers
    <2>3. h.cache[c] = g.cache[c]
      BY <2>1, <1>9 DEF Only
    <2> QED BY <2>2, <2>3
  <1>11. SlabsIn(g, c) = SlabsIn(st, c) /\ h.slab[s].cache = c
    <2>1. SlabsIn(g, c) = SlabsIn(st, c)
      BY <1>8, SameSlabsTidy
    <2> QED BY <2>1, <1>1, <1>8, <1>10
  <1>12. RangeDeleted(h, n, V, c, s)
    BY <1>3, <1>9, <1>11, UnbindDeletes
  <1>13. /\ Ready(n, U) /\ Frame(h, V, n, U, {}) /\ LooseLess(h, n, {}) /\ n.avail = h.avail
         /\ Only(h, n, {c, "ranges"})
         /\ n.cache[c] = h.cache[c] /\ SlabsIn(n, c) = SlabsIn(h, c) \ {s}
         /\ \A t \in SlabsIn(n, c) : n.slab[t] = h.slab[t]
    BY <1>1, <1>4, <1>12 DEF RangeDeleted, OwnNames
  <1>14. Firm(st, U) /\ Firm(g, V) /\ Firm(h, V) /\ Firm(n, U)
    BY <1>6, <1>9, <1>13 DEF Ready
  <1>15. Frame(st, U, n, U, {c, "kslabs"})
    <2>1. Frame(st, U, h, V, {c, "kslabs"} \union {"kslabs"})
      BY <1>8, <1>9, <1>14, FrameComposed
    <2>2. Frame(st, U, n, U, ({c, "kslabs"} \union {"kslabs"}) \union {})
      BY <2>1, <1>13, <1>14, FrameComposed
    <2>3. ({c, "kslabs"} \union {"kslabs"}) \union {} = {c, "kslabs"}
      OBVIOUS
    <2> QED BY <2>2, <2>3
  <1>16. /\ DOMAIN g.cache = DOMAIN st.cache /\ DOMAIN h.cache = DOMAIN st.cache
         /\ DOMAIN n.cache = DOMAIN st.cache
    BY <1>8, <1>9, <1>13 DEF Frame
  <1>17. Held(n, U, "kslabs") = Held(st, U, "kslabs")
    <2>1. s \notin Held(st, U, "kslabs")
      BY <1>1 DEF Held, Need
    <2>2. Held(n, U, "kslabs") = Held(h, V, "kslabs")
      BY <1>4, <1>13, <1>16 DEF Frame
    <2> QED BY <2>1, <2>2, <1>5, <1>9
  <1>18. Tidy(st, U, "kslabs") => Tidy(n, U, "kslabs")
    BY <1>4, <1>8, <1>9, <1>13, <1>16 DEF Frame
  <1>19. Stocked(st, n, "kslabs")
    <2>1. n.cache["kslabs"].nb_free \in Nat
      BY <1>4, <1>13, <1>16, FirmHas, Counts
    <2> QED BY <2>1, <1>4 DEF Stocked
  <1>20. Frame(st, U, n, U, {c})
    BY <1>15, <1>17, <1>18, <1>19 DEF Frame
  <1>21. Held(n, U, c) = Held(st, U, c) /\ (Tidy(g, V, c) => Tidy(n, U, c))
    <2>1. c \in DOMAIN g.cache \ {"kslabs"} /\ c \in DOMAIN h.cache \ {}
      BY <1>1, <1>4, <1>16 DEF OwnNames
    <2>2. Held(h, V, c) = Held(g, V, c) /\ (Tidy(g, V, c) => Tidy(h, V, c))
      BY <2>1, <1>9 DEF Frame
    <2>3. Held(n, U, c) = Held(h, V, c) /\ (Tidy(h, V, c) => Tidy(n, U, c))
      BY <2>1, <1>13 DEF Frame
    <2> QED BY <2>2, <2>3, <1>8
  <1>22. Tidy(st, V, c) => Tidy(g, V, c)
    BY <1>8, SameSlabsTidy
  <1>23. LooseLess(st, n, {})
    <2>1. LooseLess(st, h, {} \union {})
      BY <1>8, <1>9, LooseLessComposed
    <2>2. LooseLess(st, n, ({} \union {}) \union {})
      BY <2>1, <1>13, LooseLessComposed
    <2> QED BY <2>2
  <1>24. Only(st, n, {c, "ranges", "kslabs"})
    <2>1. Only(st, h, {c} \union {"kslabs", "ranges"})
      BY <1>8, <1>9, OnlyComposed
    <2>2. Only(st, n, ({c} \union {"kslabs", "ranges"}) \union {c, "ranges"})
      BY <2>1, <1>13, OnlyComposed
    <2> QED BY <2>2, OnlyLess
  <1>25. /\ n.cache[c].nb_free >= st.cache[c].nb_free - Cache[c].objects
         /\ n.cache[c].slab_list = RemoveFirst(st.cache[c].slab_list, s)
    BY <1>1, <1>8, <1>10, <1>13
  <1>26. SlabsIn(n, c) = SlabsIn(st, c) \ {s} /\ \A t \in SlabsIn(n, c) : n.slab[t] = st.slab[t]
    BY <1>8, <1>10, <1>11, <1>13
  <1>27. n.avail = st.avail
    BY <1>8, <1>9, <1>13
  <1> QED BY <1>13, <1>20, <1>21, <1>22, <1>23, <1>24, <1>25, <1>26, <1>27 DEF Released, V

(* cache_release_slab() and the deletion of its range. *)
LEMMA ReleaseSlabReady ==
  ASSUME NEW st, NEW U, Ready(st, U), NEW c, NEW s, s \in SlabsIn(st, c), s \notin U,
         st.slab[s].free = Objects(st, s), NEW n, n = ReleaseSlab(st, s)
  PROVE  Released(st, n, U, c, s)
  <1>1. st.slab[s].cache = c
    BY DEF SlabsIn
  <1>2. CASE Cache[c].onslab
    <2>1. n = DelBoundRange(UnbindRange(DropSlab(st, s), s))
      BY <1>1, <1>2 DEF ReleaseSlab, Dropped
    <2> QED BY <2>1, <1>2, ReleaseOnSlabReady
  <1>3. CASE ~ Cache[c].onslab
    <2>1. n = DelBoundRange(UnbindRange(StructureFree(DropSlab(st, s), s), s))
      BY <1>1, <1>3 DEF ReleaseSlab, Dropped
    <2> QED BY <2>1, <1>3, ReleaseOffSlabReady
  <1> QED BY <1>2, <1>3

(* sos_kmem_cache_free() keeps the ranges, the slabs and the caches in     *)
(* order, and the object is the only one to be freed.                      *)
THEOREM CacheFreeReady ==
  ASSUME NEW st, NEW U, Ready(st, U), NEW c \in DOMAIN st.cache, NEW addr \in Held(st, U, c),
         NEW n, n = CacheFree(st, addr)
  PROVE  CacheFreed(st, n, U, c, addr)
  <1> DEFINE f == FreeObject(st, addr)
  <1>1. FreedReady(st, f, U, c, addr)
    BY FreeObjectReady
  <1>2. n = IF f.ret = NULL THEN f ELSE ReleaseSlab(f, f.ret)
    BY DEF CacheFree, AndThen
  <1> HIDE DEF f
  <1>3. ASSUME f.ret # NULL PROVE Released(f, n, U, c, f.ret)
    <2>1. /\ Ready(f, U) /\ f.ret \in SlabsIn(f, c) /\ f.ret \notin U
          /\ f.slab[f.ret].free = Objects(f, f.ret)
      BY <1>1, <1>3 DEF FreedReady
    <2> QED BY <1>2, <1>3, <2>1, ReleaseSlabReady
  <1> QED BY <1>1, <1>2, <1>3, FreeAndRelease

=============================================================================
