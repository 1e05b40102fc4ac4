-------------------------- MODULE SequenceLemmas ---------------------------
(***************************************************************************)
(* What the operations on the lists of the kernel (src/lib/list.h), seen   *)
(* as sequences, do to their places.                                       *)
(***************************************************************************)
EXTENDS SequencesExt, SequenceTheorems, WellFoundedInduction, TLAPS

(* Appending to a queue adds one place, after the others. *)
LEMMA AppendPlaces ==
  ASSUME NEW S, NEW q \in Seq(S), NEW t \in S
  PROVE  /\ Append(q, t) \in Seq(S)
         /\ Len(Append(q, t)) = Len(q) + 1
         /\ DOMAIN q = 1 .. Len(q)
         /\ DOMAIN Append(q, t) = 1 .. (Len(q) + 1)
         /\ \A i \in 1 .. Len(q) : Append(q, t)[i] = q[i]
         /\ Append(q, t)[Len(q) + 1] = t
         /\ Len(q) \in Nat
  OBVIOUS

(* Popping the head of a queue shifts the others by one place. *)
LEMMA TailPlaces ==
  ASSUME NEW S, NEW q \in Seq(S), q # <<>>
  PROVE  /\ Tail(q) \in Seq(S)
         /\ Head(q) \in S
         /\ Head(q) = q[1]
         /\ Len(q) \in Nat \ {0}
         /\ DOMAIN q = 1 .. Len(q)
         /\ DOMAIN Tail(q) = 1 .. (Len(q) - 1)
         /\ \A i \in 1 .. (Len(q) - 1) : Tail(q)[i] = q[i + 1]
  OBVIOUS

(* A list with an element is not empty. *)
LEMMA LongIsNotEmpty ==
  ASSUME NEW S, NEW q \in Seq(S), Len(q) >= 1
  PROVE  q # <<>>
  BY EmptySeq

(* The first two elements of a queue are popped one after the other. *)
LEMMA TwoHeads ==
  ASSUME NEW S, NEW q \in Seq(S), Len(q) >= 2
  PROVE  /\ q # <<>> /\ Head(q) = q[1]
         /\ Tail(q) # <<>> /\ Head(Tail(q)) = q[2]
  <1>1. Len(q) \in Nat /\ q # <<>>
    BY LenProperties, EmptySeq
  <1>2. /\ Head(q) = q[1] /\ Tail(q) \in Seq(S)
        /\ Len(Tail(q)) = Len(q) - 1
        /\ \A i \in 1 .. (Len(q) - 1) : Tail(q)[i] = q[i + 1]
    BY <1>1, TailPlaces, HeadTailProperties
  <1>3. Tail(q) # <<>>
    <2>1. Tail(q) \in Seq(S) /\ Len(Tail(q)) >= 1
      BY <1>1, <1>2
    <2> QED  BY <2>1, LongIsNotEmpty
  <1>4. Head(Tail(q)) = Tail(q)[1]
    BY <1>2, <1>3, TailPlaces
  <1>5. 1 \in 1 .. (Len(q) - 1)
    BY <1>1
  <1> QED  BY <1>1, <1>2, <1>3, <1>4, <1>5

(* Removing the place i of a queue shifts the places after i. *)
LEMMA RemoveAtPlaces ==
  ASSUME NEW S, NEW q \in Seq(S), NEW i \in 1 .. Len(q)
  PROVE  /\ RemoveAt(q, i) \in Seq(S)
         /\ Len(RemoveAt(q, i)) = Len(q) - 1
         /\ \A j \in 1 .. (Len(q) - 1) :
              RemoveAt(q, i)[j] = IF j < i THEN q[j] ELSE q[j + 1]
  <1> DEFINE a == SubSeq(q, 1, i - 1)
             b == SubSeq(q, i + 1, Len(q))
  <1>1. Len(q) \in Nat /\ i \in Nat /\ i >= 1 /\ i <= Len(q)
    BY LenProperties
  <1>2. /\ a \in Seq(S) /\ Len(a) = i - 1
        /\ \A j \in 1 .. (i - 1) : a[j] = q[j]
    <2>1. 1 \in 1 .. Len(q) + 1 /\ i - 1 \in 0 .. Len(q)
      BY <1>1
    <2> QED  BY <1>1, <2>1, SubSeqProperties
  <1>3. /\ b \in Seq(S) /\ Len(b) = Len(q) - i
        /\ \A j \in 1 .. (Len(q) - i) : b[j] = q[i + j]
    <2>1. i + 1 \in 1 .. Len(q) + 1 /\ Len(q) \in 0 .. Len(q)
      BY <1>1
    <2> QED  BY <1>1, <2>1, SubSeqProperties
  <1>4. RemoveAt(q, i) = a \o b
    BY DEF RemoveAt
  <1> HIDE DEF a, b
  <1>5. /\ a \o b \in Seq(S)
        /\ Len(a \o b) = Len(a) + Len(b)
        /\ \A j \in 1 .. (Len(a) + Len(b)) :
             (a \o b)[j] = IF j <= Len(a) THEN a[j] ELSE b[j - Len(a)]
    BY <1>2, <1>3, ConcatProperties
  <1>6. ASSUME NEW j \in 1 .. (Len(q) - 1)
        PROVE  (a \o b)[j] = IF j < i THEN q[j] ELSE q[j + 1]
    <2>1. CASE j < i
      BY <1>1, <1>2, <1>3, <1>5, <2>1
    <2>2. CASE ~ (j < i)
      <3>1. /\ j - (i - 1) \in 1 .. (Len(q) - i)
            /\ i + (j - (i - 1)) = j + 1
            /\ ~ (j <= Len(a))
        BY <1>1, <1>2, <2>2
      <3>2. (a \o b)[j] = b[j - (i - 1)]
        BY <1>1, <1>2, <1>3, <1>5, <3>1
      <3>3. b[j - (i - 1)] = q[i + (j - (i - 1))]
        BY <1>3, <3>1
      <3> QED  BY <2>2, <3>1, <3>2, <3>3
    <2> QED  BY <2>1, <2>2
  <1> QED  BY <1>1, <1>2, <1>3, <1>4, <1>5, <1>6

(* The least of some numbers is one of them. *)
LEMMA MinOfNaturals ==
  ASSUME NEW I \in SUBSET Nat, I # {}
  PROVE  Min(I) \in I /\ \A j \in I : Min(I) <= j
  <1> DEFINE R == {ss \in Nat \X Nat : ss[1] < ss[2]}
  <1>0. IsWellFoundedOn(R, Nat)
    BY NatLessThanWellFounded DEF OpToRel
  <1>1. \A j, k \in Nat : <<j, k>> \in R <=> j < k
    OBVIOUS
  <1> HIDE DEF R
  <1>3. PICK k \in I : \A j \in I : ~ (<<j, k>> \in R)
    BY <1>0, WFMin
  <1>4. ASSUME NEW j \in I PROVE k <= j
    <2>1. j \in Nat /\ k \in Nat
      OBVIOUS
    <2>2. ~ (j < k)
      BY <1>1, <1>3, <2>1
    <2> QED  BY <2>1, <2>2
  <1> QED  BY <1>4 DEF Min

(* The least of the places that satisfy a condition is one of them. *)
LEMMA MinOfPlaces ==
  ASSUME NEW n \in Nat, NEW I \in SUBSET (1 .. n), I # {}
  PROVE  Min(I) \in I /\ \A j \in I : Min(I) <= j
  <1>1. I \in SUBSET Nat
    OBVIOUS
  <1> QED  BY <1>1, MinOfNaturals

(* Removing an element that the queue holds removes one of its places. *)
LEMMA RemoveFirstPlaces ==
  ASSUME NEW S, NEW q \in Seq(S), NEW e, \E i \in 1 .. Len(q) : q[i] = e
  PROVE  \E i \in 1 .. Len(q) : q[i] = e /\ RemoveFirst(q, e) = RemoveAt(q, i)
  <1> DEFINE I == {i \in 1 .. Len(q) : q[i] = e}
  <1>1. Len(q) \in Nat
    BY LenProperties
  <1>2. RemoveFirst(q, e) = RemoveAt(q, Min(I))
    BY DEF RemoveFirst, SelectInSeq
  <1>3. Min(I) \in I
    BY <1>1, MinOfPlaces
  <1> QED  BY <1>2, <1>3

(* Inserting at the place i shifts the places from i on. *)
LEMMA InsertAtPlaces ==
  ASSUME NEW S, NEW q \in Seq(S), NEW e \in S, NEW i \in 1 .. Len(q) + 1
  PROVE  /\ InsertAt(q, i, e) \in Seq(S)
         /\ Len(InsertAt(q, i, e)) = Len(q) + 1
         /\ \A j \in 1 .. Len(q) + 1 :
              InsertAt(q, i, e)[j] = IF j < i THEN q[j]
                                     ELSE IF j = i THEN e ELSE q[j - 1]
  <1> DEFINE a == SubSeq(q, 1, i - 1)
             b == SubSeq(q, i, Len(q))
  <1>1. Len(q) \in Nat /\ i \in Nat /\ i >= 1 /\ i <= Len(q) + 1
    BY LenProperties
  <1>2. /\ a \in Seq(S) /\ Len(a) = i - 1
        /\ \A j \in 1 .. (i - 1) : a[j] = q[j]
    <2>1. \A j \in 1 .. (i - 1) : q[j] \in S
      BY <1>1, ElementOfSeq
    <2> QED  BY <1>1, <2>1, SubSeqProperties
  <1>3. /\ b \in Seq(S) /\ Len(b) = Len(q) - i + 1
        /\ \A j \in 1 .. (Len(q) - i + 1) : b[j] = q[i + j - 1]
    <2>1. \A j \in i .. Len(q) : q[j] \in S
      BY <1>1, ElementOfSeq
    <2> QED  BY <1>1, <2>1, SubSeqProperties
  <1>4. InsertAt(q, i, e) = (a \o <<e>>) \o b
    BY DEF InsertAt
  <1> HIDE DEF a, b
  <1>5. /\ <<e>> \in Seq(S) /\ Len(<<e>>) = 1 /\ <<e>>[1] = e
    OBVIOUS
  <1> DEFINE c == a \o <<e>>
  <1>6. /\ c \in Seq(S) /\ Len(c) = i
        /\ \A j \in 1 .. i : c[j] = IF j < i THEN q[j] ELSE e
    <2>1. /\ c \in Seq(S) /\ Len(c) = Len(a) + 1
          /\ \A j \in 1 .. Len(a) + 1 : c[j] = IF j <= Len(a) THEN a[j] ELSE <<e>>[j - Len(a)]
      BY <1>2, <1>5, ConcatProperties
    <2>2. ASSUME NEW j \in 1 .. i PROVE c[j] = IF j < i THEN q[j] ELSE e
      <3>1. CASE j < i
        <4>1. j \in 1 .. i - 1 /\ j <= Len(a) /\ j \in 1 .. Len(a) + 1
          BY <1>1, <1>2, <3>1
        <4> QED  BY <1>2, <2>1, <3>1, <4>1
      <3>2. CASE j = i
        <4>1. ~ (j <= Len(a)) /\ j \in 1 .. Len(a) + 1 /\ j - Len(a) = 1
          BY <1>1, <1>2, <3>2
        <4> QED  BY <1>5, <2>1, <3>2, <4>1
      <3>3. j < i \/ j = i
        BY <1>1
      <3> HIDE DEF c
      <3> QED  BY <3>1, <3>2, <3>3
    <2> QED  BY <1>1, <1>2, <2>1, <2>2
  <1> HIDE DEF c
  <1>7. /\ c \o b \in Seq(S)
        /\ Len(c \o b) = Len(q) + 1
        /\ \A j \in 1 .. Len(q) + 1 : (c \o b)[j] = IF j <= i THEN c[j] ELSE b[j - i]
    <2>1. i + (Len(q) - i + 1) = Len(q) + 1
      BY <1>1
    <2>2. /\ c \o b \in Seq(S)
          /\ Len(c \o b) = Len(c) + Len(b)
          /\ \A j \in 1 .. Len(c) + Len(b) :
               (c \o b)[j] = IF j <= Len(c) THEN c[j] ELSE b[j - Len(c)]
      BY <1>3, <1>6, ConcatProperties
    <2> QED  BY <1>3, <1>6, <2>1, <2>2
  <1>8. ASSUME NEW j \in 1 .. Len(q) + 1
        PROVE  (c \o b)[j] = IF j < i THEN q[j] ELSE IF j = i THEN e ELSE q[j - 1]
    <2>1. CASE j <= i
      <3>1. j \in 1 .. i /\ (j < i \/ j = i) /\ ~ (j < i /\ j = i)
        BY <1>1, <2>1
      <3> QED  BY <1>6, <1>7, <2>1, <3>1
    <2>2. CASE j > i
      <3>1. j - i \in 1 .. (Len(q) - i + 1) /\ i + (j - i) - 1 = j - 1 /\ ~ (j <= i)
        BY <1>1, <2>2
      <3>2. (c \o b)[j] = b[j - i]
        BY <1>7, <3>1
      <3>3. b[j - i] = q[i + (j - i) - 1]
        BY <1>3, <3>1
      <3> QED  BY <1>1, <2>2, <3>1, <3>2, <3>3
    <2>3. j <= i \/ j > i
      BY <1>1
    <2> QED  BY <2>1, <2>2, <2>3
  <1>9. InsertAt(q, i, e) = c \o b
    BY <1>4 DEF c
  <1> QED  BY <1>7, <1>8, <1>9

-----------------------------------------------------------------------------
(* WHICH ELEMENTS A QUEUE CONTAINS, EACH ONE ONCE                          *)

(* The queue r is the queue q whose place i has been removed: the one      *)
(* after i moves to i.                                                     *)
PlaceGone(q, i, r) ==
  /\ Len(r) = Len(q) - 1
  /\ \A j \in 1 .. (Len(q) - 1) : r[j] = IF j < i THEN q[j] ELSE q[j + 1]

(* Only the element that was there has left the queue. *)
LEMMA PlaceGoneContains ==
  ASSUME NEW S, NEW q \in Seq(S), NEW i \in 1 .. Len(q), NEW r \in Seq(S),
         PlaceGone(q, i, r), IsInjective(q)
  PROVE  /\ IsInjective(r)
         /\ \A t \in S : Contains(r, t) <=> Contains(q, t) /\ t # q[i]
  <1>1. /\ Len(q) \in Nat /\ i \in Nat /\ i >= 1 /\ i <= Len(q)
        /\ DOMAIN q = 1 .. Len(q) /\ DOMAIN r = 1 .. (Len(q) - 1)
        /\ Len(r) = Len(q) - 1
        /\ \A j \in 1 .. (Len(q) - 1) : r[j] = IF j < i THEN q[j] ELSE q[j + 1]
        /\ \A j, k \in 1 .. Len(q) : q[j] = q[k] => j = k
    BY LenProperties DEF PlaceGone, IsInjective
  <1>2. ASSUME NEW j \in 1 .. (Len(q) - 1)
        PROVE  /\ r[j] = q[IF j < i THEN j ELSE j + 1]
               /\ (IF j < i THEN j ELSE j + 1) \in 1 .. Len(q)
               /\ (IF j < i THEN j ELSE j + 1) # i
    BY <1>1
  <1>3. ASSUME NEW j \in 1 .. Len(q), j # i
        PROVE  \E k \in 1 .. (Len(q) - 1) : r[k] = q[j]
    <2>1. CASE j < i
      <3>1. j \in 1 .. (Len(q) - 1)  BY <1>1, <2>1
      <3> QED  BY <1>1, <2>1, <3>1
    <2>2. CASE ~ (j < i)
      <3>1. j - 1 \in 1 .. (Len(q) - 1) /\ ~ (j - 1 < i) /\ (j - 1) + 1 = j
        BY <1>1, <1>3, <2>2
      <3> QED  BY <1>1, <3>1
    <2> QED  BY <2>1, <2>2
  <1>4. ASSUME NEW j \in 1 .. (Len(q) - 1), NEW k \in 1 .. (Len(q) - 1), r[j] = r[k]
        PROVE  j = k
    <2>1. (IF j < i THEN j ELSE j + 1) = (IF k < i THEN k ELSE k + 1)
      BY <1>1, <1>2, <1>4
    <2> QED  BY <1>1, <2>1
  <1>5. ASSUME NEW t \in S
        PROVE  (\E j \in 1 .. (Len(q) - 1) : r[j] = t)
                 <=> ((\E j \in 1 .. Len(q) : q[j] = t) /\ t # q[i])
    <2>1. ASSUME NEW j \in 1 .. (Len(q) - 1), r[j] = t
          PROVE  (\E k \in 1 .. Len(q) : q[k] = t) /\ t # q[i]
      <3>1. PICK k \in 1 .. Len(q) : k # i /\ r[j] = q[k]
        BY <1>2
      <3> QED  BY <1>1, <2>1, <3>1
    <2>2. ASSUME NEW j \in 1 .. Len(q), q[j] = t, t # q[i]
          PROVE  \E k \in 1 .. (Len(q) - 1) : r[k] = t
      BY <1>3, <2>2
    <2> QED  BY <2>1, <2>2
  <1> QED  BY <1>1, <1>4, <1>5 DEF IsInjective, Contains

(* The elements that remain in a list without duplicates, for each way to  *)
(* remove one.                                                             *)
LEMMA RemoveAtContains ==
  ASSUME NEW S, NEW q \in Seq(S), NEW i \in 1 .. Len(q), IsInjective(q)
  PROVE  /\ IsInjective(RemoveAt(q, i))
         /\ \A t \in S : Contains(RemoveAt(q, i), t) <=> Contains(q, t) /\ t # q[i]
  <1>1. RemoveAt(q, i) \in Seq(S) /\ PlaceGone(q, i, RemoveAt(q, i))
    BY RemoveAtPlaces DEF PlaceGone
  <1> QED  BY <1>1, PlaceGoneContains

(* The head removed. *)
LEMMA TailContains ==
  ASSUME NEW S, NEW q \in Seq(S), q # <<>>, IsInjective(q)
  PROVE  /\ IsInjective(Tail(q))
         /\ \A t \in S : Contains(Tail(q), t) <=> Contains(q, t) /\ t # Head(q)
         /\ Contains(q, Head(q))
  <1>1. /\ Tail(q) \in Seq(S) /\ Len(Tail(q)) = Len(q) - 1 /\ Len(q) \in Nat \ {0}
        /\ Head(q) = q[1]
        /\ \A j \in 1 .. (Len(q) - 1) : Tail(q)[j] = q[j + 1]
    BY TailPlaces, HeadTailProperties
  <1>2. PICK i \in 1 .. Len(q) : i = 1
    BY <1>1
  <1>3. PlaceGone(q, i, Tail(q))
    BY <1>1, <1>2 DEF PlaceGone
  <1>4. Contains(q, q[1])
    BY <1>2 DEF Contains
  <1> QED  BY <1>1, <1>2, <1>3, <1>4, PlaceGoneContains

(* An element removed wherever it is. *)
LEMMA RemoveFirstContains ==
  ASSUME NEW S, NEW q \in Seq(S), NEW e \in S, Contains(q, e), IsInjective(q)
  PROVE  /\ RemoveFirst(q, e) \in Seq(S)
         /\ IsInjective(RemoveFirst(q, e))
         /\ \A t \in S : Contains(RemoveFirst(q, e), t) <=> Contains(q, t) /\ t # e
  <1>1. PICK i \in 1 .. Len(q) : q[i] = e /\ RemoveFirst(q, e) = RemoveAt(q, i)
    BY RemoveFirstPlaces DEF Contains
  <1>2. RemoveAt(q, i) \in Seq(S)
    BY RemoveAtPlaces
  <1> QED  BY <1>1, <1>2, RemoveAtContains

(* The elements after an insertion, in the list... *)
LEMMA InsertAtContains ==
  ASSUME NEW S, NEW q \in Seq(S), NEW e \in S, NEW i \in 1 .. Len(q) + 1,
         ~ Contains(q, e), IsInjective(q)
  PROVE  /\ IsInjective(InsertAt(q, i, e))
         /\ \A t \in S : Contains(InsertAt(q, i, e), t) <=> Contains(q, t) \/ t = e
  <1> DEFINE r == InsertAt(q, i, e)
  <1>1. /\ r \in Seq(S) /\ Len(r) = Len(q) + 1
        /\ \A j \in 1 .. Len(q) + 1 :
             r[j] = IF j < i THEN q[j] ELSE IF j = i THEN e ELSE q[j - 1]
    BY InsertAtPlaces
  <1>2. /\ DOMAIN q = 1 .. Len(q) /\ DOMAIN r = 1 .. Len(q) + 1
        /\ Len(q) \in Nat
    BY <1>1, LenProperties
  <1> HIDE DEF r
  <1>3. \A j, k \in 1 .. Len(q) : q[j] = q[k] => j = k
    BY <1>2 DEF IsInjective
  <1>4. ASSUME NEW j \in 1 .. Len(q) + 1
        PROVE  /\ j = i => r[j] = e
               /\ j # i => LET k == IF j < i THEN j ELSE j - 1
                           IN k \in 1 .. Len(q) /\ r[j] = q[k]
    BY <1>1, <1>2
  <1>5. ASSUME NEW j \in 1 .. Len(q) + 1, NEW k \in 1 .. Len(q) + 1, r[j] = r[k]
        PROVE  j = k
    <2>1. CASE j = i \/ k = i
      BY <1>4, <1>5, <2>1 DEF Contains
    <2>2. CASE j # i /\ k # i
      <3>1. (IF j < i THEN j ELSE j - 1) = (IF k < i THEN k ELSE k - 1)
        BY <1>3, <1>4, <1>5, <2>2
      <3> QED  BY <1>2, <2>2, <3>1
    <2> QED  BY <2>1, <2>2
  <1>6. ASSUME NEW j \in 1 .. Len(q)
        PROVE  \E k \in 1 .. Len(q) + 1 : r[k] = q[j]
    <2>1. CASE j < i
      <3>1. j \in 1 .. Len(q) + 1
        BY <1>2
      <3> QED  BY <1>1, <2>1, <3>1
    <2>2. CASE ~ (j < i)
      <3>1. j + 1 \in 1 .. Len(q) + 1 /\ ~ (j + 1 < i) /\ j + 1 # i /\ (j + 1) - 1 = j
        BY <1>2, <2>2
      <3>2. r[j + 1] = q[(j + 1) - 1]
        BY <1>1, <3>1
      <3> QED  BY <3>1, <3>2
    <2> QED  BY <2>1, <2>2
  <1>7. ASSUME NEW t \in S
        PROVE  Contains(r, t) <=> Contains(q, t) \/ t = e
    <2>1. ASSUME Contains(r, t) PROVE Contains(q, t) \/ t = e
      <3>1. PICK j \in 1 .. Len(q) + 1 : r[j] = t
        BY <1>1, <2>1 DEF Contains
      <3> QED  BY <1>4, <3>1 DEF Contains
    <2>2. ASSUME Contains(q, t) PROVE Contains(r, t)
      BY <1>1, <1>6, <2>2 DEF Contains
    <2>3. i \in 1 .. Len(q) + 1 /\ r[i] = e
      BY <1>4
    <2> QED  BY <1>1, <2>1, <2>2, <2>3 DEF Contains
  <1>8. /\ IsInjective(r)
        /\ \A t \in S : Contains(r, t) <=> Contains(q, t) \/ t = e
    BY <1>2, <1>5, <1>7 DEF IsInjective
  <1> QED  BY <1>8 DEF r

(* ...and at its head. *)
LEMMA PrependContains ==
  ASSUME NEW S, NEW q \in Seq(S), NEW e \in S, ~ Contains(q, e), IsInjective(q)
  PROVE  /\ <<e>> \o q \in Seq(S)
         /\ IsInjective(<<e>> \o q)
         /\ \A t \in S : Contains(<<e>> \o q, t) <=> Contains(q, t) \/ t = e
  <1>1. /\ SubSeq(q, 1, 0) = <<>> /\ SubSeq(q, 1, Len(q)) = q
        /\ Len(q) \in Nat
    BY SubSeqEmpty, SubSeqFull, LenProperties
  <1>2. <<>> \o <<e>> = <<e>>
    BY ConcatEmptySeq
  <1>3. InsertAt(q, 1, e) = <<e>> \o q
    BY <1>1, <1>2 DEF InsertAt
  <1>4. PICK i \in 1 .. Len(q) + 1 : i = 1
    BY <1>1
  <1>5. InsertAt(q, i, e) \in Seq(S)
    BY InsertAtPlaces
  <1>6. /\ IsInjective(InsertAt(q, i, e))
        /\ \A t \in S : Contains(InsertAt(q, i, e), t) <=> Contains(q, t) \/ t = e
    BY InsertAtContains
  <1> QED  BY <1>3, <1>4, <1>5, <1>6

(* Cutting a queue in two after the place n. *)
LEMMA CutPlaces ==
  ASSUME NEW S, NEW q \in Seq(S), NEW n \in 0 .. Len(q)
  PROVE  /\ SubSeq(q, 1, n) \in Seq(S) /\ Len(SubSeq(q, 1, n)) = n
         /\ \A i \in 1 .. n : SubSeq(q, 1, n)[i] = q[i]
         /\ SubSeq(q, n + 1, Len(q)) \in Seq(S)
         /\ Len(SubSeq(q, n + 1, Len(q))) = Len(q) - n
         /\ \A i \in 1 .. Len(q) - n : SubSeq(q, n + 1, Len(q))[i] = q[n + i]
  <1>1. Len(q) \in Nat /\ n \in Nat /\ n <= Len(q)
    BY LenProperties
  <1>2. (\A i \in 1 .. n : q[i] \in S) /\ (\A i \in n + 1 .. Len(q) : q[i] \in S)
    BY <1>1, ElementOfSeq
  <1>3. /\ SubSeq(q, 1, n) \in Seq(S)
        /\ Len(SubSeq(q, 1, n)) = IF 1 <= n THEN n - 1 + 1 ELSE 0
        /\ \A i \in 1 .. n - 1 + 1 : SubSeq(q, 1, n)[i] = q[1 + i - 1]
    BY <1>1, <1>2, SubSeqProperties
  <1>4. /\ SubSeq(q, n + 1, Len(q)) \in Seq(S)
        /\ Len(SubSeq(q, n + 1, Len(q))) = IF n + 1 <= Len(q) THEN Len(q) - (n + 1) + 1 ELSE 0
        /\ \A i \in 1 .. Len(q) - (n + 1) + 1 : SubSeq(q, n + 1, Len(q))[i] = q[n + 1 + i - 1]
    BY <1>1, <1>2, SubSeqProperties
  <1> DEFINE a == SubSeq(q, 1, n)
             b == SubSeq(q, n + 1, Len(q))
  <1> HIDE DEF a, b
  <1>5. Len(a) = n /\ \A i \in 1 .. n : a[i] = q[i]
    <2>1. n - 1 + 1 = n /\ (n = 0 \/ 1 <= n) /\ ~ (n = 0 /\ 1 <= n)
      BY <1>1
    <2>2. \A i \in 1 .. n : 1 + i - 1 = i
      BY <1>1
    <2> QED  BY <1>3, <2>1, <2>2 DEF a
  <1>6. Len(b) = Len(q) - n /\ \A i \in 1 .. Len(q) - n : b[i] = q[n + i]
    <2>1. /\ Len(q) - (n + 1) + 1 = Len(q) - n
          /\ n = Len(q) \/ n + 1 <= Len(q)
          /\ n = Len(q) => ~ (n + 1 <= Len(q)) /\ Len(q) - n = 0
      BY <1>1
    <2>2. \A i \in 1 .. Len(q) - n : n + 1 + i - 1 = n + i
      BY <1>1
    <2> QED  BY <1>4, <2>1, <2>2 DEF b
  <1> QED  BY <1>3, <1>4, <1>5, <1>6 DEF a, b

(* Each half of a queue without duplicates holds its part of the elements. *)
LEMMA CutContains ==
  ASSUME NEW S, NEW q \in Seq(S), NEW n \in 0 .. Len(q), IsInjective(q)
  PROVE  /\ IsInjective(SubSeq(q, 1, n)) /\ IsInjective(SubSeq(q, n + 1, Len(q)))
         /\ \A t \in S :
              /\ Contains(SubSeq(q, 1, n), t) <=> \E i \in 1 .. n : q[i] = t
              /\ Contains(SubSeq(q, n + 1, Len(q)), t) <=> \E i \in n + 1 .. Len(q) : q[i] = t
              /\ Contains(SubSeq(q, n + 1, Len(q)), t)
                   <=> Contains(q, t) /\ ~ Contains(SubSeq(q, 1, n), t)
  <1> DEFINE a == SubSeq(q, 1, n)
             b == SubSeq(q, n + 1, Len(q))
  <1>1. /\ a \in Seq(S) /\ Len(a) = n /\ \A i \in 1 .. n : a[i] = q[i]
        /\ b \in Seq(S) /\ Len(b) = Len(q) - n /\ \A i \in 1 .. Len(q) - n : b[i] = q[n + i]
    BY CutPlaces
  <1> HIDE DEF a, b
  <1>2. /\ Len(q) \in Nat /\ n \in Nat /\ n <= Len(q)
        /\ DOMAIN q = 1 .. Len(q) /\ DOMAIN a = 1 .. n /\ DOMAIN b = 1 .. Len(q) - n
    BY <1>1, LenProperties
  <1>3. \A i, j \in 1 .. Len(q) : q[i] = q[j] => i = j
    BY <1>2 DEF IsInjective
  <1>4. IsInjective(a)
    BY <1>1, <1>2, <1>3 DEF IsInjective
  <1>5. IsInjective(b)
    <2>1. ASSUME NEW i \in 1 .. Len(q) - n, NEW j \in 1 .. Len(q) - n, b[i] = b[j]
          PROVE  i = j
      <3>1. n + i \in 1 .. Len(q) /\ n + j \in 1 .. Len(q)
        BY <1>2
      <3>2. n + i = n + j
        BY <1>1, <1>3, <2>1, <3>1
      <3> QED  BY <1>2, <3>2
    <2> QED  BY <1>2, <2>1 DEF IsInjective
  <1>6. ASSUME NEW t \in S
        PROVE  /\ Contains(a, t) <=> \E i \in 1 .. n : q[i] = t
               /\ Contains(b, t) <=> \E i \in n + 1 .. Len(q) : q[i] = t
               /\ Contains(b, t) <=> Contains(q, t) /\ ~ Contains(a, t)
    <2>1. Contains(a, t) <=> \E i \in 1 .. n : q[i] = t
      BY <1>1 DEF Contains
    <2>2. Contains(b, t) <=> \E i \in n + 1 .. Len(q) : q[i] = t
      <3>1. ASSUME NEW i \in 1 .. Len(q) - n, b[i] = t
            PROVE  \E k \in n + 1 .. Len(q) : q[k] = t
        <4>1. n + i \in n + 1 .. Len(q)
          BY <1>2
        <4> QED  BY <1>1, <3>1, <4>1
      <3>2. ASSUME NEW i \in n + 1 .. Len(q), q[i] = t
            PROVE  \E k \in 1 .. Len(q) - n : b[k] = t
        <4>1. i - n \in 1 .. Len(q) - n /\ n + (i - n) = i
          BY <1>2
        <4> QED  BY <1>1, <3>2, <4>1
      <3> QED  BY <1>1, <3>1, <3>2 DEF Contains
    <2>3. Contains(q, t) <=> \E i \in 1 .. Len(q) : q[i] = t
      BY DEF Contains
    <2>4. (\E i \in 1 .. Len(q) : q[i] = t)
            <=> ((\E i \in 1 .. n : q[i] = t) \/ (\E i \in n + 1 .. Len(q) : q[i] = t))
      <3>1. \A i \in 1 .. Len(q) : i \in 1 .. n \/ i \in n + 1 .. Len(q)
        BY <1>2
      <3>2. /\ \A i \in 1 .. n : i \in 1 .. Len(q)
            /\ \A i \in n + 1 .. Len(q) : i \in 1 .. Len(q)
        BY <1>2
      <3> QED  BY <3>1, <3>2
    <2>5. ~ ((\E i \in 1 .. n : q[i] = t) /\ (\E i \in n + 1 .. Len(q) : q[i] = t))
      <3> SUFFICES ASSUME NEW i \in 1 .. n, q[i] = t, NEW j \in n + 1 .. Len(q), q[j] = t
                   PROVE  FALSE
        OBVIOUS
      <3>1. i \in 1 .. Len(q) /\ j \in 1 .. Len(q) /\ i # j
        BY <1>2
      <3> QED  BY <1>3, <3>1
    <2> QED  BY <2>1, <2>2, <2>3, <2>4, <2>5
  <1> QED  BY <1>4, <1>5, <1>6 DEF a, b

=============================================================================
