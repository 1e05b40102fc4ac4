-------------------------- MODULE TimeoutsProofs --------------------------
(***************************************************************************)
(* The arithmetic of dates, the order of the timeout list and the time at  *)
(* which actions are called, for any number of nanoseconds in a second and *)
(* of values in a word, any resolutions and any set of actions.  First the *)
(* functions on dates, then the list, then its operations, and last the    *)
(* clock that runs between the ticks.                                      *)
(***************************************************************************)
EXTENDS RealTime, SequenceLemmas, FiniteSetTheorems

-----------------------------------------------------------------------------
(* THE ARITHMETIC OF DATES                                                 *)

(* A sum of nanoseconds that does not carry... *)
LEMMA SmallMod ==
  ASSUME NEW d \in Nat \ {0}, NEW n \in 0 .. d - 1
  PROVE  n % d = n /\ n \div d = 0
  BY Z3

(* ...and one that does. *)
LEMMA NextMod ==
  ASSUME NEW d \in Nat \ {0}, NEW n \in d .. 2 * d - 1
  PROVE  n % d = n - d /\ n \div d = 1
  BY Z3

(* Division with a remainder. *)
LEMMA DivMod ==
  ASSUME NEW d \in Nat \ {0}, NEW n \in Nat
  PROVE  /\ n = (n \div d) * d + (n % d)
         /\ n % d \in 0 .. d - 1
         /\ n \div d \in Nat
  <1>1. n % d \in 0 .. d - 1 /\ n \div d \in Nat
    BY SMT
  <1>2. n = d * (n \div d) + (n % d)
    BY SMT
  <1>3. d * (n \div d) = (n \div d) * d
    BY <1>1, SMT
  <1> QED  BY <1>1, <1>2, <1>3

(* A second more is more than any nanoseconds. *)
LEMMA MultMonotone ==
  ASSUME NEW d \in Nat \ {0}, NEW a \in Nat, NEW b \in Nat, a < b
  PROVE  a * d + d <= b * d
  BY SMT

(* The fields of a date, and its value. *)
LEMMA DateFacts ==
  ASSUME NEW t \in Date
  PROVE  /\ t.sec \in 0 .. Word - 1 /\ t.nanosec \in 0 .. NS_IN_SEC - 1
         /\ t = [sec |-> t.sec, nanosec |-> t.nanosec]
         /\ t.sec \in Nat /\ t.sec * NS_IN_SEC \in Nat /\ DateValue(t) \in Nat
         /\ DateValue(t) = t.sec * NS_IN_SEC + t.nanosec
  BY WordAssumption DEF Date, DateValue

(* A pair of seconds and nanoseconds stands for one number, and the order  *)
(* of the pairs is the order of the numbers.                               *)
LEMMA DateOrder ==
  ASSUME NEW t \in Date, NEW u \in Date
  PROVE  /\ t.sec < u.sec => DateValue(t) < DateValue(u)
         /\ t.sec = u.sec => DateValue(t) - DateValue(u) = t.nanosec - u.nanosec
  <1>1. ASSUME t.sec < u.sec PROVE DateValue(t) < DateValue(u)
    <2>1. t.sec * NS_IN_SEC + NS_IN_SEC <= u.sec * NS_IN_SEC
      BY <1>1, DateFacts, WordAssumption, MultMonotone
    <2>2. NS_IN_SEC \in Nat
      BY WordAssumption
    <2> QED  BY <2>1, <2>2, DateFacts
  <1>2. ASSUME t.sec = u.sec
        PROVE  DateValue(t) - DateValue(u) = t.nanosec - u.nanosec
    BY <1>2, DateFacts, WordAssumption
  <1> QED  BY <1>1, <1>2

(* sos_time_cmp() compares the numbers. *)
THEOREM TimeCmpExact ==
  ASSUME NEW t \in Date, NEW u \in Date
  PROVE  /\ TimeCmp(t, u) < 0 <=> DateValue(t) < DateValue(u)
         /\ TimeCmp(t, u) > 0 <=> DateValue(t) > DateValue(u)
         /\ TimeCmp(t, u) <= 0 <=> DateValue(t) <= DateValue(u)
         /\ TimeCmp(t, u) >= 0 <=> DateValue(t) >= DateValue(u)
  <1>1. /\ t.sec \in Nat /\ u.sec \in Nat /\ t.nanosec \in Int /\ u.nanosec \in Int
        /\ DateValue(t) \in Nat /\ DateValue(u) \in Nat
    BY DateFacts, WordAssumption
  <1>2. CASE t.sec < u.sec
    BY <1>1, <1>2, DateOrder DEF TimeCmp
  <1>3. CASE t.sec > u.sec
    BY <1>1, <1>3, DateOrder DEF TimeCmp
  <1>4. CASE t.sec = u.sec
    <2>1. DateValue(t) - DateValue(u) = t.nanosec - u.nanosec
      BY <1>4, DateOrder
    <2> QED  BY <1>1, <1>4, <2>1 DEF TimeCmp
  <1>5. t.sec < u.sec \/ t.sec = u.sec \/ t.sec > u.sec
    BY <1>1
  <1> QED  BY <1>2, <1>3, <1>4, <1>5

(* Two dates that stand for the same number are the same. *)
LEMMA DateValueInjective ==
  ASSUME NEW t \in Date, NEW u \in Date, DateValue(t) = DateValue(u)
  PROVE  t = u
  <1>1. /\ t.sec \in Nat /\ u.sec \in Nat /\ t.nanosec \in Int /\ u.nanosec \in Int
        /\ DateValue(t) \in Nat /\ DateValue(u) \in Nat
    BY DateFacts, WordAssumption
  <1>2. t.sec = u.sec
    <2>1. ~ (t.sec < u.sec) /\ ~ (u.sec < t.sec)
      BY <1>1, DateOrder
    <2> QED  BY <1>1, <2>1
  <1>3. t.nanosec = u.nanosec
    BY <1>1, <1>2, DateOrder
  <1> QED  BY <1>2, <1>3, DateFacts

(* Two fields within their bounds make a date. *)
LEMMA PairIsDate ==
  ASSUME NEW s \in 0 .. Word - 1, NEW n \in 0 .. NS_IN_SEC - 1
  PROVE  /\ [sec |-> s, nanosec |-> n] \in Date
         /\ DateValue([sec |-> s, nanosec |-> n]) = s * NS_IN_SEC + n
  BY DEF Date, DateValue

(* Fewer nanoseconds than the words can hold: fewer seconds than a word.   *)
LEMMA FewSeconds ==
  ASSUME NEW s \in Nat, NEW n \in Nat, s * NS_IN_SEC + n < Word * NS_IN_SEC
  PROVE  s \in 0 .. Word - 1
  <1>1. NS_IN_SEC \in Nat \ {0} /\ Word \in Nat
    BY WordAssumption
  <1>2. CASE Word < s
    <2>1. Word * NS_IN_SEC + NS_IN_SEC <= s * NS_IN_SEC
      BY <1>1, <1>2, MultMonotone
    <2>2. Word * NS_IN_SEC \in Nat /\ s * NS_IN_SEC \in Nat
      BY <1>1
    <2> QED  BY <1>1, <2>1, <2>2
  <1>3. CASE Word = s
    <2>1. Word * NS_IN_SEC \in Nat
      BY <1>1
    <2> QED  BY <1>3, <2>1
  <1> QED  BY <1>1, <1>2, <1>3

(* A number that fits is the value of its date. *)
LEMMA DateOfExact ==
  ASSUME NEW n \in Nat, n < Word * NS_IN_SEC
  PROVE  DateOf(n) \in Date /\ DateValue(DateOf(n)) = n
  <1>1. NS_IN_SEC \in Nat \ {0} /\ Word \in Nat
    BY WordAssumption
  <1> DEFINE s == n \div NS_IN_SEC
             r == n % NS_IN_SEC
  <1>2. s \in Nat /\ r \in 0 .. NS_IN_SEC - 1 /\ n = s * NS_IN_SEC + r
    BY <1>1, DivMod
  <1>3. DateOf(n) = [sec |-> s, nanosec |-> r]
    BY DEF DateOf
  <1> HIDE DEF s, r
  <1>4. r \in Nat
    BY <1>1, <1>2
  <1>5. s \in 0 .. Word - 1
    BY <1>2, <1>4, FewSeconds
  <1> QED  BY <1>2, <1>3, <1>5, PairIsDate

(* sos_time_inc() adds, while the sum fits. *)
THEOREM TimeIncExact ==
  ASSUME NEW t \in Date, NEW u \in Date, DateValue(t) + DateValue(u) < Word * NS_IN_SEC
  PROVE  /\ TimeInc(t, u) \in Date
         /\ DateValue(TimeInc(t, u)) = DateValue(t) + DateValue(u)
  <1>1. NS_IN_SEC \in Nat \ {0} /\ Word \in Nat \ {0} /\ 2 * NS_IN_SEC <= Word
    BY WordAssumption
  <1> DEFINE n == t.nanosec + u.nanosec
             c == n \div NS_IN_SEC
             r == n % NS_IN_SEC
             s == t.sec + u.sec + c
  <1>2. n \in 0 .. 2 * NS_IN_SEC - 1 /\ n \in 0 .. Word - 1 /\ n \in Nat
    BY <1>1, DateFacts
  <1>3. n % Word = n
    BY <1>1, <1>2, SmallMod
  <1>4. c \in Nat /\ r \in 0 .. NS_IN_SEC - 1 /\ n = c * NS_IN_SEC + r
    BY <1>1, <1>2, DivMod
  <1>5. TimeInc(t, u) = [sec |-> s % Word, nanosec |-> r]
    BY <1>3 DEF TimeInc
  <1> HIDE DEF c, r
  <1>6. t.sec \in Nat /\ u.sec \in Nat /\ s \in Nat /\ r \in Nat
    BY <1>1, <1>4, DateFacts
  <1>7. s * NS_IN_SEC = t.sec * NS_IN_SEC + u.sec * NS_IN_SEC + c * NS_IN_SEC
    BY <1>1, <1>4, <1>6, SMT
  <1>8. DateValue(t) + DateValue(u) = s * NS_IN_SEC + r
    BY <1>1, <1>4, <1>6, <1>7, DateFacts
  <1> HIDE DEF n, s
  <1>9. s \in 0 .. Word - 1
    BY <1>6, <1>8, FewSeconds
  <1>10. s % Word = s
    BY <1>1, <1>9, SmallMod
  <1> QED  BY <1>4, <1>5, <1>8, <1>9, <1>10, PairIsDate

(* sos_time_dec() subtracts an earlier date. *)
THEOREM TimeDecExact ==
  ASSUME NEW t \in Date, NEW u \in Date, DateValue(u) <= DateValue(t)
  PROVE  /\ TimeDec(t, u) \in Date
         /\ DateValue(TimeDec(t, u)) = DateValue(t) - DateValue(u)
  <1>1. NS_IN_SEC \in Nat \ {0} /\ Word \in Nat \ {0} /\ 2 * NS_IN_SEC <= Word
    BY WordAssumption
  <1>2. /\ t.sec \in Nat /\ u.sec \in Nat /\ t.sec \in 0 .. Word - 1
        /\ t.nanosec \in 0 .. NS_IN_SEC - 1 /\ u.nanosec \in 0 .. NS_IN_SEC - 1
        /\ DateValue(t) \in Nat /\ DateValue(u) \in Nat
        /\ DateValue(t) = t.sec * NS_IN_SEC + t.nanosec
        /\ DateValue(u) = u.sec * NS_IN_SEC + u.nanosec
    BY DateFacts
  <1>3. t.nanosec \in Nat /\ u.nanosec \in Nat
    BY <1>1, <1>2
  <1>4. u.sec <= t.sec
    <2>1. ~ (t.sec < u.sec)
      BY <1>2, DateOrder
    <2> QED  BY <1>2, <2>1
  <1>5. CASE t.nanosec >= u.nanosec
    <2> DEFINE n == t.nanosec - u.nanosec
               s == t.sec - u.sec
    <2>1. n \in 0 .. NS_IN_SEC - 1 /\ s \in 0 .. Word - 1 /\ n \in Nat /\ s \in Nat
      BY <1>1, <1>2, <1>4, <1>5
    <2>2. NS_IN_SEC + n \in NS_IN_SEC .. 2 * NS_IN_SEC - 1 /\ NS_IN_SEC + n \in 0 .. Word - 1
      BY <1>1, <2>1
    <2>3. (NS_IN_SEC + n) % Word = NS_IN_SEC + n
      BY <1>1, <2>2, SmallMod
    <2>4. (NS_IN_SEC + n) % NS_IN_SEC = n
      <3>1. (NS_IN_SEC + n) % NS_IN_SEC = (NS_IN_SEC + n) - NS_IN_SEC
        BY <1>1, <2>2, NextMod
      <3> QED  BY <1>1, <2>1, <3>1
    <2>5. n \div NS_IN_SEC = 0 /\ s % Word = s
      BY <1>1, <2>1, SmallMod
    <2>6. ~ (n < 0) /\ (n > 0 \/ n = 0)
      BY <2>1
    <2>7. TimeDec(t, u) = [sec |-> s, nanosec |-> n]
      <3>1. (IF n > 0 THEN n \div NS_IN_SEC ELSE - ((- n) \div NS_IN_SEC)) = 0
        BY <1>1, <2>5, <2>6
      <3>2. t.sec - u.sec + 0 - 0 = s
        BY <1>2
      <3> QED  BY <2>3, <2>4, <2>5, <2>6, <3>1, <3>2 DEF TimeDec
    <2>8. s * NS_IN_SEC = t.sec * NS_IN_SEC - u.sec * NS_IN_SEC
      BY <1>1, <1>2, SMT
    <2>9. DateValue(t) - DateValue(u) = s * NS_IN_SEC + n
      BY <1>1, <1>2, <1>3, <2>8
    <2> HIDE DEF n, s
    <2> QED  BY <2>1, <2>7, <2>9, PairIsDate
  <1>6. CASE t.nanosec < u.nanosec
    <2> DEFINE n == NS_IN_SEC + (t.nanosec - u.nanosec)
               s == t.sec - u.sec - 1
    <2>1. n \in 0 .. NS_IN_SEC - 1 /\ n \in 0 .. Word - 1
      BY <1>1, <1>2, <1>6
    <2>2. u.sec # t.sec
      BY <1>2, <1>3, <1>6, DateOrder
    <2>3. s \in 0 .. Word - 1 /\ s \in Nat
      BY <1>1, <1>2, <1>4, <2>2
    <2>4. n % Word = n /\ n % NS_IN_SEC = n /\ s % Word = s
      BY <1>1, <2>1, <2>3, SmallMod
    <2>5. /\ t.nanosec - u.nanosec < 0 /\ ~ (t.nanosec - u.nanosec > 0)
          /\ - (t.nanosec - u.nanosec) \in 0 .. NS_IN_SEC - 1
      BY <1>1, <1>2, <1>6
    <2>6. (- (t.nanosec - u.nanosec)) \div NS_IN_SEC = 0
      BY <1>1, <2>5, SmallMod
    <2>7. TimeDec(t, u) = [sec |-> s, nanosec |-> n]
      <3>1. t.sec - u.sec + (- 0) - 1 = s
        BY <1>2
      <3> QED  BY <2>4, <2>5, <2>6, <3>1 DEF TimeDec
    <2>8. s * NS_IN_SEC = t.sec * NS_IN_SEC - u.sec * NS_IN_SEC - NS_IN_SEC
      BY <1>1, <1>2, SMT
    <2>9. DateValue(t) - DateValue(u) = s * NS_IN_SEC + n
      BY <1>1, <1>2, <1>3, <2>8
    <2> HIDE DEF n, s
    <2> QED  BY <2>1, <2>3, <2>7, <2>9, PairIsDate
  <1> QED  BY <1>3, <1>5, <1>6

(* What the rest of the proof uses of the constants *)
LEMMA BoundsFit ==
  /\ MaxTime \in Nat /\ MaxDelay \in Nat
  /\ MaxTime + MaxDelay < Word * NS_IN_SEC
  /\ Word * NS_IN_SEC \in Nat /\ NS_IN_SEC \in Nat \ {0}
  <1>1. PICK r \in Resolutions : r \in Nat \ {0} /\ MaxTime + MaxDelay + r < Word * NS_IN_SEC
    BY TimeoutsAssumption
  <1>2. Word * NS_IN_SEC \in Nat /\ NS_IN_SEC \in Nat \ {0}
    BY WordAssumption
  <1> QED  BY <1>1, <1>2, TimeoutsAssumption

(* The delays and dates that callers ask for fit. *)
LEMMA DelayDates ==
  /\ \A d \in 0 .. MaxDelay : DateOf(d) \in Date /\ DateValue(DateOf(d)) = d
  /\ \A d \in 0 .. MaxTime : DateOf(d) \in Date /\ DateValue(DateOf(d)) = d
  <1>1. ASSUME NEW d \in Nat, d <= MaxTime + MaxDelay
        PROVE  DateOf(d) \in Date /\ DateValue(DateOf(d)) = d
    <2>1. d < Word * NS_IN_SEC
      BY <1>1, BoundsFit
    <2> QED  BY <2>1, DateOfExact
  <1> QED  BY <1>1, BoundsFit

(* So do the resolutions of the tick. *)
LEMMA ResolutionDates ==
  ASSUME NEW r \in Resolutions
  PROVE  DateOf(r) \in Date /\ DateValue(DateOf(r)) = r /\ r \in Nat \ {0}
  <1>1. r \in Nat \ {0} /\ MaxTime + MaxDelay + r < Word * NS_IN_SEC
    BY TimeoutsAssumption
  <1>2. r \in Nat /\ r < Word * NS_IN_SEC
    BY <1>1, BoundsFit
  <1> QED  BY <1>1, <1>2, DateOfExact

(* So does zero. *)
LEMMA ZeroIsDate == Zero \in Date /\ DateValue(Zero) = 0
  <1>1. 0 \in 0 .. Word - 1 /\ 0 \in 0 .. NS_IN_SEC - 1 /\ 0 * NS_IN_SEC + 0 = 0
    BY WordAssumption
  <1> QED  BY <1>1, PairIsDate DEF Zero

-----------------------------------------------------------------------------
(* THE LIST                                                                *)

(* What must be added to type correctness and order to make them inductive: *)
(* the dates stay within what the words hold.                              *)
DatesFit ==
  /\ DateValue(last_tick_time) <= MaxTime
  /\ \A a \in Action : DateValue(timeout[a]) <= MaxTime + MaxDelay

TimeoutsInv == TimeoutsTypeOK /\ ListInDueOrder /\ DatesFit

(* The due date of the action at place i *)
Due(i) == DateValue(timeout[timeout_action_list[i]])

(* The programmed actions, their places and their dates. *)
LEMMA ListFacts ==
  ASSUME TimeoutsInv
  PROVE  /\ timeout_action_list \in Seq(Action) /\ Len(timeout_action_list) \in Nat
         /\ DOMAIN timeout_action_list = 1 .. Len(timeout_action_list)
         /\ \A i \in 1 .. Len(timeout_action_list) :
              /\ timeout_action_list[i] \in Action
              /\ timeout[timeout_action_list[i]] \in Date /\ Due(i) \in Nat
         /\ IsInjective(timeout_action_list)
         /\ \A i, j \in 1 .. Len(timeout_action_list) : i < j => Due(i) <= Due(j)
         /\ last_tick_time \in Date /\ DateValue(last_tick_time) \in Nat
         /\ \A a \in Action : /\ timeout[a] \in Date /\ DateValue(timeout[a]) \in Nat
                              /\ Programmed(a) <=> Contains(timeout_action_list, a)
  <1>1. /\ timeout_action_list \in Seq(Action) /\ Len(timeout_action_list) \in Nat
        /\ DOMAIN timeout_action_list = 1 .. Len(timeout_action_list)
        /\ \A i \in 1 .. Len(timeout_action_list) : timeout_action_list[i] \in Action
    BY LenProperties, ElementOfSeq DEF TimeoutsInv, TimeoutsTypeOK
  <1>2. \A a \in Action : timeout[a] \in Date /\ DateValue(timeout[a]) \in Nat
    BY DateFacts DEF TimeoutsInv, TimeoutsTypeOK
  <1>3. \A i, j \in 1 .. Len(timeout_action_list) : i < j => Due(i) <= Due(j)
    BY <1>1 DEF TimeoutsInv, ListInDueOrder, Due
  <1>4. IsInjective(timeout_action_list)
    <2>1. ASSUME NEW i \in 1 .. Len(timeout_action_list), NEW j \in 1 .. Len(timeout_action_list),
                 timeout_action_list[i] = timeout_action_list[j]
          PROVE  i = j
      <3>1. ~ (i < j) /\ ~ (j < i)
        BY <1>1, <2>1 DEF TimeoutsInv, ListInDueOrder
      <3> QED  BY <1>1, <3>1
    <2> QED  BY <1>1, <2>1 DEF IsInjective
  <1>5. last_tick_time \in Date /\ DateValue(last_tick_time) \in Nat
    BY DateFacts DEF TimeoutsInv, TimeoutsTypeOK
  <1> QED  BY <1>1, <1>2, <1>3, <1>4, <1>5 DEF Due, Programmed

(* The loop of _add_action() stops after the actions due no later.         *)
LEMMA InsertionPlaceSplits ==
  ASSUME TimeoutsInv, NEW due \in Date
  PROVE  /\ InsertionPlace(due) \in 1 .. Len(timeout_action_list) + 1
         /\ \A i \in 1 .. Len(timeout_action_list) :
              i < InsertionPlace(due) <=> Due(i) <= DateValue(due)
  <1> DEFINE n == Len(timeout_action_list)
             later == {i \in 1 .. n : TimeCmp(due, timeout[timeout_action_list[i]]) < 0}
  <1>1. /\ n \in Nat /\ DateValue(due) \in Nat
        /\ \A i \in 1 .. n : Due(i) \in Nat
        /\ \A i, j \in 1 .. n : i < j => Due(i) <= Due(j)
    BY ListFacts, DateFacts
  <1>2. \A i \in 1 .. n : i \in later <=> DateValue(due) < Due(i)
    BY ListFacts, TimeCmpExact DEF Due
  <1>3. InsertionPlace(due) = IF later = {} THEN n + 1 ELSE Min(later)
    BY ListFacts DEF InsertionPlace
  <1>4. later \in SUBSET (1 .. n)
    OBVIOUS
  <1> HIDE DEF n, later
  <1>5. CASE later = {}
    BY <1>1, <1>2, <1>3, <1>5 DEF n
  <1>6. CASE later # {}
    <2>1. PICK k \in later : InsertionPlace(due) = k /\ \A j \in later : k <= j
      BY <1>1, <1>3, <1>4, <1>6, MinOfPlaces
    <2>2. k \in 1 .. n /\ DateValue(due) < Due(k)
      BY <1>2, <1>4, <2>1
    <2>3. ASSUME NEW i \in 1 .. n PROVE i < k <=> Due(i) <= DateValue(due)
      <3>1. CASE i < k
        <4>1. i \notin later
          BY <1>1, <2>1, <2>2, <3>1
        <4> QED  BY <1>1, <1>2, <3>1, <4>1
      <3>2. CASE i = k
        BY <1>1, <2>2, <3>2
      <3>3. CASE k < i
        <4>1. Due(k) <= Due(i)
          BY <1>1, <2>2, <3>3
        <4>2. ~ (i < k)
          BY <1>1, <2>2, <3>3
        <4> QED  BY <1>1, <2>2, <4>1, <4>2
      <3>4. i < k \/ i = k \/ k < i
        BY <1>1, <2>2
      <3> QED  BY <3>1, <3>2, <3>3, <3>4
    <2>4. k \in 1 .. n + 1
      BY <1>1, <2>2
    <2> QED  BY <2>1, <2>3, <2>4 DEF n
  <1> QED  BY <1>5, <1>6

(* The loop of sos_time_do_tick() stops after the actions that are due.    *)
LEMMA NbExpiredSplits ==
  ASSUME TimeoutsInv, NEW now \in Date
  PROVE  /\ NbExpired(now) \in 0 .. Len(timeout_action_list)
         /\ \A i \in 1 .. Len(timeout_action_list) :
              i <= NbExpired(now) <=> Due(i) <= DateValue(now)
  <1>1. Len(timeout_action_list) \in Nat
    BY ListFacts
  <1>2. NbExpired(now) = InsertionPlace(now) - 1
    BY <1>1 DEF NbExpired, InsertionPlace
  <1>3. /\ InsertionPlace(now) \in 1 .. Len(timeout_action_list) + 1
        /\ \A i \in 1 .. Len(timeout_action_list) :
              i < InsertionPlace(now) <=> Due(i) <= DateValue(now)
    BY InsertionPlaceSplits
  <1> QED  BY <1>1, <1>2, <1>3

(* _remove_action() leaves the time that remained. *)
LEMMA RemainingExact ==
  ASSUME TimeoutsInv, NEW a \in Action, NEW now \in Date
  PROVE  /\ Remaining(a, now) \in Date
         /\ DateValue(timeout[a]) <= DateValue(now) => DateValue(Remaining(a, now)) = 0
         /\ DateValue(timeout[a]) >= DateValue(now)
              => DateValue(timeout[a]) = DateValue(now) + DateValue(Remaining(a, now))
         /\ DateValue(Remaining(a, now)) <= DateValue(timeout[a])
  <1>1. timeout[a] \in Date /\ DateValue(timeout[a]) \in Nat /\ DateValue(now) \in Nat
    BY ListFacts, DateFacts
  <1>2. CASE DateValue(timeout[a]) <= DateValue(now)
    <2>1. Remaining(a, now) = Zero
      BY <1>1, <1>2, TimeCmpExact DEF Remaining
    <2> QED  BY <1>1, <1>2, <2>1, ZeroIsDate
  <1>3. CASE ~ (DateValue(timeout[a]) <= DateValue(now))
    <2>1. Remaining(a, now) = TimeDec(timeout[a], now)
      BY <1>1, <1>3, TimeCmpExact DEF Remaining
    <2>2. DateValue(now) <= DateValue(timeout[a])
      BY <1>1, <1>3
    <2>3. /\ TimeDec(timeout[a], now) \in Date
          /\ DateValue(TimeDec(timeout[a], now)) = DateValue(timeout[a]) - DateValue(now)
      BY <1>1, <2>2, TimeDecExact
    <2> QED  BY <1>1, <1>3, <2>1, <2>3
  <1> QED  BY <1>2, <1>3

(* A queue without duplicates is as long as the set of its elements. *)
LEMMA InjectiveLength ==
  ASSUME NEW S, NEW q \in Seq(S), IsInjective(q)
  PROVE  Len(q) = Cardinality(ToSet(q))
  <1>1. Len(q) \in Nat /\ DOMAIN q = 1 .. Len(q) /\ q \in [1 .. Len(q) -> S]
    BY LenProperties
  <1>2. q \in [1 .. Len(q) -> ToSet(q)]
    BY <1>1 DEF ToSet
  <1>3. \A t \in ToSet(q) : \E i \in 1 .. Len(q) : q[i] = t
    BY <1>1 DEF ToSet
  <1>4. q \in Bijection(1 .. Len(q), ToSet(q))
    BY <1>2, <1>3 DEF Bijection, Injection, Surjection
  <1> QED  BY <1>1, <1>4, FS_CountingElements DEF ExistsBijection

-----------------------------------------------------------------------------
(* THE OPERATIONS                                                          *)

(* _add_action(): the action enters behind those due as early. *)
LEMMA AddActionStep ==
  ASSUME TimeoutsInv, NEW a \in Action, NEW due \in Date,
         DateValue(due) <= MaxTime + MaxDelay, AddAction(a, due)
  PROVE  /\ TimeoutsInv'
         /\ ~ Programmed(a) /\ called' = <<>>
         /\ timeout' = [timeout EXCEPT ![a] = due]
         /\ last_tick_time' = last_tick_time /\ tick_resolution' = tick_resolution
         /\ \A x \in Action : Programmed(x)' <=> Programmed(x) \/ x = a
         /\ \A x \in Action : Programmed(x) /\ timeout[x] = due =>
              \E i, j \in DOMAIN timeout_action_list' :
                i < j /\ timeout_action_list'[i] = x /\ timeout_action_list'[j] = a
  <1> DEFINE l == timeout_action_list
             n == Len(l)
             p == InsertionPlace(due)
             r == InsertAt(l, p, a)
             F(k) == DateValue(timeout'[r[k]])
  <1>1. /\ ~ Programmed(a) /\ called' = <<>>
        /\ timeout' = [timeout EXCEPT ![a] = due]
        /\ last_tick_time' = last_tick_time /\ tick_resolution' = tick_resolution
        /\ timeout_action_list' = r
    BY DEF AddAction
  <1>2. /\ l \in Seq(Action) /\ n \in Nat /\ IsInjective(l)
        /\ \A i \in 1 .. n : /\ l[i] \in Action /\ Due(i) \in Nat
                             /\ Due(i) = DateValue(timeout[l[i]])
        /\ \A i, j \in 1 .. n : i < j => Due(i) <= Due(j)
        /\ DateValue(due) \in Nat
    BY ListFacts, DateFacts DEF Due
  <1>3. p \in 1 .. n + 1 /\ \A i \in 1 .. n : i < p <=> Due(i) <= DateValue(due)
    BY InsertionPlaceSplits
  <1>4. ~ Contains(l, a)
    BY <1>1 DEF Programmed
  <1> HIDE DEF p, l, n
  <1>5. /\ r \in Seq(Action) /\ Len(r) = n + 1
        /\ \A k \in 1 .. n + 1 : r[k] = IF k < p THEN l[k] ELSE IF k = p THEN a ELSE l[k - 1]
    BY <1>2, <1>3, InsertAtPlaces DEF n
  <1>6. IsInjective(r) /\ \A x \in Action : Contains(r, x) <=> Contains(l, x) \/ x = a
    BY <1>2, <1>3, <1>4, InsertAtContains DEF n
  <1>7. DOMAIN r = 1 .. n + 1
    BY <1>5, LenProperties
  <1> HIDE DEF r
  <1>8. timeout' \in [Action -> Date]
    BY <1>1 DEF TimeoutsInv, TimeoutsTypeOK
  <1>9. \A x \in Action : timeout'[x] = IF x = a THEN due ELSE timeout[x]
    BY <1>1 DEF TimeoutsInv, TimeoutsTypeOK
  <1>10. \A i \in 1 .. n : l[i] # a
    BY <1>4 DEF Contains, n
  <1>11. ASSUME NEW k \in 1 .. n + 1
         PROVE  /\ k < p => k \in 1 .. n /\ F(k) = Due(k)
                /\ k = p => F(k) = DateValue(due)
                /\ k > p => k - 1 \in 1 .. n /\ F(k) = Due(k - 1)
    <2>1. CASE k < p
      <3>1. k \in 1 .. n /\ r[k] = l[k]
        BY <1>2, <1>3, <1>5, <2>1
      <3>2. l[k] \in Action /\ l[k] # a
        BY <1>2, <1>10, <3>1
      <3> QED  BY <1>2, <1>3, <1>9, <2>1, <3>1, <3>2
    <2>2. CASE k = p
      <3>1. r[k] = a
        BY <1>3, <1>5, <2>2
      <3> QED  BY <1>3, <1>9, <2>2, <3>1
    <2>3. CASE k > p
      <3>1. k - 1 \in 1 .. n /\ ~ (k < p) /\ k # p
        BY <1>2, <1>3, <2>3
      <3>2. r[k] = l[k - 1]
        BY <1>5, <3>1
      <3>3. l[k - 1] \in Action /\ l[k - 1] # a
        BY <1>2, <1>10, <3>1
      <3> QED  BY <1>2, <1>9, <2>3, <3>1, <3>2, <3>3
    <2>4. k < p \/ k = p \/ k > p
      BY <1>2, <1>3
    <2> QED  BY <2>1, <2>2, <2>3, <2>4
  <1>12. ASSUME NEW i \in 1 .. n + 1, NEW j \in 1 .. n + 1, i < j
         PROVE  F(i) <= F(j)
    <2> HIDE DEF F
    <2>0. i \in Nat /\ j \in Nat /\ p \in Nat
      BY <1>2, <1>3
    <2>1. CASE j < p
      <3>1. i < p
        BY <1>12, <2>0, <2>1
      <3> QED  BY <1>2, <1>11, <1>12, <2>1, <3>1
    <2>2. CASE j = p
      <3>1. i < p
        BY <1>12, <2>0, <2>2
      <3> QED  BY <1>3, <1>11, <2>2, <3>1
    <2>3. CASE j > p
      <3>1. j - 1 \in 1 .. n /\ F(j) = Due(j - 1)
        BY <1>11, <2>3
      <3>2. CASE i < p
        <4>1. i < j - 1
          BY <2>0, <2>3, <3>2
        <4> QED  BY <1>2, <1>11, <3>1, <3>2, <4>1
      <3>3. CASE i = p
        <4>1. ~ (j - 1 < p)
          BY <2>0, <2>3
        <4>2. ~ (Due(j - 1) <= DateValue(due))
          BY <1>3, <3>1, <4>1
        <4> QED  BY <1>2, <1>11, <3>1, <3>3, <4>2
      <3>4. CASE i > p
        <4>1. i - 1 \in 1 .. n /\ F(i) = Due(i - 1) /\ i - 1 < j - 1
          BY <1>11, <1>12, <2>0, <3>4
        <4> QED  BY <1>2, <3>1, <4>1
      <3>5. i < p \/ i = p \/ i > p
        BY <2>0
      <3> QED  BY <3>2, <3>3, <3>4, <3>5
    <2>4. j < p \/ j = p \/ j > p
      BY <2>0
    <2> QED  BY <2>1, <2>2, <2>3, <2>4
  <1>13. ListInDueOrder'
    BY <1>1, <1>6, <1>7, <1>12 DEF ListInDueOrder, IsInjective
  <1>14. TimeoutsTypeOK'
    BY <1>1, <1>5, <1>8 DEF TimeoutsTypeOK, TimeoutsInv
  <1>15. DatesFit'
    BY <1>1, <1>9 DEF DatesFit, TimeoutsInv
  <1>16. \A x \in Action : Programmed(x)' <=> Programmed(x) \/ x = a
    BY <1>1, <1>6 DEF Programmed, l
  <1>17. ASSUME NEW x \in Action, Programmed(x), timeout[x] = due
         PROVE  \E i, j \in DOMAIN r : i < j /\ r[i] = x /\ r[j] = a
    <2>1. PICK i \in 1 .. n : l[i] = x
      BY <1>17 DEF Programmed, Contains, l, n
    <2>2. i < p
      BY <1>2, <1>3, <1>17, <2>1
    <2>3. i \in 1 .. n + 1 /\ r[i] = x /\ r[p] = a /\ p \in 1 .. n + 1
      BY <1>2, <1>3, <1>5, <2>1, <2>2
    <2> QED  BY <1>7, <2>2, <2>3
  <1> QED  BY <1>1, <1>13, <1>14, <1>15, <1>16, <1>17 DEF TimeoutsInv

(* sos_time_unregister_action() *)
LEMMA UnregisterStep ==
  ASSUME TimeoutsInv, NEW a \in Action, Unregister(a)
  PROVE  /\ TimeoutsInv' /\ called' = <<>>
         /\ timeout' = [timeout EXCEPT ![a] = Remaining(a, last_tick_time)]
         /\ last_tick_time' = last_tick_time /\ tick_resolution' = tick_resolution
         /\ \A x \in Action : Programmed(x)' <=> Programmed(x) /\ x # a
  <1> DEFINE l == timeout_action_list
             n == Len(l)
             r == RemoveFirst(l, a)
  <1>1. /\ Contains(l, a) /\ called' = <<>>
        /\ timeout' = [timeout EXCEPT ![a] = Remaining(a, last_tick_time)]
        /\ last_tick_time' = last_tick_time /\ tick_resolution' = tick_resolution
        /\ timeout_action_list' = r
    BY DEF Unregister, Programmed
  <1>2. /\ l \in Seq(Action) /\ n \in Nat /\ IsInjective(l) /\ DOMAIN l = 1 .. n
        /\ \A i \in 1 .. n : l[i] \in Action /\ Due(i) = DateValue(timeout[l[i]])
        /\ \A i, j \in 1 .. n : i < j => Due(i) <= Due(j)
        /\ last_tick_time \in Date
    BY ListFacts DEF Due
  <1>3. /\ Remaining(a, last_tick_time) \in Date
        /\ DateValue(Remaining(a, last_tick_time)) <= DateValue(timeout[a])
    BY <1>2, RemainingExact
  <1>4. /\ r \in Seq(Action) /\ IsInjective(r)
        /\ \A x \in Action : Contains(r, x) <=> Contains(l, x) /\ x # a
    BY <1>1, <1>2, RemoveFirstContains
  <1>5. PICK i \in 1 .. n : l[i] = a /\ r = RemoveAt(l, i)
    BY <1>1, <1>2, RemoveFirstPlaces DEF Contains
  <1>6. /\ Len(r) = n - 1
        /\ \A k \in 1 .. n - 1 : r[k] = IF k < i THEN l[k] ELSE l[k + 1]
    BY <1>2, <1>5, RemoveAtPlaces
  <1>7. DOMAIN r = 1 .. n - 1
    BY <1>4, <1>6, LenProperties
  <1> HIDE DEF l, n, r
  <1>8. timeout' \in [Action -> Date]
    BY <1>1, <1>3 DEF TimeoutsInv, TimeoutsTypeOK
  <1>9. \A x \in Action : timeout'[x] = IF x = a THEN Remaining(a, last_tick_time) ELSE timeout[x]
    BY <1>1 DEF TimeoutsInv, TimeoutsTypeOK
  <1> DEFINE g(k) == IF k < i THEN k ELSE k + 1
  <1>10. ASSUME NEW k \in 1 .. n - 1
         PROVE  g(k) \in 1 .. n /\ g(k) # i /\ DateValue(timeout'[r[k]]) = Due(g(k))
    <2>1. g(k) \in 1 .. n /\ g(k) # i /\ r[k] = l[g(k)]
      BY <1>2, <1>6
    <2> HIDE DEF g
    <2>2. l[g(k)] # a
      BY <1>2, <1>5, <2>1 DEF IsInjective
    <2> QED  BY <1>2, <1>9, <2>1, <2>2
  <1>11. ASSUME NEW j \in 1 .. n - 1, NEW k \in 1 .. n - 1, j < k
         PROVE  DateValue(timeout'[r[j]]) <= DateValue(timeout'[r[k]])
    <2>1. g(j) < g(k)
      BY <1>2, <1>11
    <2> HIDE DEF g
    <2> QED  BY <1>2, <1>10, <2>1
  <1>12. ListInDueOrder'
    BY <1>1, <1>4, <1>7, <1>11 DEF ListInDueOrder, IsInjective
  <1>13. TimeoutsTypeOK'
    BY <1>1, <1>4, <1>8 DEF TimeoutsTypeOK, TimeoutsInv
  <1>14. DatesFit'
    <2>1. \A x \in Action : DateValue(timeout[x]) \in Nat /\ DateValue(timeout'[x]) \in Nat
      BY <1>8, ListFacts, DateFacts
    <2>2. DateValue(timeout'[a]) <= DateValue(timeout[a])
      BY <1>3, <1>9
    <2> QED  BY <1>1, <1>9, <2>1, <2>2, BoundsFit DEF DatesFit, TimeoutsInv
  <1>15. \A x \in Action : Programmed(x)' <=> Programmed(x) /\ x # a
    BY <1>1, <1>4 DEF Programmed, l
  <1> QED  BY <1>1, <1>12, <1>13, <1>14, <1>15 DEF TimeoutsInv

(* The resolution is positive. *)
LEMMA ResolutionFacts ==
  ASSUME TimeoutsInv
  PROVE  /\ tick_resolution \in Date /\ DateValue(tick_resolution) \in Resolutions
         /\ DateValue(tick_resolution) \in Nat \ {0}
  <1>1. PICK r \in Resolutions : tick_resolution = DateOf(r)
    BY DEF TimeoutsInv, TimeoutsTypeOK
  <1> QED  BY <1>1, ResolutionDates

(* sos_time_do_tick() *)
LEMMA DoTickStep ==
  ASSUME TimeoutsInv, DoTick
  PROVE  /\ TimeoutsInv'
         /\ tick_resolution' = tick_resolution
         /\ DateValue(last_tick_time') = DateValue(last_tick_time) + DateValue(tick_resolution)
         /\ IsInjective(called')
         /\ \A x \in Action :
              /\ Contains(called', x)
                   <=> Programmed(x) /\ DateValue(timeout[x]) <= DateValue(last_tick_time')
              /\ Programmed(x)' <=> Programmed(x) /\ ~ Contains(called', x)
              /\ timeout'[x] = IF Contains(called', x) THEN Remaining(x, last_tick_time')
                                                      ELSE timeout[x]
  <1> DEFINE l == timeout_action_list
             now == TimeInc(last_tick_time, tick_resolution)
             n == NbExpired(now)
             c == SubSeq(l, 1, n)
             r == SubSeq(l, n + 1, Len(l))
  <1>1. /\ DateValue(last_tick_time) + DateValue(tick_resolution) <= MaxTime
        /\ last_tick_time' = now /\ tick_resolution' = tick_resolution
        /\ called' = c /\ timeout_action_list' = r
        /\ timeout' = [x \in Action |-> IF Contains(called', x) THEN Remaining(x, now)
                                                               ELSE timeout[x]]
    BY DEF DoTick
  <1>2. /\ l \in Seq(Action) /\ Len(l) \in Nat /\ IsInjective(l) /\ DOMAIN l = 1 .. Len(l)
        /\ \A i \in 1 .. Len(l) : l[i] \in Action /\ Due(i) = DateValue(timeout[l[i]])
        /\ \A i, j \in 1 .. Len(l) : i < j => Due(i) <= Due(j)
        /\ last_tick_time \in Date /\ DateValue(last_tick_time) \in Nat
        /\ \A x \in Action : timeout[x] \in Date /\ DateValue(timeout[x]) \in Nat
    BY ListFacts DEF Due
  <1>3. /\ tick_resolution \in Date /\ DateValue(tick_resolution) \in Nat
    BY ResolutionFacts
  <1>4. now \in Date /\ DateValue(now) = DateValue(last_tick_time) + DateValue(tick_resolution)
    <2>1. DateValue(last_tick_time) + DateValue(tick_resolution) < Word * NS_IN_SEC
      BY <1>1, <1>2, <1>3, BoundsFit
    <2> QED  BY <1>2, <1>3, <2>1, TimeIncExact
  <1> HIDE DEF now
  <1>5. n \in 0 .. Len(l) /\ \A i \in 1 .. Len(l) : i <= n <=> Due(i) <= DateValue(now)
    BY <1>4, NbExpiredSplits
  <1> HIDE DEF n
  <1>6. /\ c \in Seq(Action) /\ r \in Seq(Action) /\ Len(r) = Len(l) - n
        /\ \A i \in 1 .. Len(l) - n : r[i] = l[n + i]
    BY <1>2, <1>5, CutPlaces
  <1>7. /\ IsInjective(c) /\ IsInjective(r)
        /\ \A x \in Action :
              /\ Contains(c, x) <=> \E i \in 1 .. n : l[i] = x
              /\ Contains(r, x) <=> Contains(l, x) /\ ~ Contains(c, x)
    BY <1>2, <1>5, CutContains
  <1>8. DOMAIN r = 1 .. Len(l) - n
    BY <1>6, LenProperties
  <1> HIDE DEF c, r, l
  <1>9. \A x \in Action : timeout'[x] = IF Contains(c, x) THEN Remaining(x, now) ELSE timeout[x]
    BY <1>1
  <1>10. ASSUME NEW x \in Action
         PROVE  Remaining(x, now) \in Date /\ DateValue(Remaining(x, now)) <= DateValue(timeout[x])
    BY <1>4, RemainingExact
  <1>11. timeout' \in [Action -> Date]
    BY <1>1, <1>2, <1>10
  <1>12. ASSUME NEW x \in Action
         PROVE  Contains(c, x) <=> Programmed(x) /\ DateValue(timeout[x]) <= DateValue(now)
    <2>1. Programmed(x) <=> \E i \in 1 .. Len(l) : l[i] = x
      BY DEF Programmed, Contains, l
    <2>2. \A i \in 1 .. n : i \in 1 .. Len(l) /\ i <= n
      BY <1>2, <1>5
    <2>3. \A i \in 1 .. Len(l) : i <= n => i \in 1 .. n
      BY <1>2, <1>5
    <2>4. ASSUME NEW i \in 1 .. n, l[i] = x
          PROVE  Programmed(x) /\ DateValue(timeout[x]) <= DateValue(now)
      BY <1>2, <1>5, <2>1, <2>2, <2>4
    <2>5. ASSUME NEW i \in 1 .. Len(l), l[i] = x, DateValue(timeout[x]) <= DateValue(now)
          PROVE  \E j \in 1 .. n : l[j] = x
      BY <1>2, <1>5, <2>3, <2>5
    <2> QED  BY <1>7, <2>1, <2>4, <2>5
  <1>13. \A x \in Action : Programmed(x)' <=> Programmed(x) /\ ~ Contains(c, x)
    BY <1>1, <1>7 DEF Programmed, l
  <1>14. ASSUME NEW i \in 1 .. Len(l) - n
         PROVE  n + i \in 1 .. Len(l) /\ DateValue(timeout'[r[i]]) = Due(n + i)
    <2>1. n + i \in 1 .. Len(l) /\ r[i] = l[n + i]
      BY <1>2, <1>5, <1>6
    <2>2. l[n + i] \in Action
      BY <1>2, <2>1
    <2>3. Contains(r, r[i])
      BY <1>6 DEF Contains
    <2>4. ~ Contains(c, l[n + i])
      BY <1>7, <2>1, <2>2, <2>3
    <2> QED  BY <1>2, <1>9, <2>1, <2>2, <2>4
  <1>15. ASSUME NEW i \in 1 .. Len(l) - n, NEW j \in 1 .. Len(l) - n, i < j
         PROVE  DateValue(timeout'[r[i]]) <= DateValue(timeout'[r[j]])
    <2>1. n + i < n + j
      BY <1>2, <1>5, <1>15
    <2> QED  BY <1>2, <1>14, <2>1
  <1>16. ListInDueOrder'
    <2>1. ASSUME NEW i \in DOMAIN r, NEW j \in DOMAIN r, i < j
          PROVE  r[i] # r[j] /\ DateValue(timeout'[r[i]]) <= DateValue(timeout'[r[j]])
      <3>1. i # j
        BY <1>2, <1>5, <1>8, <2>1
      <3> QED  BY <1>7, <1>8, <1>15, <2>1, <3>1 DEF IsInjective
    <2> QED  BY <1>1, <2>1 DEF ListInDueOrder
  <1>17. TimeoutsTypeOK'
    BY <1>1, <1>4, <1>6, <1>11 DEF TimeoutsTypeOK, TimeoutsInv
  <1>18. DatesFit'
    <2>1. \A x \in Action : DateValue(timeout'[x]) \in Nat
      BY <1>11, DateFacts
    <2>2. \A x \in Action : DateValue(timeout'[x]) <= DateValue(timeout[x])
      BY <1>2, <1>9, <1>10
    <2> QED  BY <1>1, <1>2, <1>4, <2>1, <2>2, BoundsFit DEF DatesFit, TimeoutsInv
  <1> QED  BY <1>1, <1>4, <1>7, <1>9, <1>12, <1>13, <1>16, <1>17, <1>18 DEF TimeoutsInv

(* sos_time_set_tick_resolution() *)
LEMMA SetTickResolutionStep ==
  ASSUME TimeoutsInv, NEW r \in Resolutions, SetTickResolution(DateOf(r))
  PROVE  /\ TimeoutsInv' /\ called' = <<>>
         /\ DateValue(tick_resolution') = r
         /\ last_tick_time' = last_tick_time /\ timeout' = timeout
         /\ timeout_action_list' = timeout_action_list
  BY ResolutionDates
     DEF SetTickResolution, TimeoutsInv, TimeoutsTypeOK, ListInDueOrder, DatesFit

(* The invariant holds when no action is programmed. *)
LEMMA TimeoutsInitInv ==
  ASSUME TimeoutsInit
  PROVE  /\ TimeoutsInv /\ DateValue(last_tick_time) = 0 /\ called = <<>>
         /\ \A a \in Action : ~ Programmed(a)
  <1>1. /\ last_tick_time = Zero /\ timeout_action_list = <<>> /\ called = <<>>
        /\ timeout = [a \in Action |-> Zero]
        /\ tick_resolution \in {DateOf(r) : r \in Resolutions}
    BY DEF TimeoutsInit
  <1>2. TimeoutsTypeOK
    BY <1>1, ZeroIsDate DEF TimeoutsTypeOK
  <1>3. ListInDueOrder
    BY <1>1 DEF ListInDueOrder
  <1>4. DatesFit
    BY <1>1, ZeroIsDate, BoundsFit DEF DatesFit
  <1>5. \A a \in Action : ~ Programmed(a)
    BY <1>1 DEF Programmed, Contains
  <1> QED  BY <1>1, <1>2, <1>3, <1>4, <1>5, ZeroIsDate DEF TimeoutsInv

-----------------------------------------------------------------------------
(* EVERY STEP                                                              *)

(* Time passes between two operations on the list. *)
Calm ==
  /\ UNCHANGED <<last_tick_time, tick_resolution, timeout_action_list, timeout>>
  /\ called' \in {<<>>, called}

(* A step that leaves the list alone keeps the invariant. *)
LEMMA CalmStep ==
  ASSUME TimeoutsInv, Calm
  PROVE  /\ TimeoutsInv' /\ last_tick_time' = last_tick_time /\ timeout' = timeout
         /\ timeout_action_list' = timeout_action_list
         /\ \A x \in Action : Programmed(x)' <=> Programmed(x)
  <1>1. TimeoutsTypeOK'
    <2>1. <<>> \in Seq(Action)
      OBVIOUS
    <2> QED  BY <2>1 DEF Calm, TimeoutsInv, TimeoutsTypeOK
  <1> QED  BY <1>1 DEF Calm, TimeoutsInv, ListInDueOrder, DatesFit, Programmed

(* A relative registration inserts the action at a date counted from the   *)
(* last tick.                                                              *)
LEMMA RegisterRelativeIsAdd ==
  ASSUME TimeoutsInv, NEW a \in Action, NEW d \in 0 .. MaxDelay, RegisterRelative(a, DateOf(d))
  PROVE  \E due \in Date :
           /\ AddAction(a, due)
           /\ DateValue(due) = DateValue(last_tick_time) + d
           /\ DateValue(due) <= MaxTime + MaxDelay
  <1> DEFINE due == TimeInc(last_tick_time, DateOf(d))
  <1>1. DateOf(d) \in Date /\ DateValue(DateOf(d)) = d /\ d \in Nat /\ d <= MaxDelay
    BY DelayDates, BoundsFit
  <1>2. last_tick_time \in Date /\ DateValue(last_tick_time) \in Nat
        /\ DateValue(last_tick_time) <= MaxTime
    BY ListFacts DEF TimeoutsInv, DatesFit
  <1>3. /\ DateValue(last_tick_time) + d <= MaxTime + MaxDelay
        /\ DateValue(last_tick_time) + d < Word * NS_IN_SEC
    BY <1>1, <1>2, BoundsFit
  <1>4. due \in Date /\ DateValue(due) = DateValue(last_tick_time) + d
    BY <1>1, <1>2, <1>3, TimeIncExact
  <1>5. AddAction(a, due)
    BY DEF RegisterRelative
  <1> HIDE DEF due
  <1> QED  BY <1>3, <1>4, <1>5

(* An absolute one inserts it at its date. *)
LEMMA RegisterAbsoluteIsAdd ==
  ASSUME TimeoutsInv, NEW a \in Action, NEW d \in 0 .. MaxTime, RegisterAbsolute(a, DateOf(d))
  PROVE  \E due \in Date :
           /\ AddAction(a, due)
           /\ DateValue(due) = d /\ DateValue(last_tick_time) <= d
           /\ DateValue(due) <= MaxTime + MaxDelay
  <1>1. DateOf(d) \in Date /\ DateValue(DateOf(d)) = d /\ d \in Nat /\ d <= MaxTime
    BY DelayDates, BoundsFit
  <1>2. last_tick_time \in Date /\ DateValue(last_tick_time) \in Nat
    BY ListFacts
  <1>3. AddAction(a, DateOf(d)) /\ TimeCmp(DateOf(d), last_tick_time) >= 0
    BY DEF RegisterAbsolute
  <1>4. DateValue(last_tick_time) <= d
    BY <1>1, <1>2, <1>3, TimeCmpExact
  <1>5. d <= MaxTime + MaxDelay
    BY <1>1, BoundsFit
  <1> QED  BY <1>1, <1>3, <1>4, <1>5

(* The three action properties of the list, as properties of a step *)
CallsAllDue ==
  last_tick_time' # last_tick_time =>
    /\ ToSet(called') = {a \in Action : /\ Programmed(a)
                                        /\ DateValue(timeout[a]) <= DateValue(last_tick_time')}
    /\ Len(called') = Cardinality(ToSet(called'))

LeavesRemaining ==
  \A a \in Action : Programmed(a) /\ ~ Programmed(a)' =>
    LET now == DateValue(last_tick_time')
    IN \/ DateValue(timeout[a]) = now + DateValue(timeout'[a])
       \/ DateValue(timeout[a]) < now /\ DateValue(timeout'[a]) = 0

EntersBehind ==
  \A a, b \in Action :
    /\ Programmed(a) /\ Programmed(a)' /\ ~ Programmed(b) /\ Programmed(b)'
    /\ timeout'[a] = timeout'[b]
    => \E i, j \in DOMAIN timeout_action_list' :
         i < j /\ timeout_action_list'[i] = a /\ timeout_action_list'[j] = b

(* An insertion keeps the invariant and the three action properties. *)
LEMMA AddActionKeeps ==
  ASSUME TimeoutsInv, NEW a \in Action, NEW due \in Date,
         DateValue(due) <= MaxTime + MaxDelay, AddAction(a, due)
  PROVE  TimeoutsInv' /\ CallsAllDue /\ LeavesRemaining /\ EntersBehind
  <1>1. /\ TimeoutsInv'
        /\ ~ Programmed(a) /\ last_tick_time' = last_tick_time
        /\ timeout' = [timeout EXCEPT ![a] = due]
        /\ \A x \in Action : Programmed(x)' <=> Programmed(x) \/ x = a
        /\ \A x \in Action : Programmed(x) /\ timeout[x] = due =>
              \E i, j \in DOMAIN timeout_action_list' :
                i < j /\ timeout_action_list'[i] = x /\ timeout_action_list'[j] = a
    BY AddActionStep
  <1>2. \A x \in Action : timeout'[x] = IF x = a THEN due ELSE timeout[x]
    BY <1>1 DEF TimeoutsInv, TimeoutsTypeOK
  <1>3. EntersBehind
    BY <1>1, <1>2 DEF EntersBehind
  <1> QED  BY <1>1, <1>3 DEF CallsAllDue, LeavesRemaining

(* So does a removal, which leaves the remaining time. *)
LEMMA UnregisterKeeps ==
  ASSUME TimeoutsInv, NEW a \in Action, Unregister(a)
  PROVE  TimeoutsInv' /\ CallsAllDue /\ LeavesRemaining /\ EntersBehind
  <1>1. /\ TimeoutsInv' /\ last_tick_time' = last_tick_time
        /\ timeout' = [timeout EXCEPT ![a] = Remaining(a, last_tick_time)]
        /\ \A x \in Action : Programmed(x)' <=> Programmed(x) /\ x # a
    BY UnregisterStep
  <1>2. timeout'[a] = Remaining(a, last_tick_time)
    BY <1>1 DEF TimeoutsInv, TimeoutsTypeOK
  <1>3. /\ last_tick_time \in Date /\ DateValue(last_tick_time) \in Nat
        /\ DateValue(timeout[a]) \in Nat
    BY ListFacts
  <1>4. \/ DateValue(timeout[a]) = DateValue(last_tick_time) + DateValue(timeout'[a])
        \/ DateValue(timeout[a]) < DateValue(last_tick_time) /\ DateValue(timeout'[a]) = 0
    BY <1>2, <1>3, RemainingExact
  <1>5. LeavesRemaining
    BY <1>1, <1>4 DEF LeavesRemaining
  <1> QED  BY <1>1, <1>5 DEF CallsAllDue, EntersBehind

(* So does a tick, which calls what is due and nothing else. *)
LEMMA DoTickKeeps ==
  ASSUME TimeoutsInv, DoTick
  PROVE  TimeoutsInv' /\ CallsAllDue /\ LeavesRemaining /\ EntersBehind
  <1>1. /\ TimeoutsInv'
        /\ IsInjective(called')
        /\ \A x \in Action :
              /\ Contains(called', x)
                   <=> Programmed(x) /\ DateValue(timeout[x]) <= DateValue(last_tick_time')
              /\ Programmed(x)' <=> Programmed(x) /\ ~ Contains(called', x)
              /\ timeout'[x] = IF Contains(called', x) THEN Remaining(x, last_tick_time')
                                                      ELSE timeout[x]
    BY DoTickStep
  <1>2. called' \in Seq(Action) /\ last_tick_time' \in Date
    BY <1>1 DEF TimeoutsInv, TimeoutsTypeOK
  <1>3. DOMAIN called' = 1 .. Len(called') /\ \A i \in 1 .. Len(called') : called'[i] \in Action
    BY <1>2, LenProperties, ElementOfSeq
  <1>4. \A x \in Action : x \in ToSet(called') <=> Contains(called', x)
    BY <1>3 DEF ToSet, Contains
  <1>5. ToSet(called') \subseteq Action
    BY <1>3 DEF ToSet
  <1>6. ToSet(called') = {a \in Action : /\ Programmed(a)
                                         /\ DateValue(timeout[a]) <= DateValue(last_tick_time')}
    BY <1>1, <1>4, <1>5
  <1>7. Len(called') = Cardinality(ToSet(called'))
    BY <1>1, <1>2, InjectiveLength
  <1>8. CallsAllDue
    BY <1>6, <1>7 DEF CallsAllDue
  <1>9. ASSUME NEW a \in Action, Programmed(a), ~ Programmed(a)'
        PROVE  \/ DateValue(timeout[a]) = DateValue(last_tick_time') + DateValue(timeout'[a])
               \/ DateValue(timeout[a]) < DateValue(last_tick_time') /\ DateValue(timeout'[a]) = 0
    <2>1. /\ timeout'[a] = Remaining(a, last_tick_time')
          /\ DateValue(timeout[a]) <= DateValue(last_tick_time')
      BY <1>1, <1>9
    <2>2. /\ DateValue(last_tick_time') \in Nat /\ DateValue(timeout[a]) \in Nat
      BY <1>2, ListFacts, DateFacts
    <2>3. DateValue(Remaining(a, last_tick_time')) = 0
      BY <1>2, <2>1, RemainingExact
    <2> QED  BY <2>1, <2>2, <2>3
  <1>10. LeavesRemaining
    BY <1>9 DEF LeavesRemaining
  <1> QED  BY <1>1, <1>8, <1>10 DEF EntersBehind

(* Every step keeps the invariant and the three action properties. *)
LEMMA TimeoutsStepKeeps ==
  ASSUME TimeoutsInv, TimeoutsNext \/ Calm
  PROVE  TimeoutsInv' /\ CallsAllDue /\ LeavesRemaining /\ EntersBehind
  <1>1. ASSUME NEW a \in Action, NEW d \in 0 .. MaxDelay, RegisterRelative(a, DateOf(d))
        PROVE  TimeoutsInv' /\ CallsAllDue /\ LeavesRemaining /\ EntersBehind
    BY <1>1, RegisterRelativeIsAdd, AddActionKeeps
  <1>2. ASSUME NEW a \in Action, NEW d \in 0 .. MaxTime, RegisterAbsolute(a, DateOf(d))
        PROVE  TimeoutsInv' /\ CallsAllDue /\ LeavesRemaining /\ EntersBehind
    BY <1>2, RegisterAbsoluteIsAdd, AddActionKeeps
  <1>3. ASSUME NEW a \in Action, Unregister(a)
        PROVE  TimeoutsInv' /\ CallsAllDue /\ LeavesRemaining /\ EntersBehind
    BY <1>3, UnregisterKeeps
  <1>4. ASSUME NEW r \in Resolutions, SetTickResolution(DateOf(r))
        PROVE  TimeoutsInv' /\ CallsAllDue /\ LeavesRemaining /\ EntersBehind
    <2>1. /\ TimeoutsInv' /\ last_tick_time' = last_tick_time
          /\ timeout_action_list' = timeout_action_list
      BY <1>4, SetTickResolutionStep
    <2> QED  BY <2>1 DEF CallsAllDue, LeavesRemaining, EntersBehind, Programmed
  <1>5. ASSUME Calm
        PROVE  TimeoutsInv' /\ CallsAllDue /\ LeavesRemaining /\ EntersBehind
    BY <1>5, CalmStep DEF CallsAllDue, LeavesRemaining, EntersBehind
  <1> QED  BY <1>1, <1>2, <1>3, <1>4, <1>5, DoTickKeeps DEF TimeoutsNext

-----------------------------------------------------------------------------
(* THE FINER CLOCK                                                         *)

(* The resolutions have a greatest one. *)
LEMMA LongestTickFacts ==
  LongestTick \in Nat /\ \A r \in Resolutions : r <= LongestTick
  <1> DEFINE n == Word * NS_IN_SEC
             I == {i \in 1 .. n : n - i \in Resolutions}
  <1>1. /\ n \in Nat /\ Resolutions # {}
        /\ \A r \in Resolutions : r \in Nat \ {0} /\ MaxTime + MaxDelay + r < n
        /\ MaxTime \in Nat /\ MaxDelay \in Nat
    BY TimeoutsAssumption, BoundsFit
  <1> HIDE DEF n
  <1>2. ASSUME NEW r \in Resolutions PROVE n - r \in I
    <2>1. r \in Nat /\ n - r \in 1 .. n /\ n - (n - r) = r
      BY <1>1
    <2> QED  BY <2>1
  <1>3. I # {} /\ I \in SUBSET (1 .. n)
    BY <1>1, <1>2
  <1>4. \A i \in I : i \in 1 .. n /\ n - i \in Resolutions
    OBVIOUS
  <1> HIDE DEF I
  <1>5. PICK k \in I : \A j \in I : k <= j
    BY <1>1, <1>3, MinOfPlaces
  <1>6. ASSUME NEW r \in Resolutions PROVE n - k >= r
    <2>1. k <= n - r /\ r \in Nat
      BY <1>1, <1>2, <1>5
    <2>2. k \in 1 .. n
      BY <1>4, <1>5
    <2> QED  BY <1>1, <2>1, <2>2
  <1>7. LongestTick \in Resolutions /\ \A r \in Resolutions : LongestTick >= r
    BY <1>4, <1>5, <1>6 DEF LongestTick, Max
  <1> QED  BY <1>1, <1>7

(* Between two ticks the clock runs from the last one to the next          *)
(* interrupt.                                                              *)
ClockInTick ==
  /\ clock \in Nat /\ interrupt \in Nat
  /\ DateValue(last_tick_time) <= clock /\ clock < interrupt
  /\ interrupt = DateValue(last_tick_time) + DateValue(tick_resolution)

(* A programmed action is not due before the last tick, and is due before  *)
(* the time it was asked for by less than a tick; by nothing when it was   *)
(* asked for at a date.                                                    *)
DueNearWish ==
  \A a \in Action : Programmed(a) =>
    /\ DateValue(last_tick_time) <= DateValue(timeout[a])
    /\ DateValue(timeout[a]) <= wish[a]
    /\ wish[a] < DateValue(timeout[a]) + LongestTick
    /\ a \in dated => wish[a] <= DateValue(timeout[a])

(* What NeverEarly lacks is less than a tick: a delay may be cut short by  *)
(* the part of the tick that has gone by when it is asked for.             *)
EarlyByLessThanATick == \A i \in DOMAIN called : wish[called[i]] < clock + LongestTick

CallsBounded ==
  /\ EarlyByLessThanATick
  /\ \A i \in DOMAIN called :
       /\ clock <= wish[called[i]] + LongestTick
       /\ called[i] \in dated => clock >= wish[called[i]]

RealTimeInv ==
  /\ TimeoutsInv
  /\ wish \in [Action -> Nat]
  /\ ClockInTick
  /\ DueNearWish
  /\ CallsBounded

(* The clock, the next interrupt and the last tick are numbers. *)
LEMMA RealTimeFacts ==
  ASSUME RealTimeInv
  PROVE  /\ clock \in Nat /\ interrupt \in Nat /\ LongestTick \in Nat
         /\ DateValue(last_tick_time) \in Nat
         /\ DateValue(tick_resolution) \in Nat \ {0}
         /\ DateValue(tick_resolution) <= LongestTick
         /\ \A a \in Action : DateValue(timeout[a]) \in Nat /\ wish[a] \in Nat
         /\ wish \in [Action -> Nat]
  <1>1. TimeoutsInv
    BY DEF RealTimeInv
  <1>2. DateValue(tick_resolution) \in Nat \ {0} /\ DateValue(tick_resolution) <= LongestTick
    BY <1>1, ResolutionFacts, LongestTickFacts
  <1> QED  BY <1>1, <1>2, ListFacts, LongestTickFacts DEF RealTimeInv, ClockInTick

(* What is known of the clock gives the bounds on the calls. *)
LEMMA RealTimeInvCallsInTime ==
  ASSUME RealTimeInv
  PROVE  CalledInTime
  <1>1. ASSUME NEW a \in Action, Programmed(a)
        PROVE  clock < wish[a] + LongestTick
    <2>1. /\ DateValue(last_tick_time) <= wish[a]
          /\ clock < DateValue(last_tick_time) + LongestTick
      BY <1>1, RealTimeFacts DEF RealTimeInv, ClockInTick, DueNearWish
    <2> QED  BY <2>1, RealTimeFacts
  <1> QED  BY <1>1 DEF CalledInTime, CallsBounded, RealTimeInv

(* Nothing was called by a step that is not a tick. *)
LEMMA NothingCalled == called' = <<>> => CallsBounded'
  BY DEF CallsBounded, EarlyByLessThanATick

(* The invariant holds at the beginning. *)
LEMMA RealTimeInitInv == RealTimeInit => RealTimeInv
  <1> SUFFICES ASSUME RealTimeInit PROVE RealTimeInv
    OBVIOUS
  <1>1. /\ TimeoutsInv /\ DateValue(last_tick_time) = 0 /\ called = <<>>
        /\ \A a \in Action : ~ Programmed(a)
    BY TimeoutsInitInv DEF RealTimeInit
  <1>2. DateValue(tick_resolution) \in Nat \ {0}
    BY <1>1, ResolutionFacts
  <1> QED
    BY <1>1, <1>2 DEF RealTimeInit, RealTimeInv, ClockInTick, DueNearWish, CallsBounded,
                      EarlyByLessThanATick

(* Time that passes between two interrupts keeps the invariant. *)
LEMMA PassStep ==
  ASSUME RealTimeInv, Pass
  PROVE  RealTimeInv'
  <1>1. Calm /\ called' = <<>>
    BY DEF Pass, Calm
  <1>2. /\ TimeoutsInv' /\ last_tick_time' = last_tick_time /\ timeout' = timeout
        /\ \A x \in Action : Programmed(x)' <=> Programmed(x)
    BY <1>1, CalmStep DEF RealTimeInv
  <1>3. ClockInTick'
    BY <1>2, RealTimeFacts DEF Pass, RealTimeInv, ClockInTick
  <1> QED  BY <1>1, <1>2, <1>3, NothingCalled DEF RealTimeInv, Pass, DueNearWish

(* The action of a step that programs it: due no earlier than the last     *)
(* tick, asked for less than a tick later than due, no later when it was   *)
(* asked for at a date.                                                    *)
LEMMA ProgramStep ==
  ASSUME RealTimeInv, NEW a \in Action, NEW due \in Date, NEW w \in Nat,
         DateValue(due) <= MaxTime + MaxDelay, AddAction(a, due),
         DateValue(last_tick_time) <= DateValue(due),
         DateValue(due) <= w, w < DateValue(due) + LongestTick,
         wish' = [wish EXCEPT ![a] = w], UNCHANGED <<clock, interrupt>>,
         \A x \in Action \ {a} : x \in dated' => x \in dated,
         a \in dated' => w <= DateValue(due)
  PROVE  RealTimeInv'
  <1>1. /\ TimeoutsInv' /\ called' = <<>>
        /\ timeout' = [timeout EXCEPT ![a] = due]
        /\ last_tick_time' = last_tick_time /\ tick_resolution' = tick_resolution
        /\ \A x \in Action : Programmed(x)' <=> Programmed(x) \/ x = a
    BY AddActionStep DEF RealTimeInv
  <1>2. \A x \in Action : timeout'[x] = IF x = a THEN due ELSE timeout[x]
    BY <1>1 DEF RealTimeInv, TimeoutsInv, TimeoutsTypeOK
  <1>3. /\ wish' \in [Action -> Nat]
        /\ \A x \in Action : wish'[x] = IF x = a THEN w ELSE wish[x]
    BY DEF RealTimeInv
  <1>4. ClockInTick'
    BY <1>1 DEF RealTimeInv, ClockInTick
  <1>5. DueNearWish'
    BY <1>1, <1>2, <1>3 DEF RealTimeInv, DueNearWish
  <1> QED  BY <1>1, <1>3, <1>4, <1>5, NothingCalled DEF RealTimeInv

(* A delay asked for keeps the invariant. *)
LEMMA ProgramInStep ==
  ASSUME RealTimeInv, NEW a \in Action, NEW delay \in 0 .. MaxDelay, ProgramIn(a, delay)
  PROVE  RealTimeInv'
  <1>1. /\ RegisterRelative(a, DateOf(delay)) /\ wish' = [wish EXCEPT ![a] = clock + delay]
        /\ dated' = dated \ {a} /\ UNCHANGED <<clock, interrupt>> /\ TimeoutsInv
    BY DEF ProgramIn, RealTimeInv
  <1>2. PICK due \in Date : /\ AddAction(a, due)
                            /\ DateValue(due) = DateValue(last_tick_time) + delay
                            /\ DateValue(due) <= MaxTime + MaxDelay
    BY <1>1, RegisterRelativeIsAdd
  <1>3. delay \in Nat
    BY BoundsFit
  <1>4. /\ DateValue(last_tick_time) <= DateValue(due)
        /\ DateValue(due) <= clock + delay
        /\ clock + delay < DateValue(due) + LongestTick
        /\ clock + delay \in Nat
    BY <1>2, <1>3, RealTimeFacts DEF RealTimeInv, ClockInTick
  <1> QED  BY <1>1, <1>2, <1>4, ProgramStep

(* A date asked for keeps the invariant. *)
LEMMA ProgramAtStep ==
  ASSUME RealTimeInv, NEW a \in Action, NEW date \in 0 .. MaxTime, ProgramAt(a, date)
  PROVE  RealTimeInv'
  <1>1. /\ RegisterAbsolute(a, DateOf(date)) /\ wish' = [wish EXCEPT ![a] = date]
        /\ dated' = dated \union {a} /\ UNCHANGED <<clock, interrupt>> /\ TimeoutsInv
    BY DEF ProgramAt, RealTimeInv
  <1>2. PICK due \in Date : /\ AddAction(a, due)
                            /\ DateValue(due) = date /\ DateValue(last_tick_time) <= date
                            /\ DateValue(due) <= MaxTime + MaxDelay
    BY <1>1, RegisterAbsoluteIsAdd
  <1>3. date \in Nat
    BY BoundsFit
  <1>4. date <= DateValue(due) /\ DateValue(due) <= date /\ date < DateValue(due) + LongestTick
    BY <1>2, <1>3, RealTimeFacts
  <1> QED  BY <1>1, <1>2, <1>3, <1>4, ProgramStep

(* An action taken back keeps the invariant. *)
LEMMA RealTimeUnregisterStep ==
  ASSUME RealTimeInv, NEW a \in Action, Unregister(a), UNCHANGED <<clock, interrupt, wish, dated>>
  PROVE  RealTimeInv'
  <1>1. /\ TimeoutsInv' /\ called' = <<>>
        /\ timeout' = [timeout EXCEPT ![a] = Remaining(a, last_tick_time)]
        /\ last_tick_time' = last_tick_time /\ tick_resolution' = tick_resolution
        /\ \A x \in Action : Programmed(x)' <=> Programmed(x) /\ x # a
    BY UnregisterStep DEF RealTimeInv
  <1>2. \A x \in Action : x # a => timeout'[x] = timeout[x]
    BY <1>1 DEF RealTimeInv, TimeoutsInv, TimeoutsTypeOK
  <1>3. ClockInTick' /\ DueNearWish'
    BY <1>1, <1>2 DEF RealTimeInv, ClockInTick, DueNearWish
  <1> QED  BY <1>1, <1>3, NothingCalled DEF RealTimeInv

(* A new resolution keeps the invariant: it takes effect at once. *)
LEMMA ChangeResolutionStep ==
  ASSUME RealTimeInv, NEW r \in Resolutions, ChangeResolution(r)
  PROVE  RealTimeInv'
  <1>1. /\ SetTickResolution(DateOf(r)) /\ clock + DateValue(tick_resolution) = interrupt
        /\ interrupt' = clock + r /\ UNCHANGED <<clock, wish, dated>>
    BY DEF ChangeResolution
  <1>2. /\ TimeoutsInv' /\ called' = <<>>
        /\ DateValue(tick_resolution') = r
        /\ last_tick_time' = last_tick_time /\ timeout' = timeout
        /\ timeout_action_list' = timeout_action_list
    BY <1>1, SetTickResolutionStep DEF RealTimeInv
  <1>3. clock = DateValue(last_tick_time)
    BY <1>1, RealTimeFacts DEF RealTimeInv, ClockInTick
  <1>4. r \in Nat \ {0}
    BY ResolutionDates
  <1>5. ClockInTick'
    BY <1>1, <1>2, <1>3, <1>4, RealTimeFacts DEF ClockInTick
  <1> QED
    BY <1>1, <1>2, <1>5, NothingCalled DEF RealTimeInv, DueNearWish, Programmed

(* The interrupt, whose tick is one resolution later, keeps the invariant. *)
LEMMA TimerInterruptStep ==
  ASSUME RealTimeInv, TimerInterrupt
  PROVE  RealTimeInv'
  <1>1. /\ DoTick /\ clock + 1 = interrupt /\ clock' = interrupt
        /\ interrupt' = interrupt + DateValue(tick_resolution) /\ wish' = wish
        /\ dated' = dated
    BY DEF TimerInterrupt
  <1>2. /\ TimeoutsInv'
        /\ tick_resolution' = tick_resolution
        /\ DateValue(last_tick_time') = DateValue(last_tick_time) + DateValue(tick_resolution)
        /\ \A x \in Action :
              /\ Contains(called', x)
                   <=> Programmed(x) /\ DateValue(timeout[x]) <= DateValue(last_tick_time')
              /\ Programmed(x)' <=> Programmed(x) /\ ~ Contains(called', x)
              /\ timeout'[x] = IF Contains(called', x) THEN Remaining(x, last_tick_time')
                                                      ELSE timeout[x]
    BY <1>1, DoTickStep DEF RealTimeInv
  <1>3. interrupt = DateValue(last_tick_time')
    BY <1>2 DEF RealTimeInv, ClockInTick
  <1>4. ClockInTick'
    BY <1>1, <1>2, <1>3, RealTimeFacts DEF ClockInTick
  <1>5. ASSUME NEW x \in Action, Programmed(x)'
        PROVE  /\ DateValue(last_tick_time') <= DateValue(timeout'[x])
               /\ DateValue(timeout'[x]) <= wish'[x]
               /\ wish'[x] < DateValue(timeout'[x]) + LongestTick
               /\ x \in dated' => wish'[x] <= DateValue(timeout'[x])
    <2>1. /\ Programmed(x) /\ timeout'[x] = timeout[x]
          /\ ~ (DateValue(timeout[x]) <= DateValue(last_tick_time'))
      BY <1>2, <1>5
    <2>2. DateValue(last_tick_time') <= DateValue(timeout[x])
      BY <1>3, <2>1, RealTimeFacts
    <2> QED  BY <1>1, <2>1, <2>2 DEF RealTimeInv, DueNearWish
  <1>6. DueNearWish'
    BY <1>5 DEF DueNearWish
  <1>7. ASSUME NEW x \in Action, Contains(called', x)
        PROVE  /\ wish'[x] < clock' + LongestTick
               /\ clock' <= wish'[x] + LongestTick
               /\ x \in dated' => clock' >= wish'[x]
    <2>1. Programmed(x) /\ DateValue(timeout[x]) <= clock'
      BY <1>1, <1>2, <1>3, <1>7
    <2>2. /\ DateValue(last_tick_time) <= DateValue(timeout[x])
          /\ DateValue(timeout[x]) <= wish[x]
          /\ wish[x] < DateValue(timeout[x]) + LongestTick
          /\ x \in dated => wish[x] <= DateValue(timeout[x])
      BY <2>1 DEF RealTimeInv, DueNearWish
    <2>3. clock' = DateValue(last_tick_time) + DateValue(tick_resolution)
      BY <1>1, <1>2, <1>3
    <2> QED  BY <1>1, <2>1, <2>2, <2>3, RealTimeFacts
  <1>8. CallsBounded'
    <2>1. called' \in Seq(Action)
      BY <1>2 DEF TimeoutsInv, TimeoutsTypeOK
    <2>2. /\ DOMAIN called' = 1 .. Len(called')
          /\ \A i \in 1 .. Len(called') : called'[i] \in Action
      BY <2>1, LenProperties, ElementOfSeq
    <2>3. \A i \in DOMAIN called' : Contains(called', called'[i])
      BY <2>2 DEF Contains
    <2> QED  BY <1>7, <2>2, <2>3 DEF CallsBounded, EarlyByLessThanATick
  <1>9. wish' \in [Action -> Nat]
    BY <1>1, RealTimeFacts
  <1> QED  BY <1>2, <1>4, <1>6, <1>8, <1>9 DEF RealTimeInv

(* A step that changes nothing keeps the invariant. *)
LEMMA RealTimeStutterInv ==
  ASSUME RealTimeInv, UNCHANGED realtime_vars
  PROVE  RealTimeInv'
  <1>1. Calm /\ UNCHANGED <<clock, interrupt, wish, dated, called>>
    BY DEF realtime_vars, Calm
  <1>2. TimeoutsInv'
    BY <1>1, CalmStep DEF RealTimeInv
  <1> QED
    BY <1>1, <1>2 DEF realtime_vars, RealTimeInv, ClockInTick, DueNearWish, CallsBounded,
       EarlyByLessThanATick, Programmed

(* Every step keeps the invariant. *)
LEMMA RealTimeNextInv == RealTimeInv /\ [RealTimeNext]_realtime_vars => RealTimeInv'
  BY PassStep, TimerInterruptStep, ProgramInStep, ProgramAtStep, RealTimeUnregisterStep,
     ChangeResolutionStep, RealTimeStutterInv DEF RealTimeNext

(* On the list, each step is an operation or nothing. *)
LEMMA RealTimeStepsOnList == [RealTimeNext]_realtime_vars => TimeoutsNext \/ Calm
  BY DEF RealTimeNext, realtime_vars, TimeoutsNext, Calm, Pass, TimerInterrupt, ProgramIn,
         ProgramAt, ChangeResolution

(* Every step keeps the three action properties. *)
LEMMA RealTimeStepKeeps ==
  ASSUME RealTimeInv, [RealTimeNext]_realtime_vars
  PROVE  CallsAllDue /\ LeavesRemaining /\ EntersBehind
  BY RealTimeStepsOnList, TimeoutsStepKeeps DEF RealTimeInv

-----------------------------------------------------------------------------
(* THEOREMS                                                                *)

(* The inductive invariant holds in every reachable state. *)
THEOREM RealTimeInvariance == RealTimeSpec => []RealTimeInv
  BY RealTimeInitInv, RealTimeNextInv, PTL DEF RealTimeSpec

(* Type correctness of the clock of ticks and of the list. *)
THEOREM TimeoutsTypeCorrect == RealTimeSpec => []TimeoutsTypeOK
  <1>1. RealTimeInv => TimeoutsTypeOK
    BY DEF RealTimeInv, TimeoutsInv
  <1> QED  BY <1>1, RealTimeInvariance, PTL

(* The list is always sorted by due date and holds each action once. *)
THEOREM ListAlwaysInDueOrder == RealTimeSpec => []ListInDueOrder
  <1>1. RealTimeInv => ListInDueOrder
    BY DEF RealTimeInv, TimeoutsInv
  <1> QED  BY <1>1, RealTimeInvariance, PTL

(* No action is called late, and none that was asked for at a date is      *)
(* called early.                                                           *)
THEOREM AlwaysCalledInTime == RealTimeSpec => []CalledInTime
  BY RealTimeInvCallsInTime, RealTimeInvariance, PTL

(* A delay that is cut short is so by less than one tick: how far the code *)
(* is from NeverEarly.                                                     *)
THEOREM NeverEarlyByATick == RealTimeSpec => []EarlyByLessThanATick
  <1>1. RealTimeInv => EarlyByLessThanATick
    BY DEF RealTimeInv, CallsBounded
  <1> QED  BY <1>1, RealTimeInvariance, PTL

(* A tick calls what is due, all of it, once, and nothing else. *)
THEOREM TicksCallAllDue == RealTimeSpec => TickCallsAllDue
  <1>1. ASSUME RealTimeInv, [RealTimeNext]_realtime_vars
        PROVE  [last_tick_time' # last_tick_time =>
                 /\ ToSet(called') = {a \in Action : /\ Programmed(a)
                                                     /\ DateValue(timeout[a]) <= DateValue(last_tick_time')}
                 /\ Len(called') = Cardinality(ToSet(called'))]_timeouts_vars
    BY <1>1, RealTimeStepKeeps DEF CallsAllDue
  <1> QED  BY <1>1, RealTimeInvariance, PTL DEF TickCallsAllDue, RealTimeSpec

(* An action that leaves the list keeps the time that remained. *)
THEOREM RemainingAlwaysExact == RealTimeSpec => RemainingIsExact
  <1>1. RealTimeInv /\ [RealTimeNext]_realtime_vars => [LeavesRemaining]_timeouts_vars
    BY RealTimeStepKeeps
  <1>2. RealTimeSpec => [][LeavesRemaining]_timeouts_vars
    BY <1>1, RealTimeInvariance, PTL DEF RealTimeSpec
  <1> QED  BY <1>2 DEF RemainingIsExact, LeavesRemaining

(* Actions due at the same date keep the order of their programming. *)
THEOREM FirstProgrammedStaysFirst == RealTimeSpec => FirstProgrammedFirst
  <1>1. RealTimeInv /\ [RealTimeNext]_realtime_vars => [EntersBehind]_timeouts_vars
    BY RealTimeStepKeeps
  <1>2. RealTimeSpec => [][EntersBehind]_timeouts_vars
    BY <1>1, RealTimeInvariance, PTL DEF RealTimeSpec
  <1> QED  BY <1>2 DEF FirstProgrammedFirst, EntersBehind

=============================================================================
