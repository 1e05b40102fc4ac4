----------------------------- MODULE TimeArith -----------------------------
(***************************************************************************)
(* The arithmetic of dates of src/os/time.c: struct sos_time is a pair of  *)
(* unsigned words, seconds and nanoseconds.  The timeout actions           *)
(* (Timeouts) compute with these pairs; their properties are stated on the *)
(* number DateValue gives a pair.                                          *)
(***************************************************************************)
EXTENDS Integers

CONSTANTS
  NS_IN_SEC,   \* 10^9 in the code
  Word         \* number of values of a machine word, 2^32 in the code

(* The comments of sos_time_inc() and sos_time_dec(): the sum of two       *)
(* nanosecond fields fits an unsigned word, their difference a signed one. *)
ASSUME WordAssumption ==
  /\ NS_IN_SEC \in Nat \ {0}
  /\ Word \in Nat
  /\ 2 * NS_IN_SEC <= Word

Date == [sec : 0 .. Word - 1, nanosec : 0 .. NS_IN_SEC - 1]

Zero == [sec |-> 0, nanosec |-> 0]

DateValue(t) == t.sec * NS_IN_SEC + t.nanosec

(* The date a caller writes for a number of nanoseconds. *)
DateOf(ns) == [sec |-> ns \div NS_IN_SEC, nanosec |-> ns % NS_IN_SEC]

-----------------------------------------------------------------------------
(* sos_time_inc() *)
TimeInc_NoCarry(t, to_add) ==     \* mutant: the carry of nanoseconds is dropped
  [sec |-> (t.sec + to_add.sec) % Word,
   nanosec |-> ((t.nanosec + to_add.nanosec) % Word) % NS_IN_SEC]

TimeInc(t, to_add) ==
  LET sigma_ns == (t.nanosec + to_add.nanosec) % Word
  IN [sec |-> (t.sec + to_add.sec + sigma_ns \div NS_IN_SEC) % Word,
      nanosec |-> sigma_ns % NS_IN_SEC]

(* sos_time_dec(): the difference is a signed word, NS_IN_SEC + diff_ns an *)
(* unsigned one.                                                           *)
TimeDec_NoBorrow(t, to_dec) ==    \* mutant: without the final sec --
  LET diff_ns == t.nanosec - to_dec.nanosec
  IN [sec |-> (t.sec - to_dec.sec) % Word,
      nanosec |-> ((NS_IN_SEC + diff_ns) % Word) % NS_IN_SEC]

TimeDec_NoModulo(t, to_dec) ==    \* mutant: the nanoseconds are not reduced
  LET borrow == IF t.nanosec < to_dec.nanosec THEN 1 ELSE 0
  IN [sec |-> (t.sec - to_dec.sec - borrow) % Word,
      nanosec |-> (NS_IN_SEC + t.nanosec - to_dec.nanosec) % Word]

TimeDec(t, to_dec) ==
  LET diff_ns == t.nanosec - to_dec.nanosec
      whole == IF diff_ns > 0 THEN diff_ns \div NS_IN_SEC
                              ELSE - ((- diff_ns) \div NS_IN_SEC)
      borrow == IF diff_ns < 0 THEN 1 ELSE 0
  IN [sec |-> (t.sec - to_dec.sec + whole - borrow) % Word,
      nanosec |-> ((NS_IN_SEC + diff_ns) % Word) % NS_IN_SEC]

(* sos_time_cmp() *)
TimeCmp_NanosecFirst(t1, t2) ==   \* mutant: nanoseconds are compared first
  IF t1.nanosec < t2.nanosec THEN -1
  ELSE IF t1.nanosec > t2.nanosec THEN 1 ELSE 0

TimeCmp(t1, t2) ==
  IF t1.sec < t2.sec THEN -1
  ELSE IF t1.sec > t2.sec THEN 1
  ELSE IF t1.nanosec < t2.nanosec THEN -1
  ELSE IF t1.nanosec > t2.nanosec THEN 1
  ELSE 0

=============================================================================
