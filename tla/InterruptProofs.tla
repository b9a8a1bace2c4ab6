--------------------------- MODULE InterruptProofs --------------------------
(***************************************************************************)
(* Three things that are done between two instructions of a task.  The     *)
(* sorted list of time-outs and the handler of the timer's interrupt are a *)
(* countdown for each time-out: for any number of time-outs, any size of   *)
(* the word and any distance, as long as the callers ask for ticks that    *)
(* the handler expects.  Every task finds its own values in the            *)
(* floating-point registers, whatever the tasks calculate; and every task  *)
(* gets its own registers back from an interrupt: for any number of tasks. *)
(***************************************************************************)
EXTENDS Timer, Fpu, Exceptions, QueueProofs, FiniteSetTheorems, WellFoundedInduction

-----------------------------------------------------------------------------
(* The time-outs. *)

TimerType ==
    /\ tick \in 0 .. Word - 1 /\ timeout \in [TimeOuts -> 0 .. Word - 1]
    /\ pending \in Seq(TimeOuts) /\ notices \in Seq(TimeOuts)
    /\ fault = FALSE

\* No time-out is on the list and on the queue, or on one of them twice.
Apart ==
    /\ Distinct(pending) /\ Distinct(notices)
    /\ \A t \in TimeOuts : ~In(t, pending) \/ ~In(t, notices)

\* How far ahead the ith time-out of the list is.
Distance(i) == Ahead(timeout[pending[i]])

\* The list is in the order of the distances, all of them ahead, and none is for
\* a tick that the queue's length can equal.
Sorted == \A i, j \in 1 .. Len(pending) : i < j => Distance(i) < Distance(j)
Within ==
    \A i \in 1 .. Len(pending) :
        /\ Distance(i) \in 1 .. MaxAhead
        /\ timeout[pending[i]] \notin 1 .. Cardinality(TimeOuts)

TimerInv == TimerType /\ Apart /\ Sorted /\ Within

-----------------------------------------------------------------------------
(* Ticks, in a word of any size. *)

\* A tick count differs from the one before by one, and wraps at the word's end;
\* and what is ahead is a tick closer after each tick, if it was ahead at all.
LEMMA WordArithmetic ==
    ASSUME NEW low \in 0 .. Word - 1
    PROVE  /\ \A n \in 0 .. Word - 1 :
                 /\ (low + n) % Word \in 0 .. Word - 1
                 /\ (((low + n) % Word) - low) % Word = n
           /\ \A x \in 0 .. Word - 1 : (x - low) % Word = IF x >= low THEN x - low ELSE x - low + Word
<1> USE WordAssumption
<1>1. ASSUME NEW a \in Int, 0 <= a, a < Word PROVE a % Word = a
  BY <1>1
<1>2. ASSUME NEW a \in Int, -Word <= a, a < 0 PROVE a % Word = a + Word
  BY <1>2
<1>3. ASSUME NEW a \in Int, Word <= a, a < 2 * Word PROVE a % Word = a - Word
  BY <1>3
<1>4. \A x \in 0 .. Word - 1 : (x - low) % Word = IF x >= low THEN x - low ELSE x - low + Word
  BY <1>1, <1>2
<1>5. ASSUME NEW n \in 0 .. Word - 1
      PROVE  (low + n) % Word = IF low + n < Word THEN low + n ELSE low + n - Word
  BY <1>1, <1>3
<1>6. ASSUME NEW n \in 0 .. Word - 1
      PROVE  /\ (low + n) % Word \in 0 .. Word - 1
             /\ (((low + n) % Word) - low) % Word = n
  <2> DEFINE x == (low + n) % Word
  <2>1. x = IF low + n < Word THEN low + n ELSE low + n - Word
    BY <1>5
  <2> HIDE DEF x
  <2>2. x \in 0 .. Word - 1
    BY <2>1
  <2>3. (x - low) % Word = n
    BY <1>4, <2>1, <2>2
  <2>4. QED BY <2>2, <2>3 DEF x
<1>7. QED BY <1>4, <1>6

\* How far ahead a tick is.
LEMMA AheadIs ==
    ASSUME tick \in 0 .. Word - 1, NEW x \in 0 .. Word - 1
    PROVE  Ahead(x) = IF x >= tick THEN x - tick ELSE x - tick + Word
BY WordArithmetic DEF Ahead

\* The next tick, and how far ahead everything is then.
LEMMA NextTick ==
    ASSUME tick \in 0 .. Word - 1
    PROVE  LET low == (tick + 1) % Word
           IN  /\ low \in 0 .. Word - 1
               /\ \A x \in 0 .. Word - 1 :
                     /\ Ahead(x) # 0 => (x - low) % Word = Ahead(x) - 1
                     /\ Ahead(x) = 1 <=> x = low
<1> USE WordAssumption
<1> DEFINE low == (tick + 1) % Word
<1>1. 1 \in 0 .. Word - 1
  OBVIOUS
<1>2. low \in 0 .. Word - 1 /\ (low - tick) % Word = 1
  BY <1>1, WordArithmetic
<1>3. (low - tick) % Word = IF low >= tick THEN low - tick ELSE low - tick + Word
  BY <1>2, WordArithmetic
<1>4. \A x \in 0 .. Word - 1 : (x - low) % Word = IF x >= low THEN x - low ELSE x - low + Word
  BY <1>2, WordArithmetic
<1>5. \A x \in 0 .. Word - 1 : Ahead(x) = IF x >= tick THEN x - tick ELSE x - tick + Word
  BY AheadIs
<1> HIDE DEF low
<1>6. \A x \in 0 .. Word - 1 : (Ahead(x) # 0 => (x - low) % Word = Ahead(x) - 1) /\ (Ahead(x) = 1 <=> x = low)
  BY <1>2, <1>3, <1>4, <1>5
<1>7. QED BY <1>2, <1>6 DEF low

-----------------------------------------------------------------------------
(* The list. *)

\* Linking an element before the kth of a sequence.
LinkedBefore(s, x, k) == SubSeq(s, 1, k - 1) \o <<x>> \o SubSeq(s, k, Len(s))

\* What linking a time-out before another does to the list's length and elements.
LEMMA LinkedBeforeLemma ==
    ASSUME NEW S, NEW s \in Seq(S), NEW x \in S, NEW k \in 1 .. Len(s) + 1
    PROVE  LET r == LinkedBefore(s, x, k)
           IN  /\ r \in Seq(S) /\ Len(r) = Len(s) + 1
               /\ \A i \in 1 .. Len(s) + 1 : r[i] = IF i < k THEN s[i] ELSE IF i = k THEN x ELSE s[i - 1]
<1> DEFINE a == SubSeq(s, 1, k - 1)
           b == SubSeq(s, k, Len(s))
           c == a \o <<x>>
           r == c \o b
<1>1. Len(s) \in Nat /\ \A i \in 1 .. Len(s) : s[i] \in S
  OBVIOUS
<1>2. /\ a \in Seq(S) /\ Len(a) = k - 1
      /\ \A i \in 1 .. k - 1 : a[i] = s[i]
  <2>1. \A i \in 1 .. k - 1 : s[i] \in S
    BY <1>1
  <2>2. /\ SubSeq(s, 1, k - 1) \in Seq(S)
        /\ Len(SubSeq(s, 1, k - 1)) = IF 1 <= k - 1 THEN k - 1 - 1 + 1 ELSE 0
        /\ \A i \in 1 .. k - 1 - 1 + 1 : SubSeq(s, 1, k - 1)[i] = s[1 + i - 1]
    BY <2>1, SubSeqProperties
  <2> HIDE DEF a
  <2>3. QED BY <1>1, <2>2 DEF a
<1>3. /\ b \in Seq(S) /\ Len(b) = Len(s) - k + 1
      /\ \A i \in 1 .. Len(s) - k + 1 : b[i] = s[k + i - 1]
  <2>1. \A i \in k .. Len(s) : s[i] \in S
    BY <1>1
  <2>2. /\ SubSeq(s, k, Len(s)) \in Seq(S)
        /\ Len(SubSeq(s, k, Len(s))) = IF k <= Len(s) THEN Len(s) - k + 1 ELSE 0
        /\ \A i \in 1 .. Len(s) - k + 1 : SubSeq(s, k, Len(s))[i] = s[k + i - 1]
    BY <2>1, SubSeqProperties
  <2>3. QED BY <1>1, <2>2
<1>4. <<x>> \in Seq(S) /\ Len(<<x>>) = 1 /\ <<x>>[1] = x
  OBVIOUS
<1> HIDE DEF a, b
<1>5. /\ c \in Seq(S) /\ Len(c) = Len(a) + Len(<<x>>)
      /\ \A i \in 1 .. Len(a) + Len(<<x>>) : c[i] = IF i <= Len(a) THEN a[i] ELSE <<x>>[i - Len(a)]
  BY <1>2, <1>4, ConcatProperties
<1> HIDE DEF c
<1>6. Len(c) = k /\ \A i \in 1 .. k : c[i] = IF i < k THEN s[i] ELSE x
  <2>1. Len(c) = k
    BY <1>1, <1>2, <1>4, <1>5
  <2>2. ASSUME NEW i \in 1 .. k PROVE c[i] = IF i < k THEN s[i] ELSE x
    <3>1. c[i] = IF i <= k - 1 THEN a[i] ELSE <<x>>[i - (k - 1)]
      BY <1>1, <1>2, <1>4, <1>5
    <3>2. CASE i < k
      BY <1>1, <1>2, <3>1, <3>2
    <3>3. CASE i = k
      BY <1>1, <1>4, <3>1, <3>3
    <3>4. QED BY <1>1, <3>2, <3>3
  <2>3. QED BY <2>1, <2>2
<1>7. /\ r \in Seq(S) /\ Len(r) = Len(c) + Len(b)
      /\ \A i \in 1 .. Len(c) + Len(b) : r[i] = IF i <= Len(c) THEN c[i] ELSE b[i - Len(c)]
  <2>1. c \in Seq(S) /\ b \in Seq(S)
    BY <1>3, <1>5
  <2>2. QED BY <2>1, ConcatProperties
<1> HIDE DEF r
<1>8. Len(r) = Len(s) + 1
  BY <1>1, <1>3, <1>6, <1>7
<1>9. ASSUME NEW i \in 1 .. Len(s) + 1
      PROVE  r[i] = IF i < k THEN s[i] ELSE IF i = k THEN x ELSE s[i - 1]
  <2>1. r[i] = IF i <= k THEN c[i] ELSE b[i - k]
    BY <1>1, <1>3, <1>6, <1>7
  <2>2. CASE i <= k
    BY <1>6, <2>1, <2>2
  <2>3. CASE i > k
    <3>1. i - k \in 1 .. Len(s) - k + 1 /\ k + (i - k) - 1 = i - 1
      BY <1>1, <2>3
    <3>2. b[i - k] = s[i - 1]
      BY <1>3, <3>1
    <3>3. QED BY <2>1, <2>3, <3>2
  <2>4. QED BY <1>1, <2>2, <2>3
<1>10. LinkedBefore(s, x, k) = r
  BY DEF LinkedBefore, r, c, a, b
<1>11. QED BY <1>7, <1>8, <1>9, <1>10

\* Where a time-out that is n ticks ahead is linked: behind all that are closer,
\* and before all others (timer.c, ckTimerSet).
LEMMA PlaceFits ==
    ASSUME TimerType, Sorted, Within, NEW x \in 0 .. Word - 1
    PROVE  /\ Place(x) \in 1 .. Len(pending) + 1
           /\ \A i \in 1 .. Len(pending) : i < Place(x) => Distance(i) < Ahead(x)
           /\ \A i \in 1 .. Len(pending) : i >= Place(x) => Ahead(x) <= Distance(i)
<1> USE WordAssumption
<1> DEFINE later == {i \in 1 .. Len(pending) : Ahead(x) <= Distance(i)}
<1>1. /\ Len(pending) \in Nat /\ Ahead(x) \in Nat
      /\ \A i \in 1 .. Len(pending) : Distance(i) \in Nat
      /\ \A i, j \in 1 .. Len(pending) : i < j => Distance(i) < Distance(j)
  BY AheadIs DEF TimerType, Within, Sorted
<1>2. Place(x) = IF later = {} THEN Len(pending) + 1 ELSE CHOOSE i \in later : \A j \in later : i <= j
  BY DEF Place, Distance
<1>3. CASE later = {}
  <2>1. Place(x) = Len(pending) + 1
    BY <1>2, <1>3
  <2>2. \A i \in 1 .. Len(pending) : Distance(i) < Ahead(x)
    BY <1>1, <1>3
  <2>3. QED BY <1>1, <2>1, <2>2
<1>4. CASE later # {}
  <2>1. later \subseteq Nat
    OBVIOUS
  <2>2. \E y \in later : \A z \in later : ~ (<<z, y>> \in OpToRel(<, Nat))
    BY <1>4, <2>1, WFMin, NatLessThanWellFounded
  <2>3. \E y \in later : \A z \in later : y <= z
    <3>1. PICK y \in later : \A z \in later : ~ (<<z, y>> \in OpToRel(<, Nat))
      BY <2>2
    <3>2. \A z \in later : ~ (z < y)
      BY <2>1, <3>1 DEF OpToRel
    <3>3. QED BY <2>1, <3>2
  <2>4. Place(x) \in later /\ \A z \in later : Place(x) <= z
    BY <1>2, <1>4, <2>3
  <2> DEFINE k == Place(x)
  <2> HIDE DEF k
  <2>5. k \in 1 .. Len(pending) /\ Ahead(x) <= Distance(k)
    BY <2>4 DEF k
  <2>6. \A i \in 1 .. Len(pending) : i < k => Distance(i) < Ahead(x)
    BY <1>1, <2>4, <2>5 DEF k
  <2>7. \A i \in 1 .. Len(pending) : i >= k => Ahead(x) <= Distance(i)
    BY <1>1, <2>5
  <2>8. QED BY <1>1, <2>5, <2>6, <2>7 DEF k
<1>5. QED BY <1>3, <1>4

\* The queue holds every time-out once at most.
LEMMA QueueBounded ==
    ASSUME NEW s \in Seq(TimeOuts), Distinct(s)
    PROVE  Len(s) <= Cardinality(TimeOuts)
<1>1. Len(s) \in Nat /\ s \in [1 .. Len(s) -> TimeOuts]
  OBVIOUS
<1>2. IsFiniteSet(1 .. Len(s)) /\ Cardinality(1 .. Len(s)) = IF 1 > Len(s) THEN 0 ELSE Len(s) - 1 + 1
  BY <1>1, FS_Interval
<1>3. Cardinality(TimeOuts) \in Nat
  BY TimeOutsAssumption, FS_CardinalityType
<1>4. ~(Cardinality(TimeOuts) < Cardinality(1 .. Len(s)))
  <2>1. SUFFICES ASSUME Cardinality(TimeOuts) < Cardinality(1 .. Len(s)) PROVE FALSE
    OBVIOUS
  <2>2. \E a, b \in 1 .. Len(s) : a # b /\ s[a] = s[b]
    BY <1>1, <1>2, <2>1, TimeOutsAssumption, FS_PigeonHole
  <2>3. QED BY <2>2 DEF Distinct
<1>5. QED BY <1>1, <1>2, <1>3, <1>4

-----------------------------------------------------------------------------
(* What each operation does, with the list as a function of the index. *)

\* Without misuse a tick that is asked for is ahead, is nobody's, and is none
\* that the queue's length can equal.
LEMMA ExpectedTick ==
    ASSUME Misuses = {}, NEW x, Expected(x)
    PROVE  /\ Ahead(x) # 0 /\ x \notin 1 .. Cardinality(TimeOuts)
           /\ \A i \in 1 .. Len(pending) : timeout[pending[i]] # x
BY DEF Expected

\* ckTimerSet keeps the invariant, and sets exactly the given time-out.
LEMMA SetStep ==
    ASSUME TimerInv, Misuses = {}, NEW t \in TimeOuts, NEW n \in 0 .. MaxAhead, Set(t, n)
    PROVE  /\ TimerInv'
           /\ n \in 1 .. MaxAhead /\ ~In(t, pending) /\ ~In(t, notices) /\ notices' = notices
           /\ \A u \in TimeOuts : In(u, pending)' <=> In(u, pending) \/ u = t
           /\ Ahead(timeout[t])' = n
           /\ \A u \in TimeOuts : In(u, pending) => Ahead(timeout[u])' = Ahead(timeout[u])
<1> USE WordAssumption
<1> DEFINE x == (tick + n) % Word
           k == Place(x)
           l == Len(pending)
<1>1. TimerType /\ Apart /\ Sorted /\ Within
  BY DEF TimerInv
<1>2. /\ ~In(t, pending) /\ ~In(t, notices) /\ Expected(x) /\ ~fault
      /\ timeout' = [timeout EXCEPT ![t] = x]
      /\ pending' = SubSeq(pending, 1, k - 1) \o <<t>> \o SubSeq(pending, k, Len(pending))
      /\ UNCHANGED <<tick, notices, fault>>
  BY DEF Set
<1>3. x \in 0 .. Word - 1 /\ Ahead(x) = n
  <2>1. n \in 0 .. Word - 1
    OBVIOUS
  <2>2. QED BY <1>1, <2>1, WordArithmetic DEF Ahead, TimerType
<1>4. k \in 1 .. l + 1
  BY <1>1, <1>3, PlaceFits
<1>5. /\ pending' \in Seq(TimeOuts) /\ Len(pending') = l + 1
      /\ \A i \in 1 .. l + 1 : pending'[i] = IF i < k THEN pending[i] ELSE IF i = k THEN t ELSE pending[i - 1]
  <2>1. pending' = LinkedBefore(pending, t, k) /\ pending \in Seq(TimeOuts) /\ k \in 1 .. Len(pending) + 1
    BY <1>1, <1>2, <1>4 DEF TimerType, LinkedBefore
  <2> HIDE DEF k
  <2>2. QED BY <2>1, LinkedBeforeLemma, SMTT(40)
<1>6. /\ \A i \in 1 .. l : i < k => Distance(i) < n
      /\ \A i \in 1 .. l : i >= k => n < Distance(i)
  <2>1. /\ \A i \in 1 .. l : i < k => Distance(i) < n
        /\ \A i \in 1 .. l : i >= k => n <= Distance(i)
    BY <1>1, <1>3, PlaceFits
  <2>2. ASSUME NEW i \in 1 .. l, Distance(i) = n PROVE FALSE
    <3>1. timeout[pending[i]] \in 0 .. Word - 1 /\ timeout[pending[i]] # x /\ tick \in 0 .. Word - 1
      BY <1>1, <1>2, ExpectedTick, SMTT(40) DEF TimerType
    <3>2. Ahead(timeout[pending[i]]) = Ahead(x)
      BY <1>3, <2>2 DEF Distance
    <3> HIDE DEF x
    <3> DEFINE y == timeout[pending[i]]
    <3>3. Ahead(y) = IF y >= tick THEN y - tick ELSE y - tick + Word
      BY <3>1, AheadIs
    <3>4. Ahead(x) = IF x >= tick THEN x - tick ELSE x - tick + Word
      BY <1>3, <3>1, AheadIs
    <3> HIDE DEF y
    <3>5. y \in 0 .. Word - 1 /\ y # x /\ Ahead(y) = Ahead(x)
      BY <3>1, <3>2 DEF y
    <3>6. QED BY <1>3, <3>1, <3>3, <3>4, <3>5
  <2>3. \A i \in 1 .. l : Distance(i) \in Nat
    BY <1>1 DEF Within
  <2>4. QED BY <2>1, <2>2, <2>3
<1>7. n \in 1 .. MaxAhead /\ x \notin 1 .. Cardinality(TimeOuts)
  BY <1>2, <1>3, ExpectedTick
<1>8. l \in Nat /\ \A i \in 1 .. l : pending[i] \in TimeOuts /\ pending[i] # t
  <2>1. pending \in Seq(TimeOuts) /\ \A i \in 1 .. Len(pending) : pending[i] # t
    BY <1>1, <1>2 DEF TimerType, In
  <2>2. QED BY <2>1
<1> HIDE DEF x, k, l
<1>9. /\ timeout' \in [TimeOuts -> 0 .. Word - 1] /\ timeout'[t] = x
      /\ \A u \in TimeOuts : u # t => timeout'[u] = timeout[u]
  BY <1>1, <1>2, <1>3 DEF TimerType
<1>10. TimerType'
  BY <1>1, <1>2, <1>5, <1>9 DEF TimerType
<1>11. \A u : Ahead(u)' = Ahead(u)
  BY <1>2 DEF Ahead
<1>12. \A i \in 1 .. l + 1 : Distance(i)' = IF i < k THEN Distance(i) ELSE IF i = k THEN n ELSE Distance(i - 1)
  <2>1. SUFFICES ASSUME NEW i \in 1 .. l + 1
                 PROVE  Distance(i)' = IF i < k THEN Distance(i) ELSE IF i = k THEN n ELSE Distance(i - 1)
    OBVIOUS
  <2>2. Distance(i)' = Ahead(timeout'[pending'[i]])
    BY <1>11 DEF Distance
  <2>3. CASE i < k
    <3>1. i \in 1 .. l /\ pending'[i] = pending[i]
      BY <1>4, <1>5, <1>8, <2>3
    <3>2. QED BY <1>8, <1>9, <2>2, <2>3, <3>1 DEF Distance
  <2>4. CASE i = k
    BY <1>3, <1>5, <1>9, <2>2, <2>4
  <2>5. CASE i > k
    <3>1. i - 1 \in 1 .. l /\ pending'[i] = pending[i - 1] /\ ~(i < k) /\ i # k
      BY <1>4, <1>5, <1>8, <2>5
    <3>2. QED BY <1>8, <1>9, <2>2, <3>1 DEF Distance
  <2>6. QED BY <1>4, <1>8, <2>3, <2>4, <2>5
<1>13. /\ \A i \in 1 .. l : Distance(i) \in 1 .. MaxAhead
       /\ \A i, j \in 1 .. l : i < j => Distance(i) < Distance(j)
  BY <1>1 DEF Within, Sorted, l
<1>14. Sorted'
  <2>1. SUFFICES ASSUME NEW i \in 1 .. l + 1, NEW j \in 1 .. l + 1, i < j
                 PROVE  Distance(i)' < Distance(j)'
    BY <1>5 DEF Sorted
  <2>2. CASE j < k
    <3>1. i \in 1 .. l /\ j \in 1 .. l /\ i < k
      BY <1>4, <1>8, <2>1, <2>2
    <3>2. QED BY <1>12, <1>13, <2>1, <2>2, <3>1
  <2>3. CASE j = k
    <3>1. i \in 1 .. l /\ i < k
      BY <1>4, <1>8, <2>1, <2>3
    <3>2. QED BY <1>6, <1>12, <2>3, <3>1
  <2>4. CASE j > k
    <3>1. j - 1 \in 1 .. l /\ ~(j < k) /\ j # k /\ j - 1 >= k
      BY <1>4, <1>8, <2>4
    <3>2. Distance(j)' = Distance(j - 1)
      BY <1>12, <3>1
    <3>3. CASE i < k
      <4>1. i \in 1 .. l /\ i < j - 1
        BY <1>4, <1>8, <3>1, <3>3
      <4>2. QED BY <1>12, <1>13, <3>1, <3>2, <3>3, <4>1
    <3>4. CASE i = k
      BY <1>6, <1>12, <3>1, <3>2, <3>4
    <3>5. CASE i > k
      <4>1. i - 1 \in 1 .. l /\ ~(i < k) /\ i # k /\ i - 1 < j - 1
        BY <1>4, <1>8, <2>1, <3>5
      <4>2. QED BY <1>12, <1>13, <3>1, <3>2, <4>1
    <3>6. QED BY <1>4, <1>8, <3>3, <3>4, <3>5
  <2>5. QED BY <1>4, <1>8, <2>2, <2>3, <2>4
<1>15. Within'
  <2>1. SUFFICES ASSUME NEW i \in 1 .. l + 1
                 PROVE  Distance(i)' \in 1 .. MaxAhead /\ timeout'[pending'[i]] \notin 1 .. Cardinality(TimeOuts)
    BY <1>5 DEF Within
  <2>2. \A j \in 1 .. l : /\ timeout[pending[j]] \notin 1 .. Cardinality(TimeOuts)
                          /\ timeout'[pending[j]] = timeout[pending[j]]
    BY <1>1, <1>8, <1>9 DEF Within, l
  <2>3. CASE i < k
    <3>1. i \in 1 .. l
      BY <1>4, <1>8, <2>3
    <3>2. QED BY <1>5, <1>12, <1>13, <2>2, <2>3, <3>1
  <2>4. CASE i = k
    BY <1>5, <1>7, <1>9, <1>12, <2>4
  <2>5. CASE i > k
    <3>1. i - 1 \in 1 .. l /\ ~(i < k) /\ i # k
      BY <1>4, <1>8, <2>5
    <3>2. QED BY <1>5, <1>12, <1>13, <2>2, <3>1
  <2>6. QED BY <1>4, <1>8, <2>3, <2>4, <2>5
<1>16. \A u : In(u, pending)' <=> In(u, pending) \/ u = t
  <2>1. ASSUME NEW i \in 1 .. l + 1 PROVE pending'[i] = t \/ \E j \in 1 .. l : pending'[i] = pending[j]
    <3>1. i < k => i \in 1 .. l
      BY <1>4, <1>8
    <3>2. i > k => i - 1 \in 1 .. l
      BY <1>4, <1>8
    <3>3. QED BY <1>4, <1>5, <1>8, <3>1, <3>2
  <2>2. ASSUME NEW j \in 1 .. l PROVE \E i \in 1 .. l + 1 : pending'[i] = pending[j]
    <3>1. CASE j < k
      <4>1. j \in 1 .. l + 1
        BY <1>8
      <4>2. QED BY <1>5, <3>1, <4>1
    <3>2. CASE j >= k
      <4>1. j + 1 \in 1 .. l + 1 /\ ~(j + 1 < k) /\ j + 1 # k /\ (j + 1) - 1 = j
        BY <1>4, <1>8, <3>2
      <4>2. pending'[j + 1] = pending[j]
        BY <1>5, <4>1
      <4>3. QED BY <4>1, <4>2
    <3>3. QED BY <1>4, <1>8, <3>1, <3>2
  <2>3. k \in 1 .. l + 1 /\ pending'[k] = t
    BY <1>4, <1>5
  <2>4. \A u : In(u, pending)' <=> \E i \in 1 .. l + 1 : pending'[i] = u
    BY <1>5 DEF In
  <2>5. \A u : In(u, pending) <=> \E j \in 1 .. l : pending[j] = u
    BY DEF In, l
  <2>6. QED BY <2>1, <2>2, <2>3, <2>4, <2>5
<1>17. Apart'
  <2>1. \A i, j \in 1 .. l : pending[i] = pending[j] => i = j
    BY <1>1 DEF Apart, Distinct, l
  <2>2. Distinct(pending)'
    <3>1. SUFFICES ASSUME NEW i \in 1 .. l + 1, NEW j \in 1 .. l + 1, pending'[i] = pending'[j]
                   PROVE  i = j
      BY <1>5 DEF Distinct
    <3>2. /\ i < k => i \in 1 .. l
          /\ i > k => i - 1 \in 1 .. l
          /\ j < k => j \in 1 .. l
          /\ j > k => j - 1 \in 1 .. l
      BY <1>4, <1>8
    <3>3. QED BY <1>4, <1>5, <1>8, <2>1, <3>1, <3>2
  <2>3. Distinct(notices)' /\ \A u : In(u, notices)' <=> In(u, notices)
    BY <1>1, <1>2 DEF Apart, Distinct, In
  <2>4. QED BY <1>1, <1>2, <1>16, <2>2, <2>3 DEF Apart
<1>18. \A u \in TimeOuts : In(u, pending) => Ahead(timeout[u])' = Ahead(timeout[u])
  BY <1>2, <1>9, <1>11
<1>19. QED BY <1>2, <1>3, <1>7, <1>9, <1>10, <1>11, <1>14, <1>15, <1>16, <1>17, <1>18 DEF TimerInv

\* Whether the first time-out is due is whether it is a tick ahead.
LEMMA DueIs ==
    ASSUME TimerInv
    PROVE  LET low == (tick + 1) % Word
           IN  /\ low \in 0 .. Word - 1
               /\ Due(low) <=> pending # <<>> /\ Distance(1) = 1
               /\ \A i \in 1 .. Len(pending) : (timeout[pending[i]] - low) % Word = Distance(i) - 1
<1> DEFINE low == (tick + 1) % Word
<1>1. TimerType /\ Within
  BY DEF TimerInv
<1>2. tick \in 0 .. Word - 1 /\ pending \in Seq(TimeOuts)
  BY <1>1 DEF TimerType
<1>3. /\ low \in 0 .. Word - 1
      /\ \A x \in 0 .. Word - 1 :
            /\ Ahead(x) # 0 => (x - low) % Word = Ahead(x) - 1
            /\ Ahead(x) = 1 <=> x = low
  BY <1>2, NextTick
<1> HIDE DEF low
<1>4. \A i \in 1 .. Len(pending) : timeout[pending[i]] \in 0 .. Word - 1 /\ Distance(i) # 0
  BY <1>1 DEF TimerType, Within
<1>5. \A i \in 1 .. Len(pending) : /\ (timeout[pending[i]] - low) % Word = Distance(i) - 1
                                   /\ Distance(i) = 1 <=> timeout[pending[i]] = low
  BY <1>3, <1>4 DEF Distance
<1>6. pending # <<>> => 1 \in 1 .. Len(pending) /\ Head(pending) = pending[1]
  BY <1>2
<1>7. Due(low) <=> pending # <<>> /\ Distance(1) = 1
  BY <1>5, <1>6 DEF Due
<1>8. QED BY <1>3, <1>5, <1>7 DEF low

\* An interrupt keeps the invariant; it takes a time-out off the list exactly when
\* that is due, puts it on the queue, and brings the others a tick closer.
LEMMA InterruptStep ==
    ASSUME TimerInv, Interrupt
    PROVE  /\ TimerInv'
           /\ \/ /\ \A i \in 1 .. Len(pending) : Distance(i) > 1
                 /\ pending' = pending /\ notices' = notices
              \/ /\ pending # <<>> /\ Distance(1) = 1
                 /\ \A i \in 2 .. Len(pending) : Distance(i) > 1
                 /\ pending' = Tail(pending) /\ notices' = Append(notices, Head(pending))
           /\ \A u : In(u, pending) => Ahead(timeout[u])' = Ahead(timeout[u]) - 1
<1> DEFINE low == (tick + 1) % Word
           l == Len(pending)
<1>1. TimerType /\ Apart /\ Sorted /\ Within
  BY DEF TimerInv
<1>2. /\ tick' = low /\ timeout' = timeout
      /\ IF Due(low)
           THEN /\ pending' = Tail(pending)
                /\ notices' = Append(notices, Head(pending))
                /\ fault' = (low = Len(notices'))
           ELSE UNCHANGED <<pending, notices, fault>>
  BY DEF Interrupt
<1>3. /\ low \in 0 .. Word - 1
      /\ Due(low) <=> pending # <<>> /\ Distance(1) = 1
      /\ \A i \in 1 .. l : (timeout[pending[i]] - low) % Word = Distance(i) - 1
  BY DueIs
<1> HIDE DEF low
<1>4. /\ l \in Nat /\ pending \in Seq(TimeOuts) /\ notices \in Seq(TimeOuts)
      /\ pending # <<>> => 1 \in 1 .. l
  BY <1>1 DEF TimerType
<1>5. /\ \A i \in 1 .. l : Distance(i) \in 1 .. MaxAhead /\ MaxAhead \in Nat
      /\ \A i, j \in 1 .. l : i < j => Distance(i) < Distance(j)
      /\ \A i \in 1 .. l : timeout[pending[i]] \notin 1 .. Cardinality(TimeOuts)
  BY <1>1, WordAssumption DEF Within, Sorted
<1>6. \A u : In(u, pending) => Ahead(timeout[u])' = Ahead(timeout[u]) - 1
  <2>1. SUFFICES ASSUME NEW u, In(u, pending) PROVE Ahead(timeout[u])' = Ahead(timeout[u]) - 1
    OBVIOUS
  <2>2. PICK i \in 1 .. l : pending[i] = u
    BY <2>1 DEF In
  <2>3. Ahead(timeout[u])' = (timeout[u] - low) % Word
    BY <1>2 DEF Ahead
  <2>4. Ahead(timeout[u]) = Distance(i)
    BY <2>2 DEF Distance
  <2>5. QED BY <1>3, <2>2, <2>3, <2>4
<1> HIDE DEF l
<1>7. CASE ~Due(low)
  <2>1. UNCHANGED <<pending, notices, fault>>
    BY <1>2, <1>7
  <2>2. \A i \in 1 .. l : Distance(i) > 1
    <3>1. SUFFICES ASSUME NEW i \in 1 .. l PROVE Distance(i) > 1
      OBVIOUS
    <3>2. 1 \in 1 .. l /\ Distance(1) # 1
      <4>1. 1 \in 1 .. l
        BY <1>4, <3>1
      <4>2. pending # <<>>
        BY <4>1 DEF l
      <4>3. QED BY <1>3, <1>7, <4>1, <4>2
    <3>3. QED BY <1>4, <1>5, <3>1, <3>2
  <2>3. \A i \in 1 .. l : Distance(i)' = Distance(i) - 1
    <3>1. \A i \in 1 .. l : In(pending[i], pending)
      BY DEF In, l
    <3>2. QED BY <1>2, <1>6, <2>1, <3>1 DEF Distance
  <2>4. Sorted' /\ Within'
    <3>1. \A i \in 1 .. l : Distance(i)' \in 1 .. MaxAhead
      BY <1>5, <2>2, <2>3
    <3>2. \A i, j \in 1 .. l : i < j => Distance(i)' < Distance(j)'
      BY <1>5, <2>3
    <3>3. QED BY <1>2, <1>5, <2>1, <3>1, <3>2 DEF Sorted, Within, l
  <2>5. TimerType' /\ Apart'
    BY <1>1, <1>2, <1>3, <2>1 DEF TimerType, Apart, Distinct, In
  <2>6. QED BY <1>6, <2>1, <2>2, <2>4, <2>5 DEF TimerInv, l
<1>8. CASE Due(low)
  <2>1. /\ pending' = Tail(pending) /\ notices' = Append(notices, Head(pending))
        /\ fault' = (low = Len(notices')) /\ pending # <<>> /\ Distance(1) = 1
    BY <1>2, <1>3, <1>8
  <2>2. /\ Head(pending) \in TimeOuts /\ Head(pending) = pending[1] /\ In(Head(pending), pending)
        /\ Tail(pending) \in Seq(TimeOuts)
        /\ \A y : In(y, Tail(pending)) => In(y, pending)
        /\ Distinct(Tail(pending)) /\ ~In(Head(pending), Tail(pending))
    BY <1>1, <1>4, <2>1, PopFrontLemma DEF Apart
  <2>3. /\ Append(notices, Head(pending)) \in Seq(TimeOuts)
        /\ \A y : In(y, Append(notices, Head(pending))) <=> In(y, notices) \/ y = Head(pending)
        /\ Distinct(Append(notices, Head(pending)))
    BY <1>1, <1>4, <2>2, PushBackLemma DEF Apart
  <2>4. \A i \in 2 .. l : Distance(i) > 1
    <3>1. \A i \in 2 .. l : i \in 1 .. l /\ 1 \in 1 .. l /\ 1 < i
      BY <1>4
    <3>2. QED BY <1>5, <2>1, <3>1
  <2>5. Apart'
    BY <1>1, <2>1, <2>2, <2>3 DEF Apart
  <2>6. fault' = FALSE
    <3>1. low \notin 1 .. Cardinality(TimeOuts)
      BY <1>3, <1>4, <1>5, <1>8, <2>1, <2>2 DEF Due
    <3>2. Len(notices') <= Cardinality(TimeOuts)
      BY <2>1, <2>3, QueueBounded
    <3>3. Len(notices') \in Nat /\ Len(notices') > 0
      BY <1>4, <2>1, <2>2
    <3>4. Cardinality(TimeOuts) \in Nat
      BY TimeOutsAssumption, FS_CardinalityType
    <3>5. low # Len(notices')
      BY <1>3, <3>1, <3>2, <3>3, <3>4
    <3>6. QED BY <2>1, <3>5, Zenon
  <2>7. TimerType'
    BY <1>1, <1>2, <1>3, <2>1, <2>2, <2>3, <2>6 DEF TimerType
  <2>8. /\ Len(pending') = l - 1
        /\ \A i \in 1 .. l - 1 : pending'[i] = pending[i + 1] /\ i + 1 \in 2 .. l /\ i + 1 \in 1 .. l
    BY <1>4, <2>1 DEF l
  <2>9. \A i \in 1 .. l - 1 : Distance(i)' = Distance(i + 1) - 1
    <3>1. \A i \in 1 .. l : In(pending[i], pending)
      BY DEF In, l
    <3>2. SUFFICES ASSUME NEW i \in 1 .. l - 1, NEW u, u = pending[i + 1]
                   PROVE  Distance(i)' = Distance(i + 1) - 1
      OBVIOUS
    <3>3. In(u, pending) /\ pending'[i] = u
      BY <2>8, <3>1, <3>2
    <3>4. Ahead(timeout[u])' = Ahead(timeout[u]) - 1
      BY <1>6, <3>3
    <3>5. Distance(i)' = Ahead(timeout[u])'
      BY <3>3 DEF Distance, Ahead
    <3>6. QED BY <3>2, <3>4, <3>5 DEF Distance
  <2>10. Sorted' /\ Within'
    <3>1. \A i \in 1 .. l - 1 : Distance(i)' \in 1 .. MaxAhead
      BY <1>5, <2>4, <2>8, <2>9
    <3>2. \A i, j \in 1 .. l - 1 : i < j => Distance(i)' < Distance(j)'
      BY <1>4, <1>5, <2>8, <2>9
    <3>3. \A i \in 1 .. l - 1 : timeout'[pending'[i]] \notin 1 .. Cardinality(TimeOuts)
      BY <1>2, <1>5, <2>8
    <3>4. QED BY <2>8, <3>1, <3>2, <3>3 DEF Sorted, Within
  <2>11. QED BY <1>6, <2>1, <2>4, <2>5, <2>7, <2>10 DEF TimerInv, l
<1>9. QED BY <1>7, <1>8

\* Taking a notice keeps the invariant.
LEMMA TakeStep ==
    ASSUME TimerInv, Take
    PROVE  TimerInv'
<1>1. /\ notices # <<>> /\ notices' = Tail(notices) /\ UNCHANGED <<tick, timeout, pending, fault>>
  BY DEF Take
<1>2. TimerType /\ Apart /\ Sorted /\ Within
  BY DEF TimerInv
<1>3. notices \in Seq(TimeOuts) /\ Distinct(notices)
  BY <1>2 DEF TimerType, Apart
<1>4. /\ Tail(notices) \in Seq(TimeOuts) /\ Distinct(Tail(notices))
      /\ \A y : In(y, Tail(notices)) => In(y, notices)
  BY <1>1, <1>3, PopFrontLemma
<1>5. TimerType' /\ Apart'
  BY <1>1, <1>2, <1>4 DEF TimerType, Apart, In, Distinct
<1>6. \A i : Distance(i)' = Distance(i)
  BY <1>1 DEF Distance, Ahead
<1>7. Sorted' /\ Within'
  BY <1>1, <1>2, <1>6 DEF Sorted, Within
<1>8. QED BY <1>5, <1>7 DEF TimerInv

-----------------------------------------------------------------------------
(* The list and the handler. *)

\* A list set up has no time-out, and the operations keep the invariant.
THEOREM TimerInvariant == ASSUME Misuses = {} PROVE Spec => []TimerInv
<1> USE WordAssumption
<1>1. Init => TimerInv
  <2>1. SUFFICES ASSUME Init PROVE TimerInv
    OBVIOUS
  <2>2. pending = <<>> /\ notices = <<>> /\ Len(pending) = 0
    BY <2>1 DEF Init
  <2>3. TimerType
    BY <2>1 DEF Init, TimerType
  <2>4. Apart /\ Sorted /\ Within
    BY <2>2, EmptyLemma DEF Apart, Sorted, Within
  <2>5. QED BY <2>3, <2>4 DEF TimerInv
<1>2. TimerInv /\ [Next]_vars => TimerInv'
  <2>1. SUFFICES ASSUME TimerInv, [Next]_vars PROVE TimerInv'
    OBVIOUS
  <2>2. CASE \E t \in TimeOuts, n \in 0 .. MaxAhead : Set(t, n)
    BY <2>1, <2>2, SetStep
  <2>3. CASE Interrupt
    BY <2>1, <2>3, InterruptStep
  <2>4. CASE Take
    BY <2>1, <2>4, TakeStep
  <2>5. CASE UNCHANGED vars
    <3>1. UNCHANGED <<tick, timeout, pending, notices, fault>>
      BY <2>5 DEF vars
    <3>2. \A i : Distance(i)' = Distance(i)
      BY <3>1 DEF Distance, Ahead
    <3>3. QED BY <2>1, <3>1, <3>2 DEF TimerInv, TimerType, Apart, Sorted, Within, Distinct, In
  <2>6. QED BY <2>1, <2>2, <2>3, <2>4, <2>5 DEF Next
<1>3. QED BY <1>1, <1>2, PTL DEF Spec

\* A time-out is never still on the list after its tick, and the handler never
\* takes the queue for a time-out (timer.h:71, timer.c).
THEOREM NeverOverdue == ASSUME Misuses = {} PROVE Spec => []NoneOverdue
<1>1. TimerInv => NoneOverdue
  <2>1. SUFFICES ASSUME TimerInv PROVE NoneOverdue
    OBVIOUS
  <2>2. \A i \in 1 .. Len(pending) : Distance(i) \in 1 .. MaxAhead
    BY <2>1 DEF TimerInv, Within
  <2>3. \A i \in 1 .. Len(pending) : Distance(i) # 0
    BY <2>2, WordAssumption
  <2>4. ~fault
    BY <2>1 DEF TimerInv, TimerType
  <2>5. QED BY <2>3, <2>4 DEF NoneOverdue, Distance
<1>2. QED BY <1>1, TimerInvariant, PTL

\* The list and the queue share the storage of a time-out, and no time-out is in
\* it twice (timer.h:65-69): the safety half of Noticed.
THEOREM StorageOwned == ASSUME Misuses = {} PROVE Spec => []Distinct(pending \o notices)
<1>1. TimerInv => Distinct(pending \o notices)
  <2>1. SUFFICES ASSUME TimerInv PROVE Distinct(pending \o notices)
    OBVIOUS
  <2> DEFINE both == pending \o notices
             l == Len(pending)
             m == Len(notices)
  <2>2. pending \in Seq(TimeOuts) /\ notices \in Seq(TimeOuts)
    BY <2>1 DEF TimerInv, TimerType
  <2>3. /\ Len(both) = l + m
        /\ \A i \in 1 .. l + m : both[i] = IF i <= l THEN pending[i] ELSE notices[i - l]
    BY <2>2, ConcatProperties
  <2>4. l \in Nat /\ m \in Nat
    BY <2>2
  <2>5. /\ \A i, j \in 1 .. l : pending[i] = pending[j] => i = j
        /\ \A i, j \in 1 .. m : notices[i] = notices[j] => i = j
    BY <2>1 DEF TimerInv, Apart, Distinct
  <2>6. \A i \in 1 .. l, j \in 1 .. m : pending[i] # notices[j]
    <3>1. \A i \in 1 .. l : pending[i] \in TimeOuts
      BY <2>2
    <3>2. QED BY <2>1, <3>1 DEF TimerInv, Apart, In
  <2> HIDE DEF both, l, m
  <2>7. ASSUME NEW i \in 1 .. l + m, NEW j \in 1 .. l + m, both[i] = both[j] PROVE i = j
    <3>1. /\ i <= l => i \in 1 .. l /\ both[i] = pending[i]
          /\ i > l => i - l \in 1 .. m /\ both[i] = notices[i - l]
          /\ j <= l => j \in 1 .. l /\ both[j] = pending[j]
          /\ j > l => j - l \in 1 .. m /\ both[j] = notices[j - l]
      BY <2>3, <2>4
    <3>2. CASE i <= l /\ j <= l
      BY <2>5, <2>7, <3>1, <3>2
    <3>3. CASE i > l /\ j > l
      <4>1. i - l = j - l
        BY <2>5, <2>7, <3>1, <3>3
      <4>2. QED BY <2>4, <4>1
    <3>4. CASE i <= l /\ j > l
      BY <2>6, <2>7, <3>1, <3>4
    <3>5. CASE i > l /\ j <= l
      BY <2>6, <2>7, <3>1, <3>5
    <3>6. QED BY <2>4, <3>2, <3>3, <3>4, <3>5
  <2>8. QED BY <2>3, <2>7 DEF Distinct, both
<1>2. QED BY <1>1, TimerInvariant, PTL

-----------------------------------------------------------------------------
(* The countdown. *)

\* The time-outs on the list, and how far each is away.
OnList == {pending[i] : i \in 1 .. Len(pending)}
Left == [t \in OnList |-> Ahead(timeout[t])]

\* A time-out is on the list exactly if it is one of its elements.
LEMMA OnListIs ==
    /\ \A u : u \in OnList <=> In(u, pending)
    /\ (\A u : u \in OnList <=> In(u, pending))'
BY DEF OnList, In

\* ckTimerSet starts the countdown of its time-out.
LEMMA SetRefines ==
    ASSUME TimerInv, Misuses = {}, NEW t \in TimeOuts, NEW n \in 0 .. MaxAhead, Set(t, n)
    PROVE  Promise!Set(t, n) /\ n \in 1 .. MaxAhead
<1>1. /\ n \in 1 .. MaxAhead /\ ~In(t, pending) /\ ~In(t, notices) /\ notices' = notices
      /\ \A u \in TimeOuts : In(u, pending)' <=> In(u, pending) \/ u = t
      /\ Ahead(timeout[t])' = n
      /\ \A u \in TimeOuts : In(u, pending) => Ahead(timeout[u])' = Ahead(timeout[u])
      /\ TimerInv'
  BY SetStep
<1>2. OnList \subseteq TimeOuts /\ OnList' \subseteq TimeOuts
  <2>1. pending \in Seq(TimeOuts) /\ pending' \in Seq(TimeOuts)
    BY <1>1 DEF TimerInv, TimerType
  <2>2. /\ \A i \in 1 .. Len(pending) : pending[i] \in TimeOuts
        /\ \A i \in 1 .. Len(pending') : pending'[i] \in TimeOuts
    BY <2>1
  <2>3. QED BY <2>2 DEF OnList
<1>3. OnList' = OnList \cup {t}
  BY <1>1, <1>2, OnListIs
<1>4. Left' = [u \in OnList \cup {t} |-> IF u = t THEN n ELSE Left[u]]
  <2>1. Left' = [u \in OnList \cup {t} |-> Ahead(timeout[u])']
    BY <1>3 DEF Left
  <2>2. ASSUME NEW u \in OnList \cup {t} PROVE Ahead(timeout[u])' = IF u = t THEN n ELSE Left[u]
    <3>1. CASE u = t
      BY <1>1, <3>1
    <3>2. CASE u # t
      <4>1. u \in OnList /\ u \in TimeOuts /\ In(u, pending)
        BY <1>2, <2>2, <3>2, OnListIs
      <4>2. Left[u] = Ahead(timeout[u])
        BY <4>1 DEF Left
      <4>3. QED BY <1>1, <3>2, <4>1, <4>2
    <3>3. QED BY <3>1, <3>2
  <2>3. QED BY <2>1, <2>2
<1>5. DOMAIN Left = OnList /\ t \notin OnList
  BY <1>1, OnListIs DEF Left
<1>6. \A i \in 1 .. Len(notices) : notices[i] # t
  BY <1>1 DEF In
<1>7. QED BY <1>1, <1>4, <1>5, <1>6 DEF Promise!Set, Left, OnList

\* An interrupt is a tick of all countdowns.
LEMMA InterruptRefines ==
    ASSUME TimerInv, Interrupt
    PROVE  Promise!Tick
<1> DEFINE due == {t \in DOMAIN Left : Left[t] = 1}
<1>1. /\ TimerInv'
      /\ \/ /\ \A i \in 1 .. Len(pending) : Distance(i) > 1
            /\ pending' = pending /\ notices' = notices
         \/ /\ pending # <<>> /\ Distance(1) = 1
            /\ \A i \in 2 .. Len(pending) : Distance(i) > 1
            /\ pending' = Tail(pending) /\ notices' = Append(notices, Head(pending))
      /\ \A u : In(u, pending) => Ahead(timeout[u])' = Ahead(timeout[u]) - 1
  BY InterruptStep
<1>2. /\ pending \in Seq(TimeOuts) /\ notices \in Seq(TimeOuts)
      /\ Distinct(pending)
  BY DEF TimerInv, TimerType, Apart
<1>3. DOMAIN Left = OnList /\ \A t \in OnList : Left[t] = Ahead(timeout[t])
  BY DEF Left
<1>4. \A i \in 1 .. Len(pending) : pending[i] \in OnList /\ Left[pending[i]] = Distance(i)
  BY <1>3 DEF OnList, Distance
<1>5. /\ OnList' = OnList \ due
      /\ \E new \in [1 .. Len(notices') - Len(notices) -> due] :
            /\ notices' = notices \o new
            /\ \A t \in due : \E i \in DOMAIN new : new[i] = t
            /\ \A i, j \in DOMAIN new : new[i] = new[j] => i = j
  <2>1. CASE /\ \A i \in 1 .. Len(pending) : Distance(i) > 1
             /\ pending' = pending /\ notices' = notices
    <3>1. due = {}
      BY <1>2, <1>3, <1>4, <2>1 DEF OnList
    <3>2. OnList' = OnList
      BY <2>1 DEF OnList
    <3> HIDE DEF due
    <3>3. Len(notices') - Len(notices) = 0 /\ notices' = notices \o <<>>
      BY <1>2, <2>1, ConcatEmptySeq
    <3>4. <<>> \in [1 .. 0 -> due] /\ DOMAIN <<>> = {}
      OBVIOUS
    <3>5. QED BY <3>1, <3>2, <3>3, <3>4
  <2>2. CASE /\ pending # <<>> /\ Distance(1) = 1
             /\ \A i \in 2 .. Len(pending) : Distance(i) > 1
             /\ pending' = Tail(pending) /\ notices' = Append(notices, Head(pending))
    <3> DEFINE h == Head(pending)
    <3>1. /\ h \in TimeOuts /\ h = pending[1] /\ 1 \in 1 .. Len(pending)
          /\ ~In(h, Tail(pending))
          /\ \A y : In(y, Tail(pending)) => In(y, pending)
          /\ \A y : In(y, pending) => y = h \/ In(y, Tail(pending))
      BY <1>2, <2>2, PopFrontLemma
    <3>2. due = {h}
      <4>1. h \in due
        BY <1>3, <1>4, <2>2, <3>1
      <4>2. ASSUME NEW t \in due PROVE t = h
        <5>1. PICK i \in 1 .. Len(pending) : pending[i] = t
          BY <1>3, <4>2 DEF OnList
        <5>2. Distance(i) = 1
          BY <1>4, <4>2, <5>1
        <5>3. i \notin 2 .. Len(pending)
          BY <2>2, <5>2
        <5>4. i = 1
          BY <1>2, <5>1, <5>3
        <5>5. QED BY <3>1, <5>1, <5>4
      <4>3. QED BY <4>1, <4>2
    <3>3. OnList' = OnList \ {h}
      <4>1. \A u : (u \in OnList)' <=> In(u, Tail(pending))
        BY <2>2, OnListIs DEF In
      <4>2. \A u : u \in OnList <=> In(u, pending)
        BY OnListIs
      <4>3. QED BY <3>1, <4>1, <4>2
    <3> HIDE DEF due, h
    <3>4. notices' = Append(notices, h)
      BY <2>2 DEF h
    <3>5. notices' = notices \o <<h>> /\ Len(notices') = Len(notices) + 1 /\ Len(notices) \in Nat
      <4>1. Append(notices, h) = notices \o <<h>>
        BY <1>2, <3>1, AppendIsConcat
      <4>2. Len(Append(notices, h)) = Len(notices) + 1 /\ Len(notices) \in Nat
        BY <1>2, <3>1, AppendProperties
      <4>3. QED BY <3>4, <4>1, <4>2
    <3>6. Len(notices') - Len(notices) = 1
      BY <3>5
    <3>7. <<h>> \in [1 .. 1 -> due] /\ DOMAIN <<h>> = 1 .. 1 /\ <<h>>[1] = h
      BY <3>2
    <3> DEFINE new == <<h>>
    <3> HIDE DEF new
    <3>8. /\ new \in [1 .. Len(notices') - Len(notices) -> due] /\ notices' = notices \o new
          /\ DOMAIN new = {1} /\ new[1] = h
      BY <3>5, <3>6, <3>7 DEF new
    <3>9. /\ \A t \in due : \E i \in DOMAIN new : new[i] = t
          /\ \A i, j \in DOMAIN new : new[i] = new[j] => i = j
      BY <3>2, <3>8
    <3>10. OnList' = OnList \ due
      BY <3>2, <3>3
    <3>11. QED BY <3>8, <3>9, <3>10
  <2>3. QED BY <1>1, <2>1, <2>2
<1>6. Left' = [t \in OnList \ due |-> Left[t] - 1]
  <2>1. Left' = [t \in OnList \ due |-> Ahead(timeout[t])']
    BY <1>5 DEF Left
  <2>2. \A t \in OnList \ due : Ahead(timeout[t])' = Left[t] - 1
    BY <1>1, <1>3, OnListIs
  <2> HIDE DEF due
  <2>3. QED BY <2>1, <2>2
<1>7. QED BY <1>3, <1>5, <1>6 DEF Promise!Tick, Left, OnList

\* The list and its handler implement the countdown of timer.h:71 and 95-97:
\* every time-out is noticed at exactly its tick, whatever is set after it.
THEOREM TimerCountsDown == ASSUME Misuses = {} PROVE Spec => CountdownSpec
<1>1. Init => Promise!Init
  <2>1. SUFFICES ASSUME Init PROVE Promise!Init
    OBVIOUS
  <2>2. pending = <<>> /\ notices = <<>>
    BY <2>1 DEF Init
  <2>3. OnList = {}
    BY <2>2 DEF OnList
  <2>4. QED BY <2>2, <2>3 DEF Promise!Init, OnList
<1>2. TimerInv /\ [Next]_vars => [Promise!Next]_Promise!vars
  <2>1. SUFFICES ASSUME TimerInv, [Next]_vars PROVE [Promise!Next]_Promise!vars
    OBVIOUS
  <2>2. ASSUME NEW t \in TimeOuts, NEW n \in 0 .. MaxAhead, Set(t, n) PROVE Promise!Next
    BY <2>1, <2>2, SetRefines DEF Promise!Next
  <2>3. CASE Interrupt
    BY <2>1, <2>3, InterruptRefines DEF Promise!Next
  <2>4. CASE Take
    <3>1. /\ notices # <<>> /\ notices' = Tail(notices) /\ UNCHANGED <<tick, timeout, pending>>
      BY <2>4 DEF Take
    <3>2. Left' = Left
      BY <3>1 DEF Left, OnList, Ahead
    <3>3. QED BY <3>1, <3>2 DEF Promise!Next, Promise!Take, Left, OnList
  <2>5. CASE UNCHANGED vars
    <3>1. UNCHANGED <<tick, timeout, pending, notices>>
      BY <2>5 DEF vars
    <3>2. Left' = Left /\ notices' = notices
      BY <3>1 DEF Left, OnList, Ahead
    <3>3. QED BY <3>2 DEF Promise!vars, Left, OnList
  <2>6. QED BY <2>1, <2>2, <2>3, <2>4, <2>5 DEF Next
<1>3. QED BY <1>1, <1>2, TimerInvariant, PTL DEF Spec, CountdownSpec, Promise!Spec

-----------------------------------------------------------------------------
(* The floating-point registers.  What is kept between two traps: they     *)
(* belong to the task that used them last, and what any other task left is *)
(* in its slot.                                                            *)

FpuType ==
    /\ live \subseteq Slots
    /\ pNow \in live
    /\ pLastTaskUsedFPU \in live \cup {NoSlot}
    /\ TS \in BOOLEAN
    /\ bFpuUsed \in [Slots -> BOOLEAN]
    /\ fpu_context \in [Slots -> Images]
    /\ registers \in Images
    /\ own \in [Slots -> Images]

\* Without the flag the registers are the running task's: a switch to another sets it.
NoTrap == ~TS => pLastTaskUsedFPU = pNow

\* They hold what the task they belong to left in them.
InRegisters ==
    pLastTaskUsedFPU # NoSlot =>
        bFpuUsed[pLastTaskUsedFPU] /\ registers = own[pLastTaskUsedFPU]

\* What any other task left is in its slot, if it has used them.
InSlot ==
    \A s \in live :
        /\ bFpuUsed[s] /\ s # pLastTaskUsedFPU => fpu_context[s] = own[s]
        /\ ~bFpuUsed[s] => own[s] = Clean

FpuInv == FpuType /\ NoTrap /\ InRegisters /\ InSlot

\* It holds at first: no task has used the registers (ckTaskStructInit).
LEMMA FpuInitial == FpuInit => FpuInv
BY FpuAssumption DEF FpuInit, FpuInv, FpuType, NoTrap, InRegisters, InSlot, Images

\* A new task in a slot has not used them, whatever the slot still holds.
LEMMA CreateKeeps ==
    ASSUME FpuInv, NEW s \in Slots, CreateIn(s)
    PROVE  FpuInv'
<1> USE FpuAssumption DEF FpuInv, FpuType, CreateIn
<1>1. FpuType'
  BY DEF Images
<1>2. NoTrap'
  BY DEF NoTrap
<1>3. InRegisters'
  BY DEF InRegisters
<1>4. InSlot'
  BY DEF InSlot
<1>5. QED BY <1>1, <1>2, <1>3, <1>4

\* A switch leaves the registers and sets the flag, unless they are the next task's.
LEMMA SwitchKeeps ==
    ASSUME FpuInv, NEW s \in Slots, Switch(s)
    PROVE  FpuInv'
BY FpuAssumption DEF FpuInv, FpuType, NoTrap, InRegisters, InSlot, Switch, SwitchTo

\* A task that ends takes its claim to the registers with it.
LEMMA TerminateKeeps ==
    ASSUME FpuInv, NEW s \in Slots, Terminate(s)
    PROVE  FpuInv'
BY FpuAssumption DEF FpuInv, FpuType, NoTrap, InRegisters, InSlot, Terminate, Forgotten

\* Termination keeps the invariant, whichever task goes on.
LEMMA ExitKeeps ==
    ASSUME FpuInv, NEW s \in Slots, ExitTo(s)
    PROVE  FpuInv'
BY FpuAssumption DEF FpuInv, FpuType, NoTrap, InRegisters, InSlot, ExitTo, SwitchTo, Forgotten

\* The trap saves the registers to the slot of the task they belong to, and loads
\* the running one's (int_except.c, the handler of exception 7).
LEMMA TrapKeeps ==
    ASSUME FpuInv, DeviceNotAvailable
    PROVE  FpuInv'
<1> USE FpuAssumption DEF FpuInv, FpuType, Images
<1>1. CASE pNow = pLastTaskUsedFPU
  BY <1>1 DEF DeviceNotAvailable, NoTrap, InRegisters, InSlot
<1>2. CASE pNow # pLastTaskUsedFPU
  <2>1. /\ fpu_context' = IF pLastTaskUsedFPU = NoSlot THEN fpu_context
                          ELSE [fpu_context EXCEPT ![pLastTaskUsedFPU] = registers]
        /\ registers' = IF bFpuUsed[pNow] THEN fpu_context[pNow] ELSE Clean
        /\ bFpuUsed' = [bFpuUsed EXCEPT ![pNow] = TRUE]
        /\ pLastTaskUsedFPU' = pNow
        /\ UNCHANGED <<live, pNow, own>> /\ TS' = FALSE
    BY <1>2 DEF DeviceNotAvailable
  <2>2. FpuType'
    BY <2>1
  <2>3. NoTrap' /\ InRegisters'
    BY <1>2, <2>1 DEF NoTrap, InRegisters, InSlot
  <2>4. InSlot'
    BY <1>2, <2>1 DEF InRegisters, InSlot
  <2>5. QED BY <2>2, <2>3, <2>4
<1>3. QED BY <1>1, <1>2

\* What a task calculates is in the registers, which are its own.
LEMMA CalculateKeeps ==
    ASSUME FpuInv, NEW v \in Values, Calculate(v)
    PROVE  FpuInv'
BY FpuAssumption DEF FpuInv, FpuType, NoTrap, InRegisters, InSlot, Calculate, Images

\* The invariant, in every reachable state.
THEOREM FpuInvariant == FpuSpec => []FpuInv
<1>1. FpuInv /\ [FpuNext]_fpuVars => FpuInv'
  <2>1. SUFFICES ASSUME FpuInv, [FpuNext]_fpuVars PROVE FpuInv'
    OBVIOUS
  <2>2. CASE UNCHANGED fpuVars
    BY <2>1, <2>2 DEF FpuInv, FpuType, NoTrap, InRegisters, InSlot, fpuVars
  <2>3. ASSUME NEW s \in Slots, CreateIn(s) \/ Switch(s) \/ Terminate(s) \/ ExitTo(s)
        PROVE  FpuInv'
    BY <2>1, <2>3, CreateKeeps, SwitchKeeps, TerminateKeeps, ExitKeeps
  <2>4. CASE DeviceNotAvailable
    BY <2>1, <2>4, TrapKeeps
  <2>5. ASSUME NEW v \in Values, Calculate(v) PROVE FpuInv'
    BY <2>1, <2>5, CalculateKeeps
  <2>6. QED BY <2>1, <2>2, <2>3, <2>4, <2>5 DEF FpuNext
<1>2. QED BY FpuInitial, <1>1, PTL DEF FpuSpec

\* Each task finds in the registers what it left there, or clean ones, whatever
\* the other tasks did (task.c, int_except.c).
THEOREM RegistersOwn == FpuSpec => []FpuOwn
<1>1. FpuInv => FpuOwn
  BY FpuAssumption DEF FpuInv, FpuType, NoTrap, InRegisters, FpuOwn
<1>2. QED BY FpuInvariant, <1>1, PTL

-----------------------------------------------------------------------------
(* Interrupts and exceptions: what is on the stack of each task.           *)

Names == {"gs", "fs", "es", "ds", "edi", "esi", "ebp", "esp", "ebx", "edx", "ecx", "eax",
          "err", "eip", "cs", "eflag", "below", "esp2", "ss2"}
StackWord == [name : Names, task : Stacks]

\* What the processor pushes for v, and the words for names of the task s
Frame(v) == IF v \in PushesError THEN <<"err">> \o ReturnFrame ELSE ReturnFrame
WordsOf(names, s) == [i \in DOMAIN names |-> [name |-> names[i], task |-> s]]

\* The vectors whose handlers return: #NM and the two devices'
Returning == {7, IrqBase + TimerIrq, IrqBase + KeyboardIrq}

ExceptionType ==
    /\ booted \in 0 .. Len(Boot) /\ current \in Stacks
    /\ phase \in [Stacks -> {"running", "entered", "stacked", "handled"}]
    /\ vector \in [Stacks -> 0 .. 255]
    /\ DOMAIN pushed = Stacks /\ DOMAIN restored = Stacks

\* A task's stack holds the words that its phase and its vector tell, its own.
StackRight(s) ==
    /\ phase[s] = "running" => pushed[s] = <<>>
    /\ phase[s] = "entered" => pushed[s] = WordsOf(Frame(vector[s]), s)
    /\ phase[s] \in {"stacked", "handled"} => pushed[s] = WordsOf(Registers \o Frame(vector[s]), s)
    /\ phase[s] = "handled" => vector[s] \in Returning

\* A task is left only where a handler returns to it, or before its first interrupt.
OthersLeft == \A s \in Stacks : s # current => phase[s] \in {"running", "handled"}

\* What is in service is the request that the running handler has not yet told the
\* end of; a request comes up only when its handler is set.
ServiceRight ==
    IF phase[current] \in {"entered", "stacked"} /\ vector[current] >= IrqBase
    THEN /\ inService = {vector[current] - IrqBase}
         /\ vector[current] \in Returning /\ Handler(vector[current]) = "interrupt"
    ELSE inService = {}

\* What went back into the registers of a task is its own.
RestoredRight ==
    \A s \in Stacks : \A n \in DOMAIN restored[s] : restored[s][n] = [name |-> n, task |-> s]

\* A panic ends everything, and shows the interrupted code.
PanicRight ==
    panic # <<>> =>
        /\ phase[current] = "stacked" /\ vector[current] < IrqBase /\ vector[current] # 7
        /\ \A n \in DOMAIN panic \ {"esp2", "ss2"} :
             panic[n] = [name |-> n, task |-> current] \/ vector[current] \in {21, 29, 30}

ExceptionInv ==
    /\ ExceptionType /\ OthersLeft /\ ServiceRight /\ RestoredRight /\ PanicRight
    /\ \A s \in Stacks : StackRight(s)

\* The registers and what the processor pushes are sequences of names.
LEMMA StackedWords ==
    ASSUME NEW v \in 0 .. 255
    PROVE  /\ Registers \in Seq(Names) /\ Frame(v) \in Seq(Names) /\ <<"esp2", "ss2">> \in Seq(Names)
           /\ Registers \o Frame(v) \in Seq(Names)
<1>1. Registers \in Seq(Names)
  BY DEF Registers, Names
<1>2. ReturnFrame \in Seq(Names)
  BY DEF ReturnFrame, Names
<1>3. <<"err">> \in Seq(Names) /\ <<"esp2", "ss2">> \in Seq(Names)
  BY DEF Names
<1>4. <<"err">> \o ReturnFrame \in Seq(Names)
  BY <1>2, <1>3, ConcatProperties
<1>5. Frame(v) \in Seq(Names)
  BY <1>2, <1>4 DEF Frame
<1>6. QED BY <1>1, <1>3, <1>5, ConcatProperties

\* Words one after the other.
LEMMA WordsConcat ==
    ASSUME NEW a \in Seq(Names), NEW b \in Seq(Names), NEW s \in Stacks
    PROVE  /\ WordsOf(a, s) \in Seq(StackWord) /\ Len(WordsOf(a, s)) = Len(a)
           /\ WordsOf(a, s) \o WordsOf(b, s) = WordsOf(a \o b, s)
<1>1. ASSUME NEW c \in Seq(Names)
      PROVE  WordsOf(c, s) \in Seq(StackWord) /\ Len(WordsOf(c, s)) = Len(c)
  <2>1. Len(c) \in Nat /\ DOMAIN c = 1 .. Len(c) /\ \A i \in 1 .. Len(c) : c[i] \in Names
    BY LenProperties
  <2>2. WordsOf(c, s) = [i \in 1 .. Len(c) |-> [name |-> c[i], task |-> s]]
    BY <2>1 DEF WordsOf
  <2>3. \A i \in 1 .. Len(c) : [name |-> c[i], task |-> s] \in StackWord
    BY <2>1 DEF StackWord
  <2>4. QED BY <2>1, <2>2, <2>3
<1>2. /\ a \o b \in Seq(Names) /\ Len(a \o b) = Len(a) + Len(b)
      /\ Len(a) \in Nat /\ Len(b) \in Nat
  BY ConcatProperties, LenProperties
<1> DEFINE wa == WordsOf(a, s)
           wb == WordsOf(b, s)
           wab == WordsOf(a \o b, s)
<1>3. /\ wa \in Seq(StackWord) /\ Len(wa) = Len(a)
      /\ wb \in Seq(StackWord) /\ Len(wb) = Len(b)
      /\ wab \in Seq(StackWord) /\ Len(wab) = Len(a) + Len(b)
  BY <1>1, <1>2
<1>4. /\ \A i \in 1 .. Len(a) : wa[i] = [name |-> a[i], task |-> s]
      /\ \A i \in 1 .. Len(b) : wb[i] = [name |-> b[i], task |-> s]
      /\ \A i \in 1 .. Len(a) + Len(b) : wab[i] = [name |-> (a \o b)[i], task |-> s]
  <2>1. DOMAIN a = 1 .. Len(a) /\ DOMAIN b = 1 .. Len(b) /\ DOMAIN (a \o b) = 1 .. Len(a) + Len(b)
    BY <1>2, LenProperties
  <2>2. QED BY <2>1 DEF WordsOf
<1> HIDE DEF wa, wb, wab
<1>5. wa \o wb \in Seq(StackWord) /\ Len(wa \o wb) = Len(a) + Len(b)
  <2>1. wa \o wb \in Seq(StackWord) /\ Len(wa \o wb) = Len(wa) + Len(wb)
    BY <1>3, ConcatProperties
  <2>2. QED BY <1>3, <2>1
<1>6. /\ \A i \in 1 .. Len(wa) + Len(wb) : (wa \o wb)[i] = IF i <= Len(wa) THEN wa[i] ELSE wb[i - Len(wa)]
      /\ \A i \in 1 .. Len(a) + Len(b) : (a \o b)[i] = IF i <= Len(a) THEN a[i] ELSE b[i - Len(a)]
  BY <1>3, ConcatProperties
<1>7. ASSUME NEW i \in 1 .. Len(a) + Len(b) PROVE (wa \o wb)[i] = wab[i]
  <2>1. wab[i] = [name |-> (a \o b)[i], task |-> s]
    BY <1>4
  <2>2. CASE i <= Len(a)
    <3>1. (wa \o wb)[i] = wa[i] /\ (a \o b)[i] = a[i] /\ i \in 1 .. Len(a)
      BY <1>2, <1>3, <1>6, <2>2
    <3>2. QED BY <1>4, <2>1, <3>1
  <2>3. CASE ~(i <= Len(a))
    <3>1. (wa \o wb)[i] = wb[i - Len(a)] /\ (a \o b)[i] = b[i - Len(a)] /\ i - Len(a) \in 1 .. Len(b)
      BY <1>2, <1>3, <1>6, <2>3
    <3>2. QED BY <1>4, <2>1, <3>1
  <2>4. QED BY <2>2, <2>3
<1>8. wa \o wb = wab
  BY <1>3, <1>5, <1>7, SeqEqual
<1>9. QED BY <1>3, <1>8 DEF wa, wb, wab

\* At first every task runs, with nothing on its stack.
LEMMA ExceptionInitial == ExceptionInit => ExceptionInv
<1>1. SUFFICES ASSUME ExceptionInit PROVE ExceptionInv
  OBVIOUS
<1>2. current \in Stacks
  BY <1>1, ExceptionAssumption DEF ExceptionInit
<1>3. ExceptionType
  BY <1>1, <1>2 DEF ExceptionInit, ExceptionType, Boot
<1>4. OthersLeft /\ ServiceRight /\ RestoredRight /\ PanicRight
  BY <1>1, <1>2 DEF ExceptionInit, OthersLeft, ServiceRight, RestoredRight, PanicRight
<1>5. \A s \in Stacks : StackRight(s)
  BY <1>1 DEF ExceptionInit, StackRight
<1>6. QED BY <1>3, <1>4, <1>5 DEF ExceptionInv

\* A device's request comes up only when interrupts are on, and then its handler is set.
LEMMA HandlerSet ==
    ASSUME ExceptionType, NEW v \in Vectors, v >= IrqBase, Done("sti"), v - IrqBase \in Unmasked
    PROVE  v \in Returning /\ Handler(v) = "interrupt"
<1>1. booted = 11
  BY DEF ExceptionType, Done, Boot
<1>2. Done("timer") /\ Done("keyboard")
  <2>1. Boot[6] = "timer" /\ Boot[9] = "keyboard"
    BY DEF Boot
  <2>2. QED BY <1>1, <2>1 DEF Done
<1>3. v \in {32, 33}
  BY ExceptionAssumption DEF Unmasked, TimerIrq, KeyboardIrq, SlaveIrq, IrqBase
<1>4. QED BY <1>2, <1>3 DEF Returning, Handler, TimerIrq, KeyboardIrq, IrqBase

\* A step of ckMain takes no handler away.
LEMMA BootKeeps ==
    ASSUME ExceptionInv, BootStep
    PROVE  ExceptionInv'
<1> USE DEF ExceptionInv, BootStep
<1>1. ExceptionType'
  BY DEF ExceptionType, Boot
<1>2. OthersLeft' /\ ServiceRight' /\ RestoredRight' /\ PanicRight'
  BY DEF OthersLeft, ServiceRight, RestoredRight, PanicRight
<1>3. \A s \in Stacks : StackRight(s)'
  BY DEF StackRight
<1>4. QED BY <1>1, <1>2, <1>3

\* An exception or interrupt: the frame is pushed onto an empty part of the stack.
LEMMA RaiseKeeps ==
    ASSUME ExceptionInv, NEW v \in Vectors, Raise(v)
    PROVE  ExceptionInv'
<1> USE DEF ExceptionInv
<1>1. v \in 0 .. 255 /\ current \in Stacks
  BY ExceptionAssumption DEF ExceptionType
<1>2. ExceptionType'
  BY <1>1 DEF ExceptionType, Raise
<1>3. /\ phase' = [phase EXCEPT ![current] = "entered"] /\ vector' = [vector EXCEPT ![current] = v]
      /\ pushed' = [pushed EXCEPT ![current] = WordsOf(Frame(v), current)]
      /\ phase[current] = "running" /\ panic = <<>>
      /\ UNCHANGED <<booted, current, restored, panic>>
  BY DEF Raise, Words, WordsOf, Frame
<1>4. OthersLeft' /\ RestoredRight' /\ PanicRight'
  BY <1>1, <1>3 DEF ExceptionType, OthersLeft, RestoredRight, PanicRight
<1>5. \A s \in Stacks : StackRight(s)'
  BY <1>1, <1>3 DEF ExceptionType, StackRight
<1>6. ServiceRight'
  <2>1. inService = {}
    BY <1>3 DEF ServiceRight
  <2>2. vector'[current'] = v /\ phase'[current'] = "entered"
    BY <1>1, <1>3 DEF ExceptionType
  <2>3. CASE v >= IrqBase
    <3>1. inService' = {v - IrqBase}
      BY <2>1, <2>3 DEF Raise
    <3>2. v \in Returning /\ Handler(v) = "interrupt"
      BY <2>3, HandlerSet DEF Raise
    <3>3. Handler(v)' = Handler(v)
      BY <1>3 DEF Handler, Done
    <3>4. QED BY <2>2, <2>3, <3>1, <3>2, <3>3 DEF ServiceRight, Handler, Done
  <2>4. CASE ~(v >= IrqBase)
    BY <2>1, <2>2, <2>4 DEF ServiceRight, Raise
  <2>5. QED BY <2>3, <2>4
<1>7. QED BY <1>2, <1>4, <1>5, <1>6

\* PushRegisters adds the registers to the frame.
LEMMA PushKeeps ==
    ASSUME ExceptionInv, PushRegisters
    PROVE  ExceptionInv'
<1> USE DEF ExceptionInv
<1>1. current \in Stacks /\ vector[current] \in 0 .. 255 /\ phase[current] = "entered"
  BY DEF ExceptionType, PushRegisters
<1>2. WordsOf(Registers, current) \o pushed[current] = WordsOf(Registers \o Frame(vector[current]), current)
  <2>1. pushed[current] = WordsOf(Frame(vector[current]), current)
    BY <1>1 DEF StackRight
  <2>2. Registers \in Seq(Names) /\ Frame(vector[current]) \in Seq(Names)
    BY <1>1, StackedWords
  <2>3. QED BY <1>1, <2>1, <2>2, WordsConcat
<1>3. /\ phase' = [phase EXCEPT ![current] = "stacked"]
      /\ pushed' = [pushed EXCEPT ![current] = WordsOf(Registers \o Frame(vector[current]), current)]
      /\ UNCHANGED <<booted, current, vector, restored, inService, panic>>
  <2>1. Words(Registers) = WordsOf(Registers, current)
    BY DEF Words, WordsOf
  <2>2. QED BY <1>2, <2>1 DEF PushRegisters
<1>4. ExceptionType'
  BY <1>1, <1>3 DEF ExceptionType
<1>5. OthersLeft' /\ RestoredRight' /\ PanicRight'
  BY <1>1, <1>3 DEF ExceptionType, OthersLeft, RestoredRight, PanicRight
<1>6. ServiceRight'
  BY <1>1, <1>3 DEF ExceptionType, ServiceRight, Handler, Done
<1>7. \A s \in Stacks : StackRight(s)'
  BY <1>1, <1>3 DEF ExceptionType, StackRight
<1>8. QED BY <1>4, <1>5, <1>6, <1>7

\* The handlers that return leave the stack as it is, that of the timer also when
\* it goes on on another one.
LEMMA HandleKeeps ==
    ASSUME ExceptionInv, HandleIrq \/ HandleNM
    PROVE  ExceptionInv'
<1> USE DEF ExceptionInv
<1>1. current \in Stacks /\ vector[current] \in 0 .. 255 /\ phase[current] = "stacked"
  BY DEF ExceptionType, HandleIrq, HandleNM
<1>2. /\ phase' = [phase EXCEPT ![current] = "handled"]
      /\ UNCHANGED <<booted, vector, pushed, restored, panic>>
      /\ current' \in Stacks
  BY <1>1 DEF HandleIrq, HandleNM
<1>3. vector[current] \in Returning /\ inService' = {} /\ panic = <<>>
  <2>1. CASE HandleIrq
    <3>1. vector[current] \in {32, 33} /\ panic = <<>>
      BY <1>1, <2>1 DEF HandleIrq, Handler, IrqBase, TimerIrq, KeyboardIrq
    <3>2. inService = {vector[current] - IrqBase} /\ inService' = inService \ {vector[current] - IrqBase}
      BY <1>1, <2>1, <3>1 DEF ServiceRight, HandleIrq, InServiceAfter, IrqBase
    <3>3. QED BY <3>1, <3>2 DEF Returning, IrqBase, TimerIrq, KeyboardIrq
  <2>2. CASE HandleNM
    <3>1. vector[current] = 7 /\ inService' = inService
      BY <2>2 DEF HandleNM
    <3>2. QED BY <3>1 DEF ServiceRight, Returning, IrqBase, PanicRight
  <2>3. QED BY <2>1, <2>2
<1>4. ExceptionType'
  BY <1>1, <1>2 DEF ExceptionType
<1>5. OthersLeft' /\ RestoredRight' /\ PanicRight'
  BY <1>1, <1>2, <1>3 DEF ExceptionType, OthersLeft, RestoredRight, PanicRight
<1>6. ServiceRight'
  <2>1. phase'[current'] \in {"running", "handled"}
    BY <1>1, <1>2 DEF ExceptionType, OthersLeft
  <2>2. QED BY <1>3, <2>1 DEF ServiceRight
<1>7. \A s \in Stacks : StackRight(s)'
  BY <1>1, <1>2, <1>3 DEF ExceptionType, StackRight
<1>8. QED BY <1>4, <1>5, <1>6, <1>7

\* A switch that a task asks for leaves every stack as it is.
LEMMA ScheduleKeeps ==
    ASSUME ExceptionInv, Schedule
    PROVE  ExceptionInv'
<1> USE DEF ExceptionInv
<1>1. /\ UNCHANGED <<booted, phase, vector, pushed, restored, inService, panic>>
      /\ phase[current] = "running" /\ current' \in Stacks /\ panic = <<>>
  BY DEF Schedule
<1>2. ExceptionType'
  BY <1>1 DEF ExceptionType
<1>3. OthersLeft' /\ RestoredRight' /\ PanicRight'
  BY <1>1 DEF ExceptionType, OthersLeft, RestoredRight, PanicRight
<1>4. ServiceRight'
  BY <1>1 DEF ServiceRight, ExceptionType, OthersLeft
<1>5. \A s \in Stacks : StackRight(s)'
  BY <1>1 DEF StackRight
<1>6. QED BY <1>2, <1>3, <1>4, <1>5

\* iretd: a handler that returns does so for a vector without an error code, so that
\* every word is taken for what it is.
LEMMA ReturnKeeps ==
    ASSUME ExceptionInv, InterruptReturn
    PROVE  ExceptionInv'
<1> DEFINE All == Registers \o ReturnFrame
           popped == pushed[current]
           Popped(name) == LET i == CHOOSE i \in DOMAIN popped : All[i] = name IN popped[i]
<1> USE DEF ExceptionInv
<1>1. current \in Stacks /\ vector[current] \in 0 .. 255 /\ phase[current] = "handled"
  BY DEF ExceptionType, InterruptReturn
<1>2. All \in Seq(Names) /\ popped = WordsOf(All, current)
  <2>1. vector[current] \in {7, 32, 33}
    BY <1>1 DEF StackRight, Returning, IrqBase, TimerIrq, KeyboardIrq
  <2>2. Frame(vector[current]) = ReturnFrame
    BY <2>1 DEF Frame, PushesError
  <2>3. QED BY <1>1, <2>2, StackedWords DEF StackRight
<1>3. restored' = [restored EXCEPT ![current] =
                     [n \in {All[i] : i \in DOMAIN popped} \ {"esp"} |-> Popped(n)]]
  BY DEF InterruptReturn
<1>4. ASSUME NEW n \in {All[i] : i \in DOMAIN popped} PROVE Popped(n) = [name |-> n, task |-> current]
  <2>1. \E i \in DOMAIN popped : All[i] = n
    OBVIOUS
  <2>2. PICK i \in DOMAIN popped : All[i] = n /\ Popped(n) = popped[i]
    BY <2>1
  <2>3. QED BY <1>2, <2>2 DEF WordsOf
<1> HIDE DEF popped, All, Popped
<1>5. /\ phase' = [phase EXCEPT ![current] = "running"] /\ pushed' = [pushed EXCEPT ![current] = <<>>]
      /\ UNCHANGED <<booted, current, vector, inService, panic>>
  BY DEF InterruptReturn
<1>6. ExceptionType'
  BY <1>1, <1>3, <1>5 DEF ExceptionType
<1>7. OthersLeft' /\ ServiceRight' /\ PanicRight'
  BY <1>1, <1>5 DEF ExceptionType, OthersLeft, ServiceRight, PanicRight
<1>8. RestoredRight'
  <2>1. restored'[current] = [n \in {All[i] : i \in DOMAIN popped} \ {"esp"} |-> Popped(n)]
    BY <1>1, <1>3 DEF ExceptionType
  <2>2. \A n \in DOMAIN restored'[current] : restored'[current][n] = [name |-> n, task |-> current]
    BY <1>4, <2>1
  <2>3. \A s \in Stacks : s # current => restored'[s] = restored[s]
    BY <1>3 DEF ExceptionType
  <2>4. QED BY <2>2, <2>3 DEF RestoredRight
<1>9. \A s \in Stacks : StackRight(s)'
  BY <1>1, <1>5 DEF ExceptionType, StackRight
<1>10. QED BY <1>6, <1>7, <1>8, <1>9

\* A panic: the structure the handler reads lies over the words as they were
\* pushed, unless an error code is there that it does not expect.
LEMMA PanicKeeps ==
    ASSUME ExceptionInv, Panic
    PROVE  ExceptionInv'
<1> DEFINE v == vector[current]
           All == Registers \o Frame(v)
           Stack == pushed[current] \o Words(<<"below", "below", "below">>)
           Field(n) == LET i == CHOOSE i \in DOMAIN Context(v) : Context(v)[i] = n IN Stack[i]
<1> USE DEF ExceptionInv
<1>1. current \in Stacks /\ v \in 0 .. 255 /\ phase[current] = "stacked" /\ panic = <<>>
  BY DEF ExceptionType, Panic
<1>2. v < IrqBase /\ v # 7
  <2>1. Handler(v) # "interrupt" /\ v # 7
    BY DEF Panic
  <2>2. ~(v >= IrqBase)
    BY <1>1, <2>1, Zenon DEF ServiceRight
  <2> HIDE DEF v
  <2>3. QED BY <1>1, <2>1, <2>2 DEF IrqBase
<1>3. panic' = [n \in {Context(v)[i] : i \in DOMAIN Context(v)} |-> Field(n)]
  BY DEF Panic
<1>4. ASSUME v \notin {21, 29, 30}, NEW n \in {Context(v)[i] : i \in DOMAIN Context(v)} \ {"esp2", "ss2"}
      PROVE  Field(n) = [name |-> n, task |-> current]
  <2>1. All \in Seq(Names) /\ pushed[current] = WordsOf(All, current)
    BY <1>1, StackedWords DEF StackRight
  <2>2. Context(v) = All \o <<"esp2", "ss2">>
    <3>1. ShowsError(v) <=> v \in PushesError
      BY <1>1, <1>4 DEF ShowsError, PushesError
    <3>2. Context(v) = (Registers \o Frame(v)) \o <<"esp2", "ss2">>
      BY <3>1 DEF Context, Frame
    <3>3. QED BY <3>2
  <2> HIDE DEF All
  <2>3. PICK i \in DOMAIN Context(v) : Context(v)[i] = n /\ Field(n) = Stack[i]
    OBVIOUS
  <2>4. i \in 1 .. Len(All) /\ All[i] = n
    <3>1. <<"esp2", "ss2">> \in Seq(Names) /\ Len(<<"esp2", "ss2">>) = 2
      BY <1>1, StackedWords
    <3>2. Len(Context(v)) = Len(All) + 2 /\ DOMAIN Context(v) = 1 .. Len(Context(v)) /\ Len(All) \in Nat
      BY <2>1, <2>2, <3>1, ConcatProperties, LenProperties
    <3>3. i \in 1 .. Len(All) + 2
      BY <3>2
    <3>4. CASE i > Len(All)
      <4>1. Context(v)[i] = <<"esp2", "ss2">>[i - Len(All)] /\ i - Len(All) \in {1, 2}
        BY <2>1, <2>2, <3>1, <3>2, <3>3, <3>4, ConcatProperties
      <4>2. QED BY <2>3, <4>1
    <3>5. CASE i <= Len(All)
      BY <2>1, <2>2, <2>3, <3>1, <3>2, <3>3, <3>5, ConcatProperties
    <3>6. QED BY <3>2, <3>3, <3>4, <3>5
  <2>5. Stack[i] = WordsOf(All, current)[i]
    <3>1. Words(<<"below", "below", "below">>) \in Seq(StackWord)
      BY <1>1 DEF Words, StackWord, Names
    <3>2. WordsOf(All, current) \in Seq(StackWord) /\ Len(WordsOf(All, current)) = Len(All)
      BY <1>1, <2>1, WordsConcat
    <3>3. QED BY <2>1, <2>4, <3>1, <3>2, ConcatProperties
  <2>6. WordsOf(All, current)[i] = [name |-> All[i], task |-> current]
    BY <2>1, <2>4, LenProperties DEF WordsOf
  <2>7. QED BY <2>3, <2>4, <2>5, <2>6
<1> HIDE DEF v, Stack, Field, All
<1>5. UNCHANGED <<booted, current, phase, vector, pushed, restored, inService>>
  BY DEF Panic
<1>6. ExceptionType' /\ OthersLeft' /\ ServiceRight' /\ RestoredRight'
  BY <1>5 DEF ExceptionType, OthersLeft, ServiceRight, RestoredRight, Handler, Done
<1>7. PanicRight'
  BY <1>1, <1>2, <1>3, <1>4, <1>5 DEF PanicRight, v
<1>8. \A s \in Stacks : StackRight(s)'
  BY <1>5 DEF StackRight
<1>9. QED BY <1>6, <1>7, <1>8

\* The invariant, in every reachable state.
THEOREM ExceptionInvariant == ExceptionSpec => []ExceptionInv
<1>1. ExceptionInv /\ [ExceptionNext]_exceptionVars => ExceptionInv'
  <2>1. SUFFICES ASSUME ExceptionInv, [ExceptionNext]_exceptionVars PROVE ExceptionInv'
    OBVIOUS
  <2>2. CASE UNCHANGED exceptionVars
    BY <2>1, <2>2 DEF exceptionVars, ExceptionInv, ExceptionType, OthersLeft, ServiceRight, RestoredRight,
                      PanicRight, StackRight, Handler, Done
  <2>3. CASE BootStep
    BY <2>1, <2>3, BootKeeps
  <2>4. ASSUME NEW v \in Vectors, Raise(v) PROVE ExceptionInv'
    BY <2>1, <2>4, RaiseKeeps
  <2>5. CASE PushRegisters
    BY <2>1, <2>5, PushKeeps
  <2>6. CASE HandleIrq \/ HandleNM
    BY <2>1, <2>6, HandleKeeps
  <2>7. CASE Panic
    BY <2>1, <2>7, PanicKeeps
  <2>8. CASE InterruptReturn
    BY <2>1, <2>8, ReturnKeeps
  <2>9. CASE Schedule
    BY <2>1, <2>9, ScheduleKeeps
  <2>10. QED BY <2>1, <2>2, <2>3, <2>4, <2>5, <2>6, <2>7, <2>8, <2>9 DEF ExceptionNext
<1>2. QED BY ExceptionInitial, <1>1, PTL DEF ExceptionSpec

\* Whatever exceptions and interrupts come up, and whichever task the timer's
\* handler, or a task by itself, goes on with: a task gets its own registers back,
\* a panic shows the interrupted code's, no request is kept back while a task runs,
\* and none comes up before its handler is there (interrupt.asm, int_except.c, pic.c, ckMain.c).
THEOREM InterruptsTransparent == ExceptionSpec => []Transparent
<1>1. ExceptionInv => Transparent
  BY DEF ExceptionInv, ServiceRight, RestoredRight, PanicRight, Transparent
<1>2. QED BY ExceptionInvariant, <1>1, PTL
=============================================================================
