---------------------------- MODULE CoshellProofs ---------------------------
(***************************************************************************)
(* The proofs about the shell and what it starts: the clock, the game and  *)
(* the mutex, each for every value of its constants, then that in the      *)
(* shell that starts them each of them does only what it does by itself,   *)
(* and last the formatted printing of what it shows.                       *)
(***************************************************************************)
EXTENDS Coshell, Format, FiniteSetTheorems, SequenceTheorems, WellFoundedInduction, TLAPS

-----------------------------------------------------------------------------
(* The clock: what is read is never ahead, and the day of the week is      *)
(* right, on every date of the century.                                    *)

\* What was read, with the clock's hour instead of 24.
Corrected == [i \in 1 .. 6 |-> IF i = 4 /\ Is12Hour /\ read[4] = 24 THEN 12 ELSE read[i]]

RtcType ==
    /\ clock \in Moments
    /\ IsBCD \in BOOLEAN /\ Is12Hour \in BOOLEAN /\ carried \in BOOLEAN
    /\ JanFeb \in {<<0, 3>>, <<6, 2>>}
    /\ \E k \in 0 .. 6 : DOMAIN read = 1 .. k
    /\ \A i \in DOMAIN read : Corrected[i] \in Fields[i]
    /\ Is12Hour /\ 4 \in DOMAIN read => read[4] # 12

\* As far as it is read, the first field that is not the clock's is less.
PrefixNotAhead ==
    \A i \in DOMAIN read : (\A j \in 1 .. i - 1 : Corrected[j] = clock[j]) => Corrected[i] <= clock[i]

Uncarried == ~carried => \A i \in DOMAIN read : Corrected[i] = clock[i]

\* The day of the week is the date's, as the table now gives it, which has been
\* set for the date's year.
WeekdaySet ==
    dayofweek # 0 =>
        /\ {1, 2, 3} \subseteq DOMAIN read
        /\ JanFeb = JanFebFor(read[1])
        /\ dayofweek = CalcWeekday(read[1], read[2], read[3])

RtcInv == RtcType /\ PrefixNotAhead /\ Uncarried /\ WeekdaySet

\* What is put before a sequence does not change what is cut out behind it.
LEMMA CutBehind ==
    ASSUME NEW E, NEW two \in Seq(E), Len(two) = 2, NEW later \in Seq(E), Len(later) = 10
    PROVE  /\ SubSeq(two \o later, 3, 12) = later
           /\ \A i \in 1 .. 12 : (two \o later)[i] = IF i <= 2 THEN two[i] ELSE later[i - 2]
<1> DEFINE all == two \o later
           part == SubSeq(all, 3, 12)
<1>1. /\ all \in Seq(E) /\ Len(all) = Len(two) + Len(later)
      /\ \A i \in 1 .. Len(two) + Len(later) :
            all[i] = IF i <= Len(two) THEN two[i] ELSE later[i - Len(two)]
  BY ConcatProperties
<1>2. Len(all) = 12 /\ \A i \in 1 .. 12 : all[i] = IF i <= 2 THEN two[i] ELSE later[i - 2]
  <2> HIDE DEF all
  <2>1. QED BY <1>1
<1> HIDE DEF all
<1>3. /\ part \in Seq(E) /\ Len(part) = 10
      /\ \A i \in 1 .. 10 : part[i] = all[3 + i - 1]
  <2>1. \A i \in 3 .. 12 : all[i] \in E
    <3>1. SUFFICES ASSUME NEW i \in 3 .. 12 PROVE all[i] \in E
      OBVIOUS
    <3>2. i \in 1 .. Len(all)
      BY <1>2
    <3>3. QED BY <1>1, <3>2, ElementOfSeq
  <2>2. /\ part \in Seq(E) /\ Len(part) = IF 3 <= 12 THEN 12 - 3 + 1 ELSE 0
        /\ \A i \in 1 .. 12 - 3 + 1 : part[i] = all[3 + i - 1]
    BY <2>1, SubSeqProperties
  <2> HIDE DEF part
  <2>3. QED BY <2>2
<1> HIDE DEF part
<1>4. ASSUME NEW i \in 1 .. 10 PROVE part[i] = later[i]
  <2>1. part[i] = all[i + 2]
    BY <1>3
  <2>2. all[i + 2] = later[i]
    BY <1>2
  <2>3. QED BY <2>1, <2>2
<1>5. part = later
  BY <1>3, <1>4, SeqEqual
<1>6. QED BY <1>2, <1>5 DEF part, all

Entries == 0 .. 6
Later == <<3, 6, 1, 4, 6, 2, 5, 0, 3, 5>>

Table(two) == two \o Later
FromMarch(table) == SubSeq(table, 3, 12)

\* The entries of the table from March on are never changed.
LEMMA LaterMonths ==
    ASSUME NEW two \in {<<0, 3>>, <<6, 2>>}
    PROVE  /\ FromMarch(Table(two)) = Later
           /\ \A i \in 1 .. 12 : Table(two)[i] = IF i <= 2 THEN two[i] ELSE Later[i - 2]
<1>1. two \in Seq(Entries) /\ Len(two) = 2
  <2>1. CASE two = <<0, 3>>
    BY <2>1 DEF Entries
  <2>2. CASE two = <<6, 2>>
    BY <2>2 DEF Entries
  <2>3. QED BY <2>1, <2>2
<1>2. Later \in Seq(Entries) /\ Len(Later) = 10
  BY DEF Later, Entries
<1>3. /\ SubSeq(two \o Later, 3, 12) = Later
      /\ \A i \in 1 .. 12 : (two \o Later)[i] = IF i <= 2 THEN two[i] ELSE Later[i - 2]
  BY <1>1, <1>2, CutBehind
<1>4. QED BY <1>3 DEF Table, FromMarch

\* A register's number comes back from the format it was put into.
LEMMA FormatsInvert ==
    ASSUME NEW n \in 0 .. 99, IsBCD \in BOOLEAN
    PROVE  Decoded(Encoded(n)) = n /\ Encoded(n) \in Nat
<1>1. CASE ~IsBCD
  BY <1>1 DEF Decoded, Encoded
<1>2. CASE IsBCD
  <2> DEFINE q == n \div 10
             r == n % 10
  <2>1. q \in 0 .. 9 /\ r \in 0 .. 9 /\ n = 10 * q + r
    OBVIOUS
  <2> HIDE DEF q, r
  <2>2. (16 * q + r) \div 16 = q /\ (16 * q + r) % 16 = r
    BY <2>1
  <2>3. Encoded(n) = 16 * q + r /\ Decoded(Encoded(n)) = q * 10 + r
    BY <1>2, <2>2 DEF Decoded, Encoded, ToBCD, ckBCD8toBinary, q, r
  <2>4. QED BY <2>1, <2>3
<1>3. QED BY <1>1, <1>2

\* In either format an hour of twelve leaves bit 7 free.
LEMMA HourFitsIn7Bits ==
    ASSUME NEW n \in 0 .. 24
    PROVE  Encoded(n) \in 0 .. 127
BY DEF Encoded, ToBCD

\* The hour: with bit 7 or without, it is read as it is, but noon as 24.
LEMMA HourRead ==
    ASSUME IsBCD \in BOOLEAN, Is12Hour \in BOOLEAN, clock[4] \in 0 .. 23
    PROVE  Value(4) = IF Is12Hour /\ clock[4] = 12 THEN 24 ELSE clock[4]
<1> DEFINE h == clock[4]
           twelve == ((h + 11) % 12) + 1
<1>1. twelve \in 1 .. 12 /\ twelve = (IF h = 0 THEN 12 ELSE IF h <= 12 THEN h ELSE h - 12)
  OBVIOUS
<1>2. Value(4) = HourOf(Register(4))
  BY DEF Value
<1>3. CASE ~Is12Hour
  <2>1. Register(4) = Encoded(h) /\ Encoded(h) \in 0 .. 127 /\ Decoded(Encoded(h)) = h
    BY <1>3, HourFitsIn7Bits, FormatsInvert DEF Register
  <2> HIDE DEF h
  <2>2. Register(4) % 128 = Register(4) /\ ~(Register(4) >= 128)
    BY <2>1
  <2>3. QED BY <1>2, <1>3, <2>1, <2>2 DEF HourOf, h
<1>4. CASE Is12Hour
  <2>1. Encoded(twelve) \in 0 .. 127 /\ Decoded(Encoded(twelve)) = twelve
    BY <1>1, HourFitsIn7Bits, FormatsInvert
  <2>2. Register(4) = Encoded(twelve) + (IF h >= 12 THEN 128 ELSE 0)
    BY <1>4 DEF Register
  <2> HIDE DEF twelve
  <2>3. Register(4) % 128 = Encoded(twelve) /\ (Register(4) >= 128 <=> h >= 12)
    BY <2>1, <2>2
  <2>4. Value(4) = IF h >= 12 THEN twelve + 12 ELSE IF twelve = 12 THEN 0 ELSE twelve
    BY <1>2, <1>4, <2>1, <2>3 DEF HourOf
  <2>5. QED BY <1>1, <1>4, <2>4
<1>5. QED BY <1>3, <1>4

\* What every moment is
LEMMA MomentFields ==
    ASSUME NEW m \in Moments
    PROVE  /\ m \in [1 .. 6 -> Nat]
           /\ m[1] \in 2000 .. 2099 /\ m[2] \in 1 .. 12 /\ m[3] \in 1 .. 31
           /\ m[4] \in 0 .. 23 /\ m[5] \in 0 .. 59 /\ m[6] \in 0 .. 59
           /\ \A i \in 1 .. 6 : m[i] \in Fields[i]
BY MomentsAssumption DEF Fields

\* A moment has six numbers, each in the range of its field.
LEMMA MomentInRange ==
    ASSUME NEW m \in Moments
    PROVE  m \in [1 .. 6 -> Nat] /\ (\A i \in 1 .. 6 : m[i] \in Nat /\ m[i] \in Fields[i])
BY MomentsAssumption

\* Any field, as it is shown, is the clock's at the moment it is read.
LEMMA FieldRead ==
    ASSUME IsBCD \in BOOLEAN, Is12Hour \in BOOLEAN, clock \in Moments, NEW i \in 1 .. 6
    PROVE  (IF i = 4 /\ Is12Hour /\ Value(i) = 24 THEN 12 ELSE Value(i)) = clock[i]
<1>1. CASE i = 1
  <2>1. clock[1] % 100 \in 0 .. 99 /\ clock[1] = (clock[1] % 100) + 2000
    BY MomentFields
  <2>2. QED BY <1>1, <2>1, FormatsInvert DEF Value, Register
<1>2. CASE i = 4
  BY <1>2, HourRead, MomentFields
<1>3. CASE i \in {2, 3, 5, 6}
  <2>1. clock[i] \in 0 .. 99
    BY <1>3, MomentFields
  <2>2. QED BY <1>3, <2>1, FormatsInvert DEF Value, Register
<1>4. QED BY <1>1, <1>2, <1>3

\* The next register read is that of the next field.
LEMMA NextField ==
    ASSUME RtcType, ReadField
    PROVE  \E k \in 0 .. 5 :
              /\ DOMAIN read = 1 .. k /\ DOMAIN read' = 1 .. k + 1
              /\ Corrected'[k + 1] = clock[k + 1]
              /\ \A i \in 1 .. k : Corrected'[i] = Corrected[i] /\ read'[i] = read[i]
              /\ k + 1 = 4 /\ Is12Hour => read'[4] # 12
<1>1. PICK k \in 0 .. 6 : DOMAIN read = 1 .. k
  BY DEF RtcType
<1>2. Cardinality(DOMAIN read) = k
  <2>1. Cardinality(1 .. k) = IF 1 > k THEN 0 ELSE k - 1 + 1
    BY FS_Interval
  <2>2. QED BY <1>1, <2>1
<1>3. k \in 0 .. 5 /\ Order[k + 1] = k + 1
  BY <1>1, <1>2 DEF ReadField, Order
<1>4. /\ read' = [j \in DOMAIN read \cup {k + 1} |-> IF j = k + 1 THEN Value(k + 1) ELSE read[j]]
      /\ UNCHANGED <<clock, Is12Hour>>
  BY <1>2, <1>3 DEF ReadField
<1>5. DOMAIN read' = 1 .. k + 1 /\ read'[k + 1] = Value(k + 1) /\ \A i \in 1 .. k : read'[i] = read[i]
  BY <1>1, <1>3, <1>4
<1>6. Corrected'[k + 1] = clock[k + 1]
  BY <1>3, <1>4, <1>5, FieldRead DEF RtcType, Corrected
<1>7. \A i \in 1 .. k : Corrected'[i] = Corrected[i]
  BY <1>3, <1>4, <1>5 DEF Corrected
<1>8. k + 1 = 4 /\ Is12Hour => read'[4] # 12
  <2>1. k + 1 = 4 => Value(4) = IF Is12Hour /\ clock[4] = 12 THEN 24 ELSE clock[4]
    BY HourRead, MomentFields DEF RtcType
  <2>2. QED BY <1>3, <1>5, <2>1
<1>9. QED BY <1>1, <1>3, <1>5, <1>6, <1>7, <1>8

\* Reading the next register keeps the invariant, since the clock only goes on.
LEMMA ReadKeeps ==
    ASSUME RtcInv, ReadField
    PROVE  RtcInv'
<1> USE DEF RtcInv
<1>1. PICK k \in 0 .. 5 :
         /\ DOMAIN read = 1 .. k /\ DOMAIN read' = 1 .. k + 1
         /\ Corrected'[k + 1] = clock[k + 1]
         /\ \A i \in 1 .. k : Corrected'[i] = Corrected[i] /\ read'[i] = read[i]
         /\ k + 1 = 4 /\ Is12Hour => read'[4] # 12
  BY NextField
<1>2. UNCHANGED <<clock, IsBCD, Is12Hour, JanFeb, dayofweek, carried>>
  BY DEF ReadField
<1>3. RtcType'
  <2>1. \A i \in 1 .. k + 1 : Corrected'[i] \in Fields[i]
    <3>1. clock \in Moments /\ \A i \in 1 .. k : Corrected[i] \in Fields[i]
      BY <1>1 DEF RtcType
    <3>2. clock[k + 1] \in Fields[k + 1]
      BY <3>1, MomentInRange
    <3>3. \A i \in 1 .. k + 1 : i \in 1 .. k \/ i = k + 1
      OBVIOUS
    <3>4. QED BY <1>1, <3>1, <3>2, <3>3
  <2>2. k + 1 \in 0 .. 6
    OBVIOUS
  <2>3. \E n \in 0 .. 6 : DOMAIN read' = 1 .. n
    BY <1>1, <2>2
  <2>4. Is12Hour /\ 4 \in DOMAIN read' => read'[4] # 12
    <3>1. CASE k + 1 = 4
      BY <1>1, <3>1
    <3>2. CASE 4 \in 1 .. k
      BY <1>1, <3>2 DEF RtcType
    <3>3. QED BY <1>1, <3>1, <3>2
  <2>5. QED BY <1>1, <1>2, <2>1, <2>3, <2>4 DEF RtcType
<1>4. PrefixNotAhead'
  <2>1. SUFFICES ASSUME NEW i \in 1 .. k + 1, \A j \in 1 .. i - 1 : Corrected'[j] = clock[j]
                 PROVE  Corrected'[i] <= clock[i]
    BY <1>1, <1>2 DEF PrefixNotAhead
  <2>2. CASE i = k + 1
    <3>1. clock[i] \in Nat
      BY <2>2, MomentInRange DEF RtcType
    <3>2. QED BY <1>1, <2>2, <3>1
  <2>3. CASE i \in 1 .. k
    <3>1. \A j \in 1 .. i - 1 : Corrected[j] = clock[j]
      BY <1>1, <2>1, <2>3
    <3>2. QED BY <1>1, <2>3, <3>1 DEF PrefixNotAhead
  <2>4. QED BY <2>2, <2>3
<1>5. Uncarried'
  BY <1>1, <1>2 DEF Uncarried
<1>6. WeekdaySet'
  <2>1. SUFFICES ASSUME dayofweek # 0 PROVE WeekdaySet'
    BY <1>2 DEF WeekdaySet
  <2>2. {1, 2, 3} \subseteq 1 .. k
    BY <1>1, <2>1 DEF WeekdaySet
  <2>3. read'[1] = read[1] /\ read'[2] = read[2] /\ read'[3] = read[3] /\ {1, 2, 3} \subseteq DOMAIN read'
    BY <1>1, <2>2
  <2>4. QED BY <1>2, <2>1, <2>3 DEF WeekdaySet, JanFebFor, CalcWeekday, MonthsTable
<1>7. QED BY <1>3, <1>4, <1>5, <1>6

\* Time that passes puts nothing that was read ahead of the clock: what was read
\* is not ahead of the moment before.
LEMMA PassKeeps ==
    ASSUME RtcInv, Pass
    PROVE  RtcInv'
<1> USE DEF RtcInv
<1>1. PICK m \in Moments :
         /\ Before(clock, m) /\ clock' = m
         /\ carried' = (carried \/ \E i \in DOMAIN read : m[i] # clock[i])
         /\ UNCHANGED <<IsBCD, Is12Hour, JanFeb, asked, read, dayofweek, reads>>
  BY DEF Pass
<1>2. Corrected' = Corrected
  BY <1>1 DEF Corrected
<1>3. RtcType'
  BY <1>1, <1>2 DEF RtcType
<1>4. PrefixNotAhead'
  <2>1. SUFFICES ASSUME NEW i \in DOMAIN read, \A j \in 1 .. i - 1 : Corrected[j] = m[j]
                 PROVE  Corrected[i] <= m[i]
    BY <1>1, <1>2 DEF PrefixNotAhead
  <2>2. PICK b \in 1 .. 6 : clock[b] < m[b] /\ \A j \in 1 .. b - 1 : clock[j] = m[j]
    BY <1>1 DEF Before
  <2>3. i \in 1 .. 6 /\ \A j \in 1 .. i : j \in DOMAIN read
    BY DEF RtcType
  <2>4. \A j \in 1 .. 6 : clock[j] \in Nat /\ m[j] \in Nat
    BY MomentInRange DEF RtcType
  <2>5. Corrected[i] \in Nat
    <3>1. Corrected[i] \in Fields[i]
      BY DEF RtcType
    <3>2. QED BY <2>3, <3>1 DEF Fields
  <2>6. CASE b < i
    <3>1. b \in DOMAIN read /\ \A j \in 1 .. b - 1 : Corrected[j] = clock[j]
      BY <2>1, <2>2, <2>3, <2>6
    <3>2. Corrected[b] = m[b]
      BY <2>1, <2>2, <2>6, <2>3
    <3>3. Corrected[b] <= clock[b]
      BY <3>1 DEF PrefixNotAhead
    <3>4. QED BY <2>2, <2>4, <3>2, <3>3
  <2>7. CASE ~(b < i)
    <3>1. \A j \in 1 .. i - 1 : Corrected[j] = clock[j]
      BY <2>1, <2>2, <2>3, <2>7
    <3>2. Corrected[i] <= clock[i]
      BY <3>1 DEF PrefixNotAhead
    <3>3. clock[i] <= m[i]
      BY <2>2, <2>3, <2>4, <2>7
    <3>4. QED BY <2>3, <2>4, <2>5, <3>2, <3>3
  <2>8. QED BY <2>6, <2>7
<1>5. Uncarried'
  BY <1>1, <1>2 DEF Uncarried, RtcType
<1>6. WeekdaySet'
  BY <1>1 DEF WeekdaySet, JanFebFor, CalcWeekday, MonthsTable
<1>7. QED BY <1>3, <1>4, <1>5, <1>6

\* ckRTCReadDate ends: the table is set for the year before it is used.
LEMMA WeekdayKeeps ==
    ASSUME RtcInv, SetWeekday
    PROVE  RtcInv'
<1> USE DEF RtcInv
<1>1. /\ DOMAIN read = 1 .. 3
      /\ dayofweek' = CalcWeekday(read[1], read[2], read[3]) /\ JanFeb' = JanFebFor(read[1])
      /\ UNCHANGED <<clock, IsBCD, Is12Hour, asked, read, carried, reads>>
  BY DEF SetWeekday
<1>2. Corrected' = Corrected /\ JanFeb' \in {<<0, 3>>, <<6, 2>>}
  BY <1>1 DEF Corrected, RtcType, JanFebFor
<1>3. RtcType' /\ PrefixNotAhead' /\ Uncarried'
  BY <1>1, <1>2 DEF RtcType, PrefixNotAhead, Uncarried
<1>4. JanFebFor(read[1])' = JanFebFor(read[1])
  BY <1>1 DEF JanFebFor
<1>5. SubSeq(MonthsTable, 3, 12)' = SubSeq(MonthsTable, 3, 12)
  <2>1. MonthsTable = Table(JanFeb) /\ MonthsTable' = Table(JanFeb')
    BY DEF MonthsTable, Later, Table
  <2>2. FromMarch(MonthsTable) = Later
    BY <2>1, LaterMonths DEF RtcType
  <2>3. FromMarch(MonthsTable') = Later
    BY <1>2, <2>1, LaterMonths
  <2>4. QED BY <2>2, <2>3, Zenon DEF FromMarch
<1>6. CalcWeekday(read[1], read[2], read[3])' = CalcWeekday(read[1], read[2], read[3])
  BY <1>1, <1>4, <1>5 DEF CalcWeekday
<1>7. WeekdaySet'
  BY <1>1, <1>4, <1>6 DEF WeekdaySet
<1>8. QED BY <1>3, <1>7

\* The fields read are those of earlier moments of the clock, the large ones of the
\* earliest, and the table is as it was linked or as a leap year leaves it (rtc.c).
THEOREM RtcInvariant == RtcSpec => []RtcInv
<1>1. RtcInit => RtcInv
  <2>1. SUFFICES ASSUME RtcInit PROVE RtcInv
    OBVIOUS
  <2>2. DOMAIN read = 1 .. 0 /\ DOMAIN read = {}
    BY <2>1 DEF RtcInit
  <2>3. RtcType
    <3>1. 0 \in 0 .. 6 /\ \A i \in DOMAIN read : Corrected[i] \in Fields[i]
      BY <2>2
    <3>2. \E k \in 0 .. 6 : DOMAIN read = 1 .. k
      BY <2>2, <3>1
    <3>3. ~(4 \in DOMAIN read)
      BY <2>2
    <3>4. QED BY <2>1, <3>1, <3>2, <3>3 DEF RtcInit, RtcType
  <2>4. QED BY <2>1, <2>2, <2>3 DEF RtcInit, RtcInv, PrefixNotAhead, Uncarried, WeekdaySet
<1>2. RtcInv /\ [RtcNext]_rtcVars => RtcInv'
  <2>1. SUFFICES ASSUME RtcInv, [RtcNext]_rtcVars PROVE RtcInv'
    OBVIOUS
  <2> DEFINE Same == UNCHANGED <<clock, IsBCD, Is12Hour, JanFeb, read, dayofweek, carried>>
  <2>2. ASSUME Same PROVE RtcInv'
    <3>1. Corrected' = Corrected /\ CalcWeekday(read[1], read[2], read[3])' = CalcWeekday(read[1], read[2], read[3])
      BY <2>2 DEF Corrected, JanFebFor, CalcWeekday, MonthsTable
    <3>2. RtcType' /\ PrefixNotAhead' /\ Uncarried'
      BY <2>1, <2>2, <3>1 DEF RtcInv, RtcType, PrefixNotAhead, Uncarried
    <3>3. WeekdaySet'
      BY <2>1, <2>2, <3>1 DEF RtcInv, WeekdaySet, JanFebFor
    <3>4. QED BY <3>2, <3>3 DEF RtcInv
  <2>3. CASE UNCHANGED rtcVars
    BY <2>2, <2>3 DEF rtcVars
  <2>4. CASE Pass
    BY <2>1, <2>4, PassKeeps
  <2>5. CASE Ask
    <3>1. DOMAIN read' = 1 .. 0 /\ DOMAIN read' = {} /\ dayofweek' = 0 /\ carried' = FALSE
          /\ UNCHANGED <<clock, IsBCD, Is12Hour, JanFeb>>
      BY <2>5 DEF Ask
    <3>2. RtcType'
      <4>1. 0 \in 0 .. 6 /\ \A i \in DOMAIN read' : Corrected'[i] \in Fields[i]
        BY <3>1
      <4>2. \E k \in 0 .. 6 : DOMAIN read' = 1 .. k
        BY <3>1, <4>1
      <4>3. QED BY <2>1, <3>1, <4>1, <4>2 DEF RtcInv, RtcType
    <3>3. QED BY <2>1, <3>1, <3>2 DEF RtcInv, PrefixNotAhead, Uncarried, WeekdaySet
  <2>6. CASE ReadField
    BY <2>1, <2>6, ReadKeeps
  <2>7. CASE SetWeekday
    BY <2>1, <2>7, WeekdayKeeps
  <2>8. CASE Show
    BY <2>2, <2>8 DEF Show
  <2>9. QED BY <2>1, <2>3, <2>4, <2>5, <2>6, <2>7, <2>8 DEF RtcNext
<1>3. QED BY <1>1, <1>2, PTL DEF RtcSpec

\* Whatever time passes between two registers, and in every format of the clock, the
\* date and time shown are ahead of it only by the hour 24 that stands for noon in
\* 12-hour mode, and are the clock's, or that, when nothing changed (rtc.c:50-108).
THEOREM ShownAheadOnlyAtNoon == RtcSpec => []AheadOnlyAtNoon
<1>1. RtcInv => AheadOnlyAtNoon
  <2>1. SUFFICES ASSUME RtcInv, DOMAIN read = 1 .. 6
                 PROVE  /\ Before(clock, read) => NoonAs24
                        /\ NoonAs24 => ~Before(clock, [read EXCEPT ![4] = 12])
                        /\ ~carried =>
                             \A i \in 1 .. 6 :
                                read[i] = IF i = 4 /\ Is12Hour /\ clock[4] = 12 THEN 24 ELSE clock[i]
    BY DEF AheadOnlyAtNoon
  <2>2. /\ \A j \in 1 .. 6 : clock[j] \in Nat /\ Corrected[j] \in Fields[j]
        /\ clock = [j \in 1 .. 6 |-> clock[j]]
    <3>1. clock \in [1 .. 6 -> Nat]
      BY <2>1, MomentInRange DEF RtcInv, RtcType
    <3>2. QED BY <2>1, <3>1 DEF RtcInv, RtcType
  <2>3. \A j \in 1 .. 6 : Corrected[j] \in Nat
    BY <2>2 DEF Fields
  <2>4. ~Before(clock, Corrected)
    <3>1. SUFFICES ASSUME NEW i \in 1 .. 6, clock[i] < Corrected[i], \A j \in 1 .. i - 1 : clock[j] = Corrected[j]
                   PROVE  FALSE
      BY DEF Before
    <3>2. Corrected[i] <= clock[i]
      BY <2>1, <3>1 DEF RtcInv, PrefixNotAhead
    <3>3. QED BY <2>2, <2>3, <3>1, <3>2
  <2>5. ~NoonAs24 => \A i \in 1 .. 6 : read[i] = Corrected[i]
    BY DEF NoonAs24, Corrected
  <2>6. NoonAs24 => \A i \in 1 .. 6 : [read EXCEPT ![4] = 12][i] = Corrected[i]
    BY <2>1 DEF NoonAs24, Corrected
  <2>7. Before(clock, read) => NoonAs24
    BY <2>4, <2>5 DEF Before
  <2>8. NoonAs24 => ~Before(clock, [read EXCEPT ![4] = 12])
    <3> DEFINE noon == [read EXCEPT ![4] = 12]
    <3>1. NoonAs24 => \A i \in 1 .. 6 : noon[i] = Corrected[i]
      BY <2>6
    <3> HIDE DEF noon
    <3>2. NoonAs24 => ~Before(clock, noon)
      BY <2>4, <3>1 DEF Before
    <3>3. QED BY <3>2 DEF noon
  <2>9. ASSUME ~carried, NEW i \in 1 .. 6
        PROVE  read[i] = IF i = 4 /\ Is12Hour /\ clock[4] = 12 THEN 24 ELSE clock[i]
    <3>1. Corrected[4] = clock[4] /\ Corrected[i] = clock[i]
      BY <2>1, <2>9 DEF RtcInv, Uncarried
    <3>2. Is12Hour => read[4] # 12
      BY <2>1 DEF RtcInv, RtcType
    <3>3. NoonAs24 <=> Is12Hour /\ clock[4] = 12
      BY <3>1, <3>2 DEF NoonAs24, Corrected
    <3>4. QED BY <3>1, <3>3 DEF NoonAs24, Corrected
  <2>10. QED BY <2>7, <2>8, <2>9
<1>2. QED BY RtcInvariant, <1>1, PTL

\* Of the century's years the leap years are every fourth.
LEMMA LeapYears ==
    ASSUME NEW n \in 0 .. 99
    PROVE  IsLeap(2000 + n) <=> n % 4 = 0
<1>1. (2000 + n) % 4 = n % 4 /\ (2000 + n) % 100 = n
  OBVIOUS
<1>2. n = 0 => (2000 + n) % 400 = 0
  OBVIOUS
<1>3. n % 4 # 0 => (2000 + n) % 400 # 0
  OBVIOUS
<1>4. n = 0 => n % 4 = 0
  OBVIOUS
<1>5. QED BY <1>1, <1>2, <1>3, <1>4 DEF IsLeap

\* Weeks do not change the day of the week.
LEMMA WholeWeeks ==
    ASSUME NEW a \in Int, NEW k \in Int
    PROVE  (a + 7 * k) % 7 = a % 7
OBVIOUS

\* The days before a month, in a year that is not a leap year, and the table's
\* offset for it differ by whole weeks.
LEMMA MonthOffsets ==
    ASSUME NEW m \in 1 .. 12
    PROVE  \E k \in 0 .. 48 : MonthStart[m] = 7 * k + (IF m <= 2 THEN <<0, 3>>[m] ELSE Later[m - 2])
<1>1. m \in {1, 2, 3, 4, 5, 6, 7, 8, 9, 10, 11, 12}
  OBVIOUS
<1>2. \A k \in {0, 4, 8, 12, 17, 21, 25, 30, 34, 39, 43, 47} : k \in 0 .. 48
  OBVIOUS
<1>3. QED BY <1>1, <1>2 DEF MonthStart, Later

\* What csCalcWeekday calculates from the entries of the first two months; the
\* right day, Sunday being 0; and the day it gives when the table is a leap
\* year's and the year is not.
Formula(two, y, m, d) == ((d + Table(two)[m] + (y % 100) + (y % 100) \div 4 + 6) % 7) + 1
RightDay(y, m, d) == (DaysSince2000(y, m, d) + 6) % 7
Stale(two, y, m) == two = <<6, 2>> /\ ~IsLeap(y) /\ m <= 2
Weekday(two, y, m, d) == ((IF Stale(two, y, m) THEN RightDay(y, m, d) + 6 ELSE RightDay(y, m, d)) % 7) + 1

\* The formula gives the right day, but the one before it in January and
\* February when the table is a leap year's and the year is not.
LEMMA WeekdayFormula ==
    ASSUME NEW two \in {<<0, 3>>, <<6, 2>>}, NEW y \in 2000 .. 2099, NEW m \in 1 .. 12, NEW d \in 1 .. 31,
           IsLeap(y) => two = <<6, 2>>
    PROVE  Formula(two, y, m, d) = Weekday(two, y, m, d)
<1> DEFINE n == y - 2000
           q == n \div 4
           leap == IsLeap(y)
           offset == IF m <= 2 THEN two[m] ELSE Later[m - 2]
           correct == RightDay(y, m, d)
           stale == Stale(two, y, m)
<1>1. n \in 0 .. 99 /\ y = 2000 + n /\ y % 100 = n /\ (leap <=> n % 4 = 0)
  <2>1. n \in 0 .. 99 /\ y = 2000 + n
    OBVIOUS
  <2>2. QED BY <2>1, LeapYears
<1>2. Formula(two, y, m, d) = ((d + offset + n + q + 6) % 7) + 1
  <2>1. Table(two)[m] = offset
    BY LaterMonths
  <2>2. (y % 100) \div 4 = q
    BY <1>1
  <2>3. QED BY <1>1, <2>1, <2>2 DEF Formula
<1>3. offset \in Int /\ MonthStart[m] \in Int
  BY DEF Later, MonthStart
<1>4. (n + 3) \div 4 = IF leap THEN q ELSE q + 1
  BY <1>1
<1>5. DaysSince2000(y, m, d) =
        365 * n + (IF leap THEN q ELSE q + 1) + MonthStart[m] + (IF m > 2 /\ leap THEN 1 ELSE 0) + d - 1
  BY <1>4 DEF DaysSince2000
<1>6. q \in Int /\ n \in Int
  BY <1>1
<1>7. PICK k \in 0 .. 48 : MonthStart[m] = 7 * k + (IF m <= 2 THEN <<0, 3>>[m] ELSE Later[m - 2])
  BY MonthOffsets
<1>8. leap => two = <<6, 2>>
  OBVIOUS
<1> HIDE DEF n, q, leap, offset
<1>9. CASE m > 2
  <2>1. MonthStart[m] = 7 * k + offset
    BY <1>7, <1>9 DEF offset
  <2>2. DaysSince2000(y, m, d) + 6 = (d + offset + n + q + 6) + 7 * (52 * n + k)
    BY <1>3, <1>5, <1>6, <1>9, <2>1
  <2>3. correct = (d + offset + n + q + 6) % 7
    BY <1>3, <1>6, <2>2, WholeWeeks DEF RightDay
  <2>4. ~stale /\ correct % 7 = correct
    BY <1>3, <1>6, <1>9, <2>3 DEF Stale
  <2>5. QED BY <1>2, <2>3, <2>4 DEF Weekday
<1>10. CASE m <= 2
  <2> DEFINE usual == <<0, 3>>[m]
  <2>1. MonthStart[m] = 7 * k + usual /\ usual \in {0, 3} /\ offset = two[m]
    BY <1>7, <1>10 DEF offset
  <2>2. two = <<6, 2>> => offset = IF m = 1 THEN 6 ELSE 2
    BY <1>10, <2>1
  <2>3. two = <<0, 3>> => offset = usual
    BY <2>1
  <2>4. usual = IF m = 1 THEN 0 ELSE 3
    BY <1>10
  <2> HIDE DEF usual
  <2>5. CASE leap
    <3>1. two = <<6, 2>>
      BY <1>8, <2>5
    <3>2. \E w \in {0, 1} : 7 * w = offset + 1 - usual
      BY <1>10, <2>2, <2>4, <3>1
    <3>3. PICK w \in {0, 1} : 7 * w = offset + 1 - usual
      BY <3>2
    <3>4. (d + offset + n + q + 6) = (DaysSince2000(y, m, d) + 6) + 7 * (w - 52 * n - k)
      BY <1>3, <1>5, <1>6, <1>10, <2>1, <2>5, <3>3
    <3>5. DaysSince2000(y, m, d) + 6 \in Int
      BY <1>3, <1>5, <1>6
    <3>6. correct = (d + offset + n + q + 6) % 7
      BY <1>6, <3>3, <3>4, <3>5, WholeWeeks DEF RightDay
    <3>7. ~stale /\ correct % 7 = correct
      BY <2>5, <3>5 DEF Stale, RightDay, leap
    <3>8. QED BY <1>2, <3>6, <3>7 DEF Weekday
  <2>6. CASE ~leap /\ two = <<0, 3>>
    <3>1. DaysSince2000(y, m, d) + 6 = (d + offset + n + q + 6) + 7 * (52 * n + k)
      BY <1>3, <1>5, <1>6, <1>10, <2>1, <2>3, <2>6
    <3>2. correct = (d + offset + n + q + 6) % 7
      BY <1>3, <1>6, <3>1, WholeWeeks DEF RightDay
    <3>3. ~stale /\ correct % 7 = correct
      BY <1>3, <1>6, <2>6, <3>2 DEF Stale
    <3>4. QED BY <1>2, <3>2, <3>3 DEF Weekday
  <2>7. CASE ~leap /\ two = <<6, 2>>
    <3>1. \E w \in {0, 1} : 7 * w = offset + 1 - usual
      BY <1>10, <2>2, <2>4, <2>7
    <3>2. PICK w \in {0, 1} : 7 * w = offset + 1 - usual
      BY <3>1
    <3>3. (d + offset + n + q + 6) = (DaysSince2000(y, m, d) + 6 + 6) + 7 * (w - 1 - 52 * n - k)
      <4>1. DaysSince2000(y, m, d) = 365 * n + (q + 1) + (7 * k + usual) + 0 + d - 1
        BY <1>5, <1>6, <1>10, <2>1, <2>7
      <4>2. QED BY <1>3, <1>6, <2>1, <3>2, <4>1
    <3>4. DaysSince2000(y, m, d) \in Int
      BY <1>3, <1>5, <1>6
    <3>5. (d + offset + n + q + 6) % 7 = (DaysSince2000(y, m, d) + 6 + 6) % 7
      BY <1>6, <3>2, <3>3, <3>4, WholeWeeks
    <3>6. (correct + 6) % 7 = (DaysSince2000(y, m, d) + 6 + 6) % 7
      BY <3>4 DEF RightDay
    <3>7. stale
      BY <1>10, <2>7 DEF Stale, leap
    <3>8. QED BY <1>2, <3>5, <3>6, <3>7 DEF Weekday
  <2>8. QED BY <2>5, <2>6, <2>7
<1>11. QED BY <1>9, <1>10

\* The day of the week is that of the date shown, on every date of the century,
\* except in January and February once a leap year has been read (rtc.c:110-129).
THEOREM WeekdaysRight == RtcSpec => []WeekdayRight
<1>1. RtcInv => WeekdayRight
  <2>1. SUFFICES ASSUME RtcInv, dayofweek # 0 PROVE WeekdayRight
    BY DEF WeekdayRight
  <2>2. /\ dayofweek = CalcWeekday(read[1], read[2], read[3]) /\ JanFeb = JanFebFor(read[1])
        /\ {1, 2, 3} \subseteq DOMAIN read /\ JanFeb \in {<<0, 3>>, <<6, 2>>}
    BY <2>1 DEF RtcInv, WeekdaySet, RtcType
  <2>3. read[1] \in 2000 .. 2099 /\ read[2] \in 1 .. 12 /\ read[3] \in 1 .. 31
    <3>1. Corrected[1] = read[1] /\ Corrected[2] = read[2] /\ Corrected[3] = read[3]
      BY DEF Corrected
    <3>2. Corrected[1] \in Fields[1] /\ Corrected[2] \in Fields[2] /\ Corrected[3] \in Fields[3]
      BY <2>1, <2>2 DEF RtcInv, RtcType
    <3>3. QED BY <3>1, <3>2 DEF Fields
  <2>4. CalcWeekday(read[1], read[2], read[3]) = Formula(JanFeb, read[1], read[2], read[3])
    <3> DEFINE cut == SubSeq(MonthsTable, 3, 12)
    <3>1. MonthsTable = Table(JanFeb)
      BY DEF MonthsTable, Later, Table
    <3>2. FromMarch(MonthsTable) = Later
      BY <2>2, <3>1, LaterMonths
    <3>3. cut = Later
      BY <3>2 DEF FromMarch
    <3>4. CalcWeekday(read[1], read[2], read[3])
            = ((read[3] + (JanFebFor(read[1]) \o cut)[read[2]] + (read[1] % 100) + (read[1] % 100) \div 4 + 6) % 7) + 1
      BY DEF CalcWeekday
    <3> HIDE DEF cut
    <3>5. JanFebFor(read[1]) \o cut = Table(JanFeb)
      <4>1. ASSUME NEW a, NEW b, a = JanFeb, b = Later PROVE a \o b = Table(JanFeb)
        BY <4>1 DEF Table
      <4>2. QED BY <2>2, <3>3, <4>1
    <3>6. QED BY <3>4, <3>5 DEF Formula
  <2>5. Formula(JanFeb, read[1], read[2], read[3]) = Weekday(JanFeb, read[1], read[2], read[3])
    <3> DEFINE P(two, y, m, d) == /\ two \in {<<0, 3>>, <<6, 2>>} /\ (IsLeap(y) => two = <<6, 2>>)
                                  /\ y \in 2000 .. 2099 /\ m \in 1 .. 12 /\ d \in 1 .. 31
               Q(two, y, m, d) == Formula(two, y, m, d) = Weekday(two, y, m, d)
    <3>1. \A two, y, m, d : P(two, y, m, d) => Q(two, y, m, d)
      <4> DEFINE Years == 2000 .. 2099
                 Months == 1 .. 12
                 Days == 1 .. 31
                 Twos == {<<0, 3>>, <<6, 2>>}
      <4>1. \A two \in Twos, y \in Years, m \in Months, d \in Days :
              (IsLeap(y) => two = <<6, 2>>) => Q(two, y, m, d)
        BY WeekdayFormula
      <4>2. \A two, y, m, d : P(two, y, m, d)
              => two \in Twos /\ y \in Years /\ m \in Months /\ d \in Days /\ (IsLeap(y) => two = <<6, 2>>)
        OBVIOUS
      <4> HIDE DEF P, Q, Years, Months, Days, Twos
      <4>3. QED BY <4>1, <4>2
    <3>2. P(JanFeb, read[1], read[2], read[3])
      BY <2>2, <2>3 DEF JanFebFor
    <3> HIDE DEF P, Q
    <3>3. Q(JanFeb, read[1], read[2], read[3])
      BY <3>1, <3>2
    <3>4. QED BY <3>3 DEF Q
  <2>6. QED BY <2>2, <2>4, <2>5 DEF WeekdayRight, Weekday, RightDay, Stale
<1>2. QED BY RtcInvariant, <1>1, PTL

-----------------------------------------------------------------------------
(* The game: for every number of maps of every size, each with walls all   *)
(* around and one player, nothing gets past the walls, and no stage is     *)
(* cleared with a box beside a target.                                     *)

Kinds == {Wall, Box, Target, Floor, Man}

SokobanType ==
    /\ stage \in [Cells -> Kinds]
    /\ player \in Cells
    /\ RoundNum \in 0 .. MaxStage - 1
    /\ game \in {"off", "loading", "playing", "cleared"}

\* The walls are those of the map that was copied, and the player is not in one.
WallsStay ==
    /\ \A c \in Cells : (stage[c] = Wall) <=> (StageData[RoundNum][c] = Wall)
    /\ stage[player] # Wall

SokobanInv == SokobanType /\ WallsStay

\* From a cell that is not at the edge every arrow leads to a cell.
LEMMA NextCell ==
    ASSUME NEW c \in Cells, c \notin Edge, NEW d \in DOMAIN Delta
    PROVE  Step(c, d, 1) \in Cells
<1>1. /\ c = <<c[1], c[2]>>
      /\ c[1] \in 0 .. Rows - 1 /\ c[2] \in 0 .. Cols - 1
  BY DEF Cells
<1>2. c[1] \notin {0, Rows - 1} /\ c[2] \notin {0, Cols - 1}
  BY DEF Edge
<1>3. d \in {"up", "down", "left", "right"}
  BY DEF Delta
<1>4. Step(c, d, 1) \in {<<c[1] - 1, c[2]>>, <<c[1] + 1, c[2]>>, <<c[1], c[2] - 1>>, <<c[1], c[2] + 1>>}
  BY <1>1, <1>3 DEF Step, Delta
<1>5. /\ c[1] - 1 \in 0 .. Rows - 1 /\ c[1] + 1 \in 0 .. Rows - 1
      /\ c[2] - 1 \in 0 .. Cols - 1 /\ c[2] + 1 \in 0 .. Cols - 1
  <2>1. Rows \in Nat /\ Cols \in Nat
    BY MapsAssumption
  <2>2. \A n \in Nat : \A k \in 0 .. n - 1 : k \notin {0, n - 1} => k - 1 \in 0 .. n - 1 /\ k + 1 \in 0 .. n - 1
    OBVIOUS
  <2>3. QED BY <1>1, <1>2, <2>1, <2>2
<1>6. QED BY <1>1, <1>4, <1>5 DEF Cells

\* Two steps at once are a step and another one.
LEMMA TwoSteps ==
    ASSUME NEW c \in Cells, NEW d \in DOMAIN Delta
    PROVE  Step(c, d, 2) = Step(Step(c, d, 1), d, 1)
<1>1. c[1] \in Int /\ c[2] \in Int
  BY MapsAssumption DEF Cells
<1>2. d \in {"up", "down", "left", "right"}
  BY DEF Delta
<1>3. QED BY <1>1, <1>2 DEF Step, Delta

\* What the maps are
LEMMA ClosedMap ==
    ASSUME NEW n \in 0 .. MaxStage - 1
    PROVE  /\ StageData[n] \in [Cells -> Kinds]
           /\ \A c \in Edge : StageData[n][c] = Wall
           /\ \E c \in Cells : StageData[n][c] = Man
BY MapsAssumption, ClosedAssumption DEF Closed, Kinds

\* A cell ahead of the player, and the one behind a box there, are in the map.
LEMMA AheadInMap ==
    ASSUME SokobanInv, NEW d \in DOMAIN Delta
    PROVE  /\ Step(player, d, 1) \in Cells
           /\ stage[Step(player, d, 1)] # Wall => Step(player, d, 2) \in Cells
<1> USE DEF SokobanInv, SokobanType
<1>1. \A c \in Cells : stage[c] # Wall => c \notin Edge
  BY ClosedMap DEF WallsStay
<1>2. Step(player, d, 1) \in Cells
  BY <1>1, NextCell DEF WallsStay
<1>3. ASSUME stage[Step(player, d, 1)] # Wall PROVE Step(player, d, 2) \in Cells
  <2>1. Step(player, d, 1) \notin Edge
    BY <1>1, <1>2, <1>3
  <2>2. Step(Step(player, d, 1), d, 1) \in Cells
    BY <1>2, <2>1, NextCell
  <2>3. QED BY <2>2, TwoSteps
<1>4. QED BY <1>2, <1>3

\* A copied map has the walls of the map, and the player where the map shows one.
LEMMA CopyGives ==
    ASSUME NEW n \in 0 .. MaxStage - 1, NEW m,
           m = CHOOSE c \in Cells : StageData[n][c] = Man
    PROVE  LET s == [StageData[n] EXCEPT ![m] = Floor]
           IN  /\ m \in Cells
               /\ s \in [Cells -> Kinds]
               /\ \A c \in Cells : (s[c] = Wall) <=> (StageData[n][c] = Wall)
               /\ s[m] # Wall
<1>1. m \in Cells /\ StageData[n][m] = Man
  BY ClosedMap
<1>2. StageData[n] \in [Cells -> Kinds]
  BY ClosedMap
<1>3. QED BY <1>1, <1>2 DEF Kinds, Wall, Man, Floor

\* Copying the next map to the stage leaves its walls, boxes and player where they are.
LEMMA CopyKeeps ==
    ASSUME SokobanType, NEW n \in 0 .. MaxStage - 1, Copy(n),
           game' \in {"off", "loading", "playing", "cleared"}
    PROVE  SokobanInv'
BY CopyGives DEF Copy, SokobanInv, SokobanType, WallsStay

\* A move (PlayerMoveAction): a box is pushed only where there is no wall, and the
\* player walks only where there is none.
LEMMA MoveKeeps ==
    ASSUME SokobanInv, NEW d \in DOMAIN Delta, Move(d), UNCHANGED RoundNum,
           game' \in {"off", "loading", "playing", "cleared"}
    PROVE  SokobanInv'
<1> USE DEF SokobanInv, SokobanType
<1>1. CASE Stopped(d)
  BY <1>1 DEF Move, WallsStay
<1>2. CASE ~Stopped(d)
  <2> DEFINE next == Step(player, d, 1)
             behind == Step(player, d, 2)
  <2>1. stage[next] # Wall
    BY <1>2 DEF Stopped
  <2>2. next \in Cells /\ behind \in Cells
    BY <2>1, AheadInMap
  <2>3. /\ player' = next
        /\ stage' = IF Pushes(d) THEN [stage EXCEPT ![next] = Floor, ![behind] = Box] ELSE stage
    BY <1>2 DEF Move
  <2> HIDE DEF next, behind
  <2>4. CASE ~Pushes(d)
    BY <2>1, <2>2, <2>3, <2>4 DEF WallsStay
  <2>5. CASE Pushes(d)
    <3>1. stage[next] = Box /\ (stage[behind] = Floor \/ StageData[RoundNum][behind] = Target)
      BY <2>5 DEF Pushes, Takes, next, behind
    <3>2. stage[behind] # Wall /\ StageData[RoundNum][next] # Wall
      BY <2>1, <2>2, <3>1 DEF WallsStay, Wall, Floor, Target
    <3>3. stage' \in [Cells -> Kinds]
      BY <2>2, <2>3, <2>5 DEF Kinds
    <3>4. \A c \in Cells : stage'[c] = IF c = behind THEN Box ELSE IF c = next THEN Floor ELSE stage[c]
      BY <2>2, <2>3, <2>5
    <3>5. WallsStay'
      <4>1. \A c \in Cells : (stage'[c] = Wall) <=> (StageData[RoundNum'][c] = Wall)
        BY <2>2, <3>2, <3>4 DEF WallsStay, Wall, Box, Floor
      <4>2. stage'[player'] # Wall
        BY <2>2, <2>3, <3>4 DEF Wall, Box, Floor
      <4>3. QED BY <4>1, <4>2 DEF WallsStay
    <3>6. QED BY <2>2, <2>3, <3>3, <3>5
  <2>6. QED BY <2>4, <2>5
<1>3. QED BY <1>1, <1>2

\* One turn: a key is a move, copies the map again, ends the game, or does nothing.
LEMMA TurnKeeps ==
    ASSUME SokobanInv, NEW k \in GameKeys, Turn(k)
    PROVE  SokobanInv'
<1> DEFINE key == Getch(k)
<1>1. CASE key = "esc"
  BY <1>1 DEF Turn, SokobanInv, SokobanType, WallsStay
<1>2. CASE key = "r"
  <2>1. Copy(RoundNum) /\ game' = "playing"
    BY <1>2 DEF Turn
  <2>2. QED BY <2>1, CopyKeeps DEF SokobanInv, SokobanType
<1>3. CASE key \notin {"esc", "r"}
  <2>1. /\ IF key \in DOMAIN Delta THEN Move(key) ELSE UNCHANGED <<stage, player, merged>>
        /\ UNCHANGED RoundNum
        /\ game' \in {"off", "loading", "playing", "cleared"}
    BY <1>3 DEF Turn
  <2>2. CASE key \in DOMAIN Delta
    BY <2>1, <2>2, MoveKeeps
  <2>3. CASE key \notin DOMAIN Delta
    BY <2>1, <2>3 DEF SokobanInv, SokobanType, WallsStay
  <2>4. QED BY <2>2, <2>3
<1>4. QED BY <1>1, <1>2, <1>3

\* The stage keeps the walls of the map it was copied from (skout-sokoban.c:202-217).
THEOREM SokobanInvariant == SokobanSpec => []SokobanInv
<1>1. SokobanInit => SokobanInv
  <2>1. 0 \in 0 .. MaxStage - 1
    BY MapsAssumption
  <2>2. QED BY <2>1, CopyGives DEF SokobanInit, SokobanInv, SokobanType, WallsStay
<1>2. SokobanInv /\ [SokobanNext]_sokobanVars => SokobanInv'
  <2>1. SUFFICES ASSUME SokobanInv, [SokobanNext]_sokobanVars PROVE SokobanInv'
    OBVIOUS
  <2>2. CASE UNCHANGED sokobanVars
    BY <2>1, <2>2 DEF SokobanInv, SokobanType, WallsStay, sokobanVars
  <2>3. CASE StartGame
    BY <2>1, <2>3 DEF SokobanInv, SokobanType, WallsStay, StartGame
  <2>4. CASE LoadingStage
    BY <2>1, <2>4, CopyKeeps, MapsAssumption DEF LoadingStage, SokobanInv
  <2>5. ASSUME NEW k \in GameKeys, Turn(k) PROVE SokobanInv'
    BY <2>1, <2>5, TurnKeeps
  <2>6. CASE NextStage
    <3>1. CASE RoundNum < MaxStage - 1
      <4>1. RoundNum + 1 \in 0 .. MaxStage - 1
        BY <2>1, <3>1, MapsAssumption DEF SokobanInv, SokobanType
      <4>2. QED BY <2>1, <2>6, <3>1, <4>1, CopyKeeps DEF NextStage, SokobanInv
    <3>2. CASE ~(RoundNum < MaxStage - 1)
      BY <2>1, <2>6, <3>2 DEF NextStage, SokobanInv, SokobanType, WallsStay
    <3>3. QED BY <3>1, <3>2
  <2>7. QED BY <2>1, <2>2, <2>3, <2>4, <2>5, <2>6 DEF SokobanNext
<1>3. QED BY <1>1, <1>2, PTL DEF SokobanSpec

\* Neither the player nor a box gets into a wall or out of the map, whatever the
\* maps are (skout-sokoban.c never tests the indices it makes).
THEOREM MovesInside == SokobanSpec => []InsideWalls
<1>1. SokobanInv => InsideWalls
  <2>1. SUFFICES ASSUME SokobanInv PROVE InsideWalls
    OBVIOUS
  <2>2. ASSUME NEW d \in DOMAIN Delta, stage[Step(player, d, 1)] = Box
        PROVE  Step(player, d, 2) \in Cells
    BY <2>1, <2>2, AheadInMap DEF Wall, Box
  <2>3. \A d \in DOMAIN Delta : Step(player, d, 1) \in Cells
    BY <2>1, AheadInMap
  <2>4. \A c \in Cells : (stage[c] = Wall) = (StageData[RoundNum][c] = Wall)
    BY <2>1 DEF SokobanInv, WallsStay
  <2>5. stage[player] # Wall
    BY <2>1 DEF SokobanInv, WallsStay
  <2>6. QED BY <2>2, <2>3, <2>4, <2>5 DEF InsideWalls
<1>2. QED BY SokobanInvariant, <1>1, PTL
-----------------------------------------------------------------------------
(* That a map is cleared only with all of its boxes, if it has one for     *)
(* each target.                                                            *)

\* A box is lost exactly when one was pushed onto another.
BoxesCounted ==
    /\ merged \in BOOLEAN
    /\ IF merged THEN Cardinality(Boxes) < Cardinality(StartBoxes(RoundNum))
       ELSE Cardinality(Boxes) = Cardinality(StartBoxes(RoundNum))

FairInv == BoxesCounted /\ (game = "cleared" => Solved)

\* Any set of cells is finite.
LEMMA FiniteCells == \A C \in SUBSET Cells : IsFiniteSet(C) /\ Cardinality(C) \in Nat
<1>1. IsFiniteSet(0 .. Rows - 1) /\ IsFiniteSet(0 .. Cols - 1)
  BY MapsAssumption, FS_Interval
<1>2. IsFiniteSet(Cells)
  BY <1>1, FS_Product DEF Cells
<1>3. QED BY <1>2, FS_Subset, FS_CardinalityType

\* A copied map has the map's boxes: the player is not one.
LEMMA CopyCounts ==
    ASSUME NEW n \in 0 .. MaxStage - 1, Copy(n), game' # "cleared"
    PROVE  FairInv'
<1> DEFINE man == CHOOSE c \in Cells : StageData[n][c] = Man
<1>1. man \in Cells /\ StageData[n][man] = Man /\ StageData[n] \in [Cells -> Kinds]
  BY ClosedMap
<1>2. stage' = [StageData[n] EXCEPT ![man] = Floor] /\ RoundNum' = n /\ merged' = FALSE
  BY DEF Copy
<1> HIDE DEF man
<1>3. Boxes' = StartBoxes(n)
  BY <1>1, <1>2 DEF Boxes, StartBoxes, Man, Floor, Box
<1>4. StartBoxes(RoundNum)' = StartBoxes(n)
  BY <1>2 DEF StartBoxes
<1>5. QED BY <1>2, <1>3, <1>4 DEF FairInv, BoxesCounted

\* A push takes one box away and puts one down, where there may be one (PlayerMoveAction).
LEMMA MoveCounts ==
    ASSUME SokobanInv, BoxesCounted, NEW d \in DOMAIN Delta, Move(d), UNCHANGED RoundNum
    PROVE  BoxesCounted'
<1> DEFINE next == Step(player, d, 1)
           behind == Step(player, d, 2)
<1>1. StartBoxes(RoundNum)' = StartBoxes(RoundNum)
  BY DEF StartBoxes
<1>2. CASE Stopped(d)
  BY <1>1, <1>2 DEF Move, BoxesCounted, Boxes
<1>3. CASE ~Stopped(d) /\ ~Pushes(d)
  <2>1. stage' = stage /\ merged' = merged
    BY <1>3 DEF Move, BoxesCounted
  <2>2. QED BY <1>1, <2>1 DEF BoxesCounted, Boxes
<1>4. CASE ~Stopped(d) /\ Pushes(d)
  <2>1. /\ stage' = [stage EXCEPT ![next] = Floor, ![behind] = Box]
        /\ merged' = (merged \/ stage[behind] = Box)
    BY <1>4 DEF Move
  <2>2. stage[next] = Box /\ next \in Cells /\ behind \in Cells /\ stage \in [Cells -> Kinds]
    BY <1>4, AheadInMap DEF Pushes, SokobanInv, SokobanType, Wall, Box
  <2>3. next # behind
    <3>1. player[1] \in Int /\ player[2] \in Int
      BY MapsAssumption DEF SokobanInv, SokobanType, Cells
    <3>2. d \in {"up", "down", "left", "right"}
      BY DEF Delta
    <3>3. QED BY <3>1, <3>2 DEF Step, Delta
  <2> HIDE DEF next, behind
  <2>4. Boxes' = (Boxes \ {next}) \cup {behind}
    BY <2>1, <2>2, <2>3 DEF Boxes, Box, Floor
  <2>5. next \in Boxes /\ (behind \in Boxes <=> stage[behind] = Box) /\ Boxes \subseteq Cells
    BY <2>2 DEF Boxes
  <2>6. IsFiniteSet(Boxes) /\ Cardinality(Boxes) \in Nat /\ Cardinality(StartBoxes(RoundNum)) \in Nat
    BY <2>5, FiniteCells DEF StartBoxes
  <2>7. IsFiniteSet(Boxes \ {next}) /\ Cardinality(Boxes \ {next}) = Cardinality(Boxes) - 1
    BY <2>5, <2>6, FS_RemoveElement
  <2>8. Cardinality(Boxes') = IF behind \in Boxes THEN Cardinality(Boxes) - 1 ELSE Cardinality(Boxes)
    <3>1. behind \in Boxes \ {next} <=> behind \in Boxes
      BY <2>3
    <3>2. Cardinality((Boxes \ {next}) \cup {behind}) =
            IF behind \in Boxes \ {next} THEN Cardinality(Boxes \ {next}) ELSE Cardinality(Boxes \ {next}) + 1
      BY <2>7, FS_AddElement
    <3>3. QED BY <2>4, <2>6, <2>7, <3>1, <3>2
  <2>9. merged' \in BOOLEAN /\ merged \in BOOLEAN
    BY <2>1 DEF BoxesCounted
  <2>10. CASE stage[behind] = Box
    <3>1. merged' /\ Cardinality(Boxes') = Cardinality(Boxes) - 1
      BY <2>1, <2>5, <2>8, <2>10
    <3>2. Cardinality(Boxes) <= Cardinality(StartBoxes(RoundNum))
      BY <2>6, <2>9 DEF BoxesCounted
    <3>3. QED BY <1>1, <2>6, <2>9, <3>1, <3>2 DEF BoxesCounted
  <2>11. CASE stage[behind] # Box
    <3>1. merged' = merged /\ Cardinality(Boxes') = Cardinality(Boxes)
      BY <2>1, <2>5, <2>8, <2>9, <2>11
    <3>2. QED BY <1>1, <2>9, <3>1 DEF BoxesCounted
  <2>12. QED BY <2>10, <2>11
<1>5. QED BY <1>2, <1>3, <1>4

\* One turn: a map is cleared only when the test says so.
LEMMA TurnCounts ==
    ASSUME SokobanInv, FairInv, NEW k \in GameKeys, Turn(k)
    PROVE  FairInv'
<1> DEFINE key == Getch(k)
<1>1. CASE key = "esc"
  BY <1>1 DEF Turn, FairInv, BoxesCounted, Boxes, StartBoxes
<1>2. CASE key = "r"
  <2>1. Copy(RoundNum) /\ game' = "playing" /\ RoundNum \in 0 .. MaxStage - 1
    BY <1>2 DEF Turn, SokobanInv, SokobanType
  <2>2. QED BY <2>1, CopyCounts
<1>3. CASE key \notin {"esc", "r"}
  <2>1. /\ IF key \in DOMAIN Delta THEN Move(key) ELSE UNCHANGED <<stage, player, merged>>
        /\ UNCHANGED RoundNum
        /\ game' = IF Solved' THEN "cleared" ELSE "playing"
    BY <1>3 DEF Turn
  <2>2. game' = "cleared" => Solved'
    BY <2>1
  <2>3. CASE key \in DOMAIN Delta
    BY <2>1, <2>2, <2>3, MoveCounts DEF FairInv
  <2>4. CASE key \notin DOMAIN Delta
    BY <2>1, <2>2, <2>4 DEF FairInv, BoxesCounted, Boxes, StartBoxes
  <2>5. QED BY <2>3, <2>4
<1>4. QED BY <1>1, <1>2, <1>3

\* The boxes are as many as the map began with until two are merged, and fewer after.
THEOREM FairInvariant == SokobanSpec => []FairInv
<1>1. SokobanInit => FairInv
  <2>1. SUFFICES ASSUME SokobanInit PROVE FairInv
    OBVIOUS
  <2> DEFINE man == CHOOSE c \in Cells : StageData[0][c] = Man
  <2>2. man \in Cells /\ StageData[0][man] = Man /\ StageData[0] \in [Cells -> Kinds]
    BY ClosedMap, MapsAssumption
  <2>3. stage = [StageData[0] EXCEPT ![man] = Floor] /\ RoundNum = 0 /\ merged = FALSE /\ game = "off"
    BY <2>1 DEF SokobanInit
  <2> HIDE DEF man
  <2>4. Boxes = StartBoxes(RoundNum)
    BY <2>2, <2>3 DEF Boxes, StartBoxes, Man, Floor, Box
  <2>5. QED BY <2>3, <2>4 DEF FairInv, BoxesCounted
<1>2. SokobanInv /\ FairInv /\ [SokobanNext]_sokobanVars => FairInv'
  <2>1. SUFFICES ASSUME SokobanInv, FairInv, [SokobanNext]_sokobanVars PROVE FairInv'
    OBVIOUS
  <2> USE DEF FairInv, BoxesCounted, Boxes, StartBoxes, Solved
  <2>2. CASE UNCHANGED sokobanVars
    BY <2>1, <2>2 DEF sokobanVars
  <2>3. CASE StartGame
    BY <2>1, <2>3 DEF StartGame
  <2>4. CASE LoadingStage
    <3>1. 0 \in 0 .. MaxStage - 1 /\ Copy(0) /\ game' # "cleared"
      BY <2>4, MapsAssumption DEF LoadingStage
    <3>2. QED BY <3>1, CopyCounts
  <2>5. ASSUME NEW k \in GameKeys, Turn(k) PROVE FairInv'
    BY <2>1, <2>5, TurnCounts
  <2>6. CASE NextStage
    <3>1. CASE RoundNum < MaxStage - 1
      <4>1. RoundNum + 1 \in 0 .. MaxStage - 1 /\ Copy(RoundNum + 1) /\ game' # "cleared"
        BY <2>1, <2>6, <3>1, MapsAssumption DEF NextStage, SokobanInv, SokobanType
      <4>2. QED BY <4>1, CopyCounts
    <3>2. CASE ~(RoundNum < MaxStage - 1)
      BY <2>1, <2>6, <3>2 DEF NextStage
    <3>3. QED BY <3>1, <3>2
  <2>7. QED BY <2>1, <2>2, <2>3, <2>4, <2>5, <2>6 DEF SokobanNext
<1>3. QED BY <1>1, <1>2, SokobanInvariant, PTL DEF SokobanSpec

\* A map with a box for every target is cleared only with every box on a target, and
\* not at all after one was pushed onto another (skout-sokoban.c, TestStageClear).
THEOREM ClearsFairly == SokobanSpec => []ClearedFairly
<1>1. SokobanInv /\ FairInv => ClearedFairly
  <2>1. SUFFICES ASSUME SokobanInv, FairInv,
                        game = "cleared", Cardinality(StartBoxes(RoundNum)) = Cardinality(Targets(RoundNum))
                 PROVE  ~merged /\ Boxes = Targets(RoundNum)
    BY DEF FairInv, BoxesCounted, ClearedFairly
  <2>2. Targets(RoundNum) \subseteq Boxes
    <3>1. ASSUME NEW c \in Cells, StageData[RoundNum][c] = Target PROVE stage[c] = Box
      <4>1. RoundNum \in 0 .. MaxStage - 1
        BY <2>1 DEF SokobanInv, SokobanType
      <4>2. c \notin Edge
        BY <3>1, <4>1, ClosedMap DEF Wall, Target
      <4>3. c \in Scanned
        <5>1. c = <<c[1], c[2]>> /\ c[1] \in 0 .. Rows - 1 /\ c[2] \in 0 .. Cols - 1 /\ c[2] # Cols - 1
          BY <4>2 DEF Cells, Edge
        <5>2. c[2] \in 0 .. Cols - 2
          BY <5>1, MapsAssumption
        <5>3. QED BY <5>1, <5>2 DEF Scanned
      <4>4. Solved
        BY <2>1 DEF FairInv
      <4>5. QED BY <3>1, <4>3, <4>4 DEF Solved
    <3>2. QED BY <3>1 DEF Targets, Boxes
  <2>3. IsFiniteSet(Boxes) /\ Cardinality(Boxes) \in Nat
    BY FiniteCells DEF Boxes
  <2>4. /\ Cardinality(Targets(RoundNum)) <= Cardinality(Boxes)
        /\ Cardinality(Boxes) = Cardinality(Targets(RoundNum)) => Boxes = Targets(RoundNum)
    BY <2>2, <2>3, FS_Subset
  <2>5. Cardinality(Targets(RoundNum)) \in Nat
    BY FiniteCells DEF Targets
  <2>6. ~merged /\ Cardinality(Boxes) = Cardinality(Targets(RoundNum))
    BY <2>1, <2>3, <2>4, <2>5 DEF FairInv, BoxesCounted
  <2>7. QED BY <2>4, <2>6
<1>2. QED BY SokobanInvariant, FairInvariant, <1>1, PTL

-----------------------------------------------------------------------------
(* The mutex: for every number of runs of the test, of tasks, of rounds    *)
(* and of locks it has one task in it at most, also after a task was       *)
(* killed in it, as long as no run of the test begins, and initialises the *)
(* mutex, before the one before has printed its count.                     *)

Places == {"unborn", "out", "swap", "ask", "again", "setCount", "setId", "locked", "write",
           "unlock", "clearId", "clearFlag", "ended", "killed"}

Starting == {"initId", "initCount", "initFlag"}

MutexType ==
    /\ TaskId \in Tasks \cup {NoTask} /\ LockCount \in Int /\ bLocked \in BOOLEAN
    /\ holder \in Tasks \cup {NoTask}
    /\ at \in [Tasks -> Places] /\ depth \in [Tasks -> Int]
    /\ count \in Int /\ tmp \in [Tasks -> Int]
    /\ testing \in Starting \cup {"none", "create"} /\ run \in 0 .. Runs
    /\ printed \in [1 .. Runs -> Int]
    /\ overlap \in BOOLEAN

\* The count of a run is printed when its tasks have gone, and those of the runs
\* to come have not been created.
RunsInOrder ==
    /\ \A r \in 1 .. Runs : printed[r] # -1 =>
          \A t \in Tasks : t[1] = r => at[t] \in {"ended", "killed"}
    /\ \A t \in Tasks : t[1] > run => at[t] = "unborn"

\* The task that has the mutex is the one that set the flag, and its locks are counted.
Owns(t) ==
    /\ Taking(t) \/ Inside(t) => bLocked /\ holder = t
    /\ Inside(t) => TaskId = t /\ LockCount = depth[t]
    /\ at[t] = "setId" => LockCount = 1

\* The mutex names only a task that is in it, is leaving it, or was killed in it.
Named(t) == TaskId = t => at[t] \in {"killed", "clearId"} \/ depth[t] > 0

\* Where a task is tells whether it is in the mutex, before and after its locks.
DepthRight(t) ==
    /\ depth[t] >= 0
    /\ at[t] \in {"locked", "write", "unlock"} => depth[t] > 0
    /\ at[t] \notin {"swap", "ask", "locked", "write", "unlock", "killed"} => depth[t] = 0

\* While the mutex is being initialised no task is there to use it.
Quiet(t) == testing \in Starting => at[t] \in {"unborn", "ended", "killed"}

TaskRight(t) == Owns(t) /\ Named(t) /\ DepthRight(t) /\ Quiet(t)

MutexInv ==
    /\ MutexType
    /\ RunsInOrder
    /\ ~overlap => \A t \in Tasks : TaskRight(t)

\* No task has the name that stands for none.
LEMMA NoTaskIsNone == NoTask \notin Tasks
BY DEF NoTask, Tasks

\* At first no task exists, and the mutex is no one's.
LEMMA MutexInitial == MutexInit => MutexInv
<1>1. SUFFICES ASSUME MutexInit PROVE MutexInv
  OBVIOUS
<1>2. Runs \in Nat
  BY MutexAssumption
<1>3. MutexType
  <2>1. /\ TaskId = NoTask /\ LockCount = 0 /\ bLocked = FALSE /\ holder = NoTask
        /\ count = 0 /\ testing = "none" /\ run = 0 /\ overlap = FALSE
    BY <1>1 DEF MutexInit
  <2>2. at \in [Tasks -> Places] /\ depth \in [Tasks -> Int] /\ tmp \in [Tasks -> Int]
    BY <1>1 DEF MutexInit, Places
  <2>3. printed \in [1 .. Runs -> Int]
    BY <1>1 DEF MutexInit
  <2>4. bLocked \in BOOLEAN /\ overlap \in BOOLEAN
    BY <2>1
  <2>5. run \in 0 .. Runs /\ LockCount \in Int /\ count \in Int
    BY <1>2, <2>1
  <2>6. QED BY <2>1, <2>2, <2>3, <2>4, <2>5 DEF MutexType
<1>4. RunsInOrder
  BY <1>1, <1>2 DEF MutexInit, RunsInOrder
<1>5. ASSUME NEW t \in Tasks PROVE TaskRight(t)
  BY <1>1, NoTaskIsNone DEF MutexInit, TaskRight, Owns, Named, DepthRight, Quiet, Taking, Inside, Starting
<1>6. QED BY <1>3, <1>4, <1>5 DEF MutexInv

\* What a step of a task leaves alone.
LEMMA StepFrame ==
    ASSUME MutexType, NEW t \in Tasks, TaskStep(t) \/ Kill(t)
    PROVE  /\ MutexType'
           /\ UNCHANGED <<testing, run, printed, overlap>>
           /\ at[t] \notin {"unborn", "ended", "killed"} /\ at'[t] # "unborn"
           /\ \A u \in Tasks : u # t => at'[u] = at[u] /\ depth'[u] = depth[u]
<1> USE DEF MutexType, Places, Goes, Mutex, Work, Command, Ghosts
<1>1. CASE Lock(t)
  BY <1>1 DEF Lock
<1>2. CASE Swap(t)
  BY <1>2 DEF Swap
<1>3. CASE AskOwner(t)
  <2>1. CASE TaskId = t
    BY <1>3, <2>1 DEF AskOwner
  <2>2. CASE TaskId # t
    BY <1>3, <2>2 DEF AskOwner
  <2>3. QED BY <2>1, <2>2
<1>4. CASE SetCount(t)
  BY <1>4 DEF SetCount
<1>5. CASE SetId(t)
  BY <1>5 DEF SetId
<1>6. CASE ReadCount(t)
  BY <1>6 DEF ReadCount
<1>7. CASE WriteCount(t)
  BY <1>7 DEF WriteCount
<1>8. CASE Unlock(t)
  <2>1. /\ depth' = [depth EXCEPT ![t] = @ - 1]
        /\ at[t] = "unlock"
        /\ LockCount' \in {0, LockCount - 1}
        /\ \E q \in {"clearId", "unlock"} : at' = [at EXCEPT ![t] = q]
        /\ UNCHANGED <<TaskId, bLocked, holder, count, tmp, testing, run, printed, overlap>>
    BY <1>8 DEF Unlock
  <2>2. at' \in [Tasks -> Places] /\ at'[t] # "unborn" /\ \A u \in Tasks : u # t => at'[u] = at[u]
    BY <2>1
  <2>3. depth' \in [Tasks -> Int] /\ \A u \in Tasks : u # t => depth'[u] = depth[u]
    BY <2>1
  <2>4. LockCount' \in Int
    BY <2>1
  <2>5. QED BY <2>1, <2>2, <2>3, <2>4
<1>9. CASE UnlockFails(t)
  BY <1>9 DEF UnlockFails
<1>10. CASE ClearId(t)
  BY <1>10 DEF ClearId
<1>11. CASE ClearFlag(t)
  BY <1>11 DEF ClearFlag
<1>12. CASE Exit(t)
  BY <1>12 DEF Exit
<1>13. CASE Kill(t)
  BY <1>13 DEF Kill
<1>14. QED BY <1>1, <1>2, <1>3, <1>4, <1>5, <1>6, <1>7, <1>8, <1>9, <1>10, <1>11, <1>12, <1>13 DEF TaskStep

\* A task that has not the mutex changes neither its owner nor its count.
LEMMA OthersKeep ==
    ASSUME MutexType, \A u \in Tasks : TaskRight(u),
           NEW t \in Tasks, TaskStep(t) \/ Kill(t), NEW u \in Tasks, u # t
    PROVE  TaskRight(u)'
<1>1. /\ UNCHANGED <<testing, run, printed, overlap>>
      /\ at'[u] = at[u] /\ depth'[u] = depth[u]
  BY StepFrame
<1>2. DepthRight(u)' /\ Quiet(u)'
  BY <1>1 DEF TaskRight, DepthRight, Quiet
<1>3. TaskRight(t) /\ TaskRight(u)
  OBVIOUS
<1>4. CASE UNCHANGED <<TaskId, LockCount, bLocked, holder>>
  BY <1>1, <1>2, <1>3, <1>4 DEF TaskRight, Owns, Named, Taking, Inside
<1>5. CASE Swap(t) /\ Free
  <2>1. ~bLocked /\ TaskId' = TaskId
    BY <1>5 DEF Free, Swap
  <2>2. ~Taking(u) /\ ~Inside(u)
    BY <1>3, <2>1 DEF TaskRight, Owns
  <2>3. QED BY <1>1, <1>2, <1>3, <2>1, <2>2 DEF TaskRight, Owns, Named, Taking, Inside
<1>6. CASE Taking(t) \/ Inside(t)
  <2>1. ~Taking(u) /\ ~Inside(u)
    BY <1>3, <1>6 DEF TaskRight, Owns
  <2>2. TaskId' \in {TaskId, t, NoTask}
    BY DEF TaskStep, Lock, Swap, AskOwner, SetCount, SetId, ReadCount, WriteCount, Unlock, UnlockFails,
           ClearId, ClearFlag, Exit, Kill, Mutex, Goes
  <2>3. Named(u)'
    BY <1>1, <1>3, <2>2, NoTaskIsNone DEF TaskRight, Named
  <2>4. QED BY <1>1, <1>2, <2>1, <2>3 DEF TaskRight, Owns, Taking, Inside
<1>7. UNCHANGED <<TaskId, LockCount, bLocked, holder>> \/ (Swap(t) /\ Free) \/ Taking(t) \/ Inside(t)
  <2>1. ASSUME AskOwner(t), TaskId = t PROVE Inside(t)
    BY <1>3, <2>1 DEF AskOwner, Goes, TaskRight, Named, Inside
  <2>2. ASSUME Unlock(t) PROVE Inside(t)
    BY <1>3, <2>2 DEF Unlock, Goes, TaskRight, DepthRight, Inside
  <2>3. QED BY <2>1, <2>2
            DEF TaskStep, Lock, Swap, AskOwner, SetCount, SetId, ReadCount, WriteCount, UnlockFails,
                ClearId, ClearFlag, Exit, Kill, Mutex, Goes, Taking
<1>8. QED BY <1>4, <1>5, <1>6, <1>7

\* What a step does to the task that takes it.
LEMMA SelfKeeps ==
    ASSUME MutexType, \A u \in Tasks : TaskRight(u),
           NEW t \in Tasks, TaskStep(t) \/ Kill(t)
    PROVE  TaskRight(t)'
<1> USE NoTaskIsNone DEF TaskRight, Owns, Named, DepthRight, Quiet, Taking, Inside, Goes, Mutex, Command
<1>1. TaskRight(t) /\ MutexType' /\ testing' = testing
  BY StepFrame
<1>2. ~(testing \in Starting)
  BY <1>1, StepFrame
<1> USE DEF MutexType, Places
<1>3. CASE Lock(t)
  BY <1>1, <1>2, <1>3 DEF Lock
<1>4. CASE Swap(t)
  BY <1>1, <1>2, <1>4 DEF Swap, Free
<1>5. CASE AskOwner(t)
  BY <1>1, <1>2, <1>5 DEF AskOwner
<1>6. CASE SetCount(t)
  BY <1>1, <1>2, <1>6 DEF SetCount
<1>7. CASE SetId(t)
  BY <1>1, <1>2, <1>7 DEF SetId
<1>8. CASE ReadCount(t)
  BY <1>1, <1>2, <1>8 DEF ReadCount
<1>9. CASE WriteCount(t)
  BY <1>1, <1>2, <1>9 DEF WriteCount
<1>10. CASE Unlock(t)
  BY <1>1, <1>2, <1>10 DEF Unlock, LastUnlock
<1>11. CASE UnlockFails(t)
  BY <1>1, <1>2, <1>11 DEF UnlockFails
<1>12. CASE ClearId(t)
  BY <1>1, <1>2, <1>12 DEF ClearId
<1>13. CASE ClearFlag(t)
  BY <1>1, <1>2, <1>13 DEF ClearFlag
<1>14. CASE Exit(t)
  BY <1>1, <1>2, <1>14 DEF Exit
<1>15. CASE Kill(t)
  BY <1>1, <1>2, <1>15 DEF Kill
<1>16. QED BY <1>3, <1>4, <1>5, <1>6, <1>7, <1>8, <1>9, <1>10, <1>11, <1>12, <1>13, <1>14, <1>15 DEF TaskStep

\* A step of a task, whichever it is.
LEMMA TaskKeeps ==
    ASSUME MutexInv, NEW t \in Tasks, TaskStep(t) \/ Kill(t)
    PROVE  MutexInv'
<1>1. MutexType' /\ UNCHANGED <<testing, run, printed, overlap>>
  BY StepFrame DEF MutexInv
<1>2. RunsInOrder'
  <2>1. at[t] \notin {"unborn", "ended", "killed"} /\ \A u \in Tasks : u # t => at'[u] = at[u]
    BY StepFrame DEF MutexInv
  <2>2. \A u \in Tasks : at[u] \in {"unborn", "ended", "killed"} => at'[u] = at[u]
    BY <2>1
  <2>3. QED BY <1>1, <2>2 DEF MutexInv, RunsInOrder
<1>3. ASSUME ~overlap', NEW u \in Tasks PROVE TaskRight(u)'
  <2>1. \A v \in Tasks : TaskRight(v)
    BY <1>1, <1>3 DEF MutexInv
  <2>2. MutexType
    BY DEF MutexInv
  <2>3. CASE u = t
    BY <2>1, <2>2, <2>3, SelfKeeps
  <2>4. CASE u # t
    BY <2>1, <2>2, <2>4, OthersKeep
  <2>5. QED BY <2>3, <2>4
<1>4. QED BY <1>1, <1>2, <1>3 DEF MutexInv

\* The command begins again: in time, only when the tasks before it are gone.
LEMMA StartKeeps ==
    ASSUME MutexInv, StartTest
    PROVE  MutexInv'
<1> USE DEF MutexInv, StartTest, Mutex, Work
<1>1. MutexType'
  BY MutexAssumption DEF MutexType, Starting
<1>2. RunsInOrder'
  BY DEF MutexType, RunsInOrder, Tasks
<1>3. ASSUME ~overlap', NEW t \in Tasks PROVE TaskRight(t)'
  <2>1. ~overlap /\ \A r \in 1 .. run : printed[r] # -1
    BY <1>3
  <2>2. t[1] \in 1 .. run \/ t[1] > run
    BY DEF MutexType, Tasks
  <2>3. t[1] \in 1 .. Runs /\ run \in 0 .. Runs
    BY DEF MutexType, Tasks
  <2>4. at[t] \in {"unborn", "ended", "killed"}
    BY <2>1, <2>2, <2>3 DEF RunsInOrder
  <2>5. TaskRight(t)
    BY <2>1
  <2>6. QED BY <2>4, <2>5 DEF TaskRight, Owns, Named, DepthRight, Quiet, Taking, Inside
<1>4. QED BY <1>1, <1>2, <1>3

\* The stores of ckRecursiveMutexInit, and the creation of the tasks.
LEMMA CommandKeeps ==
    ASSUME MutexInv, CommandStep
    PROVE  MutexInv'
<1> USE NoTaskIsNone DEF MutexInv, Mutex, Work, Ghosts
<1>1. CASE InitId \/ InitCount \/ InitFlag
  <2>1. /\ testing \in Starting /\ MutexType'
        /\ UNCHANGED <<at, depth, run, printed, overlap>>
        /\ TaskId' \in {TaskId, NoTask}
        /\ testing' \in Starting \cup {"create"}
    <3>1. CASE InitId
      BY <3>1 DEF InitId, MutexType, Starting
    <3>2. CASE InitCount
      BY <3>2 DEF InitCount, MutexType, Starting
    <3>3. CASE InitFlag
      BY <3>3 DEF InitFlag, MutexType, Starting
    <3>4. QED BY <1>1, <3>1, <3>2, <3>3
  <2>2. RunsInOrder'
    BY <2>1 DEF RunsInOrder
  <2>3. ASSUME ~overlap', NEW t \in Tasks PROVE TaskRight(t)'
    <3>1. TaskRight(t) /\ at[t] \in {"unborn", "ended", "killed"}
      BY <2>1, <2>3 DEF TaskRight, Quiet
    <3>2. QED BY <2>1, <3>1 DEF TaskRight, Owns, Named, DepthRight, Quiet, Taking, Inside
  <2>4. QED BY <2>1, <2>2, <2>3
<1>2. CASE CreateTask
  <2>1. PICK t \in Tasks :
           /\ t[1] = run /\ at[t] = "unborn"
           /\ at' = [at EXCEPT ![t] = "out"]
           /\ testing' \in {"none", "create"}
    BY <1>2 DEF CreateTask
  <2>2. /\ UNCHANGED <<TaskId, LockCount, bLocked, depth, holder, run, printed, overlap, count, tmp>>
        /\ at' \in [Tasks -> Places] /\ at'[t] = "out"
        /\ \A u \in Tasks : u # t => at'[u] = at[u]
    BY <1>2, <2>1 DEF CreateTask, MutexType, Places
  <2>3. MutexType'
    BY <2>1, <2>2 DEF MutexType, Starting
  <2>4. RunsInOrder'
    <3>1. \A u \in Tasks : at[u] \in {"ended", "killed"} => u # t
      BY <2>1
    <3>2. \A u \in Tasks : u[1] > run => u # t
      BY <2>1 DEF MutexType
    <3>3. QED BY <2>2, <3>1, <3>2 DEF RunsInOrder
  <2>5. ASSUME ~overlap', NEW u \in Tasks PROVE TaskRight(u)'
    <3>1. TaskRight(u) /\ TaskRight(t)
      BY <2>2, <2>5
    <3>2. testing' \notin Starting
      BY <2>1 DEF Starting
    <3>3. QED BY <2>1, <2>2, <3>1, <3>2 DEF TaskRight, Owns, Named, DepthRight, Quiet, Taking, Inside
  <2>6. QED BY <2>3, <2>4, <2>5
<1>3. QED BY <1>1, <1>2 DEF CommandStep

\* The count is printed when no task of the run is left.
LEMMA PrintKeeps ==
    ASSUME MutexInv, NEW r \in 1 .. Runs, PrintCount(r)
    PROVE  MutexInv'
<1> USE DEF MutexInv, PrintCount, Mutex, Ghosts
<1>1. MutexType'
  BY DEF MutexType
<1>2. RunsInOrder'
  <2>1. \A t \in Tasks : t[1] = r => at[t] \in {"ended", "killed"}
    BY DEF Left
  <2>2. \A q \in 1 .. Runs : q # r => printed'[q] = printed[q]
    BY DEF MutexType
  <2>3. QED BY <2>1, <2>2 DEF RunsInOrder
<1>3. ASSUME ~overlap', NEW t \in Tasks PROVE TaskRight(t)'
  <2>1. TaskRight(t)
    BY <1>3
  <2>2. QED BY <2>1 DEF TaskRight, Owns, Named, DepthRight, Quiet, Taking, Inside
<1>4. QED BY <1>1, <1>2, <1>3

\* Where a task is in lock and unlock tells what the mutex's flag, owner and count are.
THEOREM MutexInvariant == MutexSpec => []MutexInv
<1>1. MutexInv /\ [MutexNext]_mutexVars => MutexInv'
  <2>1. SUFFICES ASSUME MutexInv, [MutexNext]_mutexVars PROVE MutexInv'
    OBVIOUS
  <2>2. CASE UNCHANGED mutexVars
    BY <2>1, <2>2 DEF mutexVars, MutexInv, MutexType, RunsInOrder, TaskRight, Owns, Named, DepthRight,
                      Quiet, Taking, Inside
  <2>3. ASSUME NEW t \in Tasks, TaskStep(t) \/ Kill(t) PROVE MutexInv'
    BY <2>1, <2>3, TaskKeeps
  <2>4. CASE StartTest
    BY <2>1, <2>4, StartKeeps
  <2>5. CASE CommandStep
    BY <2>1, <2>5, CommandKeeps
  <2>6. ASSUME NEW r \in 1 .. Runs, PrintCount(r) PROVE MutexInv'
    BY <2>1, <2>6, PrintKeeps
  <2>7. QED BY <2>1, <2>2, <2>3, <2>4, <2>5, <2>6 DEF MutexNext
<1>2. QED BY MutexInitial, <1>1, PTL DEF MutexSpec

\* One task at most has the mutex, and its owner and count are that task's, with
\* tasks killed in it or not (recursive_mutex.c), until a run begins too early.
THEOREM MutexExcludes == MutexSpec => []OneInside
<1>1. MutexInv => OneInside
  BY DEF MutexInv, OneInside, TaskRight, Owns
<1>2. QED BY MutexInvariant, <1>1, PTL

-----------------------------------------------------------------------------
(* The shell: what is typed is what is run, and what it starts keeps, in   *)
(* the shell, what it keeps by itself.                                     *)

\* What a search for w finds in a part of the table, and a step of the search
\* that goes on with f.
Found(w, s) == IF w % 2 = 0 /\ 2 * s[1] <= w /\ w < 2 * s[2] THEN w \div 2 ELSE 0
Middle(s) == s[1] + ((s[2] - s[1]) \div 2)
Narrowed(w, s) == IF w < 2 * Middle(s) THEN <<s[1], Middle(s)>> ELSE <<Middle(s) + 1, s[2]>>
Halving(w, f, s) ==
    IF w = 2 * Middle(s) THEN Middle(s)
    ELSE IF Narrowed(w, s)[1] = Narrowed(w, s)[2] THEN 0 ELSE f[Narrowed(w, s)]
Longer(p, s) == p[2] - p[1] < s[2] - s[1]

\* The table has 17 commands.
LEMMA CommandsLen == Len(Commands) = 17
BY DEF Commands

\* The entry compared is in the part, and what is left of it is a shorter part.
LEMMA MiddleInside ==
    ASSUME NEW s \in Parts, NEW w \in Nat
    PROVE  /\ Middle(s) \in 1 .. 17 /\ s[1] <= Middle(s) /\ Middle(s) < s[2]
           /\ s[1] \in Nat /\ s[2] \in Nat
           /\ Narrowed(w, s)[1] # Narrowed(w, s)[2]
                => Narrowed(w, s) \in Parts /\ Longer(Narrowed(w, s), s)
<1> DEFINE m == Middle(s)
           b == s[1]
           e == s[2]
<1>1. b \in 1 .. 17 /\ e \in 2 .. 18 /\ b < e
  BY CommandsLen DEF Parts
<1>2. m = b + ((e - b) \div 2)
  BY DEF Middle
<1>3. m \in 1 .. 17 /\ b <= m /\ m < e
  <2> HIDE DEF m, b, e
  <2>1. (e - b) \div 2 \in Int /\ 0 <= (e - b) \div 2 /\ (e - b) \div 2 < e - b
    BY <1>1
  <2>2. QED BY <1>1, <1>2, <2>1
<1>4. \A p : p \in (1 .. 17) \X (2 .. 18) /\ p[1] < p[2] => p \in Parts
  BY CommandsLen DEF Parts
<1> HIDE DEF m, b, e
<1>5. CASE w < 2 * m
  <2>1. Narrowed(w, s) = <<b, m>>
    BY <1>5 DEF Narrowed, m, b
  <2>2. b # m => <<b, m>> \in Parts
    <3>1. b # m => b < m /\ m \in 2 .. 18
      BY <1>1, <1>3
    <3>2. QED BY <1>1, <1>4, <3>1
  <2>3. m - b < e - b
    BY <1>1, <1>3
  <2>4. QED BY <1>1, <1>3, <2>1, <2>2, <2>3 DEF Longer, m, b, e
<1>6. CASE ~(w < 2 * m)
  <2>1. Narrowed(w, s) = <<m + 1, e>>
    BY <1>6 DEF Narrowed, m, e
  <2>2. m + 1 # e => <<m + 1, e>> \in Parts
    <3>1. m + 1 # e => m + 1 < e /\ m + 1 \in 1 .. 17
      BY <1>1, <1>3
    <3>2. QED BY <1>1, <1>4, <3>1
  <2>3. e - (m + 1) < e - b
    BY <1>1, <1>3
  <2>4. QED BY <1>1, <1>3, <2>1, <2>2, <2>3 DEF Longer, m, b, e
<1>7. QED BY <1>5, <1>6

\* A step finds what is in its part when it finds what is in the shorter ones.
LEMMA HalvingRight ==
    ASSUME NEW s \in Parts, NEW w \in Nat, NEW f,
           \A p \in Parts : Longer(p, s) => f[p] = Found(w, p)
    PROVE  Halving(w, f, s) = Found(w, s)
<1> DEFINE m == Middle(s)
           p == Narrowed(w, s)
<1>1. m \in 1 .. 17 /\ s[1] <= m /\ m < s[2] /\ s[1] \in Nat /\ s[2] \in Nat
  BY MiddleInside
<1>2. p[1] # p[2] => f[p] = Found(w, p)
  BY MiddleInside
<1>3. p = IF w < 2 * m THEN <<s[1], m>> ELSE <<m + 1, s[2]>>
  BY DEF Narrowed
<1>4. Halving(w, f, s) = IF w = 2 * m THEN m ELSE IF p[1] = p[2] THEN 0 ELSE f[p]
  BY DEF Halving
<1> HIDE DEF m, p
<1>5. CASE w = 2 * m
  <2>1. w % 2 = 0 /\ 2 * s[1] <= w /\ w < 2 * s[2] /\ w \div 2 = m
    BY <1>1, <1>5
  <2>2. QED BY <1>4, <1>5, <2>1 DEF Found
<1>6. CASE w < 2 * m
  <2>1. p[1] = s[1] /\ p[2] = m
    BY <1>3, <1>6
  <2>2. CASE s[1] = m
    <3>1. ~(2 * s[1] <= w)
      BY <1>1, <1>6, <2>2
    <3>2. Found(w, s) = 0
      BY <3>1 DEF Found
    <3>3. w # 2 * m
      BY <1>1, <1>6
    <3>4. QED BY <1>4, <2>1, <2>2, <3>2, <3>3
  <2>3. CASE s[1] # m
    <3>1. w < 2 * s[2] /\ w # 2 * m
      BY <1>1, <1>6
    <3>2. Found(w, p) = Found(w, s)
      BY <1>6, <2>1, <3>1 DEF Found
    <3>3. QED BY <1>2, <1>4, <2>1, <2>3, <3>1, <3>2
  <2>4. QED BY <2>2, <2>3
<1>7. CASE w > 2 * m
  <2>1. p[1] = m + 1 /\ p[2] = s[2] /\ ~(w < 2 * m) /\ w # 2 * m
    BY <1>1, <1>3, <1>7
  <2>2. w % 2 = 0 => 2 * (m + 1) <= w
    BY <1>1, <1>7
  <2>3. 2 * s[1] <= w
    BY <1>1, <1>7
  <2>4. CASE m + 1 = s[2]
    <3>1. ~(w % 2 = 0 /\ w < 2 * s[2])
      BY <1>1, <2>2, <2>4
    <3>2. Found(w, s) = 0
      BY <3>1 DEF Found
    <3>3. QED BY <1>4, <2>1, <2>4, <3>2
  <2>5. CASE m + 1 # s[2]
    <3>1. Found(w, p) = Found(w, s)
      BY <2>1, <2>2, <2>3 DEF Found
    <3>2. QED BY <1>2, <1>4, <2>1, <2>5, <3>1
  <2>6. QED BY <2>4, <2>5
<1>8. QED BY <1>1, <1>5, <1>6, <1>7

\* The search finds the entry of the word, and nothing when the word is none's.
LEMMA SearchFinds ==
    ASSUME NEW w \in Nat
    PROVE  csSearchCommand(w) = Found(w, <<1, 18>>)
<1> DEFINE Body(f) == [s \in Parts |-> Halving(w, f, s)]
           Halve == CHOOSE f : f = Body(f)
           found == [s \in Parts |-> Found(w, s)]
<1>1. csSearchCommand(w) = Halve[<<1, 18>>]
  BY CommandsLen DEF csSearchCommand, EndAfter, Halving, Narrowed, Middle
<1>2. found = Body(found)
  <2>1. \A s \in Parts : Halving(w, found, s) = Found(w, s)
    BY HalvingRight
  <2>2. QED BY <2>1
<1>3. Halve = Body(Halve)
  BY <1>2
<1> DEFINE h == Halve
<1>4. \A s \in Parts : h[s] = Halving(w, h, s)
  BY <1>3
<1> HIDE DEF Halve, h
<1>5. ASSUME \E s \in Parts : h[s] # Found(w, s)
      PROVE  FALSE
  <2> DEFINE Wrong == {s \in Parts : h[s] # Found(w, s)}
             Lengths == {s[2] - s[1] : s \in Wrong}
  <2>1. Lengths \subseteq Nat /\ Lengths # {}
    BY <1>5, CommandsLen DEF Parts
  <2>2. \E x \in Lengths : \A y \in Lengths : ~ (<<y, x>> \in OpToRel(<, Nat))
    BY <2>1, WFMin, NatLessThanWellFounded
  <2>3. PICK x \in Lengths : \A y \in Lengths : ~ (y < x)
    BY <2>1, <2>2 DEF OpToRel
  <2>4. PICK s \in Wrong : x = s[2] - s[1]
    BY <2>3
  <2>5. \A p \in Parts : Longer(p, s) => h[p] = Found(w, p)
    BY <2>3, <2>4 DEF Longer
  <2>6. h[s] = Found(w, s)
    BY <1>4, <2>4, <2>5, HalvingRight
  <2>7. QED BY <2>4, <2>6
<1>6. <<1, 18>> \in Parts
  BY CommandsLen DEF Parts
<1>7. QED BY <1>1, <1>5, <1>6 DEF h

\* Every line begins with a word of the order.
LEMMA LineWords ==
    ASSUME NEW line \in Lines(TypedWords, {NoParam}) \cup Lines(TypedWithParam, Params)
    PROVE  line[1] \in Nat
<1>1. ASSUME NEW c, NEW k \in 1 .. 17, Commands[k] = c PROVE WordOf(c) \in Nat
  <2>1. DOMAIN Commands = 1 .. 17
    BY CommandsLen DEF Commands
  <2> DEFINE j == CHOOSE i \in DOMAIN Commands : Commands[i] = c
  <2>2. j \in 1 .. 17
    BY <1>1, <2>1
  <2>3. WordOf(c) = 2 * j
    BY DEF WordOf
  <2> HIDE DEF j
  <2>4. QED BY <2>2, <2>3
<1>2. /\ WordOf("cpuspeed") \in Nat /\ WordOf("datetime") \in Nat /\ WordOf("help") \in Nat
      /\ WordOf("killproc") \in Nat /\ WordOf("killtask") \in Nat
      /\ WordOf("skout-sokoban") \in Nat /\ WordOf("testmutex") \in Nat
  <2>1. /\ Commands[2] = "cpuspeed" /\ Commands[3] = "datetime" /\ Commands[5] = "help"
        /\ Commands[6] = "killproc" /\ Commands[7] = "killtask"
        /\ Commands[11] = "skout-sokoban" /\ Commands[15] = "testmutex"
    BY DEF Commands
  <2>2. QED BY <1>1, <2>1
<1>3. WordOrder \subseteq Nat
  BY CommandsLen DEF WordOrder
<1>4. ASSUME NEW words, NEW params, line \in Lines(words, params),
             \A s \in DOMAIN words : words[s] \subseteq Nat
      PROVE  line[1] \in Nat
  BY <1>4 DEF Lines
<1>5. \A s \in DOMAIN TypedWords : TypedWords[s] \subseteq Nat
  <2>1. DOMAIN TypedWords = {"table", "clock", "game", "mutex"}
    BY DEF TypedWords
  <2>2. /\ TypedWords["table"] = WordOrder /\ TypedWords["clock"] = {WordOf("datetime")}
        /\ TypedWords["game"] = {WordOf("skout-sokoban")} /\ TypedWords["mutex"] = {WordOf("testmutex")}
    BY DEF TypedWords
  <2>3. QED BY <1>2, <1>3, <2>1, <2>2
<1>6. \A s \in DOMAIN TypedWithParam : TypedWithParam[s] \subseteq Nat
  <2>1. {WordOf(c) : c \in {"cpuspeed", "help", "killproc", "killtask"}} \subseteq Nat
    BY <1>2
  <2>2. QED BY <1>2, <2>1 DEF TypedWithParam
<1>7. QED BY <1>4, <1>5, <1>6

\* Whatever is typed, the command run is the one whose name it is, and nothing
\* typed behind killtask or killproc reaches the tasks and processes of the kernel
\* (coshell.excp:152-181, coshell_cmd.c).
THEOREM RunsAsTyped == CoshellSpec => []RunsTyped
<1>1. DOMAIN Commands = 1 .. 17
  BY CommandsLen DEF Commands
<1>2. CoshellInit => RunsTyped
  BY <1>1 DEF CoshellInit, RunsTyped, SystemIds
<1>3. RunsTyped /\ [CoshellNext]_CoshellVars => RunsTyped'
  <2>1. SUFFICES ASSUME RunsTyped, [CoshellNext]_CoshellVars PROVE RunsTyped'
    OBVIOUS
  <2>2. ASSUME UNCHANGED <<typed, entry, ended>> PROVE RunsTyped'
    BY <2>1, <2>2 DEF RunsTyped
  <2>3. ASSUME NEW line \in Lines(TypedWords, {NoParam}) \cup Lines(TypedWithParam, Params),
               Enter(line[1], line[2])
        PROVE  RunsTyped'
    <3> DEFINE w == line[1]
               p == line[2]
    <3>1. w \in Nat
      BY LineWords
    <3>2. /\ typed'.word = w /\ entry' = csSearchCommand(w)
          /\ NotFound(w) \/ (csSearchCommand(w) # 0 /\ Run(Commands[csSearchCommand(w)], p))
      BY <2>3 DEF Enter
    <3> HIDE DEF w, p
    <3>3. entry' = Found(w, <<1, 18>>)
      BY <3>1, <3>2, SearchFinds
    <3>4. entry' # 0 => w = 2 * entry'
      BY <3>1, <3>3 DEF Found
    <3>5. entry' = 0 => \A i \in 1 .. 17 : w # 2 * i
      <4>1. SUFFICES ASSUME NEW i \in 1 .. 17, w = 2 * i PROVE entry' # 0
        OBVIOUS
      <4>2. w % 2 = 0 /\ w \div 2 = i /\ 2 <= w /\ w < 36
        BY <4>1
      <4>3. QED BY <3>3, <4>2 DEF Found
    <3>6. (ended \cap SystemIds = {})' 
      <4>1. CASE ended' = ended
        BY <2>1, <4>1 DEF RunsTyped, SystemIds
      <4>2. CASE Run(Commands[csSearchCommand(w)], p)
        <5>1. ASSUME Kills(Commands[csSearchCommand(w)], p) PROVE Atoi(p) \notin SystemIds
          BY <5>1 DEF Kills, SystemIds
        <5>2. ended' = ended \/ (ended' = ended \cup {Atoi(p)} /\ Atoi(p) \notin SystemIds)
          BY <4>2, <5>1 DEF Run
        <5>3. QED BY <2>1, <5>2 DEF RunsTyped, SystemIds
      <4>3. QED BY <3>2, <4>1, <4>2 DEF NotFound
    <3>7. QED BY <1>1, <3>2, <3>4, <3>5, <3>6 DEF RunsTyped
  <2>4. CASE \E line \in Lines(TypedWords, {NoParam}) \cup Lines(TypedWithParam, Params) : Enter(line[1], line[2])
    BY <2>3, <2>4
  <2>5. CASE \E yes \in BOOLEAN : Answer(yes)
    BY <2>2, <2>5 DEF Answer
  <2>6. CASE Prompt
    BY <2>2, <2>6 DEF Prompt
  <2>7. CASE ClockStep \/ GameStep \/ MutexStep
    BY <2>2, <2>7 DEF ClockStep, GameStep, MutexStep, shellVars
  <2>8. CASE UNCHANGED CoshellVars
    BY <2>2, <2>8 DEF CoshellVars, shellVars
  <2>9. QED BY <2>1, <2>4, <2>5, <2>6, <2>7, <2>8 DEF CoshellNext
<1>4. QED BY <1>2, <1>3, PTL DEF CoshellSpec

\* In the shell each of the things it starts does only what it does by itself.
LEMMA PartsStep ==
    ASSUME [CoshellNext]_CoshellVars
    PROVE  [RtcNext]_rtcVars /\ [SokobanNext]_sokobanVars /\ [MutexNext]_mutexVars
<1>1. ASSUME NEW c, NEW p, Starts(c, p)
      PROVE  /\ Ask \/ UNCHANGED rtcVars
             /\ StartGame \/ UNCHANGED sokobanVars
             /\ StartTest \/ (\E t \in Tasks : Kill(t)) \/ UNCHANGED mutexVars
  <2>1. CASE subject = "clock"
    BY <1>1, <2>1 DEF Starts
  <2>2. CASE subject = "game"
    BY <1>1, <2>2 DEF Starts
  <2>3. CASE subject = "mutex"
    BY <1>1, <2>3 DEF Starts
  <2>4. CASE subject = "table"
    BY <1>1, <2>4 DEF Starts, Unstarted
  <2>5. QED BY <1>1, <2>1, <2>2, <2>3, <2>4 DEF Starts
<1>2. ASSUME NEW w, NEW p, Enter(w, p)
      PROVE  /\ Ask \/ UNCHANGED rtcVars
             /\ StartGame \/ UNCHANGED sokobanVars
             /\ StartTest \/ (\E t \in Tasks : Kill(t)) \/ UNCHANGED mutexVars
  <2>1. CASE NotFound(w)
    BY <2>1 DEF NotFound, Unstarted
  <2>2. CASE Run(Commands[csSearchCommand(w)], p)
    <3>1. Starts(Commands[csSearchCommand(w)], p)
      BY <2>2 DEF Run
    <3>2. QED BY <1>1, <3>1
  <2>3. QED BY <1>2, <2>1, <2>2 DEF Enter
<1>3. CASE \E line \in Lines(TypedWords, {NoParam}) \cup Lines(TypedWithParam, Params) : Enter(line[1], line[2])
  BY <1>2, <1>3 DEF RtcNext, SokobanNext, MutexNext
<1>4. CASE \E yes \in BOOLEAN : Answer(yes)
  BY <1>4 DEF Answer, Unstarted
<1>5. CASE Prompt
  BY <1>5 DEF Prompt, Unstarted
<1>6. CASE ClockStep
  BY <1>6 DEF ClockStep, RtcNext
<1>7. CASE GameStep
  BY <1>7 DEF GameStep, SokobanNext
<1>8. CASE MutexStep
  BY <1>8 DEF MutexStep, MutexNext
<1>9. CASE UNCHANGED CoshellVars
  BY <1>9 DEF CoshellVars
<1>10. QED BY <1>3, <1>4, <1>5, <1>6, <1>7, <1>8, <1>9 DEF CoshellNext

\* The shell, with the clock, the game and the mutex it starts, is one of each.
THEOREM ShellImplementsParts == CoshellSpec => RtcSpec /\ SokobanSpec /\ MutexSpec
<1>1. CoshellInit => RtcInit /\ SokobanInit /\ MutexInit
  BY DEF CoshellInit
<1>2. [CoshellNext]_CoshellVars => [RtcNext]_rtcVars /\ [SokobanNext]_sokobanVars /\ [MutexNext]_mutexVars
  BY PartsStep
<1>3. QED BY <1>1, <1>2, PTL DEF CoshellSpec, RtcSpec, SokobanSpec, MutexSpec

\* So that what each keeps by itself it also keeps when the shell starts it.
THEOREM ShellKeeps == CoshellSpec => [](AheadOnlyAtNoon /\ WeekdayRight /\ InsideWalls /\ ClearedFairly /\ OneInside)
BY ShellImplementsParts, ShownAheadOnlyAtNoon, WeekdaysRight, MovesInside, ClearsFairly, MutexExcludes, PTL

-----------------------------------------------------------------------------
(* Formatting: the text stays in its buffer, and is what C says.           *)

\* What text is made of.
Signs == {" ", "0", "x", "-", "+", "?", "A", "B", "C", "D", "E", "F", "a", "b", "c", "d", "e", "f",
          "<", "N", "U", "L", ">"}
Letters == STRING \cup Signs \cup {ToString(m) : m \in 0 .. 9}

\* What was written means what the format does, cut off at the end of the buffer; a
\* string that did not fit has ended it.
Means ==
    /\ right \in Seq(Letters) /\ dropped \in {"no", "string", "number"}
    /\ items >= 0 => ~skip
    /\ dropped = "no" => /\ text = First(size - 1, right)
                         /\ items >= 0 /\ room # 0 => text = right /\ Len(text) + room = size
    /\ dropped = "string" => items < 0 /\ IsPrefix(text, right)

\* While nothing was written past the buffer, what was written and the room left fit in it.
FormatInv ==
    /\ size \in 0 .. Word - 1 /\ items \in Int
    /\ size > 0 /\ past = "no" =>
        /\ text \in Seq(Letters) /\ Len(text) < size
        /\ items >= 0 => size > 1 /\ room \in 0 .. size /\ Len(text) + room <= size
        /\ ~departed => Means

\* The greater and the less of two numbers
LEMMA OfTwo ==
    ASSUME NEW a \in Int, NEW b \in Int
    PROVE  /\ Max({a, b}) = IF a <= b THEN b ELSE a
           /\ Min({a, b}) = IF a <= b THEN a ELSE b
<1>1. Max({a, b}) = IF a <= b THEN b ELSE a
  <2> DEFINE m == IF a <= b THEN b ELSE a
  <2>1. m \in {a, b} /\ \A y \in {a, b} : m >= y
    OBVIOUS
  <2>2. \A x \in {a, b} : (\A y \in {a, b} : x >= y) => x = m
    OBVIOUS
  <2> HIDE DEF m
  <2>3. Max({a, b}) = m
    BY <2>1, <2>2 DEF Max
  <2>4. QED BY <2>3 DEF m
<1>2. Min({a, b}) = IF a <= b THEN a ELSE b
  <2> DEFINE m == IF a <= b THEN a ELSE b
  <2>1. m \in {a, b} /\ \A y \in {a, b} : m <= y
    OBVIOUS
  <2>2. \A x \in {a, b} : (\A y \in {a, b} : x <= y) => x = m
    OBVIOUS
  <2> HIDE DEF m
  <2>3. Min({a, b}) = m
    BY <2>1, <2>2 DEF Min
  <2>4. QED BY <2>3 DEF m
<1>3. QED BY <1>1, <1>2

\* One character, over and over
LEMMA FillIs ==
    ASSUME NEW S, NEW c \in S, NEW n \in Nat
    PROVE  Fill(c, n) \in Seq(S) /\ Len(Fill(c, n)) = n
<1>1. [i \in 1 .. n |-> c] \in Seq(S)
  BY IsASeq
<1>2. QED BY <1>1, LenProperties DEF Fill

\* The beginning of a text
LEMMA FirstIs ==
    ASSUME NEW S, NEW s \in Seq(S), NEW n \in Nat
    PROVE  /\ First(n, s) \in Seq(S)
           /\ n <= Len(s) => Len(First(n, s)) = n
           /\ Len(s) <= n => First(n, s) = s
           /\ \A i \in 1 .. Len(First(n, s)) : i \in 1 .. Len(s) /\ i <= n /\ First(n, s)[i] = s[i]
<1> DEFINE k == Min({Len(s), n})
           l == Len(s)
<1>1. Len(s) \in Nat /\ k = (IF Len(s) <= n THEN Len(s) ELSE n) /\ First(n, s) = SubSeq(s, 1, k)
  <2>1. l \in Int /\ l \in Nat
    BY LenProperties
  <2> HIDE DEF l
  <2>2. Min({l, n}) = IF l <= n THEN l ELSE n
    <3>1. n \in Int
      OBVIOUS
    <3>2. QED BY <2>1, <3>1, OfTwo, Zenon
  <2>3. QED BY <2>1, <2>2 DEF First, l
<1> HIDE DEF l
<1> HIDE DEF k
<1>2. k \in Int /\ 1 \in Int /\ \A i \in 1 .. k : s[i] \in S
  BY <1>1, ElementOfSeq
<1>3. /\ SubSeq(s, 1, k) \in Seq(S) /\ Len(SubSeq(s, 1, k)) = (IF 1 <= k THEN k - 1 + 1 ELSE 0)
      /\ \A i \in 1 .. k - 1 + 1 : SubSeq(s, 1, k)[i] = s[1 + i - 1]
  BY <1>2, SubSeqProperties
<1>4. First(n, s) \in Seq(S) /\ Len(First(n, s)) = k /\ \A i \in 1 .. k : First(n, s)[i] = s[i]
  BY <1>1, <1>3
<1>5. Len(s) <= n => First(n, s) = s
  <2>1. SUFFICES ASSUME Len(s) <= n PROVE First(n, s) = s
    OBVIOUS
  <2>2. k = Len(s)
    BY <1>1, <2>1
  <2>3. QED BY <1>4, <2>2, SeqEqual
<1>6. QED BY <1>1, <1>4, <1>5

\* What fits of two texts is the first, when that fits, and what fits of the second.
LEMMA FirstOfBoth ==
    ASSUME NEW S, NEW s \in Seq(S), NEW t \in Seq(S), NEW n \in Nat, Len(s) <= n
    PROVE  First(n, s \o t) = s \o First(n - Len(s), t)
<1> DEFINE m == n - Len(s)
           a == First(n, s \o t)
           b == First(m, t)
<1>1. Len(s) \in Nat /\ Len(t) \in Nat /\ m \in Nat
  BY LenProperties
<1>2. /\ s \o t \in Seq(S) /\ Len(s \o t) = Len(s) + Len(t)
      /\ \A i \in 1 .. Len(s) + Len(t) : (s \o t)[i] = IF i <= Len(s) THEN s[i] ELSE t[i - Len(s)]
  BY ConcatProperties
<1>3. /\ a \in Seq(S) /\ (n <= Len(s \o t) => Len(a) = n) /\ (Len(s \o t) <= n => a = s \o t)
      /\ \A i \in 1 .. Len(a) : i \in 1 .. Len(s \o t) /\ a[i] = (s \o t)[i]
  BY <1>2, FirstIs
<1>6. m = n - Len(s)
  OBVIOUS
<1> HIDE DEF m
<1>4. /\ b \in Seq(S) /\ (m <= Len(t) => Len(b) = m) /\ (Len(t) <= m => b = t)
      /\ \A i \in 1 .. Len(b) : i \in 1 .. Len(t) /\ b[i] = t[i]
  BY <1>1, FirstIs
<1>5. /\ s \o b \in Seq(S) /\ Len(s \o b) = Len(s) + Len(b)
      /\ \A i \in 1 .. Len(s) + Len(b) : (s \o b)[i] = IF i <= Len(s) THEN s[i] ELSE b[i - Len(s)]
  BY <1>4, ConcatProperties
<1> HIDE DEF a, b
<1>7. CASE Len(t) <= m
  BY <1>1, <1>2, <1>3, <1>4, <1>6, <1>7 DEF a, b, m
<1>8. CASE m < Len(t)
  <2>1. Len(a) = n /\ Len(b) = m /\ Len(s \o b) = n
    BY <1>1, <1>2, <1>3, <1>4, <1>5, <1>6, <1>8
  <2>2. ASSUME NEW i \in 1 .. n PROVE a[i] = (s \o b)[i]
    <3>1. i \in 1 .. Len(s) + Len(t) /\ i \in 1 .. Len(s) + Len(b) /\ a[i] = (s \o t)[i]
      BY <1>1, <1>3, <1>6, <1>8, <2>1, <2>2
    <3>2. CASE i <= Len(s)
      BY <1>2, <1>5, <3>1, <3>2
    <3>3. CASE ~(i <= Len(s))
      <4>1. i - Len(s) \in 1 .. Len(b)
        BY <1>1, <1>6, <2>1, <3>3
      <4>2. QED BY <1>2, <1>4, <1>5, <3>1, <3>3, <4>1
    <3>4. QED BY <3>2, <3>3
  <2>3. QED BY <1>3, <1>5, <2>1, <2>2, SeqEqual DEF a, b, m
<1>9. QED BY <1>1, <1>7, <1>8

\* A text of which room is left for a last zero is written as far as there is room.
LEMMA PutIs ==
    ASSUME NEW S, NEW t \in Seq(S), NEW r \in 1 .. Word - 1
    PROVE  /\ r <= Len(t) => /\ Put(r, t) = [text |-> First(r - 1, t), room |-> 0, stop |-> TRUE]
                             /\ Len(First(r - 1, t)) = r - 1
           /\ Len(t) < r => Put(r, t) = [text |-> t, room |-> r - Len(t), stop |-> FALSE]
<1>1. Len(t) \in Nat /\ Word \in Nat /\ Word >= 2
  BY LenProperties, WordAssumption
<1>2. ASSUME r <= Len(t) PROVE /\ Put(r, t) = [text |-> First(r - 1, t), room |-> 0, stop |-> TRUE]
                               /\ Len(First(r - 1, t)) = r - 1
  <2> DEFINE l == Len(t)
             q == r - 1
  <2>0. l \in Int /\ q \in Int /\ q < l
    BY <1>1, <1>2
  <2> HIDE DEF l, q
  <2>1. Min({l, q}) = q
    <3>1. Min({l, q}) = IF l <= q THEN l ELSE q
      BY <2>0, OfTwo, Zenon
    <3>2. QED BY <2>0, <3>1
  <2>2. First(r - 1, t) = SubSeq(t, 1, r - 1)
    BY <2>1 DEF First, l, q
  <2>3. 0 % Word = 0 /\ 1 <= r /\ r - 1 \in Nat /\ r - 1 <= Len(t)
    BY <1>1, <1>2
  <2>4. Len(First(r - 1, t)) = r - 1
    BY <2>3, FirstIs
  <2>5. QED BY <1>2, <2>2, <2>3, <2>4 DEF Put, Outcome
<1>3. ASSUME Len(t) < r PROVE Put(r, t) = [text |-> t, room |-> r - Len(t), stop |-> FALSE]
  <2>1. (r - Len(t)) % Word = r - Len(t) /\ ~(r <= Len(t))
    BY <1>1, <1>3
  <2>2. QED BY <2>1 DEF Put, Outcome
<1>4. QED BY <1>2, <1>3

\* One digit of a number, and the digits of m when g has those of the numbers below it.
Digit1(it, m) == IF m < 10 THEN ToString(m) ELSE Digit(it, m)
DigitsOf(it, g, m) ==
    IF m < Base(it) THEN <<Digit1(it, m)>> ELSE Append(g[m \div Base(it)], Digit1(it, m % Base(it)))

\* Numbers have three bases.
LEMMA BaseIs ==
    ASSUME NEW it
    PROVE  Base(it) \in {8, 10, 16}
BY DEF Base

\* What is in a row of six
LEMMA OneOfSix ==
    ASSUME NEW S, NEW a \in S, NEW b \in S, NEW c \in S, NEW d \in S, NEW e \in S, NEW f \in S,
           NEW i \in {1, 2, 3, 4, 5, 6}
    PROVE  <<a, b, c, d, e, f>>[i] \in S
OBVIOUS

\* A digit below 16 is a character.
LEMMA DigitIs ==
    ASSUME NEW it, NEW m \in 0 .. 15
    PROVE  Digit1(it, m) \in Letters
<1>1. CASE m < 10
  BY <1>1 DEF Digit1, Letters
<1>2. CASE m \in 10 .. 15
  <2>1. m - 9 \in {1, 2, 3, 4, 5, 6}
    BY <1>2
  <2>2. \A i \in {1, 2, 3, 4, 5, 6} : /\ <<"A", "B", "C", "D", "E", "F">>[i] \in Signs
                                     /\ <<"a", "b", "c", "d", "e", "f">>[i] \in Signs
    <3>1. /\ "A" \in Signs /\ "B" \in Signs /\ "C" \in Signs
          /\ "D" \in Signs /\ "E" \in Signs /\ "F" \in Signs
          /\ "a" \in Signs /\ "b" \in Signs /\ "c" \in Signs
          /\ "d" \in Signs /\ "e" \in Signs /\ "f" \in Signs
      BY DEF Signs
    <3>2. QED BY <3>1, OneOfSix
  <2>3. Digit(it, m) \in Signs
    BY <2>1, <2>2 DEF Digit
  <2>4. ~(m < 10)
    BY <1>2
  <2>5. QED BY <2>3, <2>4 DEF Digit1, Letters
<1>3. QED BY <1>1, <1>2

\* The digits of m are a text if those of the numbers below it are.
LEMMA DigitsOfIs ==
    ASSUME NEW it, NEW m \in Nat, NEW g, \A i \in 0 .. m - 1 : g[i] \in Seq(Letters)
    PROVE  DigitsOf(it, g, m) \in Seq(Letters)
<1> DEFINE b == Base(it)
           q == m \div b
           d == m % b
<1>1. b \in {8, 10, 16}
  BY BaseIs
<1>2. m >= b => q \in 0 .. m - 1 /\ d \in 0 .. 15
  <2>1. b = 8 \/ b = 10 \/ b = 16
    BY <1>1
  <2>2. /\ m >= 8 => m \div 8 \in 0 .. m - 1 /\ m % 8 \in 0 .. 15
        /\ m >= 10 => m \div 10 \in 0 .. m - 1 /\ m % 10 \in 0 .. 15
        /\ m >= 16 => m \div 16 \in 0 .. m - 1 /\ m % 16 \in 0 .. 15
    OBVIOUS
  <2> HIDE DEF b
  <2>3. QED BY <2>1, <2>2
<1>3. CASE m < b
  <2>1. m \in 0 .. 15
    BY <1>1, <1>3
  <2>2. Digit1(it, m) \in Letters
    BY <2>1, DigitIs
  <2>3. QED BY <1>3, <2>2 DEF DigitsOf
<1>4. CASE ~(m < b)
  <2>1. q \in 0 .. m - 1 /\ d \in 0 .. 15
    BY <1>1, <1>2, <1>4
  <2>2. g[q] \in Seq(Letters) /\ Digit1(it, d) \in Letters
    BY <2>1, DigitIs
  <2>3. Append(g[q], Digit1(it, d)) \in Seq(Letters)
    BY <2>2
  <2>4. QED BY <1>4, <2>3 DEF DigitsOf
<1>5. QED BY <1>3, <1>4

\* The digits of a number are its digits' text: a function that gives each number's
\* exists, by the least number for which there is none, and then gives texts.
LEMMA DigitsIs ==
    ASSUME NEW it, NEW n \in 0 .. Word - 1
    PROVE  Digits(it, n) \in Seq(Letters)
<1> DEFINE Body(f) == [m \in 0 .. Word - 1 |-> DigitsOf(it, f, m)]
           Done(k, g) == \A m \in 0 .. k - 1 : g[m] = DigitsOf(it, g, m)
           Bad == {k \in Nat : ~\E g : DOMAIN g = 0 .. k - 1 /\ Done(k, g)}
<1>1. Word \in Nat
  BY WordAssumption
<1>2. Digits(it, n) = (CHOOSE f : f = Body(f))[n]
  BY DEF Digits, DigitsOf, Digit1
<1>3. Bad = {}
  <2>1. SUFFICES ASSUME Bad # {} PROVE FALSE
    OBVIOUS
  <2>2. PICK k \in Bad : \A y \in Bad : ~(y < k)
    <3>1. \E x \in Bad : \A y \in Bad : ~ (<<y, x>> \in OpToRel(<, Nat))
      BY <2>1, WFMin, NatLessThanWellFounded
    <3>2. QED BY <3>1 DEF OpToRel
  <2>3. k \in Nat /\ ~\E g : DOMAIN g = 0 .. k - 1 /\ Done(k, g)
    OBVIOUS
  <2>4. CASE k = 0
    <3> DEFINE g == [m \in 0 .. k - 1 |-> m]
    <3>1. DOMAIN g = 0 .. k - 1 /\ Done(k, g)
      BY <2>4
    <3>2. QED BY <2>3, <3>1
  <2>5. CASE k > 0
    <3>1. k - 1 \in Nat /\ k - 1 < k
      BY <2>3, <2>5
    <3>2. k - 1 \notin Bad
      BY <2>2, <3>1
    <3>3. PICK g : DOMAIN g = 0 .. k - 1 - 1 /\ Done(k - 1, g)
      BY <3>1, <3>2
    <3> DEFINE h == [m \in 0 .. k - 1 |-> IF m < k - 1 THEN g[m] ELSE DigitsOf(it, g, m)]
    <3>4. ASSUME NEW m \in 0 .. k - 1 PROVE h[m] = DigitsOf(it, h, m)
      <4>1. DigitsOf(it, h, m) = DigitsOf(it, g, m)
        <5> DEFINE b == Base(it)
                   q == m \div b
        <5>1. b = 8 \/ b = 10 \/ b = 16
          BY BaseIs
        <5>2. ~(m < b) => q \in 0 .. k - 1 /\ q < k - 1
          <6> HIDE DEF b, h
          <6>1. QED BY <2>3, <3>4, <5>1
        <5>3. ~(m < b) => h[q] = g[q]
          BY <5>2
        <5> HIDE DEF h
        <5>4. QED BY <5>3 DEF DigitsOf
      <4>2. h[m] = DigitsOf(it, g, m)
        <5>1. CASE m < k - 1
          <6>1. m \in 0 .. k - 1 - 1
            BY <2>3, <3>4, <5>1
          <6>2. QED BY <3>3, <3>4, <5>1, <6>1
        <5>2. CASE ~(m < k - 1)
          BY <3>4, <5>2
        <5>3. QED BY <5>1, <5>2
      <4>3. QED BY <4>1, <4>2
    <3>5. DOMAIN h = 0 .. k - 1
      OBVIOUS
    <3> HIDE DEF h
    <3>6. QED BY <2>3, <3>4, <3>5
  <2>6. QED BY <2>3, <2>4, <2>5
<1>4. \E f : f = Body(f)
  <2>1. PICK g : DOMAIN g = 0 .. Word - 1 /\ Done(Word, g)
    BY <1>1, <1>3
  <2> DEFINE h == [m \in 0 .. Word - 1 |-> g[m]]
  <2>2. ASSUME NEW m \in 0 .. Word - 1 PROVE h[m] = DigitsOf(it, h, m)
    <3> DEFINE b == Base(it)
               q == m \div b
    <3>1. b = 8 \/ b = 10 \/ b = 16
      BY BaseIs
    <3>2. ~(m < b) => q \in 0 .. Word - 1
      <4> HIDE DEF b, h
      <4>1. QED BY <1>1, <2>2, <3>1
    <3>3. ~(m < b) => h[q] = g[q]
      BY <3>2
    <3>4. h[m] = g[m] /\ g[m] = DigitsOf(it, g, m)
      BY <2>1, <2>2
    <3> HIDE DEF h
    <3>5. QED BY <3>3, <3>4 DEF DigitsOf
  <2>3. h = Body(h)
    BY <2>2
  <2>4. QED BY <2>3
<1> DEFINE f == CHOOSE f : f = Body(f)
<1>5. f = Body(f)
  BY <1>4
<1>6. \A m \in 0 .. Word - 1 : f[m] = DigitsOf(it, f, m)
  BY <1>5
<1> HIDE DEF f
<1> DEFINE Wrong == {m \in 0 .. Word - 1 : f[m] \notin Seq(Letters)}
<1>7. Wrong = {}
  <2>1. SUFFICES ASSUME Wrong # {} PROVE FALSE
    OBVIOUS
  <2>2. Wrong \subseteq Nat
    BY <1>1
  <2>3. PICK k \in Wrong : \A y \in Wrong : ~(y < k)
    <3>1. \E x \in Wrong : \A y \in Wrong : ~ (<<y, x>> \in OpToRel(<, Nat))
      BY <2>1, <2>2, WFMin, NatLessThanWellFounded
    <3>2. QED BY <2>2, <3>1 DEF OpToRel
  <2>4. k \in Nat /\ k \in 0 .. Word - 1
    BY <2>2
  <2>5. ASSUME NEW i \in 0 .. k - 1 PROVE f[i] \in Seq(Letters)
    <3>1. i \in 0 .. Word - 1 /\ i < k
      BY <1>1, <2>4
    <3>2. QED BY <2>3, <3>1
  <2>6. DigitsOf(it, f, k) \in Seq(Letters)
    BY <2>4, <2>5, DigitsOfIs
  <2>7. QED BY <1>6, <2>4, <2>6
<1>8. QED BY <1>2, <1>7 DEF f

\* A conversion as the code goes on with it: an argument is what its letter asks for, and
\* neither width nor precision is negative, but for None.
LEMMA ParsedIs ==
    ASSUME NEW it \in Items
    PROVE  /\ Parsed(it).conv = it.conv /\ Parsed(it).arg = it.arg
           /\ Parsed(it).left \in BOOLEAN /\ Parsed(it).zero \in BOOLEAN
           /\ Parsed(it).width \in Int /\ Parsed(it).width >= -1
           /\ Parsed(it).precision \in Int /\ Parsed(it).precision >= -1
           /\ it.conv \in {"%", "text"} => Parsed(it).width = -1 /\ ~Parsed(it).left
<1> DEFINE w == IF it.width < None THEN [it EXCEPT !.width = -it.width, !.left = TRUE] ELSE it
           p == IF w.precision = Negative THEN [w EXCEPT !.precision = 0] ELSE w
           q == IF p.conv = "p" /\ p.width = None
                THEN [p EXCEPT !.width = 10, !.zero = TRUE, !.special = TRUE] ELSE p
           conversions == [conv : {it.conv}, arg : {it.arg}, left : BOOLEAN, plus : BOOLEAN, space : BOOLEAN,
                      special : BOOLEAN, zero : BOOLEAN, width : Int, precision : Int]
<1>1. it \in conversions /\ it.precision >= -2
  BY ItemsAssumption DEF Negative
<1>2. w \in conversions /\ w.width >= -1 /\ w.precision >= -2
  <2>1. it.width \in Int
    BY <1>1
  <2>2. it.width < -1 => -it.width \in Int /\ -it.width >= -1
    BY <2>1
  <2>3. CASE it.width < -1
    <3> DEFINE n == -it.width
    <3>1. n \in Int /\ n >= -1
      BY <2>2, <2>3
    <3>2. w = [it EXCEPT !.width = n, !.left = TRUE]
      BY <2>3 DEF None
    <3> HIDE DEF n, w
    <3>3. w \in conversions /\ w.width = n /\ w.precision = it.precision
      BY <1>1, <3>1, <3>2
    <3>4. QED BY <1>1, <3>1, <3>3
  <2>4. CASE ~(it.width < -1)
    <3>1. w = it
      BY <2>4 DEF None
    <3> HIDE DEF w
    <3>2. QED BY <1>1, <2>1, <2>4, <3>1
  <2>5. QED BY <2>3, <2>4
<1> HIDE DEF w
<1>3. p \in conversions /\ p.width >= -1 /\ p.precision >= -1
  <2>1. w.precision \in Int /\ (w.precision # -2 => w.precision >= -1)
    BY <1>2
  <2>2. QED BY <1>2, <2>1 DEF Negative
<1> HIDE DEF p
<1>4. q \in conversions /\ q.width >= -1 /\ q.precision >= -1
  <2>1. CASE p.conv = "p" /\ p.width = None
    <3> DEFINE n == 10
    <3>1. q = [p EXCEPT !.width = n, !.zero = TRUE, !.special = TRUE] /\ n \in Int /\ n >= -1
      BY <2>1
    <3> HIDE DEF n, q
    <3>2. q \in conversions /\ q.width = n /\ q.precision = p.precision
      BY <1>3, <3>1
    <3>3. QED BY <1>3, <3>1, <3>2
  <2>2. CASE ~(p.conv = "p" /\ p.width = None)
    <3>1. q = p
      BY <2>2
    <3> HIDE DEF q
    <3>2. QED BY <1>3, <3>1
  <2>3. QED BY <2>1, <2>2
<1>5. Parsed(it) = q
  BY DEF Parsed, q, p, w
<1>6. ASSUME it.conv \in {"%", "text"} PROVE q.width = -1 /\ ~q.left
  <2>1. it = Plain(it.conv, it.arg)
    BY <1>6, ItemsAssumption
  <2>2. it.width = -1 /\ ~it.left /\ it.precision = -1 /\ it.conv # "p"
    BY <1>6, <2>1 DEF Plain, None
  <2>3. w = it
    BY <2>2 DEF w, None
  <2>4. p = w
    BY <2>2, <2>3 DEF p, Negative
  <2>5. q = p
    BY <2>2, <2>3, <2>4
  <2>6. QED BY <2>2, <2>3, <2>4, <2>5
<1> HIDE DEF q
<1>7. QED BY <1>4, <1>5, <1>6

\* Some characters
LEMMA LettersAre ==
    /\ " " \in Letters /\ "0" \in Letters /\ "x" \in Letters /\ "-" \in Letters /\ "+" \in Letters /\ "?" \in Letters
    /\ "<" \in Letters /\ "N" \in Letters /\ "U" \in Letters /\ "L" \in Letters /\ ">" \in Letters
BY DEF Letters, Signs

\* Blanks are a text.
LEMMA PadIs ==
    ASSUME NEW n \in Nat
    PROVE  Pad(n) \in Seq(Letters) /\ Len(Pad(n)) = n
BY FillIs, LettersAre DEF Pad

\* A text or none
LEMMA IfIs ==
    ASSUME NEW S, NEW t \in Seq(S), NEW c \in BOOLEAN
    PROVE  If(c, t) \in Seq(S) /\ (c => If(c, t) = t) /\ (~c => If(c, t) = <<>>)
BY DEF If

\* A text of one character
LEMMA OneIs ==
    ASSUME NEW S, NEW c \in S
    PROVE  <<c>> \in Seq(S) /\ Len(<<c>>) = 1
OBVIOUS

\* A text of two characters
LEMMA TwoIs ==
    ASSUME NEW S, NEW c \in S, NEW d \in S
    PROVE  <<c, d>> \in Seq(S)
OBVIOUS

\* The parts of a number
LEMMA NumberTexts ==
    ASSUME NEW it \in Items, Number(it)
    PROVE  /\ DigitText(Parsed(it)) \in Seq(Letters)
           /\ SignText(Parsed(it)) \in Seq(Letters)
           /\ PrefixText(Parsed(it)) \in Seq(Letters)
<1> DEFINE p == Parsed(it)
<1>1. p.conv = it.conv /\ p.arg = it.arg
  BY ParsedIs
<1>2. Signed(p) <=> Signed(it)
  BY <1>1 DEF Signed
<1>3. /\ Signed(it) => it.arg \in -(Word \div 2) .. Word \div 2 - 1
      /\ ~Signed(it) => it.arg \in 0 .. Word - 1
  <2>1. it.conv \in {"d", "i"} => it.arg \in -(Word \div 2) .. Word \div 2 - 1
    BY ItemsAssumption
  <2>2. it.conv \in {"u", "o", "x", "X", "p"} => it.arg \in 0 .. Word - 1
    BY ItemsAssumption
  <2>3. QED BY <2>1, <2>2 DEF Signed, Number
<1> HIDE DEF p
<1>4. DigitText(p) \in Seq(Letters)
  <2> DEFINE h == Word \div 2
             a == it.arg
             n == IF a < 0 THEN -a ELSE a
  <2>1. h \in 0 .. Word - 1 /\ Word \in Nat
    BY WordAssumption
  <2>2. n \in 0 .. Word - 1
    <3>1. a \in -h .. h - 1 \/ a \in 0 .. Word - 1
      BY <1>3
    <3> HIDE DEF h, a
    <3>2. QED BY <2>1, <3>1
  <2>3. Digits(p, n) \in Seq(Letters) /\ Digits(p, h) \in Seq(Letters)
    BY <2>1, <2>2, DigitsIs
  <2>4. Len(Digits(p, h)) \in Nat
    BY <2>3, LenProperties
  <2>5. Fill("?", Len(Digits(p, h))) \in Seq(Letters)
    BY <2>4, FillIs, LettersAre
  <2>6. DigitText(p) = IF Signed(p) /\ a = -h THEN Fill("?", Len(Digits(p, h))) ELSE Digits(p, n)
    BY <1>1 DEF DigitText
  <2> HIDE DEF h, a, n
  <2>7. QED BY <2>3, <2>5, <2>6
<1>5. SignText(p) \in Seq(Letters)
  <2>1. <<"-">> \in Seq(Letters) /\ <<"+">> \in Seq(Letters) /\ <<" ">> \in Seq(Letters) /\ <<>> \in Seq(Letters)
    BY LettersAre, OneIs, EmptySeq, Zenon
  <2>2. QED BY <2>1 DEF SignText, If
<1>6. PrefixText(p) \in Seq(Letters)
  <2>1. <<"0", "x">> \in Seq(Letters) /\ <<"0">> \in Seq(Letters) /\ <<>> \in Seq(Letters)
    BY LettersAre, OneIs, TwoIs, EmptySeq, Zenon
  <2>2. QED BY <2>1, ConcatProperties DEF PrefixText, If
<1>7. QED BY <1>4, <1>5, <1>6 DEF p

\* How the parts of a number come together, with blanks on its right, zeros on its left
\* and blanks on its left.
Together(a, p, z, d, b) ==
    /\ (((a \o p) \o z) \o d) \o b = ((<<>> \o a) \o p) \o (((<<>> \o z) \o d) \o b)
    /\ ((a \o p) \o b) \o (z \o d) = ((<<>> \o a) \o p) \o (((b \o z) \o d) \o <<>>)
    /\ b \o (((a \o p) \o z) \o d) = ((b \o a) \o p) \o (((<<>> \o z) \o d) \o <<>>)

\* The sequence is the same however its parts are put together.
LEMMA PartsTogether ==
    ASSUME NEW S, NEW a \in Seq(S), NEW p \in Seq(S), NEW z \in Seq(S), NEW d \in Seq(S), NEW b \in Seq(S)
    PROVE  Together(a, p, z, d, b)
<1>1. <<>> \o a = a /\ <<>> \o z = z
  BY ConcatEmptySeq
<1> DEFINE ap == a \o p
           zd == z \o d
           bzd == b \o zd
<1>2. ap \in Seq(S)
  OBVIOUS
<1>3. zd \in Seq(S)
  OBVIOUS
<1>4. (b \o z) \o d = b \o zd
  BY SMTT(40)
<1>5. (b \o a) \o p = b \o ap
  BY SMTT(40)
<1>6. (ap \o z) \o d = ap \o zd
  <2> HIDE DEF ap
  <2>1. QED BY <1>2, SMTT(40)
<1> HIDE DEF ap, zd
<1>7. bzd \in Seq(S)
  BY <1>3
<1>8. (ap \o zd) \o b = ap \o (zd \o b)
  BY <1>2, <1>3, SMTT(40)
<1>9. (ap \o b) \o zd = ap \o bzd
  BY <1>2, <1>3, SMTT(40)
<1>10. (b \o ap) \o zd = b \o (ap \o zd)
  BY <1>2, <1>3, SMTT(40)
<1>11. zd \o <<>> = zd
  BY <1>3, ConcatEmptySeq
<1>12. bzd \o <<>> = bzd
  <2> HIDE DEF bzd
  <2>1. QED BY <1>7, ConcatEmptySeq
<1> DEFINE L1 == (((a \o p) \o z) \o d) \o b
           R1 == ((<<>> \o a) \o p) \o (((<<>> \o z) \o d) \o b)
           L2 == ((a \o p) \o b) \o (z \o d)
           R2 == ((<<>> \o a) \o p) \o (((b \o z) \o d) \o <<>>)
           L3 == b \o (((a \o p) \o z) \o d)
           R3 == ((b \o a) \o p) \o (((<<>> \o z) \o d) \o <<>>)
<1>13. L1 = (ap \o zd) \o b /\ R1 = ap \o (zd \o b)
  BY <1>1, <1>6, Zenon DEF ap, zd
<1>14. L2 = (ap \o b) \o zd /\ R2 = ap \o bzd
  BY <1>1, <1>4, <1>12, Zenon DEF ap, zd
<1>15. L3 = b \o (ap \o zd) /\ R3 = (b \o ap) \o zd
  BY <1>1, <1>5, <1>6, <1>11, Zenon DEF ap, zd
<1>16. L1 = R1 /\ L2 = R2 /\ L3 = R3
  <2> HIDE DEF L1, L2, L3, R1, R2, R3
  <2>1. QED BY <1>8, <1>9, <1>10, <1>13, <1>14, <1>15, Zenon
<1>17. QED BY <1>16 DEF Together

\* What stands behind the beginning of a text
Behind(s, t) == SubSeq(s \o t, Len(s) + 1, Len(s \o t)) = t

\* It is cut out where the beginning ends.
LEMMA BehindIs ==
    ASSUME NEW S, NEW s \in Seq(S), NEW t \in Seq(S)
    PROVE  Behind(s, t)
<1> DEFINE m == Len(s) + 1
           v == s \o t
           n == Len(v)
           u == SubSeq(v, m, n)
<1>1. Len(s) \in Nat /\ Len(t) \in Nat
  BY LenProperties
<1>2. /\ v \in Seq(S) /\ n = Len(s) + Len(t)
      /\ \A i \in 1 .. Len(s) + Len(t) : v[i] = IF i <= Len(s) THEN s[i] ELSE t[i - Len(s)]
  BY ConcatProperties
<1>3. m = Len(s) + 1 /\ m \in Int /\ n \in Int
  BY <1>1, <1>2
<1> HIDE DEF m, n, v
<1>4. \A i \in m .. n : v[i] \in S
  <2>1. \A i \in m .. n : i \in 1 .. n
    BY <1>1, <1>3
  <2>2. QED BY <1>2, <2>1, ElementOfSeq DEF n
<1>5. u \in Seq(S) /\ Len(u) = (IF m <= n THEN n - m + 1 ELSE 0) /\ \A i \in 1 .. n - m + 1 : u[i] = v[m + i - 1]
  BY <1>3, <1>4, SubSeqProperties
<1>6. Len(u) = Len(t)
  BY <1>1, <1>2, <1>3, <1>5
<1>7. ASSUME NEW i \in 1 .. Len(t) PROVE u[i] = t[i]
  <2>1. i \in 1 .. n - m + 1 /\ m + i - 1 \in 1 .. Len(s) + Len(t) /\ ~(m + i - 1 <= Len(s)) /\ m + i - 1 - Len(s) = i
    BY <1>1, <1>2, <1>3
  <2>2. u[i] = v[m + i - 1]
    BY <1>5, <2>1
  <2> DEFINE j == m + i - 1
  <2>3. j \in 1 .. Len(s) + Len(t) /\ ~(j <= Len(s)) /\ j - Len(s) = i
    BY <1>1, <1>2, <1>3
  <2>4. u[i] = v[j]
    BY <2>2
  <2> HIDE DEF j
  <2>5. v[j] = t[j - Len(s)]
    BY <1>2, <2>3
  <2>6. QED BY <2>3, <2>4, <2>5
<1> HIDE DEF u
<1>8. u = t
  BY <1>5, <1>6, <1>7, SeqEqual
<1>9. QED BY <1>8 DEF u, m, n, v, Behind

\* The text of a number is the number, as C has it.
LEMMA NumberMeans ==
    ASSUME NEW it \in Items, Number(it)
    PROVE  LET p == Parsed(it)
               h == Halves(p)
           IN  /\ h[1] \in Seq(Letters) /\ h[2] \in Seq(Letters)
               /\ Meaning(p) = h[1] \o PrefixText(p) \o h[2]
<1> DEFINE p == Parsed(it)
           a == SignText(p)
           q == PrefixText(p)
           d == DigitText(p)
           n == Len(d)
           length == Max({n, p.precision})
           pad == Max({0, p.width - Len(a) - Len(q) - length})
           zero == p.zero /\ ~p.left
           h1 == If(~zero /\ ~p.left, Pad(pad)) \o a
           h2 == If(zero, Fill("0", pad)) \o Fill("0", length - n) \o d \o If(p.left, Pad(pad))
           k == Max({0, p.precision - n})
           z == Fill("0", k)
           body == (a \o q) \o z \o d
           gap == Max({0, p.width - Len(body)})
           g == Fill("0", gap)
           b == Pad(gap)
<1>1. p.precision \in Int /\ p.width \in Int /\ p.left \in BOOLEAN /\ p.zero \in BOOLEAN
  BY ParsedIs
<1>2. a \in Seq(Letters) /\ q \in Seq(Letters) /\ d \in Seq(Letters)
  BY NumberTexts
<1>3. n \in Nat /\ Len(a) \in Nat /\ Len(q) \in Nat
  BY <1>2, LenProperties
<1>4. Number(p)
  BY ParsedIs DEF Number
<1>5. Halves(p) = <<h1, h2>>
  BY DEF Halves
<1>6. Meaning(p) = IF p.left THEN body \o b
                   ELSE IF p.zero THEN (a \o q) \o g \o SubSeq(body, Len(a \o q) + 1, Len(body))
                   ELSE b \o body
  <2>1. p.conv # "s" /\ p.conv \notin {"c", "%", "text"}
    BY <1>4 DEF Number
  <2>2. SignOf(p) = a \o q
    BY <1>4 DEF SignOf
  <2>3. BodyOf(p) = SignOf(p) \o Fill("0", Max({0, p.precision - Len(DigitText(p))})) \o DigitText(p)
    BY <1>4, <2>1 DEF BodyOf
  <2>4. BodyOf(p) = body
    BY <2>2, <2>3, Zenon
  <2>5. GapOf(p) = gap
    BY <2>4 DEF GapOf
  <2> HIDE DEF body, gap
  <2>6. QED BY <1>4, <2>2, <2>4, <2>5, Zenon DEF Meaning
<1> HIDE DEF p, a, q, d
<1>7. length \in Int /\ k \in Nat /\ length - n = k
  <2> DEFINE e == p.precision
             f == e - n
  <2>1. e \in Int /\ n \in Int /\ f \in Int /\ f = e - n /\ 0 \in Int
    BY <1>1, <1>3
  <2> HIDE DEF e, f, n
  <2>2. Max({n, e}) = (IF n <= e THEN e ELSE n) /\ Max({0, f}) = IF 0 <= f THEN f ELSE 0
    BY <2>1, OfTwo, Zenon
  <2>3. Max({n, e}) \in Int /\ Max({0, f}) \in Nat /\ Max({n, e}) - n = Max({0, f})
    BY <2>1, <2>2
  <2>4. QED BY <2>3 DEF e, f
<1>8. z \in Seq(Letters) /\ Len(z) = k
  <2> HIDE DEF k
  <2>1. QED BY <1>7, FillIs, LettersAre
<1>9. a \o q \in Seq(Letters) /\ Len(a \o q) = Len(a) + Len(q)
  BY <1>2, ConcatProperties
<1> HIDE DEF length, k, z, n
<1>10. body \in Seq(Letters) /\ Len(body) = Len(a) + Len(q) + k + n
  <2> DEFINE s == a \o q
             t == s \o z
  <2>1. s \in Seq(Letters) /\ Len(s) = Len(a) + Len(q)
    BY <1>9
  <2> HIDE DEF s
  <2>2. t \in Seq(Letters) /\ Len(t) = Len(s) + Len(z)
    BY <1>8, <2>1, ConcatProperties
  <2> HIDE DEF t
  <2>3. t \o d \in Seq(Letters) /\ Len(t \o d) = Len(t) + Len(d)
    BY <1>2, <2>2, ConcatProperties
  <2>4. QED BY <1>8, <2>1, <2>2, <2>3 DEF t, s, n
<1>11. pad = gap /\ gap \in Nat
  <2> DEFINE e == p.width - Len(body)
             f == p.width - Len(a) - Len(q) - length
  <2>1. e = f /\ e \in Int /\ 0 \in Int
    BY <1>1, <1>3, <1>7, <1>10
  <2> HIDE DEF e, f
  <2>2. Max({0, e}) = IF 0 <= e THEN e ELSE 0
    BY <2>1, OfTwo, Zenon
  <2>3. Max({0, e}) \in Nat /\ Max({0, e}) = Max({0, f})
    BY <2>1, <2>2
  <2>4. QED BY <2>3 DEF e, f
<1> HIDE DEF pad, gap
<1>12. g \in Seq(Letters) /\ b \in Seq(Letters)
  BY <1>11, FillIs, PadIs, LettersAre
<1>13. h1 = If(~zero /\ ~p.left, b) \o a /\ h2 = If(zero, g) \o z \o d \o If(p.left, b)
  BY <1>7, <1>11 DEF z
<1> HIDE DEF g, b
<1>14. CASE p.left
  <2>1. h1 = <<>> \o a /\ h2 = <<>> \o z \o d \o b
    BY <1>13, <1>14 DEF If
  <2>2. body \o b = (h1 \o q) \o h2
    <3> HIDE DEF h1, h2
    <3>1. Together(a, q, z, d, b)
      BY <1>2, <1>8, <1>12, PartsTogether
    <3>2. QED BY <2>1, <3>1, Zenon DEF Together
  <2>3. <<>> \in Seq(Letters)
    BY EmptySeq
  <2>4. h1 \in Seq(Letters) /\ h2 \in Seq(Letters)
    <3> HIDE DEF h1, h2
    <3>1. <<>> \o a \in Seq(Letters) /\ <<>> \o z \in Seq(Letters)
      BY <1>2, <1>8, <2>3, ConcatProperties
    <3>2. (<<>> \o z) \o d \in Seq(Letters)
      BY <1>2, <3>1, ConcatProperties
    <3>3. QED BY <1>12, <2>1, <3>1, <3>2, ConcatProperties
  <2> HIDE DEF h1, h2, body
  <2>5. Meaning(p) = (h1 \o q) \o h2
    BY <1>6, <1>14, <2>2, Zenon
  <2>6. QED BY <1>5, <2>4, <2>5 DEF p, q
<1>15. CASE ~p.left /\ p.zero
  <2>1. h1 = <<>> \o a /\ h2 = g \o z \o d \o <<>>
    BY <1>13, <1>15 DEF If
  <2>2. SubSeq(body, Len(a \o q) + 1, Len(body)) = z \o d
    <3> DEFINE s == a \o q
    <3>1. s \in Seq(Letters) /\ z \o d \in Seq(Letters)
      BY <1>2, <1>8, <1>9, ConcatProperties
    <3> HIDE DEF s
    <3>2. (s \o z) \o d = s \o (z \o d)
      BY <1>2, <1>8, <3>1
    <3>3. SubSeq(s \o (z \o d), Len(s) + 1, Len(s \o (z \o d))) = z \o d
      BY <3>1, BehindIs DEF Behind
    <3>4. QED BY <3>2, <3>3 DEF s
  <2>3. (a \o q) \o g \o (z \o d) = (h1 \o q) \o h2
    <3> HIDE DEF h1, h2
    <3>1. Together(a, q, z, d, g)
      BY <1>2, <1>8, <1>12, PartsTogether
    <3>2. QED BY <2>1, <3>1, Zenon DEF Together
  <2>4. <<>> \in Seq(Letters)
    BY EmptySeq
  <2>5. h1 \in Seq(Letters) /\ h2 \in Seq(Letters)
    <3> HIDE DEF h1, h2
    <3>1. <<>> \o a \in Seq(Letters) /\ g \o z \in Seq(Letters)
      BY <1>2, <1>8, <1>12, <2>4, ConcatProperties
    <3>2. (g \o z) \o d \in Seq(Letters)
      BY <1>2, <3>1, ConcatProperties
    <3>3. QED BY <2>1, <2>4, <3>1, <3>2, ConcatProperties
  <2> HIDE DEF h1, h2, body
  <2>6. Meaning(p) = (h1 \o q) \o h2
    BY <1>6, <1>15, <2>2, <2>3, Zenon
  <2>7. QED BY <1>5, <2>5, <2>6 DEF p, q
<1>16. CASE ~p.left /\ ~p.zero
  <2>1. h1 = b \o a /\ h2 = <<>> \o z \o d \o <<>>
    BY <1>13, <1>16 DEF If
  <2>2. b \o body = (h1 \o q) \o h2
    <3> HIDE DEF h1, h2
    <3>1. Together(a, q, z, d, b)
      BY <1>2, <1>8, <1>12, PartsTogether
    <3>2. QED BY <2>1, <3>1, Zenon DEF Together
  <2>3. <<>> \in Seq(Letters)
    BY EmptySeq
  <2>4. h1 \in Seq(Letters) /\ h2 \in Seq(Letters)
    <3> HIDE DEF h1, h2
    <3>1. b \o a \in Seq(Letters) /\ <<>> \o z \in Seq(Letters)
      BY <1>2, <1>8, <1>12, <2>3, ConcatProperties
    <3>2. (<<>> \o z) \o d \in Seq(Letters)
      BY <1>2, <3>1, ConcatProperties
    <3>3. QED BY <2>1, <2>3, <3>1, <3>2, ConcatProperties
  <2> HIDE DEF h1, h2, body
  <2>5. Meaning(p) = (h1 \o q) \o h2
    BY <1>6, <1>16, <2>2, Zenon
  <2>6. QED BY <1>5, <2>4, <2>5 DEF p, q
<1>17. QED BY <1>1, <1>14, <1>15, <1>16

\* Of what is not written behind a text that fills the buffer nothing matters.
LEMMA FirstOfOne ==
    ASSUME NEW S, NEW s \in Seq(S), NEW t \in Seq(S), NEW n \in Nat, n <= Len(s)
    PROVE  First(n, s \o t) = First(n, s)
<1> DEFINE v == s \o t
           a == First(n, v)
           b == First(n, s)
<1>1. Len(s) \in Nat /\ Len(t) \in Nat
  BY LenProperties
<1>2. /\ v \in Seq(S) /\ Len(v) = Len(s) + Len(t)
      /\ \A i \in 1 .. Len(s) + Len(t) : v[i] = IF i <= Len(s) THEN s[i] ELSE t[i - Len(s)]
  BY ConcatProperties
<1> HIDE DEF v
<1>3. n <= Len(v)
  BY <1>1, <1>2
<1>4. a \in Seq(S) /\ Len(a) = n /\ \A i \in 1 .. n : i \in 1 .. Len(v) /\ a[i] = v[i]
  BY <1>2, <1>3, FirstIs
<1>5. b \in Seq(S) /\ Len(b) = n /\ \A i \in 1 .. n : i \in 1 .. Len(s) /\ b[i] = s[i]
  BY FirstIs
<1> HIDE DEF a, b
<1>6. \A i \in 1 .. n : a[i] = b[i]
  <2>1. \A i \in 1 .. n : i \in 1 .. Len(s) + Len(t) /\ i <= Len(s)
    BY <1>1
  <2>2. \A i \in 1 .. n : v[i] = s[i]
    BY <1>2, <2>1
  <2>3. QED BY <1>4, <1>5, <2>2
<1>7. a = b
  BY <1>4, <1>5, <1>6, SeqEqual
<1>8. QED BY <1>7 DEF a, b, v

\* What comes of a text t where r places are left: nothing is written past them; and the
\* text is written whole, or cut off, or a number ends short of it, or a string that does
\* not fit is left out.
Safe(o, r) ==
    /\ o.text \in Seq(Letters) /\ Len(o.text) <= r /\ o.stop \in BOOLEAN
    /\ ~o.stop => o.room \in Nat /\ Len(o.text) + o.room <= r
Whole(o, r, t) == o.text = t /\ Len(t) < r /\ o.room = r - Len(t)
Cut(o, r, t) == o.text = First(r - 1, t) /\ Len(o.text) = r - 1 /\ r <= Len(t) /\ (o.room = 0 \/ o.stop)
Short(o, r, t) == Len(o.text) < Len(t) /\ Len(o.text) < r - 1
Dropped(o, r, t) == o.stop /\ o.text = <<>> /\ r <= Len(t)

\* A text that is written with a test before each character
LEMMA PutSafe ==
    ASSUME NEW t \in Seq(Letters), NEW r \in 1 .. Word - 1
    PROVE  LET o == Put(r, t)
           IN  Safe(o, r) /\ Len(o.text) < r /\ o.room \in Nat /\ (Whole(o, r, t) \/ (Cut(o, r, t) /\ o.room = 0))
<1> DEFINE o == Put(r, t)
<1>1. r \in Nat /\ r >= 1 /\ r - 1 \in Nat /\ Len(t) \in Nat
  BY WordAssumption, LenProperties
<1>2. CASE r <= Len(t)
  <2> DEFINE u == First(r - 1, t)
  <2>1. o = [text |-> u, room |-> 0, stop |-> TRUE] /\ Len(u) = r - 1
    BY <1>2, PutIs
  <2>2. u \in Seq(Letters)
    <3> DEFINE n == r - 1
    <3>1. n \in Nat
      BY <1>1
    <3> HIDE DEF n
    <3>2. First(n, t) \in Seq(Letters)
      BY <3>1, FirstIs
    <3>3. QED BY <3>2 DEF n
  <2>3. o.text = u /\ o.room = 0 /\ o.stop = TRUE
    BY <2>1
  <2> HIDE DEF o
  <2>4. Cut(o, r, t)
    BY <1>2, <2>1, <2>3 DEF Cut
  <2> HIDE DEF u
  <2>5. Safe(o, r) /\ Len(o.text) < r
    BY <1>1, <2>1, <2>2, <2>3 DEF Safe
  <2>6. QED BY <2>3, <2>4, <2>5 DEF o
<1>3. CASE Len(t) < r
  <2>1. o = [text |-> t, room |-> r - Len(t), stop |-> FALSE]
    BY <1>3, PutIs
  <2>2. o.text = t /\ o.room = r - Len(t) /\ o.stop = FALSE
    BY <2>1
  <2> HIDE DEF o
  <2>3. Whole(o, r, t)
    BY <1>3, <2>2 DEF Whole
  <2>4. o.room \in Nat /\ Len(o.text) < r /\ Len(o.text) <= r /\ Len(o.text) + o.room <= r
    BY <1>1, <1>3, <2>2
  <2>5. o.text \in Seq(Letters) /\ o.stop \in BOOLEAN
    BY <2>2, Zenon
  <2>6. Safe(o, r)
    BY <2>4, <2>5, Zenon DEF Safe
  <2>7. QED BY <2>3, <2>4, <2>6 DEF o
<1>4. QED BY <1>1, <1>2, <1>3

\* A number
LEMMA NumberPiece ==
    ASSUME NEW it \in Items, Number(it), NEW r \in 1 .. Word - 1
    PROVE  LET o == Turned(r, Parsed(it))
               t == Meaning(Parsed(it))
           IN  /\ Safe(o, r) /\ Len(o.text) < r /\ t \in Seq(Letters)
               /\ Whole(o, r, t) \/ Cut(o, r, t) \/ Short(o, r, t)
<1> DEFINE p == Parsed(it)
           h == Halves(p)[1]
           q == PrefixText(p)
           k == Halves(p)[2]
           t == (h \o q) \o k
           f == Put(r, h)
           w == Put(r, t)
           n == PutNumber(r, p)
           o == [n EXCEPT !.stop = (n.room = 1)]
<1>1. h \in Seq(Letters) /\ k \in Seq(Letters) /\ Meaning(p) = t /\ q \in Seq(Letters)
  BY NumberMeans, NumberTexts
<1>2. Turned(r, p) = o
  <2>1. Number(p)
    BY ParsedIs DEF Number
  <2>2. p.conv # "s" /\ p.conv # "c" /\ p.conv \notin {"%", "text"}
    BY <2>1 DEF Number
  <2>3. QED BY <2>1, <2>2 DEF Turned
<1>3. n = IF p.special /\ Base(p) = 16 /\ f.room <= 2 THEN f ELSE w
  BY DEF PutNumber
<1> DEFINE special == p.special /\ Base(p) = 16
<1>4. special => Len(q) = 2
  <2>1. SUFFICES ASSUME special PROVE Len(q) = 2
    OBVIOUS
  <2>2. q = <<"0", "x">> \o <<>>
    BY <2>1 DEF PrefixText, If
  <2>3. <<"0", "x">> \in Seq(Letters)
    BY LettersAre, TwoIs
  <2>4. q = <<"0", "x">>
    BY <2>2, <2>3, ConcatEmptySeq
  <2>5. QED BY <2>4
<1> HIDE DEF p, h, q, k, special
<1> DEFINE e == h \o q
<1>5. e \in Seq(Letters) /\ Len(e) = Len(h) + Len(q)
  BY <1>1, ConcatProperties
<1>6. t \in Seq(Letters) /\ Len(t) = Len(h) + Len(q) + Len(k) /\ q \o k \in Seq(Letters) /\ t = h \o (q \o k)
  <2>1. t \in Seq(Letters) /\ Len(t) = Len(e) + Len(k)
    <3> HIDE DEF e
    <3>1. QED BY <1>1, <1>5, ConcatProperties DEF t
  <2>2. q \o k \in Seq(Letters) /\ t = h \o (q \o k)
    BY <1>1, ConcatProperties, SMTT(20)
  <2>3. QED BY <1>5, <2>1, <2>2
<1>7. Len(h) \in Nat /\ Len(q) \in Nat /\ Len(k) \in Nat /\ r \in Nat /\ r >= 1 /\ r - 1 \in Nat
  BY <1>1, LenProperties, WordAssumption
<1>8. Safe(w, r) /\ Len(w.text) < r /\ w.room \in Nat /\ (Whole(w, r, t) \/ (Cut(w, r, t) /\ w.room = 0))
  <2> HIDE DEF t
  <2>1. QED BY <1>6, PutSafe
<1>9. Safe(f, r) /\ Len(f.text) < r /\ f.room \in Nat /\ (Whole(f, r, h) \/ (Cut(f, r, h) /\ f.room = 0))
  BY <1>1, PutSafe
<1>10. n = IF special /\ f.room <= 2 THEN f ELSE w
  BY <1>3 DEF special
<1>11. (n = f \/ n = w) /\ \E c, d, g : n = [text |-> c, room |-> d, stop |-> g]
  BY <1>10 DEF Put, Outcome
<1> HIDE DEF f, w, n, t
<1>12. o.text = n.text /\ o.room = n.room /\ o.stop = (n.room = 1)
  <2>1. n.room \in Nat
    BY <1>8, <1>9, <1>11
  <2>2. QED BY <1>11
<1> HIDE DEF o
<1>13. n.room \in Nat /\ Len(n.text) < r /\ n.text \in Seq(Letters)
  BY <1>8, <1>9, <1>11 DEF Safe
<1>14. Len(n.text) \in Nat
  BY <1>13, LenProperties
<1>15. CASE n = w
  <2>1. Len(n.text) + n.room <= r
    <3>1. CASE Whole(w, r, t)
      BY <1>6, <1>7, <1>15, <3>1 DEF Whole
    <3>2. CASE Cut(w, r, t) /\ w.room = 0
      BY <1>7, <1>15, <3>2 DEF Cut
    <3>3. QED BY <1>8, <3>1, <3>2
  <2>2. Safe(o, r)
    BY <1>7, <1>12, <1>13, <1>14, <2>1 DEF Safe
  <2>3. Whole(o, r, t) \/ Cut(o, r, t)
    BY <1>8, <1>12, <1>15 DEF Whole, Cut
  <2>4. QED BY <1>1, <1>2, <1>6, <1>12, <1>13, <2>2, <2>3 DEF p
<1>16. CASE n = f /\ special /\ f.room <= 2
  <2>1. CASE Cut(f, r, h) /\ f.room = 0
    <3> DEFINE m == r - 1
    <3>1. m \in Nat /\ m <= Len(h)
      BY <1>7, <2>1 DEF Cut
    <3> HIDE DEF m
    <3>2. First(m, h \o (q \o k)) = First(m, h)
      BY <1>1, <1>6, <3>1, FirstOfOne
    <3>3. First(r - 1, t) = First(r - 1, h)
      BY <1>6, <3>2 DEF m
    <3>4. r <= Len(t)
      BY <1>6, <1>7, <2>1 DEF Cut
    <3>5. Cut(o, r, t)
      BY <1>12, <1>16, <2>1, <3>3, <3>4 DEF Cut
    <3>6. Safe(o, r)
      BY <1>7, <1>12, <1>13, <1>14, <1>16, <2>1 DEF Safe, Cut
    <3>7. QED BY <1>1, <1>2, <1>6, <1>12, <1>13, <3>5, <3>6 DEF p
  <2>2. CASE Whole(f, r, h)
    <3>1. n.text = h /\ n.room = r - Len(h) /\ Len(h) < r
      BY <1>16, <2>2 DEF Whole
    <3>2. Safe(o, r)
      BY <1>7, <1>12, <1>13, <1>14, <3>1 DEF Safe
    <3>3. CASE n.room = 1
      <4> DEFINE m == r - 1
      <4>1. m \in Nat /\ m = Len(h) /\ m <= Len(h) /\ Len(h) <= m
        BY <1>7, <3>1, <3>3
      <4> HIDE DEF m
      <4>2. First(m, h \o (q \o k)) = First(m, h)
        BY <1>1, <1>6, <4>1, FirstOfOne
      <4>7. First(m, h) = h
        BY <1>1, <4>1, FirstIs
      <4>3. First(r - 1, t) = h /\ Len(h) = r - 1
        BY <1>6, <4>1, <4>2, <4>7 DEF m
      <4>8. Len(q) = 2
        BY <1>4, <1>16
      <4>4. r <= Len(t)
        BY <1>6, <1>7, <4>3, <4>8
      <4>5. Cut(o, r, t)
        BY <1>12, <3>1, <3>3, <4>3, <4>4 DEF Cut
      <4>6. QED BY <1>1, <1>2, <1>6, <1>12, <1>13, <3>2, <4>5 DEF p
    <3>4. CASE n.room = 2
      <4>3. Len(q) = 2
        BY <1>4, <1>16
      <4>4. Len(h) < Len(t) /\ Len(h) < r - 1
        BY <1>6, <1>7, <3>1, <3>4, <4>3
      <4>1. Short(o, r, t)
        BY <1>12, <3>1, <4>4 DEF Short
      <4>2. QED BY <1>1, <1>2, <1>6, <1>12, <1>13, <3>2, <4>1 DEF p
    <3>5. n.room = 1 \/ n.room = 2
      BY <1>7, <1>16, <3>1
    <3>6. QED BY <3>3, <3>4, <3>5
  <2>3. QED BY <1>9, <2>1, <2>2
<1>17. QED BY <1>10, <1>15, <1>16


\* A character, blanks on one side of it, is written with a test before each character.
LEMMA CharMeans ==
    ASSUME NEW it \in Items, it.conv \in {"c", "%", "text"}, NEW r \in Nat
    PROVE  LET p == Parsed(it) IN Meaning(p) \in Seq(Letters) /\ Turned(r, p) = Put(r, Meaning(p))
<1> DEFINE p == Parsed(it)
           c == <<p.arg>>
           n == p.width - 1
           g == Max({0, n})
           b == Pad(g)
<1>1. /\ p.conv = it.conv /\ p.arg = it.arg /\ p.left \in BOOLEAN /\ p.width \in Int
      /\ it.conv \in {"%", "text"} => p.width = -1 /\ ~p.left
  BY ParsedIs
<1>2. it.arg \in STRING
  BY ItemsAssumption
<1>3. p.arg \in Letters
  BY <1>1, <1>2 DEF Letters
<1>4. c \in Seq(Letters) /\ Len(c) = 1
  BY <1>3, OneIs
<1>5. n \in Int /\ (it.conv \in {"%", "text"} => n <= 0 /\ n # 0)
  BY <1>1
<1> HIDE DEF n
<1>6. g = IF 0 <= n THEN n ELSE 0
  BY <1>5, OfTwo
<1>7. g \in Nat /\ (it.conv \in {"%", "text"} => g = 0)
  BY <1>5, <1>6
<1>8. ~Number(p) /\ p.conv # "s"
  BY <1>1 DEF Number
<1>9. BodyOf(p) = c
  BY <1>1, <1>8 DEF BodyOf
<1>10. GapOf(p) = g
  BY <1>4, <1>9 DEF GapOf, n
<1> HIDE DEF g
<1>11. b \in Seq(Letters) /\ Len(b) = g
  BY <1>7, PadIs
<1>12. it.conv \in {"%", "text"} => b = <<>>
  BY <1>7, <1>11, EmptySeq
<1>13. Meaning(p) = IF p.left THEN c \o b ELSE b \o c
  BY <1>8, <1>9, <1>10 DEF Meaning
<1>14. c \o b \in Seq(Letters) /\ b \o c \in Seq(Letters)
  BY <1>4, <1>11, ConcatProperties
<1>15. <<>> \o c = c
  BY <1>4, ConcatEmptySeq
<1>16. CharText(p) = (If(~p.left, b) \o c) \o If(p.left, b)
  BY DEF CharText, g, n
<1> HIDE DEF p, b, c
<1>17. (b \o c) \o <<>> = b \o c
  <2> DEFINE v == b \o c
  <2>1. v \in Seq(Letters)
    BY <1>14
  <2> HIDE DEF v
  <2>2. v \o <<>> = v
    BY <2>1, ConcatEmptySeq
  <2>3. QED BY <2>2 DEF v
<1>18. CharText(p) = Meaning(p)
  <2>1. CASE p.left
    <3>1. If(~p.left, b) = <<>> /\ If(p.left, b) = b
      BY <2>1 DEF If
    <3>2. CharText(p) = c \o b
      BY <1>15, <1>16, <3>1, Zenon
    <3>3. QED BY <1>13, <2>1, <3>2
  <2>2. CASE ~p.left
    <3>1. If(~p.left, b) = b /\ If(p.left, b) = <<>>
      BY <2>2 DEF If
    <3>2. CharText(p) = b \o c
      BY <1>16, <1>17, <3>1, Zenon
    <3>3. QED BY <1>13, <2>2, <3>2
  <2>3. QED BY <2>1, <2>2
<1>19. CASE it.conv = "c"
  <2>1. Turned(r, p) = Put(r, CharText(p))
    BY <1>1, <1>8, <1>19 DEF Turned
  <2>2. QED BY <1>13, <1>14, <1>18, <2>1 DEF p
<1>20. CASE it.conv \in {"%", "text"}
  <2>1. Turned(r, p) = Put(r, c)
    BY <1>1, <1>8, <1>20 DEF Turned, c
  <2>2. Meaning(p) = c
    BY <1>1, <1>12, <1>13, <1>15, <1>20, Zenon
  <2>3. QED BY <1>4, <2>1, <2>2 DEF p
<1>21. QED BY <1>19, <1>20

\* A text of six characters
LEMMA SixLettersAre ==
    ASSUME NEW S, NEW a \in S, NEW b \in S, NEW c \in S, NEW d \in S, NEW e \in S, NEW f \in S
    PROVE  <<a, b, c, d, e, f>> \in Seq(S)
OBVIOUS

\* The string of %s, as far as its precision goes
LEMMA StringIs ==
    ASSUME NEW it \in Items, it.conv = "s"
    PROVE  StringText(Parsed(it)) \in Seq(Letters)
<1> DEFINE p == Parsed(it)
           w == <<"<", "N", "U", "L", "L", ">">>
           s == IF p.arg = Null THEN w ELSE p.arg
           n == p.precision
<1>1. p.arg = it.arg /\ n \in Int /\ n >= -1
  BY ParsedIs
<1>2. it.arg \in Seq(STRING)
  BY ItemsAssumption
<1>3. STRING \subseteq Letters
  BY DEF Letters
<1>4. it.arg \in Seq(Letters)
  BY <1>2, <1>3, SeqMonotonic
<1>5. w \in Seq(Letters)
  <2> DEFINE a == "<"  b == "N"  c == "U"  d == "L"  e == ">"
  <2>1. a \in Letters /\ b \in Letters /\ c \in Letters /\ d \in Letters /\ e \in Letters
    BY LettersAre
  <2> HIDE DEF a, b, c, d, e
  <2>2. <<a, b, c, d, d, e>> \in Seq(Letters)
    BY <2>1, SixLettersAre
  <2>3. QED BY <2>2 DEF a, b, c, d, e
<1>6. s \in Seq(Letters)
  BY <1>1, <1>4, <1>5
<1>7. StringText(p) = IF n = -1 THEN s ELSE First(n, s)
  BY DEF StringText, None
<1> HIDE DEF p, s, n
<1>8. n # -1 => n \in Nat
  BY <1>1
<1>9. n # -1 => First(n, s) \in Seq(Letters)
  BY <1>6, <1>8, FirstIs
<1>10. StringText(p) \in Seq(Letters)
  BY <1>6, <1>7, <1>9
<1>11. QED BY <1>10 DEF p

\* What PutString writes of the string s with pad blanks
Place(r, s, left, pad) ==
    LET begin == IF left THEN Outcome(<<>>, r, FALSE) ELSE Outcome(<<>>, r - pad, 1 <= r /\ r <= pad)
        rest == begin.room - Len(s)
    IN  IF begin.stop \/ rest <= 0 THEN Outcome(<<>>, begin.room, TRUE)
        ELSE IF left /\ pad >= rest THEN Outcome(s \o Pad(rest), 0, TRUE)
        ELSE Outcome(s \o If(left, Pad(pad)), IF left THEN rest - pad ELSE rest, FALSE)

\* A room that is shorter than a word is kept as it is.
LEMMA RoomIs ==
    ASSUME NEW x \in 0 .. Word - 1
    PROVE  x % Word = x
BY WordAssumption

\* A string with blanks on its right is left out where it does not fit, and written whole
\* where there is room for the blanks, too; or it fills the room.
LEMMA LeftSafe ==
    ASSUME NEW s \in Seq(Letters), NEW pad \in Nat, NEW r \in 1 .. Word - 1
    PROVE  LET o == Place(r, s, TRUE, pad)
               t == s \o Pad(pad)
           IN  Safe(o, r) /\ (Len(o.text) = r \/ (Len(o.text) < r /\ (Whole(o, r, t) \/ Dropped(o, r, t))))
<1> DEFINE o == Place(r, s, TRUE, pad)
           t == s \o Pad(pad)
           n == Len(s)
           rest == r - n
           u == s \o Pad(rest)
<1>1. n \in Nat /\ rest \in Int /\ r \in 0 .. Word - 1 /\ Word \in Nat /\ r > 0
  BY LenProperties, WordAssumption
<1>2. r % Word = r
  BY <1>1, RoomIs
<1>3. /\ rest <= 0 => o.text = <<>> /\ o.stop = TRUE
      /\ rest > 0 /\ pad >= rest => o.text = u /\ o.stop = TRUE
      /\ rest > 0 /\ pad < rest => o.text = t /\ o.room = (rest - pad) % Word /\ o.stop = FALSE
  <2> DEFINE begin == Outcome(<<>>, r, FALSE)
             a == Outcome(<<>>, r, TRUE)
             b == Outcome(u, 0, TRUE)
             c == Outcome(t, rest - pad, FALSE)
  <2>1. begin.room = r /\ begin.stop = FALSE
    BY <1>2 DEF Outcome
  <2>2. o = IF begin.stop \/ begin.room - n <= 0 THEN Outcome(<<>>, begin.room, TRUE)
            ELSE IF pad >= begin.room - n THEN Outcome(s \o Pad(begin.room - n), 0, TRUE)
            ELSE Outcome(s \o Pad(pad), (begin.room - n) - pad, FALSE)
    BY Zenon DEF Place, If
  <2>3. o = IF rest <= 0 THEN a ELSE IF pad >= rest THEN b ELSE c
    BY <2>1, <2>2, Zenon
  <2>4. a.text = <<>> /\ a.stop = TRUE /\ b.text = u /\ b.stop = TRUE
    BY DEF Outcome
  <2>5. c.text = t /\ c.room = (rest - pad) % Word /\ c.stop = FALSE
    BY DEF Outcome
  <2> HIDE DEF a, b, c, o, t, u
  <2>6. rest > 0 => ~(rest <= 0)
    BY <1>1
  <2>7. pad < rest => ~(pad >= rest)
    BY <1>1
  <2>8. QED BY <2>3, <2>4, <2>5, <2>6, <2>7, Zenon
<1>4. Pad(pad) \in Seq(Letters) /\ Len(Pad(pad)) = pad
  BY PadIs
<1>5. t \in Seq(Letters) /\ Len(t) = n + pad
  BY <1>4, ConcatProperties
<1>6. rest > 0 => u \in Seq(Letters) /\ Len(u) = r
  <2>1. SUFFICES ASSUME rest > 0 PROVE u \in Seq(Letters) /\ Len(u) = r
    OBVIOUS
  <2>2. rest \in Nat
    BY <1>1, <2>1
  <2>3. Pad(rest) \in Seq(Letters) /\ Len(Pad(rest)) = rest
    <3> HIDE DEF rest
    <3>1. QED BY <2>2, PadIs
  <2>4. u \in Seq(Letters) /\ Len(u) = n + rest
    BY <2>3, ConcatProperties
  <2>5. QED BY <1>1, <2>4
<1> HIDE DEF t, u, o
<1>7. CASE rest <= 0
  <2>1. o.text = <<>> /\ o.stop = TRUE
    BY <1>3, <1>7
  <2>2. <<>> \in Seq(Letters) /\ Len(<<>>) = 0
    OBVIOUS
  <2>3. r <= Len(t)
    BY <1>1, <1>5, <1>7
  <2>4. Len(o.text) < r /\ Len(o.text) <= r
    BY <1>1, <2>1, <2>2
  <2>5. Safe(o, r)
    BY <2>1, <2>2, <2>4 DEF Safe
  <2>6. Dropped(o, r, t)
    BY <2>1, <2>3 DEF Dropped
  <2>7. QED BY <2>4, <2>5, <2>6 DEF o, t
<1>8. CASE rest > 0 /\ pad >= rest
  <2>1. o.text = u /\ o.stop = TRUE
    BY <1>3, <1>8
  <2>2. Len(o.text) = r /\ Len(o.text) <= r /\ o.text \in Seq(Letters)
    BY <1>1, <1>6, <1>8, <2>1
  <2>3. Safe(o, r) /\ Len(o.text) = r
    BY <2>1, <2>2 DEF Safe
  <2>4. QED BY <2>3 DEF o
<1>9. CASE rest > 0 /\ pad < rest
  <2> DEFINE m == rest - pad
  <2>1. m \in 0 .. Word - 1 /\ m = r - Len(t) /\ Len(t) < r /\ m \in Nat /\ Len(t) + m <= r
    BY <1>1, <1>5, <1>9
  <2>2. o.text = t /\ o.room = m % Word /\ o.stop = FALSE
    BY <1>3, <1>9
  <2> HIDE DEF m
  <2>3. o.text = t /\ o.room = m /\ o.stop = FALSE
    BY <2>1, <2>2, RoomIs
  <2>4. Len(o.text) <= r
    BY <1>1, <1>5, <2>1, <2>3
  <2>5. Safe(o, r)
    BY <1>5, <2>1, <2>3, <2>4 DEF Safe
  <2>6. Whole(o, r, t) /\ Len(o.text) < r
    BY <2>1, <2>3 DEF Whole
  <2>7. QED BY <2>5, <2>6 DEF o, t
<1>10. rest <= 0 \/ (rest > 0 /\ pad >= rest) \/ (rest > 0 /\ pad < rest)
  BY <1>1
<1>11. QED BY <1>7, <1>8, <1>9, <1>10, Zenon DEF o, t

\* A string with blanks on its left never fills the room; without any, it is written
\* whole or left out.
LEMMA RightSafe ==
    ASSUME NEW s \in Seq(Letters), NEW pad \in Nat, NEW r \in 1 .. Word - 1
    PROVE  LET o == Place(r, s, FALSE, pad)
           IN  Safe(o, r) /\ Len(o.text) < r /\ (pad = 0 => Whole(o, r, s) \/ Dropped(o, r, s))
<1> DEFINE o == Place(r, s, FALSE, pad)
           n == Len(s)
           b == Outcome(<<>>, r - pad, 1 <= r /\ r <= pad)
           rest == b.room - n
<1>1. n \in Nat /\ r \in 0 .. Word - 1 /\ Word \in Nat /\ Word > 0 /\ r > 0 /\ r - pad \in Int
  BY LenProperties, WordAssumption
<1>2. b.room \in 0 .. Word - 1
  <2> DEFINE x == r - pad
  <2>1. x \in Int
    BY <1>1
  <2> HIDE DEF x
  <2>2. x % Word \in 0 .. Word - 1
    BY <1>1, <2>1
  <2>3. b.room = x % Word
    BY DEF Outcome, x
  <2>4. QED BY <2>2, <2>3
<1>3. b.stop <=> r <= pad
  <2>1. b.stop = (1 <= r /\ r <= pad)
    BY DEF Outcome
  <2>2. 1 <= r
    BY <1>1
  <2>3. QED BY <2>1, <2>2, Zenon
<1>4. s \o <<>> = s
  BY ConcatEmptySeq
<1>5. /\ r <= pad \/ rest <= 0 => o.text = <<>> /\ o.stop = TRUE
      /\ ~(r <= pad) /\ ~(rest <= 0) => o.text = s /\ o.room = rest % Word /\ o.stop = FALSE
  <2> DEFINE a == Outcome(<<>>, b.room, TRUE)
             c == Outcome(s, rest, FALSE)
  <2>1. o = IF b.stop \/ rest <= 0 THEN a ELSE Outcome(s \o <<>>, rest, FALSE)
    BY Zenon DEF Place, If
  <2>2. o = IF b.stop \/ rest <= 0 THEN a ELSE c
    BY <1>4, <2>1, Zenon
  <2>3. a.text = <<>> /\ a.stop = TRUE
    BY DEF Outcome
  <2>4. c.text = s /\ c.room = rest % Word /\ c.stop = FALSE
    BY DEF Outcome
  <2> HIDE DEF a, c, o, b
  <2>5. QED BY <1>3, <2>2, <2>3, <2>4, Zenon
<1>6. r > pad => b.room = r - pad
  <2>1. SUFFICES ASSUME r > pad PROVE b.room = r - pad
    OBVIOUS
  <2> DEFINE x == r - pad
  <2>2. x \in 0 .. Word - 1
    BY <1>1, <2>1
  <2>3. b.room = x % Word
    BY DEF Outcome
  <2> HIDE DEF x
  <2>4. x % Word = x
    BY <2>2, RoomIs
  <2>5. QED BY <2>3, <2>4 DEF x
<1> HIDE DEF o, b
<1>7. CASE r <= pad \/ rest <= 0
  <2>1. o.text = <<>> /\ o.stop = TRUE
    BY <1>5, <1>7, Zenon
  <2>2. <<>> \in Seq(Letters) /\ Len(<<>>) = 0
    OBVIOUS
  <2>3. Len(o.text) < r /\ Len(o.text) <= r
    BY <1>1, <2>1, <2>2
  <2>4. Safe(o, r)
    BY <2>1, <2>2, <2>3 DEF Safe
  <2>5. pad = 0 => r <= Len(s)
    BY <1>1, <1>6, <1>7
  <2>6. pad = 0 => Dropped(o, r, s)
    BY <2>1, <2>5 DEF Dropped
  <2>7. QED BY <2>3, <2>4, <2>6 DEF o
<1>8. CASE ~(r <= pad) /\ ~(rest <= 0)
  <2>1. b.room = r - pad
    BY <1>1, <1>6, <1>8
  <2>2. rest \in 0 .. Word - 1 /\ rest = r - pad - n /\ rest \in Nat /\ n < r /\ n <= r /\ n + rest <= r
    BY <1>1, <1>8, <2>1
  <2>3. o.text = s /\ o.room = rest % Word /\ o.stop = FALSE
    BY <1>5, <1>8, Zenon
  <2> HIDE DEF rest
  <2>4. o.text = s /\ o.room = rest /\ o.stop = FALSE
    BY <2>2, <2>3, RoomIs
  <2>5. Safe(o, r) /\ Len(o.text) < r
    BY <2>2, <2>4 DEF Safe
  <2>6. pad = 0 => rest = r - n
    BY <1>1, <2>2
  <2>7. pad = 0 => Whole(o, r, s)
    BY <2>2, <2>4, <2>6 DEF Whole
  <2>8. QED BY <2>5, <2>7 DEF o
<1>9. QED BY <1>7, <1>8, Zenon

\* A string
LEMMA StringPiece ==
    ASSUME NEW it \in Items, it.conv = "s", NEW r \in 1 .. Word - 1
    PROVE  LET p == Parsed(it)
               o == Turned(r, p)
               t == Meaning(p)
           IN  /\ Safe(o, r) /\ t \in Seq(Letters)
               /\ Len(o.text) = r => p.left
               /\ Departs(it) \/ Len(o.text) = r \/ Whole(o, r, t) \/ Dropped(o, r, t)
<1> DEFINE p == Parsed(it)
           o == Turned(r, p)
           t == Meaning(p)
           s == StringText(p)
           n == p.width - Len(s)
           pad == Max({0, n})
<1>1. p.conv = "s" /\ p.left \in BOOLEAN /\ p.width \in Int
  BY ParsedIs
<1>2. s \in Seq(Letters)
  BY StringIs
<1>3. Len(s) \in Nat
  BY <1>2, LenProperties
<1>4. pad \in Nat /\ (p.width <= Len(s) => pad = 0)
  <2>1. n \in Int /\ (p.width <= Len(s) => n <= 0)
    BY <1>1, <1>3
  <2> HIDE DEF n
  <2>2. Max({0, n}) = IF 0 <= n THEN n ELSE 0
    BY <2>1, OfTwo
  <2>3. QED BY <2>1, <2>2
<1>5. ~Number(p) /\ BodyOf(p) = s /\ GapOf(p) = pad
  BY <1>1 DEF Number, BodyOf, GapOf
<1>6. t = IF p.left THEN s \o Pad(pad) ELSE Pad(pad) \o s
  BY <1>5, Zenon DEF Meaning
<1>7. o = PutString(r, p)
  BY <1>1, <1>5 DEF Turned
<1>8. o = Place(r, s, p.left, pad)
  BY <1>7, Zenon DEF PutString, Place
<1>9. ~Departs(it) => p.left \/ pad = 0
  <2>1. ~Departs(it) => p.left \/ ~(p.width > Len(s))
    BY Zenon DEF Departs
  <2>2. ~(p.width > Len(s)) => p.width <= Len(s)
    BY <1>1, <1>3
  <2>3. QED BY <1>4, <2>1, <2>2, Zenon
<1>10. Pad(pad) \in Seq(Letters) /\ Len(Pad(pad)) = pad
  <2> HIDE DEF pad
  <2>1. QED BY <1>4, PadIs
<1>11. t \in Seq(Letters)
  BY <1>2, <1>6, <1>10, ConcatProperties
<1> HIDE DEF p, o, t, s, pad
<1>12. CASE p.left
  <2>1. o = Place(r, s, TRUE, pad) /\ t = s \o Pad(pad)
    BY <1>1, <1>6, <1>8, <1>12
  <2>2. Safe(o, r) /\ (Len(o.text) = r \/ (Len(o.text) < r /\ (Whole(o, r, t) \/ Dropped(o, r, t))))
    BY <1>2, <1>4, <2>1, LeftSafe, Zenon
  <2>3. QED BY <1>11, <1>12, <2>2, Zenon DEF p, o, t
<1>13. CASE ~p.left
  <2>1. o = Place(r, s, FALSE, pad)
    BY <1>1, <1>8, <1>13
  <2>2. Safe(o, r) /\ Len(o.text) < r /\ (pad = 0 => Whole(o, r, s) \/ Dropped(o, r, s))
    BY <1>2, <1>4, <2>1, RightSafe, Zenon
  <2>3. Len(o.text) # r
    <3>1. Len(o.text) \in Nat
      BY <2>2, LenProperties DEF Safe
    <3>2. QED BY <2>2, <3>1
  <2>4. pad = 0 => t = s
    <3>1. SUFFICES ASSUME pad = 0 PROVE t = s
      OBVIOUS
    <3>2. Pad(pad) = <<>>
      BY <1>10, <3>1, EmptySeq
    <3>3. <<>> \o s = s
      BY <1>2, ConcatEmptySeq
    <3>4. QED BY <1>6, <1>13, <3>2, <3>3, Zenon
  <2>5. Departs(it) \/ Whole(o, r, t) \/ Dropped(o, r, t)
    BY <1>9, <1>13, <2>2, <2>4, Zenon
  <2>6. QED BY <1>11, <2>2, <2>3, <2>5, Zenon DEF p, o, t
<1>14. QED BY <1>12, <1>13

\* A turn of the loop for a letter that is no conversion writes nothing.
LEMMA UnknownPiece ==
    ASSUME NEW it \in Items, it.conv = "unknown", NEW r \in 1 .. Word - 1
    PROVE  LET o == Turned(r, Parsed(it))
           IN  Safe(o, r) /\ Len(o.text) < r /\ Departs(it)
<1> DEFINE p == Parsed(it)
           o == Turned(r, p)
<1>1. p.conv = "unknown"
  BY ParsedIs
<1>2. ~Number(p) /\ p.conv # "s" /\ p.conv # "c" /\ p.conv \notin {"%", "text"}
  BY <1>1 DEF Number
<1>3. o = Outcome(<<>>, r, FALSE)
  BY <1>2 DEF Turned
<1>4. r % Word = r /\ r \in Nat /\ r > 0
  BY WordAssumption
<1>5. o.text = <<>> /\ o.room = r /\ o.stop = FALSE
  BY <1>3, <1>4 DEF Outcome
<1>6. <<>> \in Seq(Letters) /\ Len(<<>>) = 0
  OBVIOUS
<1> HIDE DEF o
<1>7. Len(o.text) < r /\ Len(o.text) <= r /\ Len(o.text) + o.room <= r
  BY <1>4, <1>5, <1>6
<1>8. Safe(o, r)
  BY <1>4, <1>5, <1>6, <1>7 DEF Safe
<1>9. Departs(it)
  BY DEF Departs
<1>10. QED BY <1>7, <1>8, <1>9 DEF o, p

\* One turn of the loop, for any item
LEMMA TurnedIs ==
    ASSUME NEW it \in Items, NEW r \in 1 .. Word - 1
    PROVE  LET p == Parsed(it)
               o == Turned(r, p)
               t == Meaning(p)
           IN  /\ Safe(o, r)
               /\ Len(o.text) = r => it.conv = "s" /\ p.left
               /\ ~Departs(it) => /\ t \in Seq(Letters)
                                  /\ \/ Len(o.text) = r
                                     \/ Whole(o, r, t)
                                     \/ Cut(o, r, t)
                                     \/ Short(o, r, t) /\ it.conv # "s"
                                     \/ Dropped(o, r, t) /\ it.conv = "s"
<1> DEFINE p == Parsed(it)
           o == Turned(r, p)
           t == Meaning(p)
<1>1. it.conv \in {"d", "i", "u", "o", "x", "X", "p", "s", "c", "%", "text", "unknown"}
  BY ItemsAssumption
<1>2. r \in Nat
  BY WordAssumption
<1>3. Safe(o, r) /\ Len(o.text) < r => Len(o.text) # r
  <2>1. SUFFICES ASSUME Safe(o, r), Len(o.text) < r PROVE Len(o.text) # r
    OBVIOUS
  <2>2. Len(o.text) \in Nat
    BY <2>1, LenProperties DEF Safe
  <2>3. QED BY <1>2, <2>1, <2>2
<1>4. CASE Number(it)
  <2>1. /\ Safe(o, r) /\ Len(o.text) < r /\ t \in Seq(Letters)
        /\ Whole(o, r, t) \/ Cut(o, r, t) \/ Short(o, r, t)
    BY <1>4, NumberPiece, Zenon
  <2>2. it.conv # "s"
    BY <1>4 DEF Number
  <2>3. QED BY <1>3, <2>1, <2>2, Zenon
<1>5. CASE it.conv \in {"c", "%", "text"}
  <2>1. t \in Seq(Letters) /\ o = Put(r, t)
    BY <1>2, <1>5, CharMeans, Zenon
  <2> HIDE DEF o, t
  <2>2. Safe(o, r) /\ Len(o.text) < r /\ (Whole(o, r, t) \/ Cut(o, r, t))
    BY <2>1, PutSafe, Zenon
  <2>3. Len(o.text) # r
    BY <1>3, <2>2, Zenon
  <2>4. QED BY <2>1, <2>2, <2>3, Zenon DEF o, t
<1>6. CASE it.conv = "s"
  <2>1. /\ Safe(o, r) /\ t \in Seq(Letters)
        /\ Len(o.text) = r => p.left
        /\ Departs(it) \/ Len(o.text) = r \/ Whole(o, r, t) \/ Dropped(o, r, t)
    BY <1>6, StringPiece, Zenon
  <2>2. QED BY <1>6, <2>1, Zenon
<1>7. CASE it.conv = "unknown"
  <2>1. Safe(o, r) /\ Len(o.text) < r /\ Departs(it)
    BY <1>7, UnknownPiece, Zenon
  <2>2. QED BY <1>3, <2>1, Zenon
<1>8. QED BY <1>1, <1>4, <1>5, <1>6, <1>7 DEF Number

\* A string that does not fit where one place is left is cut off at once.
LEMMA DroppedIsCut ==
    ASSUME NEW o, NEW t \in Seq(Letters), NEW r, r = 1, Dropped(o, r, t)
    PROVE  Cut(o, r, t)
<1>1. o.stop /\ o.text = <<>> /\ r <= Len(t)
  BY DEF Dropped
<1>2. Len(t) \in Nat
  BY LenProperties
<1> DEFINE z == r - 1
<1>3. z = 0 /\ z \in Nat /\ z <= Len(t)
  BY <1>2
<1> HIDE DEF z
<1>4. First(z, t) \in Seq(Letters) /\ Len(First(z, t)) = 0
  BY <1>3, FirstIs
<1>5. First(z, t) = <<>>
  BY <1>4, EmptySeq
<1>6. First(r - 1, t) = <<>> /\ r - 1 = 0
  BY <1>3, <1>5 DEF z
<1>7. Len(<<>>) = 0
  OBVIOUS
<1>8. QED BY <1>1, <1>6, <1>7 DEF Cut

\* A text t behind x, in a buffer of n bytes of which r are left: both are what is in the
\* buffer, as far as they fit.
Follows(x, t, n, r, o) ==
    /\ Whole(o, r, t) => /\ x \o o.text = First(n - 1, x \o t) /\ x \o o.text = x \o t
                         /\ Len(x \o o.text) + o.room = n
    /\ Cut(o, r, t) => x \o o.text = First(n - 1, x \o t)

\* A text that is written whole or cut off follows what was written before it.
LEMMA BehindText ==
    ASSUME NEW x \in Seq(Letters), NEW t \in Seq(Letters), NEW n \in Nat, NEW r \in Nat, r > 0,
           Len(x) + r = n, NEW o
    PROVE  Follows(x, t, n, r, o)
<1> DEFINE m == n - 1
           v == x \o t
<1>1. Len(x) \in Nat /\ Len(t) \in Nat /\ m \in Nat /\ Len(x) <= m /\ m - Len(x) = r - 1
  BY LenProperties
<1>2. v \in Seq(Letters) /\ Len(v) = Len(x) + Len(t)
  BY ConcatProperties
<1>3. ASSUME Whole(o, r, t) PROVE /\ x \o o.text = First(n - 1, x \o t) /\ x \o o.text = x \o t
                                  /\ Len(x \o o.text) + o.room = n
  <2>1. o.text = t /\ Len(t) < r /\ o.room = r - Len(t)
    BY <1>3 DEF Whole
  <2>2. Len(v) <= m
    BY <1>1, <1>2, <2>1
  <2> HIDE DEF v, m
  <2>3. First(m, v) = v
    BY <1>1, <1>2, <2>2, FirstIs
  <2>4. Len(v) + o.room = n
    BY <1>1, <1>2, <2>1
  <2>5. QED BY <2>1, <2>3, <2>4, Zenon DEF v, m
<1>4. ASSUME Cut(o, r, t) PROVE x \o o.text = First(n - 1, x \o t)
  <2>1. o.text = First(r - 1, t)
    BY <1>4 DEF Cut
  <2>2. First(m, x \o t) = x \o First(m - Len(x), t)
    <3> HIDE DEF m
    <3>1. QED BY <1>1, FirstOfBoth
  <2>3. QED BY <1>1, <2>1, <2>2
<1>5. QED BY <1>3, <1>4, Zenon DEF Follows

\* As much as fits of a text was written if and only if it is whole or fills the room.
LEMMA MinIs ==
    ASSUME NEW l \in Nat, NEW a \in Nat, NEW b \in Nat
    PROVE  (l >= Min({a, b})) <=> (l >= a \/ l >= b)
<1>1. Min({a, b}) = IF a <= b THEN a ELSE b
  BY OfTwo
<1>2. QED BY <1>1

\* A text is a prefix of what begins with it.
LEMMA PrefixIs ==
    ASSUME NEW S, NEW x \in Seq(S), NEW t \in Seq(S)
    PROVE  IsPrefix(x, x \o t)
<1> DEFINE v == x \o t
<1>1. Len(x) \in Nat /\ Len(t) \in Nat
  BY LenProperties
<1>2. v \in Seq(S) /\ Len(v) = Len(x) + Len(t) /\ \A i \in 1 .. Len(x) : v[i] = x[i]
  BY <1>1, ConcatProperties
<1> HIDE DEF v
<1>3. Len(x) <= Len(v) /\ DOMAIN x = 1 .. Len(x)
  BY <1>1, <1>2, LenProperties
<1>4. SubSeq(v, 1, Len(x)) = SubSeq(x, 1, Len(x))
  BY <1>1, <1>2, <1>3
<1>5. QED BY <1>3, <1>4 DEF IsPrefix, v

\* An item is taken and its text written: what was written still means what the format does.
LEMMA TakeMeans ==
    ASSUME NEW it \in Items, Take(it), FormatInv, size > 0, past = "no", ~skip, room \in 1 .. Word - 1,
           ~departed', Len(Turned(room, Parsed(it)).text) # room
    PROVE  Means'
<1> DEFINE o == Turned(room, Parsed(it))
           t == Meaning(Parsed(it))
           r == room
<1>1. /\ ~departed /\ ~Departs(it) /\ items \in 0 .. MaxItems - 1
      /\ text' = text \o o.text /\ room' = o.room /\ right' = right \o t /\ size' = size
      /\ items' = (IF o.stop THEN -1 ELSE items + 1) /\ skip' = (it.conv = "unknown")
      /\ dropped' = IF dropped # "no" \/ Len(o.text) >= Min({Len(t), room - 1}) THEN dropped
                    ELSE IF it.conv = "s" THEN "string" ELSE "number"
  BY Zenon DEF Take
<1>2. /\ Safe(o, r) /\ t \in Seq(Letters)
      /\ Whole(o, r, t) \/ Cut(o, r, t) \/ (Short(o, r, t) /\ it.conv # "s") \/ (Dropped(o, r, t) /\ it.conv = "s")
  BY <1>1, TurnedIs, Zenon
<1>3. items >= 0 /\ items \in Int /\ MaxItems \in Nat
  BY <1>1, WordAssumption
<1>4. /\ Means /\ right \in Seq(Letters) /\ text \in Seq(Letters) /\ size \in Nat
      /\ dropped \in {"no", "number"}
      /\ dropped = "no" => text = right
  <2>1. Means /\ text \in Seq(Letters) /\ size \in 0 .. Word - 1
    BY <1>1, Zenon DEF FormatInv
  <2>2. right \in Seq(Letters) /\ dropped \in {"no", "string", "number"}
    BY <2>1 DEF Means
  <2>3. room # 0
    BY WordAssumption
  <2>4. dropped = "no" => text = right
    BY <1>3, <2>1, <2>3 DEF Means
  <2>5. dropped # "string"
    BY <1>3, <2>1 DEF Means
  <2>6. size \in Nat
    BY <2>1, WordAssumption
  <2>7. QED BY <2>1, <2>2, <2>4, <2>5, <2>6
<1>5. dropped = "no" => Len(right) + r = size
  <2>1. room # 0
    BY WordAssumption
  <2>2. QED BY <1>3, <1>4, <2>1 DEF Means
<1>6. right' \in Seq(Letters)
  BY <1>1, <1>2, <1>4, ConcatProperties
<1>7. dropped' \in {"no", "string", "number"}
  BY <1>1, <1>4, Zenon
<1>8. ~skip'
  <2>1. it.conv # "unknown"
    BY <1>1, Zenon DEF Departs
  <2>2. QED BY <1>1, <2>1
<1>9. Len(t) \in Nat /\ r \in Nat /\ r > 0 /\ r - 1 \in Nat /\ o.text \in Seq(Letters) /\ o.stop \in BOOLEAN
  BY <1>2, LenProperties, WordAssumption DEF Safe
<1>10. Len(o.text) \in Nat
  BY <1>9, LenProperties
<1> DEFINE fits == Len(o.text) >= Min({Len(t), room - 1})
<1>11. fits <=> (Len(o.text) >= Len(t) \/ Len(o.text) >= r - 1)
  <2> DEFINE l == Len(o.text)
             a == Len(t)
             b == r - 1
  <2>1. l \in Nat /\ a \in Nat /\ b \in Nat
    BY <1>9, <1>10
  <2> HIDE DEF l, a, b
  <2>2. (l >= Min({a, b})) <=> (l >= a \/ l >= b)
    BY <2>1, MinIs
  <2>3. QED BY <2>2 DEF l, a, b
<1>12. dropped' = IF dropped # "no" \/ fits THEN dropped ELSE IF it.conv = "s" THEN "string" ELSE "number"
  BY <1>1, Zenon
<1> HIDE DEF o, t, fits
<1>13. Whole(o, r, t) => fits
  <2>1. SUFFICES ASSUME Whole(o, r, t) PROVE Len(o.text) >= Len(t)
    BY <1>11
  <2>2. QED BY <1>9, <2>1 DEF Whole
<1>14. Cut(o, r, t) => fits
  <2>1. SUFFICES ASSUME Cut(o, r, t) PROVE Len(o.text) >= r - 1
    BY <1>11
  <2>2. Len(o.text) = r - 1
    BY <2>1 DEF Cut
  <2>3. QED BY <1>9, <2>2
<1>15. Short(o, r, t) => ~fits
  <2>1. SUFFICES ASSUME Short(o, r, t) PROVE ~(Len(o.text) >= Len(t) \/ Len(o.text) >= r - 1)
    BY <1>11
  <2>2. Len(o.text) < Len(t) /\ Len(o.text) < r - 1
    BY <2>1 DEF Short
  <2>3. QED BY <1>9, <1>10, <2>2
<1>16. Dropped(o, r, t) /\ fits => Cut(o, r, t)
  <2>1. SUFFICES ASSUME Dropped(o, r, t), fits PROVE Cut(o, r, t)
    OBVIOUS
  <2>2. o.text = <<>> /\ r <= Len(t) /\ Len(<<>>) = 0
    BY <2>1 DEF Dropped
  <2>3. r = 1
    BY <1>9, <1>11, <2>1, <2>2
  <2>4. QED BY <1>2, <2>1, <2>3, DroppedIsCut, Zenon
<1>17. dropped = "no" => /\ Whole(o, r, t) => /\ right \o o.text = First(size - 1, right \o t)
                                              /\ right \o o.text = right \o t
                                              /\ Len(right \o o.text) + o.room = size
                         /\ Cut(o, r, t) => right \o o.text = First(size - 1, right \o t)
  <2>1. SUFFICES ASSUME dropped = "no" PROVE /\ Whole(o, r, t) => /\ right \o o.text = First(size - 1, right \o t)
                                                                  /\ right \o o.text = right \o t
                                                                  /\ Len(right \o o.text) + o.room = size
                                             /\ Cut(o, r, t) => right \o o.text = First(size - 1, right \o t)
    OBVIOUS
  <2>2. Len(right) + r = size
    BY <1>5, <2>1
  <2>3. t \in Seq(Letters) /\ right \in Seq(Letters) /\ size \in Nat /\ r \in Nat /\ r > 0
    BY <1>2, <1>4, <1>9
  <2> HIDE DEF r
  <2>4. Follows(right, t, size, r, o)
    BY <2>2, <2>3, BehindText
  <2>5. QED BY <2>4, Zenon DEF Follows
<1>18. ASSUME dropped' = "no"
       PROVE  /\ text' = First(size' - 1, right')
              /\ items' >= 0 /\ room' # 0 => text' = right' /\ Len(text') + room' = size'
  <2>1. dropped = "no" /\ fits
    BY <1>12, <1>18, Zenon
  <2>2. text = right /\ (Whole(o, r, t) \/ Cut(o, r, t))
    BY <1>2, <1>4, <1>15, <1>16, <2>1, Zenon
  <2>3. CASE Whole(o, r, t)
    BY <1>1, <1>17, <2>1, <2>2, <2>3, Zenon
  <2>4. CASE Cut(o, r, t)
    <3>1. text' = First(size' - 1, right')
      BY <1>1, <1>17, <2>1, <2>2, <2>4, Zenon
    <3>2. o.room = 0 \/ o.stop
      BY <2>4 DEF Cut
    <3>3. o.stop => items' = -1
      BY <1>1, Zenon
    <3>4. ~(items' >= 0 /\ room' # 0)
      BY <1>1, <3>2, <3>3
    <3>5. QED BY <3>1, <3>4
  <2>5. QED BY <2>2, <2>3, <2>4
<1>19. ASSUME dropped' = "string" PROVE items' < 0 /\ IsPrefix(text', right')
  <2>1. dropped = "no" /\ ~fits /\ it.conv = "s"
    BY <1>4, <1>12, <1>19, Zenon
  <2>2. Dropped(o, r, t)
    BY <1>2, <1>13, <1>14, <2>1, Zenon
  <2>3. o.stop /\ o.text = <<>>
    BY <2>2 DEF Dropped
  <2>4. items' = -1
    BY <1>1, <2>3, Zenon
  <2>5. text \o <<>> = text
    BY <1>4, ConcatEmptySeq
  <2>6. text' = right /\ right' = right \o t
    BY <1>1, <1>4, <2>1, <2>3, <2>5, Zenon
  <2>7. IsPrefix(right, right \o t)
    BY <1>2, <1>4, PrefixIs, Zenon
  <2>8. QED BY <2>4, <2>6, <2>7
<1>20. QED BY <1>6, <1>7, <1>8, <1>18, <1>19, Zenon DEF Means

\* An item is taken.
LEMMA TakeKeeps ==
    ASSUME NEW it \in Items, Take(it), FormatInv
    PROVE  FormatInv'
<1> DEFINE p == Parsed(it)
           o == IF skip THEN Outcome(<<>>, room, FALSE) ELSE Turned(room, p)
<1>1. /\ items \in 0 .. MaxItems - 1
      /\ skip => it.conv = "text"
      /\ text' = text \o o.text /\ room' = o.room /\ size' = size
      /\ items' = (IF o.stop THEN -1 ELSE items + 1)
      /\ departed' = (departed \/ Departs(it))
      /\ past' = IF room = 0 /\ ~skip THEN "number"
                 ELSE IF it.conv = "s" /\ p.left /\ Len(o.text) = room THEN "string" ELSE past
  BY Zenon DEF Take
<1>2. items >= 0 /\ items \in Int /\ MaxItems \in Nat /\ Word \in Nat
  BY <1>1, WordAssumption
<1>3. size \in 0 .. Word - 1 /\ size' \in 0 .. Word - 1
  BY <1>1 DEF FormatInv
<1>4. items' \in Int
  BY <1>1, <1>2
<1> HIDE DEF o
<1>5. ASSUME size' > 0, past' = "no"
      PROVE  /\ text' \in Seq(Letters) /\ Len(text') < size'
             /\ items' >= 0 => size' > 1 /\ room' \in 0 .. size' /\ Len(text') + room' <= size'
             /\ ~departed' => Means'
  <2>1. /\ size > 0 /\ past = "no" /\ ~(room = 0 /\ ~skip)
        /\ ~(it.conv = "s" /\ p.left /\ Len(o.text) = room)
    <3>1. past' # "number" /\ past' # "string"
      BY <1>5
    <3>2. QED BY <1>1, <1>5, <3>1, Zenon
  <2>2. text \in Seq(Letters) /\ size > 1 /\ room \in 0 .. size /\ Len(text) + room <= size /\ Len(text) < size
    BY <1>2, <2>1 DEF FormatInv
  <2>3. Len(text) \in Nat /\ size \in Nat
    BY <1>2, <1>3, <2>2, LenProperties
  <2>4. CASE skip
    <3>1. departed
      BY <1>2, <2>1, <2>4 DEF FormatInv, Means
    <3>2. room % Word = room
      BY <1>2, <1>3, <2>2
    <3>3. o.text = <<>> /\ o.room = room
      BY <2>4, <3>2 DEF o, Outcome
    <3>4. text \o <<>> = text
      BY <2>2, ConcatEmptySeq
    <3>5. text' = text /\ room' = room
      BY <1>1, <3>3, <3>4, Zenon
    <3>6. departed'
      BY <1>1, <3>1, Zenon
    <3>7. QED BY <1>1, <2>2, <3>5, <3>6
  <2>5. CASE ~skip
    <3>1. room \in 1 .. Word - 1 /\ room \in Nat
      BY <1>2, <1>3, <2>1, <2>2, <2>5
    <3>2. o = Turned(room, p)
      BY <2>5 DEF o
    <3>3. Safe(o, room) /\ (Len(o.text) = room => it.conv = "s" /\ p.left)
      BY <3>1, <3>2, TurnedIs, Zenon
    <3>4. Len(o.text) # room
      BY <2>1, <3>3, Zenon
    <3>5. o.text \in Seq(Letters) /\ Len(o.text) <= room /\ Len(o.text) \in Nat
      BY <3>3, LenProperties DEF Safe
    <3>6. text' \in Seq(Letters) /\ Len(text') = Len(text) + Len(o.text)
      BY <1>1, <2>2, <3>5, ConcatProperties
    <3>7. Len(text') < size'
      BY <1>1, <2>2, <2>3, <3>1, <3>4, <3>5, <3>6
    <3>8. items' >= 0 => size' > 1 /\ room' \in 0 .. size' /\ Len(text') + room' <= size'
      <4>1. SUFFICES ASSUME items' >= 0
                     PROVE  size' > 1 /\ room' \in 0 .. size' /\ Len(text') + room' <= size'
        OBVIOUS
      <4>2. o.stop => items' = -1
        BY <1>1, Zenon
      <4>3. ~o.stop
        BY <4>1, <4>2
      <4>4. room' \in Nat /\ Len(o.text) + room' <= room
        BY <1>1, <3>3, <4>3 DEF Safe
      <4>5. QED BY <1>1, <2>2, <2>3, <3>1, <3>5, <3>6, <4>4
    <3>9. ~departed' => Means'
      BY <2>1, <2>5, <3>1, <3>2, <3>4, TakeMeans, Zenon
    <3>10. QED BY <3>6, <3>7, <3>8, <3>9
  <2>6. QED BY <2>4, <2>5
<1>6. QED BY <1>3, <1>4, <1>5 DEF FormatInv

\* The invariant of the loop of vsnprintf
THEOREM FormatInvariant == FormatSpec => []FormatInv
<1>1. FormatInit => FormatInv
  <2>1. SUFFICES ASSUME FormatInit PROVE FormatInv
    OBVIOUS
  <2>2. /\ size \in 0 .. Word - 1 /\ room = size /\ text = <<>> /\ right = <<>>
        /\ items = (IF size <= 1 THEN -1 ELSE 0) /\ skip = FALSE /\ dropped = "no"
    BY <2>1, WordAssumption DEF FormatInit
  <2>3. size \in Nat /\ items \in Int /\ (items >= 0 => size > 1)
    BY <2>2, WordAssumption
  <2>4. <<>> \in Seq(Letters) /\ Len(<<>>) = 0
    OBVIOUS
  <2>5. size > 0 => <<>> = First(size - 1, <<>>)
    <3>1. SUFFICES ASSUME size > 0 PROVE <<>> = First(size - 1, <<>>)
      OBVIOUS
    <3> DEFINE m == size - 1
               e == <<>>
    <3>2. m \in Nat /\ e \in Seq(Letters) /\ Len(e) <= m
      BY <2>3, <3>1
    <3> HIDE DEF m, e
    <3>3. First(m, e) = e
      BY <3>2, FirstIs
    <3>4. QED BY <3>3 DEF m, e
  <2>6. size > 0 => Means
    BY <2>2, <2>3, <2>4, <2>5 DEF Means
  <2>7. QED BY <2>2, <2>3, <2>4, <2>6 DEF FormatInv
<1>2. FormatInv /\ [FormatNext]_formatVars => FormatInv'
  <2>1. SUFFICES ASSUME FormatInv, [FormatNext]_formatVars PROVE FormatInv'
    OBVIOUS
  <2>2. CASE \E it \in Items : Take(it)
    BY <2>1, <2>2, TakeKeeps
  <2>3. CASE Return
    <3>1. /\ items' = -1 /\ size' = size /\ text' = text /\ room' = room /\ skip' = skip /\ right' = right
          /\ departed' = departed /\ dropped' = dropped /\ past' = past
      BY <2>3 DEF Return
    <3>2. Means /\ items >= 0 => Means'
      BY <3>1 DEF Means
    <3>3. items >= 0
      BY <2>3 DEF Return
    <3>4. QED BY <2>1, <3>1, <3>2, <3>3 DEF FormatInv
  <2>4. CASE UNCHANGED formatVars
    BY <2>1, <2>4 DEF FormatInv, Means, formatVars
  <2>5. QED BY <2>1, <2>2, <2>3, <2>4 DEF FormatNext
<1>3. QED BY <1>1, <1>2, PTL DEF FormatSpec

\* What is printed stays in the caller's buffer, its final zero included, in both cases
\* but the two that past names.
THEOREM StaysInBuffer == FormatSpec => []InBuffer
<1>1. FormatInv => InBuffer
  BY DEF FormatInv, InBuffer
<1>2. QED BY <1>1, FormatInvariant, PTL

\* What is printed is what C prints, up to the end of the buffer or to a string that does
\* not fit, where no conversion departs from C.
THEOREM MeansWhatCMeans == FormatSpec => []MeansAsInC
<1>1. FormatInv => MeansAsInC
  <2>1. SUFFICES ASSUME FormatInv, size > 1, ~departed, past = "no"
                 PROVE  /\ dropped = "no" => text = First(size - 1, right)
                        /\ dropped = "string" => IsPrefix(text, right)
    BY DEF MeansAsInC
  <2>2. size > 0
    BY <2>1, WordAssumption DEF FormatInv
  <2>3. Means
    BY <2>1, <2>2 DEF FormatInv
  <2>4. QED BY <2>3 DEF Means
<1>2. QED BY <1>1, FormatInvariant, PTL
=============================================================================
