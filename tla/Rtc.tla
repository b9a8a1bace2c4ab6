-------------------------------- MODULE Rtc --------------------------------
(***************************************************************************)
(* The date and time of the shell, src/src/rtc.c: the CMOS clock ticks on  *)
(* while its registers are read one by one, in a format its status gives,  *)
(* and the day of the week is calculated from the date.                    *)
(***************************************************************************)
EXTENDS Integers, Sequences, FiniteSets

CONSTANTS
    Moments, \* bound: the moments the clock shows, each when the ones before it have passed
    MaxReads \* bound: how often it asks

VARIABLES
    clock,         \* now: <<year, month, day, hour, minute, second>>
    IsBCD,         \* s_IsBCD
    Is12Hour,      \* s_Is12Hour
    JanFeb,        \* the first two entries of MonthsTable
    asked,         \* ckCoshellCmdDateTime is running
    read,          \* what it has read, by the field's number
    dayofweek,     \* RTCDate.dayofweek, 0 before it is calculated
    carried,       \* a field has changed since it was read
    reads          \* how often the shell has asked

rtcVars == <<clock, IsBCD, Is12Hour, JanFeb, asked, read, dayofweek, carried, reads>>

-----------------------------------------------------------------------------
(* The calendar, and the clock's registers. *)

IsLeap(y) == (y % 4 = 0 /\ y % 100 # 0) \/ y % 400 = 0

MonthLength(y, m) ==
    IF m = 2 THEN (IF IsLeap(y) THEN 29 ELSE 28) ELSE IF m \in {4, 6, 9, 11} THEN 30 ELSE 31

\* What each field can be.  The clock's century is the one of 2000.
Fields == <<2000 .. 2099, 1 .. 12, 1 .. 31, 0 .. 23, 0 .. 59, 0 .. 59>>

ASSUME MomentsAssumption ==
    /\ Moments \subseteq [1 .. 6 -> Nat]
    /\ \A m \in Moments : (\A i \in 1 .. 6 : m[i] \in Fields[i]) /\ m[3] <= MonthLength(m[1], m[2])

\* Moments as they follow each other
Before(c, d) == \E i \in 1 .. 6 : c[i] < d[i] /\ \A j \in 1 .. i - 1 : c[j] = d[j]

ToBCD(n) == 16 * (n \div 10) + (n % 10)
Encoded(n) == IF IsBCD THEN ToBCD(n) ELSE n

\* What the clock shows in the register of the ith field: the year without its
\* century; in 12-hour mode noon and midnight are 12, with bit 7 set from noon on.
Register(i) ==
    IF i = 1 THEN Encoded(clock[1] % 100)
    ELSE IF i = 4 /\ Is12Hour
         THEN Encoded(((clock[4] + 11) % 12) + 1) + (IF clock[4] >= 12 THEN 128 ELSE 0)
    ELSE Encoded(clock[i])

-----------------------------------------------------------------------------
(* Reading it. *)

ckBCD8toBinary(b) == (b \div 16) * 10 + (b % 16)

Decoded(b) == IF IsBCD THEN ckBCD8toBinary(b) ELSE b

\* The hour: bit 7 always adds 12, also at noon.
HourOf(b) ==
    LET h == Decoded(b % 128) IN
    IF b >= 128 THEN h + 12 ELSE IF Is12Hour /\ h = 12 THEN 0 ELSE h

\* The value of the ith field from its register.
Value(i) ==
    IF i = 1 THEN Decoded(Register(1)) + 2000
    ELSE IF i = 4 THEN HourOf(Register(4)) ELSE Decoded(Register(i))

\* Mutant: the time is read from the second up.
Order_SmallFirst == <<1, 2, 3, 6, 5, 4>>

\* ckRTCReadDate reads the year, month and day, ckRTCReadTime the hour, minute and second.
Order == <<1, 2, 3, 4, 5, 6>>

MonthsTable == JanFeb \o <<3, 6, 1, 4, 6, 2, 5, 0, 3, 5>>

\* A leap year sets the entries of January and February, and nothing sets them
\* back: they are static.
JanFebFor(y) == IF IsLeap(y) THEN <<6, 2>> ELSE JanFeb

\* Mutant: the table as it was before this date.
CalcWeekday_Late(y, m, d) == ((d + MonthsTable[m] + (y % 100) + (y % 100) \div 4 + 6) % 7) + 1

\* 1 is Sunday.  The century is always the first of the table's.
CalcWeekday(y, m, d) ==
    LET table == JanFebFor(y) \o SubSeq(MonthsTable, 3, 12)
    IN  ((d + table[m] + (y % 100) + (y % 100) \div 4 + 6) % 7) + 1

RtcInit ==
    /\ clock \in Moments /\ \A m \in Moments : ~Before(m, clock)
    /\ IsBCD \in BOOLEAN /\ Is12Hour \in BOOLEAN
    /\ JanFeb = <<0, 3>>
    /\ asked = FALSE /\ read = <<>> /\ dayofweek = 0 /\ carried = FALSE /\ reads = 0

\* Time passes, also between two registers: the reading task may be preempted.
Pass ==
    \E m \in Moments :
        /\ Before(clock, m) /\ clock' = m
        /\ carried' = (carried \/ \E i \in DOMAIN read : m[i] # clock[i])
        /\ UNCHANGED <<IsBCD, Is12Hour, JanFeb, asked, read, dayofweek, reads>>

\* ckCoshellCmdDateTime.  The shell alone reads the clock, so that s_RtcMutex is free.
Ask ==
    /\ ~asked /\ reads < MaxReads
    /\ asked' = TRUE /\ reads' = reads + 1
    /\ read' = <<>> /\ dayofweek' = 0 /\ carried' = FALSE
    /\ UNCHANGED <<clock, IsBCD, Is12Hour, JanFeb>>

\* The next register.
ReadField ==
    LET i == Order[Cardinality(DOMAIN read) + 1] IN
    /\ asked /\ Cardinality(DOMAIN read) < 6
    /\ Cardinality(DOMAIN read) = 3 => dayofweek # 0
    /\ read' = [j \in DOMAIN read \cup {i} |-> IF j = i THEN Value(i) ELSE read[j]]
    /\ UNCHANGED <<clock, IsBCD, Is12Hour, JanFeb, asked, dayofweek, carried, reads>>

\* The end of ckRTCReadDate.
SetWeekday ==
    /\ asked /\ DOMAIN read = 1 .. 3 /\ dayofweek = 0
    /\ dayofweek' = CalcWeekday(read[1], read[2], read[3])
    /\ JanFeb' = JanFebFor(read[1])
    /\ UNCHANGED <<clock, IsBCD, Is12Hour, asked, read, carried, reads>>

\* Date and time are printed.
Show ==
    /\ asked /\ DOMAIN read = 1 .. 6
    /\ asked' = FALSE
    /\ UNCHANGED <<clock, IsBCD, Is12Hour, JanFeb, read, dayofweek, carried, reads>>

RtcNext == Pass \/ Ask \/ ReadField \/ SetWeekday \/ Show

RtcSpec == RtcInit /\ [][RtcNext]_rtcVars

-----------------------------------------------------------------------------
(* Properties. *)

\* In 12-hour mode noon has bit 7 and is 12: the hour is shown as 24 until one (rtc.c:63).
NoonAs24 == Is12Hour /\ read[4] = 24

\* Whatever happens between the registers, the date and time shown are ahead of the
\* clock in one case only: the hour was read between noon and one in 12-hour mode,
\* and is shown as 24; with the clock's hour instead of it they are not ahead either,
\* because the large fields are read first.  When none of the fields changed after it
\* was read they are the clock's in every format, but for that hour, which is then
\* always wrong.
AheadOnlyAtNoon ==
    DOMAIN read = 1 .. 6 =>
        /\ Before(clock, read) => NoonAs24
        /\ NoonAs24 => ~Before(clock, [read EXCEPT ![4] = 12])
        /\ ~carried =>
             \A i \in 1 .. 6 : read[i] = IF i = 4 /\ Is12Hour /\ clock[4] = 12 THEN 24 ELSE clock[i]

\* The days from 1 January 2000, a Saturday, to a date of the century.
MonthStart == <<0, 31, 59, 90, 120, 151, 181, 212, 243, 273, 304, 334>>
DaysSince2000(y, m, d) ==
    365 * (y - 2000) + (y - 2000 + 3) \div 4 + MonthStart[m] + (IF m > 2 /\ IsLeap(y) THEN 1 ELSE 0) + d - 1

\* The day of the week is right, also for a date put together from fields read
\* before and after a change; but when a leap year was ever read, January and
\* February of the other years are a day early.
WeekdayRight ==
    dayofweek # 0 /\ read[3] <= MonthLength(read[1], read[2]) =>
        LET right == (DaysSince2000(read[1], read[2], read[3]) + 6) % 7
            stale == JanFeb = <<6, 2>> /\ ~IsLeap(read[1]) /\ read[2] <= 2
        IN  dayofweek = ((IF stale THEN right + 6 ELSE right) % 7) + 1
=============================================================================
