-------------------------- MODULE AlgorithmsProofs --------------------------
(***************************************************************************)
(* Proofs about the pure algorithms, for inputs of every size, and about   *)
(* the clock that uses one of them.                                        *)
(*                                                                         *)
(* The calendar: one day more is one more in the formula of get_time, by   *)
(* cases over the end of the month, of the year and of the leap year       *)
(* (NextDayCounts).  The clock: ClockInv says what the registers read so   *)
(* far are, as long as the minutes have not changed since the first of     *)
(* them.  The lists of ranges are those of MapListProofs; the search for   *)
(* virtio devices is in PciProofs.                                         *)
(***************************************************************************)
EXTENDS Algorithms, Rtc, MapListProofs

\* Leaves are for the SMT solver unless they say otherwise, with time to spare.
USE SMTT(30)

\* The loop of get_time over the months, as a table.
LEMMA DaysBefore ==
  /\ days_before[1] = 0 /\ days_before[2] = 31 /\ days_before[3] = 59 /\ days_before[4] = 90
  /\ days_before[5] = 120 /\ days_before[6] = 151 /\ days_before[7] = 181 /\ days_before[8] = 212
  /\ days_before[9] = 243 /\ days_before[10] = 273 /\ days_before[11] = 304 /\ days_before[12] = 334
<1> DEFINE F(f) == [m \in 1..12 |-> IF m = 1 THEN 0 ELSE f[m - 1] + month_days[m - 1]]
           t == [m \in 1..12 |-> CASE m = 1 -> 0 [] m = 2 -> 31 [] m = 3 -> 59 [] m = 4 -> 90 [] m = 5 -> 120
                                   [] m = 6 -> 151 [] m = 7 -> 181 [] m = 8 -> 212 [] m = 9 -> 243
                                   [] m = 10 -> 273 [] m = 11 -> 304 [] m = 12 -> 334]
<1>1. \A m \in 1..12 : t[m] = F(t)[m]
  BY DEF month_days
<1>2. t = F(t)
  BY <1>1
<1>3. days_before = CHOOSE f : f = F(f)
  BY DEF days_before
<1>4. days_before = F(days_before)
  <2> HIDE DEF F, t
  <2> QED BY <1>2, <1>3
<1>5. \A m \in 1..12 : days_before[m] = IF m = 1 THEN 0 ELSE days_before[m - 1] + month_days[m - 1]
  BY <1>4
<1>6. days_before[1] = 0 /\ days_before[2] = 31 /\ days_before[3] = 59 /\ days_before[4] = 90
  BY <1>5 DEF month_days
<1>7. days_before[5] = 120 /\ days_before[6] = 151 /\ days_before[7] = 181 /\ days_before[8] = 212
  BY <1>5, <1>6 DEF month_days
<1>8. days_before[9] = 243 /\ days_before[10] = 273 /\ days_before[11] = 304 /\ days_before[12] = 334
  BY <1>5, <1>7 DEF month_days
<1> QED
  BY <1>6, <1>7, <1>8

\* The code's leap years are the chip's.
LEMMA LeapYears == \A y \in Nat : is_leap_year(y) <=> Leap(y)
BY DEF is_leap_year, Leap

\* One year more is 365 days, or 366.
LEMMA YearStep ==
  ASSUME NEW y \in Nat, y >= 1970
  PROVE  ((y + 1 - 1969) \div 4) - ((y + 1 - 1901) \div 100) + ((y + 1 - 1601) \div 400)
           = ((y - 1969) \div 4) - ((y - 1901) \div 100) + ((y - 1601) \div 400) + (IF Leap(y) THEN 1 ELSE 0)
BY DEF Leap

\* A date is the days of the years before it, those of the months before it, the leap day, and its day.
Years(y) == ((y - 1970) * 365) + ((y - 1969) \div 4) - ((y - 1901) \div 100) + ((y - 1601) \div 400)
LeapDay(y) == IF Leap(y) THEN 1 ELSE 0

\* The days before the first of a month.
Before(y, m) == Years(y) + days_before[m] + (IF m > 2 THEN LeapDay(y) ELSE 0)

\* A date, and a time of day.
IsDate(y, m, d) == y \in Nat /\ y >= 1970 /\ m \in 1..12 /\ d \in 1..DaysIn(y, m)
IsTime(h, mi, s) == h \in 0..23 /\ mi \in 0..59 /\ s \in 0..59

\* The parts of the formula are integers.
LEMMA BeforeIsInt ==
  ASSUME NEW y \in Nat, NEW m \in 1..12
  PROVE  /\ Years(y) \in Int /\ LeapDay(y) \in Int /\ days_before[m] \in Int /\ Before(y, m) \in Int
<1>1. Years(y) \in Int
  BY DEF Years
<1>2. LeapDay(y) \in Int
  BY DEF LeapDay
<1>3. days_before[m] \in Int
  BY DaysBefore
<1> QED
  BY <1>1, <1>2, <1>3 DEF Before

\* get_time's formula: the days before the month, and the days of the month before this one.
LEMMA TotalDays ==
  ASSUME NEW y \in Nat, NEW m \in Int, 1 <= m, m <= 12, NEW d \in Int
  PROVE  Before(y, m) \in Int /\ total_days(y, m, d) = Before(y, m) + (d - 1)
<1>0. m \in 1..12
  OBVIOUS
<1>1. Before(y, m) \in Int /\ Years(y) \in Int /\ LeapDay(y) \in Int /\ days_before[m] \in Int
  BY <1>0, BeforeIsInt
<1>2. total_days(y, m, d) = Years(y) + days_before[m] + (IF m > 2 THEN LeapDay(y) ELSE 0) + d - 1
  BY LeapYears DEF total_days, Years, LeapDay
<1> QED
  BY <1>1, <1>2 DEF Before

\* A month has as many days as the tables for it and for the next one differ by; in March the leap day is in.
LEMMA MonthLength ==
  ASSUME NEW y \in Nat, NEW m \in 1..12
  PROVE  /\ DaysIn(y, m) \in 28..31
         /\ m < 12 => days_before[m + 1] + (IF m + 1 > 2 THEN LeapDay(y) ELSE 0)
                        = days_before[m] + (IF m > 2 THEN LeapDay(y) ELSE 0) + DaysIn(y, m)
         /\ m = 12 => DaysIn(y, m) = 31 /\ days_before[m] = 334 /\ days_before[1] = 0
<1>1. LeapDay(y) \in {0, 1}
  BY DEF LeapDay
<1>2. DaysIn(y, m) = (IF m = 2 THEN 28 ELSE IF m \in {4, 6, 9, 11} THEN 30 ELSE 31) + IF m = 2 THEN LeapDay(y) ELSE 0
  BY DEF DaysIn, LeapDay
<1> QED
  BY <1>1, <1>2, DaysBefore

\* The first of the next month, and of the next year.
LEMMA BeforeNext ==
  ASSUME NEW y \in Nat, y >= 1970, NEW m \in 1..12
  PROVE  /\ m < 12 => Before(y, m + 1) = Before(y, m) + DaysIn(y, m)
         /\ m = 12 => Before(y + 1, 1) = Before(y, m) + DaysIn(y, m)
<1>1. PICK a \in Int : a = Years(y)
  BY BeforeIsInt
<1>2. PICK l \in Int : l = LeapDay(y)
  BY BeforeIsInt
<1>3. PICK b \in Int : b = days_before[m]
  BY BeforeIsInt
<1>4. PICK n \in Int : n = DaysIn(y, m)
  BY MonthLength
<1>5. ASSUME m < 12 PROVE Before(y, m + 1) = Before(y, m) + DaysIn(y, m)
  <2>1. PICK b1 \in Int : b1 = days_before[m + 1]
    <3>1. m + 1 \in 1..12
      BY <1>5
    <3> QED
      BY <3>1, BeforeIsInt
  <2>2. b1 + (IF m + 1 > 2 THEN l ELSE 0) = b + (IF m > 2 THEN l ELSE 0) + n
    BY <1>2, <1>3, <1>4, <1>5, <2>1, MonthLength
  <2> QED
    BY <1>1, <1>2, <1>3, <1>4, <2>1, <2>2 DEF Before
<1>6. ASSUME m = 12 PROVE Before(y + 1, 1) = Before(y, m) + DaysIn(y, m)
  <2>1. n = 31 /\ b = 334 /\ days_before[1] = 0
    BY <1>3, <1>4, <1>6, MonthLength
  <2>2. Years(y + 1) = a + 365 + l
    BY <1>1, <1>2, YearStep DEF Years, LeapDay
  <2> QED
    BY <1>1, <1>2, <1>3, <1>4, <1>6, <2>1, <2>2 DEF Before
<1> QED
  BY <1>5, <1>6

\* A time from its fields.
Time(y, mo, d, h, mi, s) == [year |-> y, month |-> mo, day |-> d, hour |-> h, min |-> mi, sec |-> s]

\* The fields of a time.
LEMMA TimeFields ==
  ASSUME NEW y, NEW mo, NEW d, NEW h, NEW mi, NEW s
  PROVE  LET c == Time(y, mo, d, h, mi, s)
         IN  c.year = y /\ c.month = mo /\ c.day = d /\ c.hour = h /\ c.min = mi /\ c.sec = s
BY DEF Time

\* Every time is made of a date and a time of day,
LEMMA TimesAreTimes ==
  ASSUME NEW c \in Times
  PROVE  /\ c = Time(c.year, c.month, c.day, c.hour, c.min, c.sec)
         /\ IsDate(c.year, c.month, c.day) /\ IsTime(c.hour, c.min, c.sec)
<1>1. /\ c \in [year : Nat, month : 1..12, day : 1..31, hour : 0..23, min : 0..59, sec : 0..59]
      /\ c.year >= 1970 /\ c.day <= DaysIn(c.year, c.month)
  BY DEF Times
<1>2. DaysIn(c.year, c.month) \in 28..31
  BY <1>1 DEF DaysIn
<1>3. c = Time(c.year, c.month, c.day, c.hour, c.min, c.sec) /\ c.day \in 1..DaysIn(c.year, c.month)
  BY <1>1, <1>2 DEF Time
<1>4. IsDate(c.year, c.month, c.day)
  BY <1>1, <1>3 DEF IsDate
<1>5. IsTime(c.hour, c.min, c.sec)
  BY <1>1 DEF IsTime
<1> QED
  BY <1>3, <1>4, <1>5

\* and every date with a time of day is one.
LEMMA TimeIsTime ==
  ASSUME NEW y, NEW mo, NEW d, NEW h, NEW mi, NEW s, IsDate(y, mo, d), IsTime(h, mi, s)
  PROVE  Time(y, mo, d, h, mi, s) \in Times
<1>1. y \in Nat /\ mo \in 1..12 /\ DaysIn(y, mo) \in 28..31
  BY MonthLength DEF IsDate
<1>2. d \in 1..31 /\ d <= DaysIn(y, mo)
  BY <1>1 DEF IsDate
<1> QED
  BY <1>1, <1>2 DEF Times, Time, IsDate, IsTime

\* The day the chip goes on to is one more in get_time's count of days.
LEMMA NextDayCounts ==
  ASSUME NEW y, NEW mo, NEW d, NEW h, NEW mi, NEW s, IsDate(y, mo, d)
  PROVE  /\ total_days(y, mo, d) \in Int
         /\ \E z, no, e :
              /\ IsDate(z, no, e) /\ NextDay(Time(y, mo, d, h, mi, s)) = Time(z, no, e, h, mi, s)
              /\ total_days(z, no, e) = total_days(y, mo, d) + 1
<1>1. y \in Nat /\ y >= 1970 /\ mo \in 1..12 /\ d \in Nat /\ 1 <= d /\ d <= DaysIn(y, mo) /\ DaysIn(y, mo) \in 28..31
  BY MonthLength DEF IsDate
<1>2. PICK n \in Int : n = DaysIn(y, mo)
  BY <1>1
<1>3. PICK b \in Int : b = Before(y, mo)
  BY <1>1, BeforeIsInt
<1>0. mo \in Int /\ 1 <= mo /\ mo <= 12 /\ d \in Int /\ d + 1 \in Int
  BY <1>1
<1>4. total_days(y, mo, d) = b + (d - 1)
  BY <1>0, <1>1, <1>3, TotalDays
<1> DEFINE c == Time(y, mo, d, h, mi, s)
<1>5. c.year = y /\ c.month = mo /\ c.day = d
  BY DEF Time
<1>6. CASE d < n
  <2>1. NextDay(c) = [c EXCEPT !.day = d + 1]
    BY <1>2, <1>5, <1>6 DEF NextDay
  <2>2. NextDay(c) = Time(y, mo, d + 1, h, mi, s)
    BY <2>1 DEF Time
  <2>3. IsDate(y, mo, d + 1)
    BY <1>1, <1>2, <1>6 DEF IsDate
  <2>4. total_days(y, mo, d + 1) = b + (d + 1 - 1)
    <3>1. y \in Nat
      BY <1>1
    <3> QED
      BY <3>1, <1>0, <1>3, TotalDays
  <2>5. total_days(y, mo, d + 1) = total_days(y, mo, d) + 1
    BY <1>1, <1>4, <2>4
  <2> QED
    BY <1>1, <1>4, <2>2, <2>3, <2>5
<1>7. CASE d = n /\ mo < 12
  <2>1. NextDay(c) = [[c EXCEPT !.day = 1] EXCEPT !.month = mo + 1]
    BY <1>1, <1>2, <1>5, <1>7 DEF NextDay
  <2>2. NextDay(c) = Time(y, mo + 1, 1, h, mi, s)
    <3>1. [c EXCEPT !.day = 1] = Time(y, mo, 1, h, mi, s)
      BY DEF Time
    <3> QED
      BY <2>1, <3>1, ZenonT(30) DEF Time
  <2>3. mo + 1 \in 1..12
    BY <1>1, <1>7
  <2>4. IsDate(y, mo + 1, 1)
    BY <1>1, <2>3, MonthLength DEF IsDate
  <2>5. Before(y, mo + 1) = b + n
    BY <1>1, <1>2, <1>3, <1>7, BeforeNext
  <2>6. total_days(y, mo + 1, 1) = b + n + (1 - 1)
    <3>1. y \in Nat /\ mo + 1 \in Int /\ 1 <= mo + 1 /\ mo + 1 <= 12
      BY <1>1, <2>3
    <3> QED
      BY <3>1, <2>5, TotalDays
  <2>7. total_days(y, mo + 1, 1) = total_days(y, mo, d) + 1
    BY <1>1, <1>4, <1>7, <2>6
  <2> QED
    BY <1>1, <1>4, <2>2, <2>4, <2>7
<1>8. CASE d = n /\ mo = 12
  <2>1. NextDay(c) = [[[c EXCEPT !.day = 1] EXCEPT !.month = 1] EXCEPT !.year = y + 1]
    BY <1>1, <1>2, <1>5, <1>8 DEF NextDay
  <2>2. NextDay(c) = Time(y + 1, 1, 1, h, mi, s)
    <3>1. [c EXCEPT !.day = 1] = Time(y, mo, 1, h, mi, s)
      BY DEF Time
    <3>2. [Time(y, mo, 1, h, mi, s) EXCEPT !.month = 1] = Time(y, 1, 1, h, mi, s)
      BY DEF Time
    <3>3. [Time(y, 1, 1, h, mi, s) EXCEPT !.year = y + 1] = Time(y + 1, 1, 1, h, mi, s)
      BY DEF Time
    <3> QED
      BY <2>1, <3>1, <3>2, <3>3, ZenonT(30)
  <2>3. y + 1 \in Nat /\ y + 1 >= 1970
    BY <1>1
  <2>4. IsDate(y + 1, 1, 1)
    BY <2>3, MonthLength DEF IsDate
  <2>5. Before(y + 1, 1) = b + n
    BY <1>1, <1>2, <1>3, <1>8, BeforeNext
  <2>6. total_days(y + 1, 1, 1) = b + n + (1 - 1)
    BY <2>3, <2>5, TotalDays
  <2>7. total_days(y + 1, 1, 1) = total_days(y, mo, d) + 1
    BY <1>1, <1>4, <1>8, <2>6
  <2> QED
    BY <1>1, <1>4, <2>2, <2>4, <2>7
<1> QED
  BY <1>1, <1>2, <1>6, <1>7, <1>8

\* The seconds since 1970 of a time.
LEMMA UtcOf ==
  ASSUME NEW y, NEW mo, NEW d, NEW h, NEW mi, NEW s
  PROVE  Utc(Time(y, mo, d, h, mi, s)) = total_days(y, mo, d) * 86400 + h * 3600 + mi * 60 + s
BY DEF Utc, total_secs, Time

\* The chip's next second is one more in get_time's count of seconds.
LEMMA NextSecondCounts ==
  ASSUME NEW c \in Times
  PROVE  /\ NextSecond(c) \in Times /\ Utc(c) \in Int /\ Utc(NextSecond(c)) = Utc(c) + 1
         /\ NextSecond(c).min = c.min => NextSecond(c) = [c EXCEPT !.sec = c.sec + 1]
<1>1. PICK y, mo, d, h, mi, s : IsDate(y, mo, d) /\ IsTime(h, mi, s) /\ c = Time(y, mo, d, h, mi, s)
  BY TimesAreTimes
<1>2. PICK n \in Int : n = total_days(y, mo, d)
  BY <1>1, NextDayCounts
<1>3. c.hour = h /\ c.min = mi /\ c.sec = s
  BY <1>1 DEF Time
<1>4. h \in 0..23 /\ mi \in 0..59 /\ s \in 0..59
  BY <1>1 DEF IsTime
<1>5. Utc(c) = n * 86400 + h * 3600 + mi * 60 + s
  BY <1>1, <1>2, UtcOf
<1>6. CASE s < 59
  <2>1. NextSecond(c) = [c EXCEPT !.sec = s + 1]
    BY <1>3, <1>6 DEF NextSecond
  <2>2. NextSecond(c) = Time(y, mo, d, h, mi, s + 1)
    BY <1>1, <2>1 DEF Time
  <2>3. IsTime(h, mi, s + 1)
    BY <1>4, <1>6 DEF IsTime
  <2>4. NextSecond(c) \in Times
    BY <1>1, <2>2, <2>3, TimeIsTime
  <2>5. Utc(NextSecond(c)) = n * 86400 + h * 3600 + mi * 60 + (s + 1)
    BY <1>2, <2>2, UtcOf
  <2>6. Utc(NextSecond(c)) = Utc(c) + 1 /\ Utc(c) \in Int
    BY <1>4, <1>5, <2>5
  <2> QED
    BY <1>3, <2>1, <2>4, <2>6
<1>7. CASE s = 59 /\ mi < 59
  <2>1. NextSecond(c) = [[c EXCEPT !.sec = 0] EXCEPT !.min = mi + 1]
    BY <1>3, <1>7 DEF NextSecond
  <2>2. [c EXCEPT !.sec = 0] = Time(y, mo, d, h, mi, 0)
    BY <1>1 DEF Time
  <2>3. NextSecond(c) = Time(y, mo, d, h, mi + 1, 0)
    BY <2>1, <2>2, ZenonT(30) DEF Time
  <2>4. IsTime(h, mi + 1, 0)
    BY <1>4, <1>7 DEF IsTime
  <2>5. NextSecond(c) \in Times
    BY <1>1, <2>3, <2>4, TimeIsTime
  <2>6. Utc(NextSecond(c)) = n * 86400 + h * 3600 + (mi + 1) * 60 + 0
    BY <1>2, <2>3, UtcOf
  <2>7. Utc(NextSecond(c)) = Utc(c) + 1 /\ Utc(c) \in Int
    BY <1>4, <1>5, <1>7, <2>6
  <2>8. NextSecond(c).min # c.min
    <3>1. NextSecond(c).min = mi + 1
      BY <2>3 DEF Time
    <3> QED
      BY <1>3, <1>4, <3>1
  <2> QED
    BY <2>5, <2>7, <2>8
<1>8. CASE s = 59 /\ mi = 59 /\ h < 23
  <2>1. NextSecond(c) = [[[c EXCEPT !.sec = 0] EXCEPT !.min = 0] EXCEPT !.hour = h + 1]
    BY <1>3, <1>8 DEF NextSecond
  <2>2. [c EXCEPT !.sec = 0] = Time(y, mo, d, h, mi, 0)
    BY <1>1 DEF Time
  <2>3. [Time(y, mo, d, h, mi, 0) EXCEPT !.min = 0] = Time(y, mo, d, h, 0, 0)
    BY DEF Time
  <2>4. [Time(y, mo, d, h, 0, 0) EXCEPT !.hour = h + 1] = Time(y, mo, d, h + 1, 0, 0)
    BY DEF Time
  <2>5. NextSecond(c) = Time(y, mo, d, h + 1, 0, 0)
    BY <2>1, <2>2, <2>3, <2>4, ZenonT(30)
  <2>6. IsTime(h + 1, 0, 0)
    BY <1>4, <1>8 DEF IsTime
  <2>7. NextSecond(c) \in Times
    BY <1>1, <2>5, <2>6, TimeIsTime
  <2>8. Utc(NextSecond(c)) = n * 86400 + (h + 1) * 3600 + 0 * 60 + 0
    BY <1>2, <2>5, UtcOf
  <2>9. Utc(NextSecond(c)) = Utc(c) + 1 /\ Utc(c) \in Int
    BY <1>4, <1>5, <1>8, <2>8
  <2>10. NextSecond(c).min # c.min
    <3>1. NextSecond(c).min = 0
      BY <2>5 DEF Time
    <3> QED
      BY <1>3, <1>8, <3>1
  <2> QED
    BY <2>7, <2>9, <2>10
<1>9. CASE s = 59 /\ mi = 59 /\ h = 23
  <2>1. NextSecond(c) = NextDay([[[c EXCEPT !.sec = 0] EXCEPT !.min = 0] EXCEPT !.hour = 0])
    BY <1>3, <1>9 DEF NextSecond
  <2>2. [c EXCEPT !.sec = 0] = Time(y, mo, d, h, mi, 0)
    BY <1>1 DEF Time
  <2>3. [Time(y, mo, d, h, mi, 0) EXCEPT !.min = 0] = Time(y, mo, d, h, 0, 0)
    BY DEF Time
  <2>4. [Time(y, mo, d, h, 0, 0) EXCEPT !.hour = 0] = Time(y, mo, d, 0, 0, 0)
    BY DEF Time
  <2>5. NextSecond(c) = NextDay(Time(y, mo, d, 0, 0, 0))
    BY <2>1, <2>2, <2>3, <2>4, ZenonT(30)
  <2>6. PICK z, no, e :
          /\ IsDate(z, no, e) /\ NextSecond(c) = Time(z, no, e, 0, 0, 0)
          /\ total_days(z, no, e) = n + 1
    BY <1>1, <1>2, <2>5, NextDayCounts
  <2>7. IsTime(0, 0, 0)
    BY DEF IsTime
  <2>8. NextSecond(c) \in Times
    BY <2>6, <2>7, TimeIsTime
  <2>9. Utc(NextSecond(c)) = (n + 1) * 86400 + 0 * 3600 + 0 * 60 + 0
    BY <2>6, UtcOf
  <2>10. Utc(NextSecond(c)) = Utc(c) + 1 /\ Utc(c) \in Int
    BY <1>4, <1>5, <1>9, <2>9
  <2>11. NextSecond(c).min # c.min
    <3>1. NextSecond(c).min = 0
      BY <2>6 DEF Time
    <3> QED
      BY <1>3, <1>9, <3>1
  <2> QED
    BY <2>8, <2>10, <2>11
<1> QED
  BY <1>4, <1>6, <1>7, <1>8, <1>9
-----------------------------------------------------------------------------
(* The registers. *)

\* Binary coded decimals are read as they were written.
LEMMA BcdRoundTrip ==
  ASSUME NEW n \in Nat
  PROVE  bin_to_bcd(n) \in Nat /\ bcd_to_bin(bin_to_bcd(n)) = n
BY DEF bin_to_bcd, bcd_to_bin

\* The hour register: 12 is the one hour whose code is 18.
LEMMA BcdSmall ==
  ASSUME NEW n \in 0..23
  PROVE  bin_to_bcd(n) \in 0..35 /\ (bin_to_bcd(n) = 18 <=> n = 12)
BY DEF bin_to_bcd

\* The hour register read back: the 12 of the mode of twelve hours counts as twelve more.
LEMMA HourRoundTrip ==
  ASSUME NEW h \in 0..23, twelve \in BOOLEAN
  PROVE  /\ HourRegister(h) \in Nat
         /\ hour(HourRegister(h)) = h + IF twelve /\ HourRegister(h) % 128 = 18 THEN 12 ELSE 0
<1>1. CASE ~twelve
  <2>1. HourRegister(h) = bin_to_bcd(h) /\ bin_to_bcd(h) \in 0..35 /\ bcd_to_bin(bin_to_bcd(h)) = h
    BY <1>1, BcdSmall, BcdRoundTrip DEF HourRegister
  <2> QED
    BY <1>1, <2>1 DEF hour
<1>2. CASE twelve
  <2>1. PICK k \in 0..23 : k = IF h % 12 = 0 THEN 12 ELSE h % 12
    OBVIOUS
  <2>2. PICK r \in 0..35 : r = bin_to_bcd(k) /\ bcd_to_bin(r) = k /\ (r = 18 <=> k = 12)
    BY BcdSmall, BcdRoundTrip
  <2>3. HourRegister(h) = r + IF h >= 12 THEN 128 ELSE 0
    BY <1>2, <2>1, <2>2 DEF HourRegister
  <2>4. HourRegister(h) \in Nat /\ HourRegister(h) % 128 = r /\ (HourRegister(h) >= 128 <=> h >= 12)
    BY <2>3
  <2>5. hour(HourRegister(h)) = k + IF h >= 12 THEN 12 ELSE 0
    BY <2>2, <2>4 DEF hour
  <2> QED
    BY <1>2, <2>1, <2>2, <2>4, <2>5
<1> QED
  BY <1>1, <1>2

\* The types of the clock's variables.
ClockType ==
  /\ chip \in Times /\ twelve \in BOOLEAN /\ ticks \in Nat /\ late \in Nat /\ carried \in BOOLEAN
  /\ regs \in Seq(Nat) /\ Len(regs) <= 7
  /\ pc \in {"sync", "wait", "updating", "read", "run"}

\* What has been read, as long as the minutes have not changed since: the seconds as they
\* were, the other registers as they are.
ClockRead ==
  /\ pc \in {"sync", "wait", "updating"} => regs = <<>>
  /\ regs = <<>> => late = 0 /\ ~carried
  /\ pc = "read" /\ ~carried /\ Len(regs) > 0 => chip.sec = bcd_to_bin(regs[1]) + late
  /\ pc = "read" /\ ~carried => \A i \in 2..Len(regs) : regs[i] = Register(Order[i])
  /\ pc = "run" /\ ~carried => offset \in Int

ClockInv == ClockType /\ ClockRead /\ WorldTimeIsUtc

\* The fields of the chip's time are numbers.
LEMMA ChipFields ==
  ASSUME chip \in Times
  PROVE  /\ chip.year \in Nat /\ chip.month \in Nat /\ chip.day \in Nat
         /\ chip.hour \in 0..23 /\ chip.min \in Nat /\ chip.sec \in Nat
         /\ chip.hour \in Int /\ chip.min \in Int /\ chip.sec \in Int
BY DEF Times

\* What each register shows.
LEMMA Registers ==
  ASSUME chip \in Times
  PROVE  /\ Register("sec") = bin_to_bcd(chip.sec) /\ Register("min") = bin_to_bcd(chip.min)
         /\ Register("day") = bin_to_bcd(chip.day) /\ Register("month") = bin_to_bcd(chip.month)
         /\ Register("hour") = HourRegister(chip.hour)
         /\ Register("century") = bin_to_bcd(chip.year \div 100) /\ Register("year") = bin_to_bcd(chip.year % 100)
BY DEF Register

\* Every register shows a number.
LEMMA RegisterIsNat ==
  ASSUME chip \in Times, twelve \in BOOLEAN
  PROVE  \A i \in 1..7 : Register(Order[i]) \in Nat
<1>1. Register("sec") \in Nat /\ Register("min") \in Nat /\ Register("day") \in Nat /\ Register("month") \in Nat
  BY ChipFields, Registers, BcdRoundTrip
<1>2. Register("hour") \in Nat
  BY ChipFields, Registers, HourRoundTrip
<1>3. chip.year \div 100 \in Nat /\ chip.year % 100 \in Nat
  BY ChipFields
<1>4. Register("century") \in Nat /\ Register("year") \in Nat
  BY <1>3, Registers, BcdRoundTrip
<1> QED
  BY <1>1, <1>2, <1>4 DEF Order

\* What get_time makes of registers of one moment, but for the seconds.
LEMMA ReadBack ==
  ASSUME chip \in Times, twelve \in BOOLEAN, regs \in Seq(Nat), Len(regs) = 7,
         \A i \in 2..7 : regs[i] = Register(Order[i])
  PROVE  Seconds(regs) = Utc(chip) - chip.sec + bcd_to_bin(regs[1])
                           + IF twelve /\ regs[5] % 128 = 18 THEN 43200 ELSE 0
<1>1. /\ regs[2] = Register("min") /\ regs[3] = Register("day") /\ regs[4] = Register("month")
      /\ regs[5] = Register("hour") /\ regs[6] = Register("century") /\ regs[7] = Register("year")
  BY DEF Order
<1>2. bcd_to_bin(regs[2]) = chip.min /\ bcd_to_bin(regs[3]) = chip.day /\ bcd_to_bin(regs[4]) = chip.month
  BY <1>1, ChipFields, Registers, BcdRoundTrip, ZenonT(30)
<1>3. bcd_to_bin(regs[6]) * 100 + bcd_to_bin(regs[7]) = chip.year
  <2>y. chip.year \in Nat
    BY ChipFields, ZenonT(30)
  <2>1. chip.year \div 100 \in Nat /\ chip.year % 100 \in Nat
    BY <2>y
  <2>2. bcd_to_bin(regs[6]) = chip.year \div 100
    BY <1>1, <2>1, Registers, BcdRoundTrip
  <2>3. bcd_to_bin(regs[7]) = chip.year % 100
    BY <1>1, <2>1, Registers, BcdRoundTrip
  <2> QED
    BY <2>y, <2>2, <2>3
<1>4. hour(regs[5]) = chip.hour + IF twelve /\ regs[5] % 128 = 18 THEN 12 ELSE 0
  BY <1>1, ChipFields, Registers, HourRoundTrip, ZenonT(30)
<1>5. PICK n \in Int : n = total_days(chip.year, chip.month, chip.day)
  BY TimesAreTimes, NextDayCounts
<1>6. PICK s \in Int : s = bcd_to_bin(regs[1])
  <2>1. regs[1] \in Nat
    OBVIOUS
  <2> QED
    BY <2>1 DEF bcd_to_bin
<1>7. Seconds(regs) = total_secs(n, hour(regs[5]), chip.min, s)
  BY <1>2, <1>3, <1>5, <1>6 DEF Seconds
<1>8. Utc(chip) = total_secs(n, chip.hour, chip.min, chip.sec)
  BY <1>5 DEF Utc
<1>9. PICK a \in {0, 12} : a = IF twelve /\ regs[5] % 128 = 18 THEN 12 ELSE 0
  OBVIOUS
<1>10. PICK h, mi, t \in Int : h = chip.hour /\ mi = chip.min /\ t = chip.sec
  <2>1. chip.hour \in Int /\ chip.min \in Int /\ chip.sec \in Int
    BY ChipFields, ZenonT(30)
  <2> QED
    BY <2>1, ZenonT(30)
<1>11. Seconds(regs) = n * 86400 + (h + a) * 3600 + mi * 60 + s
  BY <1>4, <1>7, <1>9, <1>10 DEF total_secs
<1>12. Utc(chip) = n * 86400 + h * 3600 + mi * 60 + t
  BY <1>8, <1>10 DEF total_secs
<1>13. Seconds(regs) = Utc(chip) - t + s + a * 3600
  BY <1>11, <1>12
<1> QED
  BY <1>6, <1>9, <1>10, <1>13

\* Nothing has been read at power on.
LEMMA ClockInit == Init => ClockInv
<1> SUFFICES ASSUME Init PROVE ClockInv
  OBVIOUS
<1>1. ClockType
  <2>1. chip \in Times /\ ticks \in Nat /\ late \in Nat /\ regs \in Seq(Nat) /\ Len(regs) <= 7
    BY InstantsAssumption DEF Init
  <2> QED
    BY <2>1, ZenonT(30) DEF Init, ClockType
<1>2. ClockRead /\ WorldTimeIsUtc
  BY DEF Init, ClockRead, WorldTimeIsUtc
<1> QED
  BY <1>1, <1>2 DEF ClockInv

\* What a register is read as is a number.
LEMMA BcdIsInt ==
  ASSUME NEW n \in Nat
  PROVE  bcd_to_bin(n) \in Int
BY DEF bcd_to_bin

\* What the offset says does not depend on the step of the reader.
LEMMA ClockSame ==
  ASSUME ClockInv, UNCHANGED <<chip, twelve, ticks, late, carried, regs, offset>>, pc' = pc
  PROVE  ClockInv'
<1>1. ClockType'
  BY DEF ClockInv, ClockType
<1>2. \A i : Register(Order[i])' = Register(Order[i])
  BY DEF Register, HourRegister, Order
<1>3. ClockRead'
  BY <1>2 DEF ClockInv, ClockRead
<1>4. WorldTimeIsUtc'
  BY DEF ClockInv, WorldTimeIsUtc, WorldTime
<1> QED
  BY <1>1, <1>3, <1>4 DEF ClockInv

\* The chip and the reader keep the invariant, one action at a time.
LEMMA ClockStep == ClockInv /\ [Next]_vars => ClockInv'
<1> SUFFICES ASSUME ClockInv, [Next]_vars PROVE ClockInv'
  OBVIOUS
<1>T. /\ chip \in Times /\ twelve \in BOOLEAN /\ ticks \in Nat /\ late \in Nat /\ carried \in BOOLEAN
      /\ regs \in Seq(Nat) /\ Len(regs) <= 7
  BY DEF ClockInv, ClockType
<1>1. CASE BeginUpdate
  BY <1>1, ClockSame DEF BeginUpdate
<1>2. CASE EndUpdate
  <2>1. /\ chip' = NextSecond(chip) /\ ticks' = ticks + 1 /\ twelve' = twelve /\ pc' = pc
        /\ regs' = regs /\ offset' = offset
    BY <1>2 DEF EndUpdate
  <2>2. /\ chip' \in Times /\ Utc(chip) \in Int /\ Utc(chip') = Utc(chip) + 1
        /\ chip'.min = chip.min => chip' = [chip EXCEPT !.sec = chip.sec + 1]
    BY <1>T, <2>1, NextSecondCounts, ZenonT(30)
  <2>3. IF pc = "read" /\ regs # <<>> THEN late' = late + 1 /\ carried' = (carried \/ chip'.min # chip.min)
                                     ELSE late' = late /\ carried' = carried
    BY <1>2 DEF EndUpdate
  <2>4. ClockType'
    <3>1. late' \in Nat
      BY <1>T, <2>3
    <3>2. carried' \in BOOLEAN
      BY <1>T, <2>3, ZenonT(30)
    <3> QED
      BY <2>1, <2>2, <3>1, <3>2 DEF ClockInv, ClockType
  <2>5. ASSUME pc = "read", ~carried', regs # <<>>
        PROVE  /\ chip'.sec = bcd_to_bin(regs[1]) + late'
               /\ \A i \in 2..Len(regs) : regs[i] = Register(Order[i])'
    <3>1. late' = late + 1 /\ chip'.min = chip.min /\ ~carried
      BY <1>T, <2>3, <2>5, ZenonT(30)
    <3>2. chip' = [chip EXCEPT !.sec = chip.sec + 1]
      BY <2>2, <3>1
    <3>3. chip'.sec = chip.sec + 1
      BY <1>T, <3>2 DEF Times
    <3>4. /\ chip'.year = chip.year /\ chip'.month = chip.month /\ chip'.day = chip.day
          /\ chip'.hour = chip.hour /\ chip'.min = chip.min
      BY <1>T, <3>2 DEF Times
    <3>5. \A i \in 2..7 : Register(Order[i])' = Register(Order[i])
      BY <2>1, <3>4 DEF Register, HourRegister, Order
    <3>6. Len(regs) > 0 /\ regs[1] \in Nat
      BY <1>T, <2>5
    <3>7. chip.sec = bcd_to_bin(regs[1]) + late /\ \A i \in 2..Len(regs) : regs[i] = Register(Order[i])
      BY <2>5, <3>1, <3>6 DEF ClockInv, ClockRead
    <3>8. PICK k \in Int : k = bcd_to_bin(regs[1])
      BY <3>6, BcdIsInt
    <3>9. chip'.sec = bcd_to_bin(regs[1]) + late'
      BY <1>T, <3>1, <3>3, <3>7, <3>8
    <3>10. \A i \in 2..Len(regs) : i \in 2..7
      BY <1>T
    <3> QED
      BY <3>5, <3>7, <3>9, <3>10
  <2>6. ClockRead'
    <3>1. Len(regs) > 0 => regs # <<>>
      BY <1>T
    <3>2. regs = <<>> => Len(regs) = 0 /\ 2..Len(regs) = {}
      BY <1>T
    <3>3. regs = <<>> => late' = 0 /\ ~carried'
      BY <2>3 DEF ClockInv, ClockRead
    <3>4. pc = "run" /\ ~carried' => offset' \in Int
      BY <2>1, <2>3 DEF ClockInv, ClockRead
    <3>5. pc' \in {"sync", "wait", "updating"} => regs' = <<>>
      BY <2>1 DEF ClockInv, ClockRead
    <3> QED
      BY <2>1, <2>5, <3>1, <3>2, <3>3, <3>4, <3>5 DEF ClockRead
  <2>7. WorldTimeIsUtc'
    <3>1. SUFFICES ASSUME pc = "run", ~carried'
                   PROVE  offset + (ticks + 1) = Utc(chip') - late' + IF twelve /\ regs[5] % 128 = 18 THEN 43200 ELSE 0
      BY <2>1 DEF WorldTimeIsUtc, WorldTime
    <3>2. late' = late /\ ~carried
      BY <2>3, <3>1
    <3>3. offset + ticks = Utc(chip) - late + IF twelve /\ regs[5] % 128 = 18 THEN 43200 ELSE 0
      BY <3>1, <3>2 DEF ClockInv, WorldTimeIsUtc, WorldTime
    <3>4. PICK a \in Int : a = IF twelve /\ regs[5] % 128 = 18 THEN 43200 ELSE 0
      BY <1>T
    <3>5. offset \in Int
      BY <3>1, <3>2 DEF ClockInv, ClockRead
    <3>6. PICK u \in Int : u = Utc(chip) /\ Utc(chip') = u + 1
      BY <2>2
    <3>7. ticks \in Int /\ late \in Int
      BY <1>T
    <3>8. offset + ticks = u - late + a
      BY <3>3, <3>4, <3>6
    <3>9. offset + (ticks + 1) = (u + 1) - late + a
      BY <3>5, <3>7, <3>8
    <3> QED
      BY <3>2, <3>4, <3>6, <3>9
  <2> QED
    BY <2>4, <2>6, <2>7 DEF ClockInv
<1>3. CASE ReadInitial \/ SeeNewSecond \/ GetTime
  <2>1. /\ pc \in {"sync", "wait", "updating"} /\ pc' \in {"wait", "updating", "read"} /\ regs' = regs
        /\ chip' = chip /\ twelve' = twelve /\ ticks' = ticks /\ late' = late /\ carried' = carried
    BY <1>3 DEF ReadInitial, SeeNewSecond, GetTime, chipVars
  <2>2. regs = <<>> /\ late = 0 /\ ~carried
    BY <2>1 DEF ClockInv, ClockRead
  <2>3. ClockType'
    BY <2>1 DEF ClockInv, ClockType
  <2>4. ClockRead'
    BY <2>1, <2>2 DEF ClockRead
  <2> QED
    BY <2>1, <2>3, <2>4 DEF ClockInv, WorldTimeIsUtc
<1>6. CASE ReadRegister
  <2> DEFINE n == Len(regs) + 1
             r == Register(Order[n])
  <2>1. /\ pc = "read" /\ pc' = pc /\ n \in 1..7 /\ regs' = Append(regs, r)
        /\ chip' = chip /\ twelve' = twelve /\ ticks' = ticks /\ late' = late /\ carried' = carried /\ offset' = offset
    BY <1>T, <1>6 DEF ReadRegister, chipVars, Order
  <2>2. r \in Nat
    BY <1>T, <2>1, RegisterIsNat
  <2>3. regs' \in Seq(Nat) /\ Len(regs') = n /\ regs'[n] = r /\ \A i \in 1..Len(regs) : regs'[i] = regs[i]
    BY <1>T, <2>1, <2>2
  <2>4. \A i : Register(Order[i])' = Register(Order[i])
    BY <2>1 DEF Register, HourRegister, Order
  <2>5. ASSUME ~carried
        PROVE  /\ chip.sec = bcd_to_bin(regs'[1]) + late
               /\ \A i \in 2..n : regs'[i] = Register(Order[i])
    <3>1. CASE regs = <<>>
      <4>1. n = 1 /\ late = 0 /\ regs'[1] = Register("sec")
        <5>1. n = 1
          BY <3>1
        <5>2. Order[1] = "sec"
          BY DEF Order
        <5> QED
          BY <2>3, <3>1, <5>1, <5>2 DEF ClockInv, ClockRead
      <4>2. bcd_to_bin(regs'[1]) = chip.sec /\ chip.sec \in Nat
        <5>1. chip.sec \in Nat /\ Register("sec") = bin_to_bcd(chip.sec)
          BY <1>T, Registers, ChipFields
        <5> QED
          BY <4>1, <5>1, BcdRoundTrip
      <4> QED
        BY <4>1, <4>2
    <3>2. CASE regs # <<>>
      <4>1. Len(regs) > 0
        BY <1>T, <3>2
      <4>2. chip.sec = bcd_to_bin(regs[1]) + late /\ \A i \in 2..Len(regs) : regs[i] = Register(Order[i])
        BY <2>1, <2>5, <4>1 DEF ClockInv, ClockRead
      <4>3. regs'[1] = regs[1]
        BY <1>T, <2>3, <4>1
      <4>4. ASSUME NEW i \in 2..n PROVE regs'[i] = Register(Order[i])
        <5>1. i = n \/ (i \in 2..Len(regs) /\ i \in 1..Len(regs))
          BY <1>T
        <5> QED
          BY <2>3, <4>2, <5>1
      <4> QED
        BY <4>2, <4>3, <4>4
    <3> QED
      BY <3>1, <3>2
  <2>6. regs' # <<>>
    BY <2>3, <2>1
  <2>7. ClockType'
    BY <2>1, <2>3 DEF ClockInv, ClockType
  <2>8. ClockRead'
    <3> HIDE DEF n, r
    <3> QED
      BY <2>1, <2>3, <2>4, <2>5, <2>6 DEF ClockRead
  <2> QED
    BY <2>1, <2>7, <2>8 DEF ClockInv, WorldTimeIsUtc
<1>7. CASE OptionInitTimeStamp
  <2>1. /\ pc = "read" /\ pc' = "run" /\ Len(regs) = 7 /\ offset' = Seconds(regs) - ticks /\ regs' = regs
        /\ chip' = chip /\ twelve' = twelve /\ ticks' = ticks /\ late' = late /\ carried' = carried
    BY <1>7 DEF OptionInitTimeStamp, chipVars, Order
  <2>2. ClockType'
    BY <2>1, ZenonT(30) DEF ClockInv, ClockType
  <2>3. PICK a \in Int : a = IF twelve /\ regs[5] % 128 = 18 THEN 43200 ELSE 0
    BY <1>T
  <2>4. ASSUME ~carried
        PROVE  Seconds(regs) \in Int /\ Seconds(regs) = Utc(chip) - late + a
    <3>1. chip.sec = bcd_to_bin(regs[1]) + late /\ \A i \in 2..7 : regs[i] = Register(Order[i])
      BY <2>1, <2>4 DEF ClockInv, ClockRead
    <3>2. Seconds(regs) = Utc(chip) - chip.sec + bcd_to_bin(regs[1]) + a
      BY <1>T, <2>1, <2>3, <3>1, ReadBack
    <3>3. Utc(chip) \in Int
      BY <1>T, NextSecondCounts
    <3>4. regs[1] \in Nat
      <4>1. regs \in Seq(Nat) /\ Len(regs) = 7
        BY <1>T, <2>1
      <4> QED
        BY <4>1
    <3>5. PICK k \in Int : k = bcd_to_bin(regs[1])
      BY <3>4, BcdIsInt
    <3>6. PICK u \in Int : u = Utc(chip)
      BY <3>3
    <3>7. chip.sec = k + late /\ late \in Nat
      BY <1>T, <3>1, <3>5
    <3>8. Seconds(regs) = u - (k + late) + k + a
      BY <3>2, <3>5, <3>6, <3>7
    <3> QED
      BY <3>6, <3>7, <3>8
  <2>5. ClockRead'
    <3>1. ~carried' => offset' \in Int
      BY <1>T, <2>1, <2>4
    <3>2. regs' # <<>>
      BY <2>1
    <3> QED
      BY <2>1, <3>1, <3>2 DEF ClockRead
  <2>6. WorldTimeIsUtc'
    <3>1. SUFFICES ASSUME ~carried PROVE (Seconds(regs) - ticks) + ticks = Utc(chip) - late + a
      BY <2>1, <2>3 DEF WorldTimeIsUtc, WorldTime
    <3> QED
      BY <1>T, <2>4, <3>1
  <2> QED
    BY <2>2, <2>5, <2>6 DEF ClockInv
<1>8. CASE Done \/ UNCHANGED vars
  BY <1>8, ClockSame DEF Done, vars, chipVars
<1> QED
  BY <1>1, <1>2, <1>3, <1>6, <1>7, <1>8 DEF Next

\* The kernel's clock shows UTC as WorldTimeIsUtc says, from any date since 1970 on and however the chip's updates
\* fall between the reads of sync_and_get_time and get_time.
THEOREM ClockIsUtc == Spec => []WorldTimeIsUtc
<1>1. ClockInv => WorldTimeIsUtc
  BY DEF ClockInv
<1> QED
  BY <1>1, ClockInit, ClockStep, PTL DEF Spec

-----------------------------------------------------------------------------
(* The jobs. *)

JobInv ==
  /\ job.is \in {"map", "date", "probe"}
  /\ job.is = "map" => input \in Seq(MapRanges(Flags))
  /\ job.is = "date" => \E n, c : /\ job = [is |-> "date", n |-> n, date |-> c] /\ c \in Times
                                  /\ total_days(c.year, c.month, c.day) = n /\ n \in Int
  /\ job.is = "probe" => \E m, p, V : job = [is |-> "probe", m |-> m, p |-> p, read |-> V]

\* The invariant of the jobs holds at first,
LEMMA JobStart == JobInit => JobInv
<1> SUFFICES ASSUME JobInit PROVE JobInv
  OBVIOUS
<1>1. CASE job = [is |-> "map"]
  BY <1>1 DEF JobInit, JobInv
<1>2. CASE job = FirstDay
  <2>1. PICK c : c = Time(1970, 1, 1, 0, 0, 0)
    OBVIOUS
  <2>2. IsDate(1970, 1, 1) /\ IsTime(0, 0, 0)
    BY DEF IsDate, IsTime, DaysIn
  <2>3. c \in Times
    BY <2>1, <2>2, TimeIsTime
  <2>4. days_before[1] = 0
    BY DaysBefore
  <2>5. total_days(1970, 1, 1) = 0
    BY <2>4 DEF total_days
  <2>6. c.year = 1970 /\ c.month = 1 /\ c.day = 1
    BY <2>1 DEF Time
  <2>7. job = [is |-> "date", n |-> 0, date |-> c]
    BY <1>2, <2>1 DEF FirstDay, Time
  <2>8. \E n, d : /\ job = [is |-> "date", n |-> n, date |-> d] /\ d \in Times
                  /\ total_days(d.year, d.month, d.day) = n /\ n \in Int
    <3>1. total_days(c.year, c.month, c.day) = 0 /\ 0 \in Int
      BY <2>5, <2>6
    <3> QED
      BY <2>3, <2>7, <3>1, ZenonT(30)
  <2>9. job.is = "date"
    BY <2>7
  <2> QED
    BY <2>8, <2>9 DEF JobInv
<1>3. CASE job \in Probes
  <2>1. PICK m \in Machines : job = [is |-> "probe", m |-> m, p |-> Start, read |-> {}]
    BY <1>3 DEF Probes
  <2>3. \E k, p, V : job = [is |-> "probe", m |-> k, p |-> p, read |-> V]
    BY <2>1, ZenonT(30)
  <2>4. job.is = "probe"
    BY <2>1
  <2> QED
    BY <2>3, <2>4, ZenonT(30) DEF JobInv
<1> QED
  BY <1>1, <1>2, <1>3 DEF JobInit

\* and every job keeps it.
LEMMA JobStep == JobInv /\ [JobNext]_jobVars => JobInv'
<1> SUFFICES ASSUME JobInv, [JobNext]_jobVars PROVE JobInv'
  OBVIOUS
<1>1. CASE AddRange
  <2>1. job.is = "map" /\ job' = job /\ input \in Seq(MapRanges(Flags))
    BY <1>1 DEF AddRange, JobInv
  <2>2. PICK lo \in 0..Pages, hi \in 0..Pages, fl \in Flags : lo < hi /\ input' = Append(input, MapRange(lo, hi, fl))
    BY <1>1 DEF AddRange
  <2>3. MapRange(lo, hi, fl) \in MapRanges(Flags)
    BY <2>2, PagesAssumption DEF MapRange, MapRanges
  <2>4. input' \in Seq(MapRanges(Flags))
    BY <2>1, <2>2, <2>3
  <2> QED
    BY <2>1, <2>4 DEF JobInv
<1>2. CASE AddDay
  <2>1. PICK n, c : /\ job = [is |-> "date", n |-> n, date |-> c] /\ c \in Times
                    /\ total_days(c.year, c.month, c.day) = n /\ n \in Int
    BY <1>2, ZenonT(30) DEF AddDay, JobInv
  <2>2. job' = [is |-> "date", n |-> n + 1, date |-> NextDay(c)]
    <3>1. job' = [[job EXCEPT !.n = job.n + 1] EXCEPT !.date = NextDay(job.date)]
      BY <1>2 DEF AddDay
    <3>2. job.n = n /\ job.date = c
      BY <2>1
    <3>3. [job EXCEPT !.n = n + 1] = [is |-> "date", n |-> n + 1, date |-> c]
      BY <2>1
    <3> QED
      BY <3>1, <3>2, <3>3, ZenonT(30)
  <2>3. PICK y, mo, d, h, mi, s : IsDate(y, mo, d) /\ IsTime(h, mi, s) /\ c = Time(y, mo, d, h, mi, s)
    BY <2>1, TimesAreTimes
  <2>4. c.year = y /\ c.month = mo /\ c.day = d
    BY <2>3 DEF Time
  <2>5. PICK z, no, e : /\ IsDate(z, no, e) /\ NextDay(c) = Time(z, no, e, h, mi, s)
                        /\ total_days(z, no, e) = total_days(y, mo, d) + 1
    BY <2>3, NextDayCounts
  <2>6. NextDay(c) \in Times
    BY <2>3, <2>5, TimeIsTime
  <2>7. NextDay(c).year = z /\ NextDay(c).month = no /\ NextDay(c).day = e
    BY <2>5 DEF Time
  <2>8. total_days(NextDay(c).year, NextDay(c).month, NextDay(c).day) = n + 1 /\ n + 1 \in Int
    BY <2>1, <2>4, <2>5, <2>7
  <2>9. job'.is = "date"
    BY <2>2
  <2> QED
    BY <2>2, <2>6, <2>8, <2>9 DEF JobInv
<1>3. CASE Probe
  <2>1. PICK m, p, V : job = [is |-> "probe", m |-> m, p |-> p, read |-> V]
    BY <1>3, ZenonT(30) DEF Probe, JobInv
  <2>2. PICK q, R : job' = [[job EXCEPT !.p = q] EXCEPT !.read = R]
    <3>1. PICK q, R : q = Step(job.m, job.p) /\ R = IF q.cap = 0 THEN {} ELSE job.read \cup ({job.p.cap} \ {0})
      BY ZenonT(30)
    <3>2. job' = [[job EXCEPT !.p = q] EXCEPT !.read = R]
      BY <1>3, <2>1, <3>1 DEF Probe
    <3> QED
      BY <3>2, ZenonT(30)
  <2>3. job' = [is |-> "probe", m |-> m, p |-> q, read |-> R]
    BY <2>1, <2>2, ZenonT(30)
  <2>4. job'.is = "probe" /\ \E k, r, S : job' = [is |-> "probe", m |-> k, p |-> r, read |-> S]
    BY <2>3, ZenonT(30)
  <2> QED
    BY <2>4, ZenonT(30) DEF JobInv
<1>4. CASE UNCHANGED jobVars
  BY <1>4 DEF jobVars, JobInv
<1> QED
  BY <1>1, <1>2, <1>3, <1>4 DEF JobNext

\* So it holds always.
LEMMA JobInvariant == JobSpec => []JobInv
BY JobStart, JobStep, PTL DEF JobSpec

\* normalize_map_list keeps the meaning of any list of ranges, of any length, over any flags.
THEOREM NormalizeIsCorrect == JobSpec => []NormalizedMeansTheSame
<1>1. JobInv => NormalizedMeansTheSame
  <2> SUFFICES ASSUME JobInv, job.is = "map" PROVE NormalizedMeansTheSame
    BY DEF NormalizedMeansTheSame
  <2>1. input \in Seq(MapRanges(Flags))
    BY DEF JobInv
  <2>2. PICK n : n = NormalizeMapList(input)
    OBVIOUS
  <2>3. /\ n \in Seq(MapRanges(Flags)) /\ Joined(n)
        /\ \A p \in Nat : FlagsOf(n, p) = FlagsOf(input, p)
    BY <2>1, <2>2, NormalizeKeeps
  <2>4. \A p \in 0..(Pages - 1) : p \in Nat
    BY PagesAssumption
  <2>5. \A i \in 1..Len(n) : n[i].lo < n[i].hi
    BY <2>3, RangeFields
  <2>6. \A i \in 1..Len(n) : i < Len(n) => n[i].hi < n[i + 1].lo \/ (n[i].hi = n[i + 1].lo /\ n[i].fl # n[i + 1].fl)
    BY <2>3, ZenonT(30) DEF Joined
  <2> QED
    BY <2>2, <2>3, <2>4, <2>5, <2>6 DEF NormalizedMeansTheSame
<1> QED
  BY <1>1, JobInvariant, PTL

\* The days get_time makes of a date are the days since 1970, in every year.
THEOREM DaysAreRight == JobSpec => []DaysAreCounted
<1>1. JobInv => DaysAreCounted
  <2> SUFFICES ASSUME JobInv, job.is = "date" PROVE DaysAreCounted
    BY DEF DaysAreCounted
  <2>1. PICK n, c : job = [is |-> "date", n |-> n, date |-> c] /\ total_days(c.year, c.month, c.day) = n
    BY ZenonT(30) DEF JobInv
  <2>2. job.n = n /\ job.date = c
    BY <2>1
  <2> QED
    BY <2>1, <2>2 DEF DaysAreCounted
<1> QED
  BY <1>1, JobInvariant, PTL
=============================================================================
