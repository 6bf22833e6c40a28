------------------------------ MODULE Calendar ------------------------------
(***************************************************************************)
(* The conversions of src/timer/rtc.rs: from the registers of the real time *)
(* clock, binary coded decimals, to seconds since 1970.                    *)
(***************************************************************************)
EXTENDS Integers, Sequences

bcd_to_bin(bcd) == (bcd % 16) + ((bcd \div 16) * 10)
bin_to_bcd(bin) == (bin \div 10) * 16 + (bin % 10)

is_leap_year(year) == (year % 4 = 0 /\ year % 100 # 0) \/ year % 400 = 0

\* The hour register: bit 7 is the afternoon's, in the mode of twelve hours.
hour(reg) == bcd_to_bin(reg % 128) + IF reg >= 128 THEN 12 ELSE 0

month_days == <<31, 28, 31, 30, 31, 30, 31, 31, 30, 31, 30, 31>>

\* The loop over the months before this one.
days_before[month \in 1..12] == IF month = 1 THEN 0 ELSE days_before[month - 1] + month_days[month - 1]

\* Slip: the leap day is there from the first of February.
total_days_early(year, month, day) ==
  ((year - 1970) * 365) + ((year - 1969) \div 4) - ((year - 1901) \div 100) + ((year - 1601) \div 400)
  + days_before[month]
  + (IF month >= 2 /\ is_leap_year(year) THEN 1 ELSE 0)
  + day - 1

\* The part of get_time behind the registers.
total_days(year, month, day) ==
  ((year - 1970) * 365) + ((year - 1969) \div 4) - ((year - 1901) \div 100) + ((year - 1601) \div 400)
  + days_before[month]
  + (IF month > 2 /\ is_leap_year(year) THEN 1 ELSE 0)
  + day - 1

total_secs(days, h, min, sec) == days * 86400 + h * 3600 + min * 60 + sec

-----------------------------------------------------------------------------
(* The calendar as the chip counts it (hardware). *)

Leap(y) == y % (IF y % 100 = 0 THEN 400 ELSE 4) = 0
DaysIn(y, m) == IF m = 2 THEN (IF Leap(y) THEN 29 ELSE 28) ELSE IF m \in {4, 6, 9, 11} THEN 30 ELSE 31
Times ==
  {c \in [year : Nat, month : 1..12, day : 1..31, hour : 0..23, min : 0..59, sec : 0..59] :
     c.year >= 1970 /\ c.day <= DaysIn(c.year, c.month)}
NextDay(c) ==
  IF c.day < DaysIn(c.year, c.month) THEN [c EXCEPT !.day = @ + 1]
  ELSE IF c.month < 12 THEN [c EXCEPT !.day = 1, !.month = @ + 1]
  ELSE [c EXCEPT !.day = 1, !.month = 1, !.year = @ + 1]
=============================================================================
