-------------------------------- MODULE MCRtc --------------------------------
(* Instances of Rtc: shortly before the minute, the hour, noon, midnight, the leap day and the year change. *)
EXTENDS Rtc

At(y, mo, d, h, mi) == [year |-> y, month |-> mo, day |-> d, hour |-> h, min |-> mi, sec |-> 57]
MCInstants ==
  {At(2024, 6, 15, 9, 30), At(2024, 6, 15, 11, 59), At(2024, 6, 15, 12, 59), At(2024, 2, 28, 23, 59),
   At(2023, 2, 28, 23, 59), At(2023, 12, 31, 23, 59), At(2025, 5, 1, 0, 10)}
=============================================================================
