--------------------------------- MODULE Rtc ---------------------------------
(***************************************************************************)
(* The time of day: Rtc::sync_and_get_time and get_time, and the offset    *)
(* Main::init_timers makes of it for the TSC's get_world_time_utc.         *)
(*                                                                         *)
(* The chip counts on while its registers are read one by one.  The reader *)
(* waits for the end of an update before the first register only, and how  *)
(* long it takes from there is not assumed.                                *)
(***************************************************************************)
EXTENDS Calendar

CONSTANTS
  Instants,  \* dates and times, as the chip has them at power on
  MaxTicks   \* bound on the seconds of a behaviour

ASSUME InstantsAssumption == Instants \subseteq Times

VARIABLES
  chip,     \* the date and time in the chip, as numbers
  twelve,   \* whether its hour register is in the mode of twelve hours
  uip,      \* update in progress
  ticks,    \* seconds so far: also what the TSC's get_time returns
  pc,       \* the next register, or a step of sync_and_get_time
  initial,  \* initial_sec
  regs,     \* registers read so far
  late,     \* updates since the seconds were read, up to the offset
  carried,  \* whether one of them changed the minutes
  offset    \* utc_offset

chipVars == <<chip, twelve, uip, ticks, late, carried>>
vars == <<chipVars, pc, initial, regs, offset>>

Init ==
  /\ chip \in Instants /\ twelve \in BOOLEAN /\ uip = FALSE /\ ticks = 0
  /\ pc = "sync" /\ initial = 0 /\ regs = <<>> /\ late = 0 /\ carried = FALSE /\ offset = 0

-----------------------------------------------------------------------------
(* The chip (hardware). *)

NextSecond(c) ==
  IF c.sec < 59 THEN [c EXCEPT !.sec = @ + 1]
  ELSE IF c.min < 59 THEN [c EXCEPT !.sec = 0, !.min = @ + 1]
  ELSE IF c.hour < 23 THEN [c EXCEPT !.sec = 0, !.min = 0, !.hour = @ + 1]
  ELSE NextDay([c EXCEPT !.sec = 0, !.min = 0, !.hour = 0])

\* The hour of the day as twelve hours and a bit: 12 AM is midnight.
HourRegister(h) ==
  IF ~twelve THEN bin_to_bcd(h)
  ELSE bin_to_bcd(IF h % 12 = 0 THEN 12 ELSE h % 12) + IF h >= 12 THEN 128 ELSE 0
Register(name) ==
  CASE name = "century" -> bin_to_bcd(chip.year \div 100)
    [] name = "year" -> bin_to_bcd(chip.year % 100)
    [] name = "hour" -> HourRegister(chip.hour)
    [] OTHER -> bin_to_bcd(chip[name])

\* (Behind the bound the chip counts only for a reader that waits for it.)
BeginUpdate ==
  /\ ~uip /\ uip' = TRUE
  /\ ticks < MaxTicks \/ (pc = "wait" /\ Register("sec") = initial)
  /\ UNCHANGED <<chip, twelve, ticks, late, carried, pc, initial, regs, offset>>
EndUpdate ==
  /\ uip /\ uip' = FALSE
  /\ chip' = NextSecond(chip) /\ ticks' = ticks + 1
  /\ IF pc = "read" /\ regs # <<>>
       THEN late' = late + 1 /\ carried' = (carried \/ chip'.min # chip.min)
       ELSE UNCHANGED <<late, carried>>
  /\ UNCHANGED <<twelve, pc, initial, regs, offset>>

-----------------------------------------------------------------------------
(* init_timers *)

\* sync_and_get_time: the seconds, and the next value they have.
ReadInitial ==
  /\ pc = "sync" /\ ~uip
  /\ initial' = Register("sec") /\ pc' = "wait"
  /\ UNCHANGED <<chipVars, regs, offset>>
SeeNewSecond ==
  /\ pc = "wait" /\ ~uip /\ Register("sec") # initial
  /\ pc' = "updating"
  /\ UNCHANGED <<chipVars, initial, regs, offset>>

\* get_time: is_updating, then the registers in the code's order.
Order == <<"sec", "min", "day", "month", "hour", "century", "year">>
GetTime ==
  /\ pc = "updating" /\ ~uip /\ pc' = "read"
  /\ UNCHANGED <<chipVars, initial, regs, offset>>
ReadRegister ==
  /\ pc = "read" /\ Len(regs) < Len(Order)
  /\ regs' = Append(regs, Register(Order[Len(regs) + 1]))
  /\ UNCHANGED <<chipVars, pc, initial, offset>>

Seconds(r) ==
  total_secs(total_days(bcd_to_bin(r[6]) * 100 + bcd_to_bin(r[7]), bcd_to_bin(r[4]), bcd_to_bin(r[3])),
             hour(r[5]), bcd_to_bin(r[2]), bcd_to_bin(r[1]))

\* Slip: the time passed since power on is not taken off.
OptionInitAbsolute ==
  /\ pc = "read" /\ Len(regs) = Len(Order)
  /\ offset' = Seconds(regs) /\ pc' = "run"
  /\ UNCHANGED <<chipVars, initial, regs>>

\* TSC.option_init_time_stamp(think_utc): utc - self.get_time().
OptionInitTimeStamp ==
  /\ pc = "read" /\ Len(regs) = Len(Order)
  /\ offset' = Seconds(regs) - ticks /\ pc' = "run"
  /\ UNCHANGED <<chipVars, initial, regs>>

Done == pc = "run" /\ UNCHANGED vars
Next ==
  \/ BeginUpdate \/ EndUpdate
  \/ ReadInitial \/ SeeNewSecond \/ GetTime \/ ReadRegister \/ OptionInitTimeStamp \/ Done
Spec == Init /\ [][Next]_vars

-----------------------------------------------------------------------------
(* Properties. *)

\* Tsc::get_world_time_utc.
WorldTime == offset + ticks
Utc(c) == total_secs(total_days(c.year, c.month, c.day), c.hour, c.min, c.sec)

\* The kernel's clock shows UTC from init_timers on, behind by the time that went
\* by between the reading of the seconds and the calculation of the offset, unless
\* the minutes changed in that time: the registers are then of two moments.  With
\* the chip in the mode of twelve hours it is half a day fast when the clock was
\* read between twelve and one: neither midnight nor noon is told from its 12.
WorldTimeIsUtc ==
  pc = "run" /\ ~carried =>
    WorldTime = Utc(chip) - late + IF twelve /\ regs[5] % 128 = 18 THEN 43200 ELSE 0
=============================================================================
