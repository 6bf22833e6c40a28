------------------------------ MODULE SmpBoot ------------------------------
(***************************************************************************)
(* Bringing up the application processors: Main::init_ap on the bootstrap  *)
(* processor (BSP), the stack search of trampoline.asm and Main::ap_init   *)
(* on every application processor (AP), src/main.rs 226-384.               *)
(*                                                                         *)
(* The BSP hands the APs an array of stacks that ends in the sentinel 1    *)
(* and starts them with two SIPIs.  An AP takes a stack with a compare-    *)
(* and-swap, counts itself in initialized_core_count, calibrates its TSC   *)
(* over the 100 ms in which the flag `timer' is set, counts itself again,  *)
(* reads the BSP's time stamp from `value', and counts itself once more.   *)
(* The BSP waits at most a second for the first count; whoever comes later *)
(* finds the array freed and the counter in use by the next phase.         *)
(***************************************************************************)
EXTENDS Integers, FiniteSets

CONSTANTS
  APs,        \* the processors the broadcast IPIs reach
  Reports,    \* how many processors the firmware may report
  Late        \* APs that may miss both SIPIs or the one second deadline

ASSUME BootAssumption ==
  /\ IsFiniteSet(APs)
  /\ Reports \subseteq Nat
  /\ Late \subseteq APs

VARIABLES
  num,        \* core_info.len(): the processors the firmware has reported
  \* shared memory
  stacks,     \* the array behind args.stack
  live,       \* the Vec that holds it has not been dropped
  count,      \* initialized_core_count
  timer,      \* global_data.timer
  value,      \* global_data.value holds a time stamp
  \* the BSP
  bpc,        \* where init_ap is
  len,        \* its local len
  \* the APs
  pc,         \* where the AP is
  idx,        \* rdx: the slot it looks at
  saw,        \* rax: what it read there
  rsp,        \* its stack, 0 before it has one
  gdt,        \* init_gdt has run
  lapic,      \* init_local_apic has run
  \* history
  window,     \* APs that were waiting when `timer' was set
  stray       \* APs that first counted themselves after the BSP had settled on len

bspVars == <<bpc, len>>
apVars == <<pc, idx, saw, rsp, gdt, lapic>>
handVars == <<count, timer, value>>
histVars == <<window, stray>>
vars == <<num, stacks, live, handVars, bspVars, apVars, histVars>>

Slots == 1..(num + 1)
Stack(i) == 16 * i    \* the stack of slot i: aligned, neither 0 nor the sentinel

Init ==
  /\ num \in Reports
  /\ stacks = [i \in Slots |-> IF i = num + 1 THEN 1 ELSE Stack(i)]
  /\ live = TRUE
  /\ count = 0 /\ timer = FALSE /\ value = FALSE
  /\ bpc = "sipi1" /\ len = num
  /\ pc = [a \in APs |-> "wait_sipi"] /\ idx = [a \in APs |-> 1] /\ saw = [a \in APs |-> 0]
  /\ rsp = [a \in APs |-> 0]
  /\ gdt = [a \in APs |-> FALSE] /\ lapic = [a \in APs |-> FALSE]
  /\ window = {} /\ stray = {}

Goto(a, label) == pc' = [pc EXCEPT ![a] = label]

-----------------------------------------------------------------------------
(* init_ap on the BSP. *)

\* broadcast_ipi_exc_self(ICR_STARTUP, 0x08), twice: only a processor that waits
\* for a SIPI starts, and a late one may not be waiting yet.
Sipi(from, to) ==
  /\ bpc = from /\ bpc' = to
  /\ \E S \in SUBSET {a \in APs : pc[a] = "wait_sipi"} :
       /\ {a \in APs \ Late : pc[a] = "wait_sipi"} \subseteq S
       /\ pc' = [a \in APs |-> IF a \in S THEN "scan" ELSE pc[a]]
  /\ UNCHANGED <<num, stacks, live, handVars, len, idx, saw, rsp, gdt, lapic, histVars>>

\* The processors that have counted themselves for the first time.
Started == {a \in APs : pc[a] \notin {"wait_sipi", "scan", "cas", "init", "dead", "wild"}}

\* Slip: waiting for more than there are.
StartTimeoutKeepsLen ==
  /\ bpc = "wait_start" /\ count # len
  /\ APs \ Late \subseteq Started \cup {a \in APs : pc[a] = "dead"}
  /\ bpc' = "reset"
  /\ UNCHANGED <<num, stacks, live, handVars, len, apVars, histVars>>

AllStarted ==
  /\ bpc = "wait_start" /\ count = len
  /\ bpc' = "reset"
  /\ UNCHANGED <<num, stacks, live, handVars, len, apVars, histVars>>

\* The deadline has passed: go on with those that are there.
StartTimeout ==
  /\ bpc = "wait_start" /\ count # len
  /\ APs \ Late \subseteq Started \cup {a \in APs : pc[a] = "dead"}
  /\ len' = count
  /\ bpc' = "reset"
  /\ UNCHANGED <<num, stacks, live, handVars, apVars, histVars>>

\* initialized_core_count.store(0), the end of the block that owns `stacks', and
\* value.store(0).
Reset ==
  /\ bpc = "reset" /\ bpc' = "timer_on"
  /\ count' = 0 /\ live' = FALSE /\ value' = FALSE
  /\ UNCHANGED <<num, stacks, timer, len, apVars, histVars>>

TimerOn ==
  /\ bpc = "timer_on" /\ bpc' = "timer_off"
  /\ timer' = TRUE
  /\ window' = {a \in APs : pc[a] = "wait_true"}
  /\ UNCHANGED <<num, stacks, live, count, value, len, apVars, stray>>

\* 100 ms later.  That is long enough for every AP that was already spinning.
TimerOff ==
  /\ bpc = "timer_off" /\ \A a \in window : pc[a] # "wait_true"
  /\ bpc' = "wait_calibrated"
  /\ timer' = FALSE
  /\ UNCHANGED <<num, stacks, live, count, value, len, apVars, histVars>>

Publish ==
  /\ bpc = "wait_calibrated" /\ count >= len
  /\ bpc' = "wait_adjusted"
  /\ value' = TRUE
  /\ UNCHANGED <<num, stacks, live, count, timer, len, apVars, histVars>>

\* Slip: the second phase waits for one count per processor, not two.
CompleteTooSoon ==
  /\ bpc = "wait_adjusted" /\ count >= len
  /\ bpc' = "done"
  /\ count' = 0
  /\ UNCHANGED <<num, stacks, live, timer, value, len, apVars, histVars>>

Complete ==
  /\ bpc = "wait_adjusted" /\ count >= 2 * len
  /\ bpc' = "done"
  /\ count' = 0
  /\ UNCHANGED <<num, stacks, live, timer, value, len, apVars, histVars>>

Bsp ==
  \/ Sipi("sipi1", "sipi2") \/ Sipi("sipi2", "wait_start")
  \/ AllStarted \/ StartTimeout \/ Reset \/ TimerOn \/ TimerOff \/ Publish \/ Complete

-----------------------------------------------------------------------------
(* The search for a stack in trampoline.asm. *)

\* Slips: a failed exchange skips a slot; the exchange is a plain store.
CasSkips(a) ==
  /\ pc[a] = "cas"
  /\ \/ ~ live /\ Goto(a, "wild") /\ UNCHANGED <<stacks, idx, rsp>>
     \/ /\ live /\ stacks[idx[a]] = saw[a]
        /\ stacks' = [stacks EXCEPT ![idx[a]] = 0]
        /\ rsp' = [rsp EXCEPT ![a] = saw[a]]
        /\ Goto(a, "init") /\ UNCHANGED idx
     \/ /\ live /\ stacks[idx[a]] # saw[a]
        /\ idx' = [idx EXCEPT ![a] = IF @ + 2 \in Slots THEN @ + 2 ELSE @ + 1]
        /\ Goto(a, "scan") /\ UNCHANGED <<stacks, rsp>>
  /\ UNCHANGED <<num, live, handVars, bspVars, saw, gdt, lapic, histVars>>
CasIsAStore(a) ==
  /\ pc[a] = "cas"
  /\ IF live
     THEN /\ stacks' = [stacks EXCEPT ![idx[a]] = 0]
          /\ rsp' = [rsp EXCEPT ![a] = saw[a]]
          /\ Goto(a, "init")
     ELSE Goto(a, "wild") /\ UNCHANGED <<stacks, rsp>>
  /\ UNCHANGED <<num, live, handVars, bspVars, idx, saw, gdt, lapic, histVars>>

\* mov rax, [rbx]; the tests for a taken slot and for the sentinel.  The search
\* of a freed array is undefined: the AP is lost to the model.
Scan(a) ==
  LET slot == stacks[idx[a]]
  IN  /\ pc[a] = "scan"
      /\ \/ ~ live /\ Goto(a, "wild") /\ UNCHANGED <<idx, saw>>
         \/ /\ live
            /\ saw' = [saw EXCEPT ![a] = slot]
            /\ \/ slot = 0 /\ idx' = [idx EXCEPT ![a] = @ + 1] /\ UNCHANGED pc
               \/ slot = 1 /\ Goto(a, "dead") /\ UNCHANGED idx
               \/ slot \notin {0, 1} /\ Goto(a, "cas") /\ UNCHANGED idx
      /\ UNCHANGED <<num, stacks, live, handVars, bspVars, rsp, gdt, lapic, histVars>>

\* lock cmpxchg [rbx], rcx
Cas(a) ==
  /\ pc[a] = "cas"
  /\ \/ ~ live /\ Goto(a, "wild") /\ UNCHANGED <<stacks, idx, rsp>>
     \/ /\ live /\ stacks[idx[a]] = saw[a]
        /\ stacks' = [stacks EXCEPT ![idx[a]] = 0]
        /\ rsp' = [rsp EXCEPT ![a] = saw[a]]
        /\ Goto(a, "init") /\ UNCHANGED idx
     \/ /\ live /\ stacks[idx[a]] # saw[a]
        /\ idx' = [idx EXCEPT ![a] = @ + 1]
        /\ Goto(a, "scan") /\ UNCHANGED <<stacks, rsp>>
  /\ UNCHANGED <<num, live, handVars, bspVars, saw, gdt, lapic, histVars>>

-----------------------------------------------------------------------------
(* ap_init. *)

\* Thread-local block, IDT, the kernel's page table, and the first count.
CountStarted(a) ==
  /\ pc[a] = "init"
  /\ count' = count + 1
  /\ stray' = IF bpc \in {"sipi1", "sipi2", "wait_start"} THEN stray ELSE stray \cup {a}
  /\ Goto(a, "wait_true")
  /\ UNCHANGED <<num, stacks, live, timer, value, bspVars, idx, saw, rsp, gdt, lapic, window>>

SeeTimerOn(a) ==
  /\ pc[a] = "wait_true" /\ timer
  /\ Goto(a, "wait_false")
  /\ UNCHANGED <<num, stacks, live, handVars, bspVars, idx, saw, rsp, gdt, lapic, histVars>>

SeeTimerOff(a) ==
  /\ pc[a] = "wait_false" /\ ~ timer
  /\ Goto(a, "lapic")
  /\ UNCHANGED <<num, stacks, live, handVars, bspVars, idx, saw, rsp, gdt, lapic, histVars>>

InitLocalApic(a) ==
  /\ pc[a] = "lapic"
  /\ lapic' = [lapic EXCEPT ![a] = TRUE]
  /\ Goto(a, "gdt")
  /\ UNCHANGED <<num, stacks, live, handVars, bspVars, idx, saw, rsp, gdt, histVars>>

\* init_gdt, and interrupt::api::init once more.
InitGdt(a) ==
  /\ pc[a] = "gdt"
  /\ gdt' = [gdt EXCEPT ![a] = TRUE]
  /\ Goto(a, "count_calibrated")
  /\ UNCHANGED <<num, stacks, live, handVars, bspVars, idx, saw, rsp, lapic, histVars>>

\* A slip: a processor does not count itself a second time.
CalibratedUncounted(a) ==
  /\ pc[a] = "count_calibrated"
  /\ Goto(a, "wait_value")
  /\ UNCHANGED <<num, stacks, live, handVars, bspVars, idx, saw, rsp, gdt, lapic, histVars>>

CountCalibrated(a) ==
  /\ pc[a] = "count_calibrated"
  /\ count' = count + 1
  /\ Goto(a, "wait_value")
  /\ UNCHANGED <<num, stacks, live, timer, value, bspVars, idx, saw, rsp, gdt, lapic, histVars>>

SeeValue(a) ==
  /\ pc[a] = "wait_value" /\ value
  /\ Goto(a, "count_adjusted")
  /\ UNCHANGED <<num, stacks, live, handVars, bspVars, idx, saw, rsp, gdt, lapic, histVars>>

\* The third count; then tsc_init and the executor.
CountAdjusted(a) ==
  /\ pc[a] = "count_adjusted"
  /\ count' = count + 1
  /\ Goto(a, "running")
  /\ UNCHANGED <<num, stacks, live, timer, value, bspVars, idx, saw, rsp, gdt, lapic, histVars>>

Trampoline(a) == Scan(a) \/ Cas(a)
ApInit(a) ==
  \/ CountStarted(a) \/ SeeTimerOn(a) \/ SeeTimerOff(a) \/ InitLocalApic(a) \/ InitGdt(a)
  \/ CountCalibrated(a) \/ SeeValue(a) \/ CountAdjusted(a)
Ap(a) == Trampoline(a) \/ ApInit(a)

\* The boot is over: the BSP has left init_ap and no AP can take a step.
Over ==
  /\ bpc = "done"
  /\ \A a \in APs : pc[a] \in {"wait_sipi", "dead", "wild", "wait_true", "running"}
  /\ UNCHANGED vars

Next == Bsp \/ (\E a \in APs : Ap(a)) \/ Over

Spec == Init /\ [][Next]_vars
Fairness == WF_vars(Bsp) /\ \A a \in APs : WF_vars(Ap(a))
FairSpec == Spec /\ Fairness

-----------------------------------------------------------------------------
(* Properties. *)

BspLabels ==
  {"sipi1", "sipi2", "wait_start", "reset", "timer_on", "timer_off", "wait_calibrated",
   "wait_adjusted", "done"}
ApLabels ==
  {"wait_sipi", "scan", "cas", "dead", "wild", "init", "wait_true", "wait_false", "lapic", "gdt",
   "count_calibrated", "wait_value", "count_adjusted", "running"}

\* Type invariant.
TypeOK ==
  /\ num \in Nat /\ stacks \in [Slots -> Nat] /\ live \in BOOLEAN
  /\ count \in Nat /\ timer \in BOOLEAN /\ value \in BOOLEAN
  /\ bpc \in BspLabels /\ len \in Nat
  /\ pc \in [APs -> ApLabels] /\ idx \in [APs -> Slots]
  /\ saw \in [APs -> Nat] /\ rsp \in [APs -> Nat]
  /\ gdt \in [APs -> BOOLEAN] /\ lapic \in [APs -> BOOLEAN]
  /\ window \subseteq APs /\ stray \subseteq APs

\* Two processors never run on one stack, however their searches interleave.
StackExclusive == \A a, b \in APs : rsp[a] # 0 /\ rsp[a] = rsp[b] => a = b

\* A processor runs into the sentinel and stops at ud2 only when every stack is
\* in use by another one: a search passes a slot by only when somebody has it.
NobodyLeftOut ==
  \A a \in APs : pc[a] = "dead" => \A i \in 1..num : \E b \in APs \ {a} : rsp[b] = Stack(i)

Calibrated == {"wait_value", "count_adjusted", "running"}

\* One counter is the barrier of all three phases although it is reset in
\* between.  Who counted itself in time has measured the whole 100 ms window; and
\* as long as no straggler has counted itself into the wrong phase, the time stamp
\* is published only when every started AP has calibrated its TSC and loaded its
\* GDT, and init_ap returns only when all of them have read it.
CounterIsBarrier ==
  /\ \A a \in APs \ stray : pc[a] \in Calibrated => a \in window
  /\ stray = {} =>
       /\ bpc \in {"wait_adjusted", "done"} => \A a \in Started : pc[a] \in Calibrated /\ gdt[a]
       /\ bpc = "done" => \A a \in Started : pc[a] = "running"

\* A straggler can make the barriers open early, never stay closed: init_ap
\* returns whatever the late processors do.
InitApReturns == <>(bpc = "done")

\* When the firmware has reported every processor, each one that starts in time
\* gets to its executor, whatever the late ones do to the counter; in particular
\* it never searches the array of stacks after init_ap has dropped it.  And
\* the timer flag is set once: an AP that gets there after it was cleared spins
\* for ever, and the system runs without it.
PunctualApsRun ==
  \A a \in APs :
    /\ a \notin Late /\ Cardinality(APs) <= num => <>(pc[a] = "running")
    /\ [](bpc \in {"wait_calibrated", "wait_adjusted", "done"}
            /\ pc[a] \in {"wait_sipi", "scan", "cas", "init", "wait_true"} => [](pc[a] # "running"))

\* init_local_apic: "The caller must ensure that the GDT and IDT are properly
\* configured before calling this, as it registers interrupt handlers."
GdtBeforeLocalApic == \A a \in APs : lapic[a] => gdt[a]
=============================================================================
