--------------------------- MODULE SmpBootProofs ----------------------------
(***************************************************************************)
(* Proofs about SmpBoot, its stack search and then its one counter, for    *)
(* any number of processors and stacks and any set of late processors.     *)
(***************************************************************************)
EXTENDS SmpBoot, FiniteSetTheorems, TLAPS

\* Leaves are for the SMT solver unless they say otherwise, with time to spare.
USE SMTT(30)

Searching == {"wait_sipi", "scan", "cas", "dead", "wild"}
Last == num + 1

(* A slot is its stack or 0, and the sentinel stays: so no search leaves    *)
(* the array.  A slot is 0 exactly when one processor owns its stack, and   *)
(* whatever a search has passed by is 0.                                    *)
SlotInv == stacks[Last] = 1 /\ \A i \in 1..num : stacks[i] \in {0, Stack(i)}

SearchInv ==
  \A a \in APs :
    /\ pc[a] = "cas" => idx[a] # Last /\ saw[a] = Stack(idx[a])
    /\ pc[a] \in Searching => rsp[a] = 0
    /\ pc[a] = "dead" => idx[a] = Last
    /\ rsp[a] # 0 => idx[a] # Last /\ rsp[a] = Stack(idx[a]) /\ stacks[idx[a]] = 0
    /\ \A i \in 1..(idx[a] - 1) : stacks[i] = 0

OwnerInv ==
  /\ \A a, b \in APs : rsp[a] # 0 /\ rsp[b] # 0 /\ idx[a] = idx[b] => a = b
  /\ \A i \in 1..num : stacks[i] = 0 => \E a \in APs : rsp[a] # 0 /\ idx[a] = i

StackInv == TypeOK /\ SlotInv /\ SearchInv /\ OwnerInv

LEMMA StackInit == Init => StackInv
<1> SUFFICES ASSUME Init
             PROVE  StackInv
  OBVIOUS
<1> USE BootAssumption DEF Init, Slots, Stack, Last
<1>a. stacks \in [Slots -> Nat] /\ 1 \in Slots
  OBVIOUS
<1>b. live \in BOOLEAN /\ timer \in BOOLEAN /\ value \in BOOLEAN
  BY ZenonT(30)
<1>c. bpc \in BspLabels /\ pc \in [APs -> ApLabels]
  BY DEF BspLabels, ApLabels
<1>d. gdt \in [APs -> BOOLEAN] /\ lapic \in [APs -> BOOLEAN]
  OBVIOUS
<1>1. TypeOK
  BY <1>a, <1>b, <1>c, <1>d DEF TypeOK
<1>2. SlotInv
  BY DEF SlotInv
<1>3. SearchInv
  BY DEF SearchInv, Searching
<1>4. OwnerInv
  BY DEF OwnerInv
<1> QED
  BY <1>1, <1>2, <1>3, <1>4 DEF StackInv

\* A step that leaves the array and the registers of the search alone, and
\* moves nobody into or out of the search but from wait_sipi to scan.
LEMMA StackFrame ==
  ASSUME StackInv, TypeOK', UNCHANGED <<num, stacks, idx, saw, rsp>>,
         \A a \in APs : \/ pc'[a] = pc[a] \/ pc'[a] \notin Searching
                        \/ pc[a] \in Searching /\ pc'[a] \in {"scan", "wild"}
  PROVE  StackInv'
<1> num \in Nat /\ Last' = Last
  BY DEF StackInv, TypeOK, Last
<1>1. SlotInv'
  BY DEF StackInv, SlotInv
<1>2. SearchInv'
  BY DEF StackInv, SearchInv, Searching
<1>3. OwnerInv'
  BY DEF StackInv, OwnerInv
<1> QED
  BY <1>1, <1>2, <1>3 DEF StackInv

LEMMA ScanStep ==
  ASSUME StackInv, NEW a \in APs, Scan(a)
  PROVE  StackInv'
<1> USE DEF handVars, bspVars, histVars, Goto
<1> num \in Nat /\ num' = num /\ Slots' = Slots /\ Last = num + 1 /\ Last' = Last
  BY DEF Scan, StackInv, TypeOK, Slots, Last
<1> DEFINE slot == stacks[idx[a]]
<1>1. /\ pc[a] = "scan" /\ pc \in [APs -> ApLabels] /\ idx[a] \in 1..Last
      /\ idx \in [APs -> Slots] /\ saw \in [APs -> Nat] /\ slot \in Nat
  BY DEF Scan, StackInv, TypeOK, Slots, Last
<1>2. CASE ~ live
  <2>1. TypeOK'
    BY <1>1, <1>2 DEF Scan, StackInv, TypeOK, ApLabels
  <2>2. UNCHANGED <<num, stacks, idx, saw, rsp>> /\ pc' = [pc EXCEPT ![a] = "wild"]
    BY <1>2 DEF Scan
  <2> QED
    BY <1>1, <2>1, <2>2, StackFrame DEF Searching
<1>3. CASE live
  <2>1. UNCHANGED <<stacks, rsp>> /\ saw' = [saw EXCEPT ![a] = slot]
    BY <1>3 DEF Scan
  <2>2. slot = 1 <=> idx[a] = Last
    BY <1>1 DEF StackInv, SlotInv, Stack, Last
  <2>3. slot \notin {0, 1} => slot = Stack(idx[a])
    BY <1>1, <2>2 DEF StackInv, SlotInv, Last
  <2>4. rsp[a] = 0
    BY <1>1 DEF StackInv, SearchInv, Searching
  <2>5. \/ slot = 0 /\ idx' = [idx EXCEPT ![a] = idx[a] + 1] /\ UNCHANGED pc
        \/ slot = 1 /\ pc' = [pc EXCEPT ![a] = "dead"] /\ UNCHANGED idx
        \/ slot \notin {0, 1} /\ pc' = [pc EXCEPT ![a] = "cas"] /\ UNCHANGED idx
    BY <1>3 DEF Scan
  <2>6. slot = 0 => idx[a] + 1 \in Slots
    BY <1>1, <2>2 DEF Slots, Last
  <2>7. TypeOK'
    <3>1. idx' \in [APs -> Slots] /\ saw' \in [APs -> Nat] /\ pc' \in [APs -> ApLabels]
      BY <1>1, <2>1, <2>5, <2>6 DEF ApLabels
    <3> QED
      BY <1>3, <3>1 DEF Scan, StackInv, TypeOK
  <2>8. SlotInv'
    BY <2>1 DEF StackInv, SlotInv
  <2>9. OwnerInv'
    BY <1>1, <2>1, <2>4, <2>5 DEF StackInv, OwnerInv
  <2>10. ASSUME NEW b \in APs
         PROVE  SearchInv!(b)'
    <3>1. CASE b # a
      BY <1>1, <2>1, <2>5, <3>1 DEF StackInv, SearchInv
    <3>2. CASE b = a /\ slot = 0
      <4>1. idx'[a] = idx[a] + 1 /\ pc'[a] = "scan" /\ rsp'[a] = 0
        BY <1>1, <2>1, <2>4, <2>5, <3>2
      <4>2. \A i \in 1..(idx'[a] - 1) : stacks'[i] = 0
        BY <1>1, <2>1, <3>2, <4>1 DEF StackInv, SearchInv, Last
      <4> QED
        BY <3>2, <4>1, <4>2
    <3>3. CASE b = a /\ slot = 1
      BY <1>1, <2>1, <2>2, <2>4, <2>5, <3>3 DEF StackInv, SearchInv, Searching
    <3>4. CASE b = a /\ slot \notin {0, 1}
      BY <1>1, <2>1, <2>2, <2>3, <2>4, <2>5, <3>4 DEF StackInv, SearchInv, Searching
    <3> QED
      BY <3>1, <3>2, <3>3, <3>4
  <2> QED
    BY <2>7, <2>8, <2>9, <2>10 DEF StackInv, SearchInv
<1> QED
  BY <1>2, <1>3

LEMMA CasStep ==
  ASSUME StackInv, NEW a \in APs, Cas(a)
  PROVE  StackInv'
<1> USE DEF handVars, bspVars, histVars, Goto
<1> num \in Nat /\ num' = num /\ Slots' = Slots /\ Last = num + 1 /\ Last' = Last
  BY DEF Cas, StackInv, TypeOK, Slots, Last
<1>a. /\ pc[a] = "cas" /\ pc \in [APs -> ApLabels] /\ idx \in [APs -> Slots]
      /\ rsp \in [APs -> Nat] /\ stacks \in [Slots -> Nat] /\ UNCHANGED saw
  BY DEF Cas, StackInv, TypeOK
<1>b. idx[a] # Last /\ saw[a] = Stack(idx[a]) /\ rsp[a] = 0
  BY <1>a DEF StackInv, SearchInv, Searching
<1>c. idx[a] \in 1..num
  BY <1>a, <1>b DEF Slots, Last
<1>1. /\ pc[a] = "cas" /\ pc \in [APs -> ApLabels] /\ idx \in [APs -> Slots]
      /\ rsp \in [APs -> Nat] /\ stacks \in [Slots -> Nat]
      /\ idx[a] \in 1..num /\ saw[a] = Stack(idx[a]) /\ rsp[a] = 0 /\ UNCHANGED saw
  BY <1>a, <1>b, <1>c
<1>s. Stack(idx[a]) \in Nat \ {0}
  BY <1>1 DEF Stack
<1>2. CASE ~ live
  <2>1. TypeOK'
    BY <1>1, <1>2 DEF Cas, StackInv, TypeOK, ApLabels
  <2>2. UNCHANGED <<num, stacks, idx, saw, rsp>> /\ pc' = [pc EXCEPT ![a] = "wild"]
    BY <1>2 DEF Cas
  <2> QED
    BY <1>1, <2>1, <2>2, StackFrame DEF Searching
<1>3. CASE live /\ stacks[idx[a]] = saw[a]
  <2>1. /\ stacks' = [stacks EXCEPT ![idx[a]] = 0] /\ rsp' = [rsp EXCEPT ![a] = saw[a]]
        /\ pc' = [pc EXCEPT ![a] = "init"] /\ UNCHANGED idx
    BY <1>3 DEF Cas
  <2>2. \A i \in Slots : stacks'[i] = IF i = idx[a] THEN 0 ELSE stacks[i]
    BY <1>1, <2>1 DEF Slots
  <2>3. \A b \in APs : rsp'[b] = IF b = a THEN Stack(idx[a]) ELSE rsp[b]
    BY <1>1, <2>1
  <2>4. TypeOK'
    BY <1>1, <1>s, <1>3, <2>1 DEF Cas, StackInv, TypeOK, ApLabels
  <2>5. SlotInv'
    BY <1>1, <2>2 DEF StackInv, SlotInv, Slots, Last
  <2>6. \A b \in APs : rsp[b] # 0 => idx[b] # idx[a]
    BY <1>1, <1>s, <1>3 DEF StackInv, SearchInv
  <2>7. OwnerInv'
    BY <1>1, <1>s, <2>1, <2>2, <2>3, <2>6 DEF StackInv, OwnerInv, Slots
  <2>8. ASSUME NEW b \in APs
        PROVE  SearchInv!(b)'
    <3>1. \A i \in 1..(idx[b] - 1) : stacks'[i] = 0
      BY <1>1, <2>2 DEF StackInv, SearchInv, Slots
    <3>2. CASE b # a
      <4>1. pc'[b] = pc[b] /\ rsp'[b] = rsp[b] /\ idx[b] \in Slots
        BY <1>1, <2>1, <3>2
      <4> QED
        BY <1>1, <2>1, <2>2, <3>1, <4>1 DEF StackInv, SearchInv
    <3>3. CASE b = a
      BY <1>1, <1>s, <2>1, <2>2, <2>3, <3>1, <3>3 DEF Searching, Last, Slots
    <3> QED
      BY <3>2, <3>3
  <2> QED
    BY <2>4, <2>5, <2>7, <2>8 DEF StackInv, SearchInv
<1>4. CASE live /\ stacks[idx[a]] # saw[a]
  <2>1. /\ idx' = [idx EXCEPT ![a] = idx[a] + 1] /\ pc' = [pc EXCEPT ![a] = "scan"]
        /\ UNCHANGED <<stacks, rsp>>
    BY <1>4 DEF Cas
  <2>2. stacks[idx[a]] = 0
    BY <1>1, <1>4 DEF StackInv, SlotInv
  <2>3. TypeOK'
    <3>1. idx' \in [APs -> Slots] /\ pc' \in [APs -> ApLabels]
      BY <1>1, <2>1 DEF ApLabels, Slots
    <3> QED
      BY <1>4, <3>1 DEF Cas, StackInv, TypeOK
  <2>4. SlotInv'
    BY <2>1 DEF StackInv, SlotInv
  <2>5. OwnerInv'
    BY <1>1, <2>1 DEF StackInv, OwnerInv
  <2>6. ASSUME NEW b \in APs
        PROVE  SearchInv!(b)'
    <3>1. CASE b # a
      BY <1>1, <2>1, <3>1 DEF StackInv, SearchInv
    <3>2. CASE b = a
      <4>1. \A i \in 1..(idx'[a] - 1) : stacks'[i] = 0
        BY <1>1, <2>1, <2>2 DEF StackInv, SearchInv
      <4> QED
        BY <1>1, <2>1, <3>2, <4>1
    <3> QED
      BY <3>1, <3>2
  <2> QED
    BY <2>3, <2>4, <2>5, <2>6 DEF StackInv, SearchInv
<1> QED
  BY <1>2, <1>3, <1>4 DEF Cas

LEMMA ApInitStep ==
  ASSUME StackInv, NEW a \in APs, ApInit(a)
  PROVE  StackInv'
<1> USE DEF handVars, bspVars, histVars, Goto
<1>1. TypeOK'
  <2> USE DEF StackInv, TypeOK, ApLabels, Slots
  <2>1. CASE CountStarted(a)
    BY <2>1 DEF CountStarted
  <2>2. CASE SeeTimerOn(a)
    BY <2>2 DEF SeeTimerOn
  <2>3. CASE SeeTimerOff(a)
    BY <2>3 DEF SeeTimerOff
  <2>4. CASE InitLocalApic(a)
    BY <2>4 DEF InitLocalApic
  <2>5. CASE InitGdt(a)
    BY <2>5 DEF InitGdt
  <2>6. CASE CountCalibrated(a)
    BY <2>6 DEF CountCalibrated
  <2>7. CASE SeeValue(a)
    BY <2>7 DEF SeeValue
  <2>8. CASE CountAdjusted(a)
    BY <2>8 DEF CountAdjusted
  <2> QED
    BY <2>1, <2>2, <2>3, <2>4, <2>5, <2>6, <2>7, <2>8, ZenonT(30) DEF ApInit
<1>2. /\ UNCHANGED <<num, stacks, idx, saw, rsp>>
      /\ \A b \in APs : pc'[b] = pc[b] \/ pc'[b] \notin Searching
  BY DEF ApInit, CountStarted, SeeTimerOn, SeeTimerOff, InitLocalApic, InitGdt, CountCalibrated,
     SeeValue, CountAdjusted, StackInv, TypeOK, Searching
<1> QED
  BY <1>1, <1>2, StackFrame

LEMMA BspStep ==
  ASSUME StackInv, Bsp
  PROVE  StackInv'
<1> USE DEF handVars, bspVars, histVars, apVars
<1>1. ASSUME NEW from, NEW to \in BspLabels, Sipi(from, to)
      PROVE  StackInv'
  <2>0. PICK S \in SUBSET {a \in APs : pc[a] = "wait_sipi"} :
               pc' = [a \in APs |-> IF a \in S THEN "scan" ELSE pc[a]]
    BY <1>1 DEF Sipi
  <2>1. TypeOK' /\ UNCHANGED <<num, stacks, idx, saw, rsp>>
    <3>1. pc' \in [APs -> ApLabels]
      BY <2>0 DEF StackInv, TypeOK, ApLabels
    <3> QED
      BY <1>1, <3>1 DEF Sipi, StackInv, TypeOK, Slots
  <2>2. \A a \in APs : pc'[a] = pc[a] \/ (pc[a] \in Searching /\ pc'[a] = "scan")
    BY <2>0 DEF Searching
  <2> QED
    BY <2>1, <2>2, StackFrame
<1>2. CASE AllStarted \/ StartTimeout \/ Reset \/ TimerOn \/ TimerOff \/ Publish \/ Complete
  <2>1. TypeOK'
    <3> USE DEF StackInv, TypeOK, BspLabels, Slots
    <3>1. CASE AllStarted
      BY <3>1 DEF AllStarted
    <3>2. CASE StartTimeout
      BY <3>2 DEF StartTimeout
    <3>3. CASE Reset
      BY <3>3, ZenonT(30) DEF Reset
    <3>4. CASE TimerOn
      BY <3>4 DEF TimerOn
    <3>5. CASE TimerOff
      BY <3>5, ZenonT(30) DEF TimerOff
    <3>6. CASE Publish
      BY <3>6 DEF Publish
    <3>7. CASE Complete
      BY <3>7 DEF Complete
    <3> QED
      BY <1>2, <3>1, <3>2, <3>3, <3>4, <3>5, <3>6, <3>7, ZenonT(30)
  <2>2. UNCHANGED <<pc, num, stacks, idx, saw, rsp>>
    BY <1>2 DEF AllStarted, StartTimeout, Reset, TimerOn, TimerOff, Publish, Complete
  <2> QED
    BY <2>1, <2>2, StackFrame
<1> QED
  BY <1>1, <1>2 DEF Bsp, BspLabels

LEMMA StackStep == StackInv /\ [Next]_vars => StackInv'
<1> SUFFICES ASSUME StackInv, [Next]_vars
             PROVE  StackInv'
  OBVIOUS
<1>1. CASE UNCHANGED vars
  <2>1. TypeOK' /\ UNCHANGED <<pc, num, stacks, idx, saw, rsp>>
    BY <1>1 DEF vars, handVars, bspVars, apVars, histVars, StackInv, TypeOK, Slots
  <2> QED
    BY <2>1, StackFrame
<1> QED
  BY <1>1, BspStep, ScanStep, CasStep, ApInitStep DEF Next, Ap, Trampoline, Over

LEMMA SentinelAfterOwners ==
  ASSUME StackInv, NEW a \in APs, pc[a] = "dead", NEW i \in 1..num
  PROVE  \E b \in APs \ {a} : rsp[b] = Stack(i)
<1>1. stacks[i] = 0
  BY DEF StackInv, TypeOK, SearchInv, Last
<1>2. rsp[a] = 0
  BY DEF StackInv, SearchInv, Searching
<1>3. PICK b \in APs : rsp[b] # 0 /\ idx[b] = i
  BY <1>1 DEF StackInv, OwnerInv
<1>4. rsp[b] = Stack(i)
  BY <1>3 DEF StackInv, OwnerInv, SearchInv
<1> QED
  BY <1>2, <1>3, <1>4

\* No search runs past the array; everything keeps its type.
THEOREM TypeCorrect == Spec => []TypeOK
<1>1. StackInv => TypeOK
  BY DEF StackInv
<1> QED
  BY <1>1, StackInit, StackStep, PTL DEF Spec

\* The compare-and-swap search gives no stack to two processors.
THEOREM StacksAreExclusive == Spec => []StackExclusive
<1>1. StackInv => StackExclusive
  BY BootAssumption DEF StackInv, TypeOK, Slots, SearchInv, OwnerInv, StackExclusive, Stack
<1> QED
  BY <1>1, StackInit, StackStep, PTL DEF Spec

\* A search that ends at the sentinel has passed every slot, and the slots it has
\* passed are those of other processors.
THEOREM OnlyTheSurplusStops == Spec => []NobodyLeftOut
<1>1. StackInv => NobodyLeftOut
  BY SentinelAfterOwners DEF NobodyLeftOut
<1> QED
  BY <1>1, StackInit, StackStep, PTL DEF Spec

\* When there are as many stacks as processors, no search ends at the sentinel:
\* the owners of the stacks would be as many processors, without the one that
\* searches.
THEOREM EveryoneGetsAStack ==
  Spec => [](Cardinality(APs) <= num => \A a \in APs : pc[a] # "dead")
<1>1. StackInv => (Cardinality(APs) <= num => \A a \in APs : pc[a] # "dead")
  <2> SUFFICES ASSUME StackInv, Cardinality(APs) <= num, NEW a \in APs, pc[a] = "dead"
               PROVE  FALSE
    OBVIOUS
  <2> DEFINE owner == [i \in 1..num |-> CHOOSE b \in APs \ {a} : rsp[b] = Stack(i)]
             Others == APs \ {a}
  <2>4. \A i \in 1..num : owner[i] \in Others /\ rsp[owner[i]] = Stack(i)
    BY SentinelAfterOwners
  <2>5. owner \in [1..num -> Others]
    BY <2>4
  <2>6. IsFiniteSet(1..num) /\ Cardinality(1..num) = num
    BY FS_Interval DEF StackInv, TypeOK
  <2>7. IsFiniteSet(Others) /\ Cardinality(Others) = Cardinality(APs) - 1
    BY FS_RemoveElement, BootAssumption
  <2>8. Cardinality(APs) \in Nat
    BY FS_CardinalityType, BootAssumption
  <2>9. Cardinality(Others) < Cardinality(1..num)
    BY <2>6, <2>7, <2>8 DEF StackInv, TypeOK
  <2> HIDE DEF owner, Others
  <2>10. \E i, j \in 1..num : i # j /\ owner[i] = owner[j]
    BY <2>5, <2>6, <2>7, <2>9, FS_PigeonHole, ZenonT(30)
  <2>11. \A i, j \in 1..num : Stack(i) = Stack(j) => i = j
    BY DEF Stack
  <2> QED
    BY <2>4, <2>10, <2>11
<1> QED
  BY <1>1, StackInit, StackStep, PTL DEF Spec
-----------------------------------------------------------------------------
(* The counter as a barrier.  Up to the reset it is the number of processors *)
(* that have started; after it, as long as nobody strayed, the number of     *)
(* those that have calibrated plus the number of those that run.             *)

Early == {"sipi1", "sipi2", "wait_start"}
BeforeTimer == Early \cup {"reset", "timer_on"}
AfterTimer == {"timer_off", "wait_calibrated", "wait_adjusted", "done"}
CalibratedAPs == {a \in APs : pc[a] \in Calibrated}
RunningAPs == {a \in APs : pc[a] = "running"}

\* How far the flags, and with them the processors, are at every point of init_ap.
PhaseInv ==
  /\ timer <=> bpc = "timer_off"
  /\ value <=> bpc \in {"wait_adjusted", "done"}
  /\ bpc \in Early => stray = {}
  /\ \A a \in Started :
       /\ bpc \in BeforeTimer => pc[a] = "wait_true"
       /\ bpc \in AfterTimer => a \in window \cup stray
       /\ pc[a] \in {"count_adjusted", "running"} => value
       /\ pc[a] \in Calibrated \cup {"count_calibrated"} => gdt[a]

\* What the counter counts.
CountInv ==
  stray = {} =>
    /\ bpc \in Early \cup {"reset"} => count = Cardinality(Started)
    /\ bpc \notin Early => len = Cardinality(Started)
    /\ bpc \in {"timer_on", "timer_off", "wait_calibrated", "wait_adjusted"} =>
         count = Cardinality(CalibratedAPs) + Cardinality(RunningAPs)
    /\ bpc \in {"wait_adjusted", "done"} => CalibratedAPs = Started
    /\ bpc = "done" => RunningAPs = Started

BarrierInv == PhaseInv /\ CountInv

\* Facts about sets of processors.
LEMMA CardinalityOfAPs ==
  ASSUME NEW S \in SUBSET APs
  PROVE  IsFiniteSet(S) /\ Cardinality(S) \in Nat
<1>1. IsFiniteSet(S)
  BY FS_Subset, BootAssumption
<1> QED
  BY <1>1, FS_CardinalityType

LEMMA OneMore ==
  ASSUME NEW S \in SUBSET APs, NEW T, NEW a \in APs \ S, T = S \cup {a}
  PROVE  Cardinality(T) = Cardinality(S) + 1
BY CardinalityOfAPs, FS_AddElement

LEMMA AllOfThem ==
  ASSUME NEW T \in SUBSET APs, NEW S \in SUBSET T, Cardinality(S) >= Cardinality(T)
  PROVE  S = T
<1>1. IsFiniteSet(T) /\ Cardinality(T) \in Nat /\ Cardinality(S) \in Nat
  BY CardinalityOfAPs
<1>2. S # T => Cardinality(S) < Cardinality(T)
  BY <1>1, FS_Subset
<1> QED
  BY <1>1, <1>2

LEMMA BarrierInit == Init => BarrierInv
<1> SUFFICES ASSUME Init
             PROVE  BarrierInv
  OBVIOUS
<1>1. Started = {}
  BY DEF Init, Started
<1>2. Cardinality(Started) = 0
  BY <1>1, FS_EmptySet
<1>3. PhaseInv
  BY <1>1 DEF Init, PhaseInv, Early, BeforeTimer, AfterTimer
<1> QED
  BY <1>2, <1>3 DEF Init, BarrierInv, CountInv, Early

\* What a processor does changes the phase it is in itself.
LEMMA PhaseAp ==
  ASSUME TypeOK, PhaseInv, NEW a \in APs, Ap(a)
  PROVE  PhaseInv'
<1> USE DEF handVars, bspVars, histVars, Goto, TypeOK, PhaseInv, Started, Early, BeforeTimer,
            AfterTimer, Calibrated
<1>1. CASE Scan(a)
  BY <1>1 DEF Scan
<1>2. CASE Cas(a)
  BY <1>2 DEF Cas
<1>3. CASE CountStarted(a)
  BY <1>3 DEF CountStarted, BspLabels
<1>4. CASE SeeTimerOn(a)
  BY <1>4 DEF SeeTimerOn
<1>5. CASE SeeTimerOff(a)
  BY <1>5 DEF SeeTimerOff
<1>6. CASE InitLocalApic(a)
  BY <1>6 DEF InitLocalApic
<1>7. CASE InitGdt(a)
  BY <1>7 DEF InitGdt
<1>8. CASE CountCalibrated(a)
  BY <1>8 DEF CountCalibrated
<1>9. CASE SeeValue(a)
  BY <1>9 DEF SeeValue
<1>10. CASE CountAdjusted(a)
  <2>1. /\ pc[a] = "count_adjusted" /\ pc' = [pc EXCEPT ![a] = "running"]
        /\ UNCHANGED <<timer, value, bpc, stray, window, gdt>>
    BY <1>10, ZenonT(30) DEF CountAdjusted
  <2> HIDE <1>10
  <2> QED
    BY <2>1
<1> QED
  BY <1>1, <1>2, <1>3, <1>4, <1>5, <1>6, <1>7, <1>8, <1>9, <1>10, ZenonT(30) DEF Ap, Trampoline, ApInit

LEMMA PhaseBsp ==
  ASSUME TypeOK, PhaseInv, Bsp
  PROVE  PhaseInv'
<1> USE DEF handVars, bspVars, apVars, histVars, TypeOK, PhaseInv, Started, Early, BeforeTimer,
            AfterTimer, Calibrated
<1>1. ASSUME NEW from, NEW to, Sipi(from, to), from \in Early, to \in Early
      PROVE  PhaseInv'
  <2>1. Started' = Started /\ \A a \in Started : pc'[a] = pc[a]
    BY <1>1 DEF Sipi
  <2> QED
    BY <1>1, <2>1 DEF Sipi
<1>2. CASE AllStarted
  BY <1>2 DEF AllStarted
<1>3. CASE StartTimeout
  BY <1>3 DEF StartTimeout
<1>4. CASE Reset
  BY <1>4 DEF Reset
<1>5. CASE TimerOn
  BY <1>5 DEF TimerOn
<1>6. CASE TimerOff
  BY <1>6 DEF TimerOff
<1>7. CASE Publish
  BY <1>7 DEF Publish
<1>8. CASE Complete
  BY <1>8 DEF Complete
<1> QED
  BY <1>1, <1>2, <1>3, <1>4, <1>5, <1>6, <1>7, <1>8, ZenonT(30) DEF Bsp

\* A step that neither counts nor moves a processor from one phase to the next.
LEMMA CountFrame ==
  ASSUME CountInv, UNCHANGED <<count, len, bpc, stray, Started, CalibratedAPs, RunningAPs>>
  PROVE  CountInv'
BY DEF CountInv

\* Every count is the step of one processor into the next phase.
LEMMA CountAp ==
  ASSUME TypeOK, PhaseInv, CountInv, NEW a \in APs, Ap(a)
  PROVE  CountInv'
<1> USE DEF handVars, bspVars, histVars, Goto
<1>a. pc \in [APs -> ApLabels]
  BY DEF TypeOK
<1>b. /\ Started \in SUBSET APs /\ CalibratedAPs \in SUBSET APs /\ RunningAPs \in SUBSET APs
      /\ Cardinality(CalibratedAPs) \in Nat /\ Cardinality(RunningAPs) \in Nat
  <2>1. Started \in SUBSET APs /\ CalibratedAPs \in SUBSET APs /\ RunningAPs \in SUBSET APs
    BY DEF Started, CalibratedAPs, RunningAPs
  <2> QED
    BY <2>1, CardinalityOfAPs
<1>1. CASE \/ Scan(a) \/ Cas(a) \/ SeeTimerOn(a) \/ SeeTimerOff(a) \/ InitLocalApic(a) \/ InitGdt(a)
           \/ SeeValue(a)
  <2>1. UNCHANGED <<count, len, bpc, stray>>
    BY <1>1 DEF Scan, Cas, SeeTimerOn, SeeTimerOff, InitLocalApic, InitGdt, SeeValue
  <2> DEFINE Within(L) == \A b \in APs : pc'[b] = pc[b] \/ (pc[b] \in L /\ pc'[b] \in L)
  <2>2. CASE Scan(a) \/ Cas(a)
    <3>1. Within({"scan", "cas", "dead", "wild", "init"})
      BY <1>a, <2>2 DEF Scan, Cas
    <3> QED
      BY <2>1, <3>1, CountFrame DEF Started, CalibratedAPs, RunningAPs, Calibrated
  <2>3. CASE SeeTimerOn(a) \/ SeeTimerOff(a) \/ InitLocalApic(a) \/ InitGdt(a)
    <3>1. Within({"wait_true", "wait_false", "lapic", "gdt", "count_calibrated"})
      BY <1>a, <2>3 DEF SeeTimerOn, SeeTimerOff, InitLocalApic, InitGdt
    <3> QED
      BY <2>1, <3>1, CountFrame DEF Started, CalibratedAPs, RunningAPs, Calibrated
  <2>4. CASE SeeValue(a)
    <3>1. Within({"wait_value", "count_adjusted"})
      BY <1>a, <2>4 DEF SeeValue
    <3> QED
      BY <2>1, <3>1, CountFrame DEF Started, CalibratedAPs, RunningAPs, Calibrated
  <2> QED
    BY <1>1, <2>2, <2>3, <2>4
<1>2. CASE CountStarted(a)
  <2>1. pc[a] = "init" /\ pc' = [pc EXCEPT ![a] = "wait_true"] /\ count' = count + 1 /\ UNCHANGED <<bpc, len>>
    BY <1>2 DEF CountStarted
  <2>2. a \notin Started /\ Started' = Started \cup {a}
    BY <1>a, <2>1 DEF Started
  <2>3. Cardinality(Started') = Cardinality(Started) + 1
    BY <1>b, <2>2, OneMore
  <2>4. CASE bpc \in Early
    BY <1>2, <2>1, <2>3, <2>4 DEF CountStarted, CountInv, Early
  <2>5. CASE bpc \notin Early
    <3>1. stray' # {}
      BY <1>2, <2>5 DEF CountStarted, Early
    <3> QED
      BY <3>1 DEF CountInv
  <2> QED
    BY <2>4, <2>5
<1>3. CASE CountCalibrated(a)
  <2>1. /\ pc[a] = "count_calibrated" /\ pc' = [pc EXCEPT ![a] = "wait_value"] /\ count' = count + 1
        /\ UNCHANGED <<bpc, len, stray>>
    BY <1>3 DEF CountCalibrated
  <2>2. /\ a \in Started /\ UNCHANGED <<Started, RunningAPs>>
        /\ a \notin CalibratedAPs /\ CalibratedAPs' = CalibratedAPs \cup {a}
    BY <1>a, <2>1 DEF Started, CalibratedAPs, RunningAPs, Calibrated
  <2>3. Cardinality(CalibratedAPs') = Cardinality(CalibratedAPs) + 1
    BY <1>b, <2>2, OneMore
  <2>4. bpc \notin BeforeTimer
    BY <2>1, <2>2 DEF PhaseInv
  <2> QED
    BY <1>b, <2>1, <2>2, <2>3, <2>4 DEF CountInv, BeforeTimer, Early
<1>4. CASE CountAdjusted(a)
  <2>1. /\ pc[a] = "count_adjusted" /\ pc' = [pc EXCEPT ![a] = "running"] /\ count' = count + 1
        /\ UNCHANGED <<bpc, len, stray>>
    BY <1>4 DEF CountAdjusted
  <2>2. /\ a \in Started /\ UNCHANGED <<Started, CalibratedAPs>>
        /\ a \notin RunningAPs /\ RunningAPs' = RunningAPs \cup {a}
    BY <1>a, <2>1 DEF Started, CalibratedAPs, RunningAPs, Calibrated
  <2>3. Cardinality(RunningAPs') = Cardinality(RunningAPs) + 1
    BY <1>b, <2>2, OneMore
  <2>4. bpc \notin BeforeTimer
    BY <2>1, <2>2 DEF PhaseInv
  <2> QED
    BY <1>b, <2>1, <2>2, <2>3, <2>4 DEF CountInv, BeforeTimer, Early
<1> QED
  BY <1>1, <1>2, <1>3, <1>4 DEF Ap, Trampoline, ApInit

\* The BSP passes a barrier when the count says that everybody is through.
LEMMA CountBsp ==
  ASSUME TypeOK, PhaseInv, CountInv, Bsp
  PROVE  CountInv'
<1> USE DEF handVars, bspVars, apVars, histVars
<1>a. /\ Started \in SUBSET APs /\ CalibratedAPs \in SUBSET Started /\ RunningAPs \in SUBSET CalibratedAPs
      /\ count \in Nat /\ len \in Nat /\ bpc \in BspLabels
  BY DEF Started, CalibratedAPs, RunningAPs, Calibrated, TypeOK
<1>b. /\ Cardinality(CalibratedAPs) \in Nat /\ Cardinality(RunningAPs) \in Nat
      /\ Cardinality(Started) \in Nat
  BY <1>a, CardinalityOfAPs
<1>1. ASSUME NEW from, NEW to, Sipi(from, to), from \in Early, to \in Early
      PROVE  CountInv'
  <2>1. UNCHANGED <<Started, stray, count>> /\ bpc \in Early /\ bpc' \in Early
    BY <1>1 DEF Sipi, Started
  <2> QED
    BY <2>1 DEF CountInv, Early
<1>3. CASE AllStarted \/ StartTimeout
  <2>1. /\ bpc = "wait_start" /\ bpc' = "reset" /\ len' = count
        /\ UNCHANGED <<count, stray, pc>>
    BY <1>3 DEF AllStarted, StartTimeout
  <2>2. UNCHANGED Started
    BY <2>1 DEF Started
  <2> QED
    BY <2>1, <2>2 DEF CountInv, Early
<1>4. CASE Reset
  <2>1. bpc = "reset" /\ bpc' = "timer_on" /\ count' = 0 /\ UNCHANGED <<len, stray, pc>>
    BY <1>4 DEF Reset
  <2>2. CalibratedAPs' = {} /\ RunningAPs' = {} /\ Started' = Started
    BY <2>1 DEF PhaseInv, Started, CalibratedAPs, RunningAPs, BeforeTimer, Calibrated
  <2>3. Cardinality(CalibratedAPs') = 0 /\ Cardinality(RunningAPs') = 0
    BY <2>2, FS_EmptySet
  <2> QED
    BY <2>1, <2>2, <2>3 DEF CountInv, Early
<1>5. CASE TimerOn \/ TimerOff
  <2>1. /\ bpc \in {"timer_on", "timer_off"} /\ bpc' \in {"timer_off", "wait_calibrated"}
        /\ UNCHANGED <<count, len, stray, pc>>
    BY <1>5 DEF TimerOn, TimerOff
  <2>2. UNCHANGED <<Started, CalibratedAPs, RunningAPs>>
    BY <2>1 DEF Started, CalibratedAPs, RunningAPs
  <2> QED
    BY <2>1, <2>2 DEF CountInv, Early
<1>6. CASE Publish
  <2>1. /\ bpc = "wait_calibrated" /\ count >= len /\ bpc' = "wait_adjusted"
        /\ UNCHANGED <<count, len, stray, pc>>
    BY <1>6 DEF Publish
  <2>2. UNCHANGED <<Started, CalibratedAPs, RunningAPs>>
    BY <2>1 DEF Started, CalibratedAPs, RunningAPs
  <2>3. RunningAPs = {}
    BY <2>1 DEF PhaseInv, Started, RunningAPs
  <2>4. Cardinality(RunningAPs) = 0
    BY <2>3, FS_EmptySet
  <2>5. stray = {} => Cardinality(CalibratedAPs) >= Cardinality(Started)
    BY <1>b, <2>1, <2>4 DEF CountInv, Early
  <2>6. stray = {} => CalibratedAPs = Started
    BY <1>a, <2>5, AllOfThem
  <2> QED
    BY <2>1, <2>2, <2>6 DEF CountInv, Early
<1>7. CASE Complete
  <2>1. bpc = "wait_adjusted" /\ count >= 2 * len /\ bpc' = "done" /\ UNCHANGED <<len, stray, pc>>
    BY <1>7 DEF Complete
  <2>2. UNCHANGED <<Started, CalibratedAPs, RunningAPs>>
    BY <2>1 DEF Started, CalibratedAPs, RunningAPs
  <2>3. stray = {} => CalibratedAPs = Started /\ Cardinality(RunningAPs) >= Cardinality(Started)
    BY <1>b, <2>1 DEF CountInv, Early
  <2>4. stray = {} => RunningAPs = Started
    BY <1>a, <2>3, AllOfThem
  <2> QED
    BY <2>1, <2>2, <2>3, <2>4 DEF CountInv, Early
<1> QED
  BY <1>1, <1>3, <1>4, <1>5, <1>6, <1>7 DEF Bsp, Early

LEMMA BarrierStep == StackInv /\ BarrierInv /\ [Next]_vars => BarrierInv'
<1> SUFFICES ASSUME TypeOK, PhaseInv, CountInv, [Next]_vars
             PROVE  PhaseInv' /\ CountInv'
  BY DEF StackInv, BarrierInv
<1>1. CASE UNCHANGED vars
  <2>1. UNCHANGED <<timer, value, bpc, stray, window, pc, gdt, count, len>>
    BY <1>1 DEF vars, handVars, bspVars, apVars, histVars
  <2>2. UNCHANGED <<Started, CalibratedAPs, RunningAPs>>
    BY <2>1 DEF Started, CalibratedAPs, RunningAPs
  <2> QED
    BY <2>1, <2>2, CountFrame DEF PhaseInv
<1> QED
  BY <1>1, PhaseAp, PhaseBsp, CountAp, CountBsp DEF Next, Over

\* initialized_core_count is the barrier of all three phases although it is reset
\* in between: who counted in time has seen the whole window, and without a
\* straggler the time stamp is published, and init_ap returns, only when every
\* started processor is through.
THEOREM CounterStaysBarrier == Spec => []CounterIsBarrier
<1>1. StackInv /\ BarrierInv => CounterIsBarrier
  <2> SUFFICES ASSUME TypeOK, PhaseInv, CountInv
               PROVE  CounterIsBarrier
    BY DEF StackInv, BarrierInv
  <2>1. ASSUME NEW a \in APs \ stray, pc[a] \in Calibrated
        PROVE  a \in window
    <3>1. a \in Started /\ pc[a] # "wait_true"
      BY <2>1 DEF Started, Calibrated
    <3>2. bpc \in AfterTimer
      BY <3>1 DEF PhaseInv, BeforeTimer, AfterTimer, Early, TypeOK, BspLabels
    <3> QED
      BY <2>1, <3>1, <3>2 DEF PhaseInv
  <2>2. ASSUME stray = {}, bpc \in {"wait_adjusted", "done"}, NEW a \in Started
        PROVE  pc[a] \in Calibrated /\ gdt[a]
    BY <2>2 DEF PhaseInv, CountInv, CalibratedAPs
  <2>3. ASSUME stray = {}, bpc = "done", NEW a \in Started
        PROVE  pc[a] = "running"
    BY <2>3 DEF CountInv, RunningAPs
  <2> QED
    BY <2>1, <2>2, <2>3 DEF CounterIsBarrier
<1> QED
  BY <1>1, StackInit, StackStep, BarrierInit, BarrierStep, PTL DEF Spec

\* A processor that missed the calibration window.
Missed(a) ==
  /\ bpc \in {"wait_calibrated", "wait_adjusted", "done"}
  /\ pc[a] \in {"wait_sipi", "scan", "cas", "init", "wait_true", "dead", "wild"}

\* `timer' is set once: a processor that has not seen it set by the time it is
\* cleared never gets to its executor, however long the system runs.
THEOREM StragglersNeverRun ==
  ASSUME NEW a \in APs
  PROVE  Spec => [](Missed(a) => [](pc[a] # "running"))
<1>1. PhaseInv /\ TypeOK /\ Missed(a) /\ [Next]_vars => Missed(a)'
  <2> SUFFICES ASSUME PhaseInv, TypeOK, Missed(a), [Next]_vars
               PROVE  Missed(a)'
    OBVIOUS
  <2> USE DEF Missed, handVars, bspVars, apVars, histVars
  <2>1. ~ timer /\ pc \in [APs -> ApLabels]
    BY DEF PhaseInv, TypeOK
  <2>2. CASE Bsp
    BY <2>2 DEF Bsp, Sipi, AllStarted, StartTimeout, Reset, TimerOn, TimerOff, Publish, Complete
  <2>3. ASSUME NEW b \in APs, Ap(b)
        PROVE  Missed(a)'
    <3>1. bpc' = bpc /\ \A d \in APs \ {b} : pc'[d] = pc[d]
      <4>1. CASE Trampoline(b)
        BY <2>1, <4>1 DEF Trampoline, Scan, Cas, Goto
      <4>2. CASE ApInit(b)
        BY <2>1, <4>2 DEF ApInit, CountStarted, SeeTimerOn, SeeTimerOff, InitLocalApic, InitGdt,
           CountCalibrated, SeeValue, CountAdjusted, Goto
      <4> QED
        BY <2>3, <4>1, <4>2 DEF Ap
    <3>2. CASE b = a
      <4>1. CASE Trampoline(a)
        BY <2>1, <4>1 DEF Trampoline, Scan, Cas, Goto
      <4>2. CASE ApInit(a)
        BY <2>1, <4>2 DEF ApInit, CountStarted, SeeTimerOn, SeeTimerOff, InitLocalApic, InitGdt,
           CountCalibrated, SeeValue, CountAdjusted, Goto
      <4> QED
        BY <2>3, <3>2, <4>1, <4>2 DEF Ap
    <3> QED
      BY <3>1, <3>2
  <2> QED
    BY <2>2, <2>3 DEF Next, Over, vars
<1>2. Missed(a) => pc[a] # "running"
  BY DEF Missed
<1>3. StackInv /\ BarrierInv => TypeOK /\ PhaseInv
  BY DEF StackInv, BarrierInv
<1> QED
  BY <1>1, <1>2, <1>3, StackInit, StackStep, BarrierInit, BarrierStep, PTL DEF Spec
=============================================================================
