---------------------------- MODULE MemoryProofs ----------------------------
(***************************************************************************)
(* Proofs about memory: how it passes from the firmware to the kernel      *)
(* (BootMemory), and how long a core may use page tables that another one  *)
(* has replaced (PagingUpdate).                                            *)
(***************************************************************************)
EXTENDS BootMemory, PagingUpdate, FiniteSetTheorems, TLAPS

\* Leaves are for the SMT solver unless they say otherwise, with time to spare.
USE SMTT(30)

(***************************************************************************)
(* Proofs about BootMemory, for any pages, any memory map at power on and  *)
(* any number of changes the firmware makes to it.                         *)
(***************************************************************************)

LateSteps == {"acpi", "gdt", "trampoline", "done", "panic"}
Steps == {"memory_map", "loop", "query", "get_map", "exit", "paging", "add_free"} \cup LateSteps

TypeInv ==
  /\ ty \in [Pages -> Types] /\ key \in Nat /\ events \in Nat
  /\ image \subseteq Pages /\ fw \in Pages /\ heap \in [Pages -> Nat]
  /\ map \in [ty : [Pages -> Types], key : Nat, cap : Nat] /\ asked \in Nat /\ tries \in Nat
  /\ at \in Steps

\* Who a page belongs to: the boot services' are the kernel's only at the end.
PageInv ==
  /\ \A p \in image : ty[p] = "loader" /\ heap[p] = 0
  /\ ty[fw] = "boot"
  /\ \A p \in Pages : heap[p] <= 1
  /\ \A p \in Pages : heap[p] > 0 =>
       p >= Offset /\ (ty[p] = "loader" \/ (ty[p] = "boot" /\ cr3 = "os" /\ at \in LateSteps))

\* How far main has come: what the kernel has of its own by then.
MainInv ==
  /\ cr3 = "os" => /\ at \in LateSteps \cup {"add_free"} /\ map.ty = ty
                   /\ \A p \in Pages : ty[p] # "hole" => p \in mapped
  /\ at \in {"add_free", "acpi", "gdt", "trampoline", "done"} => cr3 = "os"
  /\ at \in {"trampoline", "done"} => gdtr = "os"
  /\ at \notin {"memory_map", "loop", "panic"} => switched
  /\ at = "done" => TrampPages \cap Of("runtime", map.ty) = {}

\* A key names one map.
KeyInv ==
  /\ map.key <= key
  /\ map.key = key => map.ty = ty
  /\ at = "paging" => map.key = key

\* Every round that failed is paid for by a change of the map since its size was
\* asked for, and so is every pair of descriptors by which the map has grown.
TryInv ==
  /\ asked <= events /\ tries <= events - asked
  /\ at \in {"memory_map", "loop", "query"} => tries = 0
  /\ at \in {"get_map", "exit"} =>
       tries < Attempts /\ Descriptors(ty) + Extra <= map.cap + 2 * (events - asked)
  /\ at = "exit" /\ map.key # key => tries + 1 <= events - asked

IInv == TypeInv /\ PageInv /\ MainInv /\ KeyInv /\ TryInv

-----------------------------------------------------------------------------
(* Descriptors *)

Starts(m) == {p \in Pages : m[p] # "hole" /\ (p = 0 \/ m[p] # m[p - 1])}

\* The descriptors of a map are a number.
LEMMA DescriptorsType ==
  ASSUME NEW m
  PROVE  IsFiniteSet(Starts(m)) /\ Descriptors(m) = Cardinality(Starts(m)) /\ Descriptors(m) \in Nat
<1>1. IsFiniteSet(Pages)
  BY FS_Interval, MemoryAssumption DEF Pages
<1>2. IsFiniteSet(Starts(m))
  <2>1. Starts(m) \subseteq Pages
    BY DEF Starts
  <2> QED
    BY <1>1, <2>1, FS_Subset
<1>3. Cardinality(Starts(m)) \in Nat
  BY <1>2, FS_CardinalityType
<1> QED
  BY <1>2, <1>3 DEF Descriptors, Starts

\* A page of another type adds at most two descriptors: its own, and the rest of
\* the run it was taken from.
LEMMA TwoMoreDescriptors ==
  ASSUME NEW m \in [Pages -> Types], NEW p \in Pages, NEW t \in Types,
         NEW n, n = [q \in Pages |-> IF q \in {p} THEN t ELSE m[q]]
  PROVE  Descriptors(n) <= Descriptors(m) + 2
<1> DEFINE S == Starts(m)
<1> DEFINE T == (S \cup {p}) \cup {p + 1}
<1>1. Starts(n) \subseteq T
  <2> SUFFICES ASSUME NEW q \in Starts(n), q # p, q # p + 1 PROVE q \in S
    OBVIOUS
  <2>1. q \in Pages /\ q \in Int /\ p \in Int /\ n[q] = m[q] /\ n[q] # "hole" /\ (q = 0 \/ n[q] # n[q - 1])
    BY DEF Starts, Pages
  <2>2. CASE q = 0
    BY <2>1, <2>2 DEF Starts
  <2>3. CASE q # 0
    <3>1. q - 1 \in Pages /\ q - 1 # p
      BY <2>1, <2>3, MemoryAssumption DEF Pages
    <3>2. n[q - 1] = m[q - 1]
      BY <3>1
    <3> QED
      BY <2>1, <2>3, <3>2 DEF Starts
  <2> QED
    BY <2>2, <2>3
<1>2. IsFiniteSet(S) /\ Cardinality(S) \in Nat /\ Descriptors(m) = Cardinality(S)
  BY DescriptorsType
<1> HIDE DEF S
<1> DEFINE U == S \cup {p}
<1>3. IsFiniteSet(U) /\ Cardinality(U) \in Nat /\ Cardinality(U) <= Cardinality(S) + 1
  <2>1. IsFiniteSet(U) /\ Cardinality(U) = IF p \in S THEN Cardinality(S) ELSE Cardinality(S) + 1
    BY <1>2, FS_AddElement
  <2> HIDE DEF U
  <2> QED
    BY <1>2, <2>1
<1> HIDE DEF U
<1>4. IsFiniteSet(T) /\ Cardinality(T) \in Nat /\ Cardinality(T) <= Cardinality(U) + 1
  <2> DEFINE V == U \cup {p + 1}
  <2>1. IsFiniteSet(V) /\ Cardinality(V) = IF p + 1 \in U THEN Cardinality(U) ELSE Cardinality(U) + 1
    BY <1>3, FS_AddElement
  <2>2. V = T
    BY DEF U
  <2> HIDE DEF V, T
  <2> QED
    BY <1>3, <2>1, <2>2
<1> HIDE DEF T
<1>5. Cardinality(Starts(n)) <= Cardinality(T)
  BY <1>1, <1>4, FS_Subset
<1>6. Cardinality(Starts(n)) = Descriptors(n) /\ Descriptors(n) \in Nat
  BY DescriptorsType
<1> QED
  BY <1>2, <1>3, <1>4, <1>5, <1>6

-----------------------------------------------------------------------------
LEMMA InvInit == MemInit => IInv
<1> SUFFICES ASSUME MemInit PROVE IInv
  OBVIOUS
<1>1. TypeInv
  BY MemoryAssumption DEF MemInit, TypeInv, Steps, LateSteps
<1>2. PageInv
  BY DEF MemInit, PageInv
<1>3. MainInv
  BY DEF MemInit, MainInv
<1>4. KeyInv
  BY DEF MemInit, KeyInv
<1>5. TryInv
  BY DEF MemInit, TryInv
<1> QED
  BY <1>1, <1>2, <1>3, <1>4, <1>5 DEF IInv

\* An event takes pages that are free or returns pages of the boot services; until
\* then neither is in the heap.
LEMMA InvFirmware == ASSUME IInv, FirmwareEvent PROVE IInv'
<1> USE DEF IInv
<1>1. PICK p \in Pages, t \in {"boot", "conv"} :
        Retyped({p}, t) /\ ty[p] \in {"boot", "conv"} /\ p # fw
  <2>1. PICK p \in Pages : \/ ty[p] = "conv" /\ Retyped({p}, "boot")
                           \/ ty[p] = "boot" /\ p # fw /\ Retyped({p}, "conv")
    BY DEF FirmwareEvent
  <2>2. p # fw
    BY <2>1 DEF PageInv
  <2> QED
    BY <2>1, <2>2
<1>2. /\ ty' = [q \in Pages |-> IF q \in {p} THEN t ELSE ty[q]] /\ key' = key + 1 /\ events' = events + 1
      /\ UNCHANGED <<image, fw, heap, switched, map, asked, tries, cr3, gdtr, mapped, at>>
  BY <1>1 DEF FirmwareEvent, Retyped, exitVars, cpuVars
<1>3. at \in {"memory_map", "loop", "query", "get_map", "exit"} /\ cr3 # "os"
  BY DEF FirmwareEvent, MainInv, LateSteps
<1>4. TypeInv'
  BY <1>2 DEF TypeInv, Types
<1>5. PageInv'
  <2>1. p \notin image /\ heap[p] = 0
    BY <1>1, <1>3 DEF PageInv, TypeInv
  <2>2. \A q \in Pages : q # p => ty'[q] = ty[q]
    BY <1>2
  <2> QED
    BY <1>1, <1>2, <1>3, <2>1, <2>2 DEF PageInv, TypeInv
<1>6. MainInv'
  BY <1>2, <1>3 DEF MainInv
<1>7. KeyInv'
  BY <1>2, <1>3 DEF KeyInv, TypeInv
<1>8. TryInv'
  <2>1. Descriptors(ty') <= Descriptors(ty) + 2
    BY <1>2, TwoMoreDescriptors, ZenonT(30) DEF TypeInv, Types
  <2>2. Descriptors(ty) \in Nat /\ Descriptors(ty') \in Nat
    BY DescriptorsType
  <2>3. map.cap \in Nat /\ Extra \in Nat /\ events \in Nat /\ asked \in Nat /\ tries \in Nat
    BY MemoryAssumption DEF TypeInv
  <2>4. at \in {"get_map", "exit"} => Descriptors(ty') + Extra <= map.cap + 2 * (events' - asked)
    BY <1>2, <2>1, <2>2, <2>3 DEF TryInv
  <2> QED
    BY <1>2, <1>3, <2>3, <2>4 DEF TryInv
<1> QED
  BY <1>4, <1>5, <1>6, <1>7, <1>8

\* MemoryMap and AllocateFails only move on: there is nothing of the firmware's yet.
LEMMA InvLoop == ASSUME IInv, MemoryMap \/ AllocateFails PROVE IInv'
<1> USE DEF IInv
<1>1. /\ UNCHANGED <<ty, key, events, image, fw, heap, map, asked, tries, cr3, gdtr, mapped>>
      /\ at \in {"memory_map", "loop"} /\ at' \in {"loop", "query", "panic"}
      /\ at' = "query" => switched'
  BY ZenonT(30) DEF MemoryMap, AllocateFails, fwVars, exitVars, cpuVars
<1>2. TypeInv'
  BY <1>1 DEF TypeInv, Steps, LateSteps
<1>3. PageInv'
  BY <1>1 DEF PageInv, LateSteps
<1>4. MainInv'
  BY <1>1 DEF MainInv, LateSteps
<1>5. KeyInv'
  BY <1>1 DEF KeyInv
<1>6. TryInv'
  BY <1>1 DEF TryInv
<1> QED
  BY <1>2, <1>3, <1>4, <1>5, <1>6

\* Pages that are claimed were not in the heap, and go up by one.
LEMMA ClaimOnce ==
  ASSUME TypeInv, NEW S, heap' = Claim(S), \A p \in Pages : p \in S => heap[p] = 0,
         \A p \in Pages : heap[p] <= 1
  PROVE  /\ heap' \in [Pages -> Nat]
         /\ \A p \in Pages : heap'[p] <= 1
         /\ \A p \in Pages : p \notin S => heap'[p] = heap[p]
         /\ \A p \in Pages : p \in S /\ heap'[p] > 0 => p >= Offset
<1>1. \A p \in Pages : heap'[p] = heap[p] + IF p \in S /\ p >= Offset THEN 1 ELSE 0
  BY DEF Claim
<1>2. \A p \in Pages : heap[p] \in Nat
  BY DEF TypeInv
<1>3. heap' \in [Pages -> Nat]
  BY <1>2 DEF Claim
<1> QED
  BY <1>1, <1>2, <1>3

\* What allocate_pages returns was free: in nobody's hands.
LEMMA InvAllocate == ASSUME IInv, AllocatePages PROVE IInv'
<1> USE DEF IInv
<1>1. PICK got \in SUBSET Of("conv", ty) : Retyped(got, "loader") /\ heap' = Claim(got)
  BY ZenonT(30) DEF AllocatePages, Room
<1>2. /\ ty' = [p \in Pages |-> IF p \in got THEN "loader" ELSE ty[p]] /\ key' = key + 1
      /\ UNCHANGED <<events, image, fw, switched, map, asked, tries, cr3, gdtr, mapped, at>>
      /\ at = "loop"
  BY <1>1 DEF AllocatePages, Retyped, exitVars, cpuVars
<1>3. cr3 # "os"
  BY <1>2 DEF MainInv, LateSteps
<1>4. \A p \in Pages : p \in got => ty[p] = "conv" /\ heap[p] = 0
  BY <1>1, <1>3 DEF Of, PageInv, TypeInv
<1>5. /\ heap' \in [Pages -> Nat] /\ \A p \in Pages : heap'[p] <= 1
      /\ \A p \in Pages : p \notin got => heap'[p] = heap[p]
      /\ \A p \in Pages : p \in got /\ heap'[p] > 0 => p >= Offset
  BY <1>1, <1>4, ClaimOnce DEF PageInv
<1>6. TypeInv'
  BY <1>2, <1>5 DEF TypeInv, Types
<1>7. PageInv'
  <2>1. \A p \in image : p \in Pages /\ p \notin got
    BY <1>4 DEF PageInv, TypeInv
  <2>2. fw \in Pages /\ fw \notin got
    BY <1>4 DEF PageInv, TypeInv
  <2>3. \A p \in Pages : ty'[p] = IF p \in got THEN "loader" ELSE ty[p]
    BY <1>2
  <2> QED
    BY <1>2, <1>5, <2>1, <2>2, <2>3 DEF PageInv
<1>8. MainInv'
  BY <1>2, <1>3 DEF MainInv
<1>9. KeyInv'
  BY <1>2 DEF KeyInv, TypeInv
<1>10. TryInv'
  BY <1>2 DEF TryInv
<1> QED
  BY <1>6, <1>7, <1>8, <1>9, <1>10

LEMMA InvQuery == ASSUME IInv, QuerySize PROVE IInv'
<1> USE DEF IInv
<1>1. /\ UNCHANGED <<ty, key, events, image, fw, heap, switched, tries, cr3, gdtr, mapped>>
      /\ at = "query" /\ at' \in {"get_map", "panic"}
      /\ map' = [map EXCEPT !.cap = Descriptors(ty) + Extra] /\ asked' = events
  BY DEF QuerySize, fwVars, cpuVars
<1>2. Descriptors(ty) \in Nat /\ Extra \in Nat
  BY DescriptorsType, MemoryAssumption
<1>3. /\ map' \in [ty : [Pages -> Types], key : Nat, cap : Nat]
      /\ map'.ty = map.ty /\ map'.key = map.key /\ map'.cap = Descriptors(ty) + Extra
  BY <1>1, <1>2 DEF TypeInv
<1>4. TypeInv'
  BY <1>1, <1>3 DEF TypeInv, Steps, LateSteps
<1>5. PageInv'
  BY <1>1 DEF PageInv, LateSteps
<1>6. MainInv'
  BY <1>1, <1>3 DEF MainInv, LateSteps
<1>7. KeyInv'
  BY <1>1, <1>3 DEF KeyInv
<1>8. TryInv'
  BY <1>1, <1>2, <1>3 DEF TryInv, Attempts, TypeInv
<1> QED
  BY <1>4, <1>5, <1>6, <1>7, <1>8

\* The map in the buffer is the one the key belongs to.  A map that does not fit
\* has grown by more than Extra descriptors.
LEMMA InvGetMap == ASSUME IInv, GetMap PROVE IInv'
<1> USE DEF IInv
<1>1. /\ UNCHANGED <<ty, key, events, image, fw, heap, switched, asked, cr3, gdtr, mapped>>
      /\ at = "get_map"
  BY DEF GetMap, fwVars, cpuVars
<1>2. cr3 # "os" /\ switched
  BY <1>1 DEF MainInv, LateSteps
<1>3. /\ map.key \in Nat /\ map.cap \in Nat /\ key \in Nat /\ ty \in [Pages -> Types]
      /\ Descriptors(ty) \in Nat /\ Extra \in Nat /\ Extra >= 4 /\ tries \in Nat
      /\ events \in Nat /\ asked \in Nat
  BY DescriptorsType, MemoryAssumption DEF TypeInv, Attempts
<1>4. CASE Descriptors(ty) <= map.cap
  <2>1. map' = [map EXCEPT !.ty = ty, !.key = key] /\ at' = "exit" /\ tries' = tries
    BY <1>4 DEF GetMap
  <2>2. /\ map' \in [ty : [Pages -> Types], key : Nat, cap : Nat]
        /\ map'.ty = ty /\ map'.key = key /\ map'.cap = map.cap
    BY <1>3, <2>1, ZenonT(30) DEF TypeInv
  <2>3. TypeInv'
    BY <1>1, <2>1, <2>2 DEF TypeInv, Steps, LateSteps
  <2>4. PageInv'
    BY <1>1, <1>2, <2>1 DEF PageInv, LateSteps
  <2>5. MainInv'
    BY <1>1, <1>2, <2>1 DEF MainInv, LateSteps
  <2>6. KeyInv'
    BY <1>1, <1>3, <2>1, <2>2 DEF KeyInv
  <2>7. TryInv'
    BY <1>1, <1>3, <2>1, <2>2 DEF TryInv
  <2> QED
    BY <2>3, <2>4, <2>5, <2>6, <2>7
<1>5. CASE ~ (Descriptors(ty) <= map.cap)
  <2>1. map' = map /\ tries' = tries + 1 /\ at' = IF tries' = Attempts THEN "panic" ELSE "get_map"
    BY <1>5 DEF GetMap, NextTry
  <2>2. tries < 3 /\ events - asked >= 3
    BY <1>1, <1>3, <1>5 DEF TryInv, Attempts
  <2>3. TypeInv'
    BY <1>1, <1>3, <2>1 DEF TypeInv, Steps, LateSteps
  <2>4. PageInv'
    BY <1>1, <1>2, <2>1 DEF PageInv, LateSteps
  <2>5. MainInv'
    BY <1>1, <1>2, <2>1 DEF MainInv, LateSteps
  <2>6. KeyInv'
    BY <1>1, <2>1 DEF KeyInv
  <2>7. TryInv'
    BY <1>1, <1>3, <2>1, <2>2 DEF TryInv, Attempts
  <2> QED
    BY <2>3, <2>4, <2>5, <2>6, <2>7
<1> QED
  BY <1>4, <1>5

\* Boot services end with the map in force, or a change of it is one round.
LEMMA InvExit == ASSUME IInv, ExitBootServices PROVE IInv'
<1> USE DEF IInv
<1>1. /\ UNCHANGED <<ty, key, events, image, fw, heap, switched, map, asked, cr3, gdtr, mapped>>
      /\ at = "exit"
      /\ \/ map.key = key /\ at' = "paging" /\ tries' = tries
         \/ map.key # key /\ tries' = tries + 1 /\ at' = IF tries' = Attempts THEN "panic" ELSE "get_map"
  BY DEF ExitBootServices, NextTry, fwVars, cpuVars
<1>2. cr3 # "os" /\ switched
  BY <1>1 DEF MainInv, LateSteps
<1>3. /\ Descriptors(ty) \in Nat /\ Extra \in Nat /\ tries \in Nat /\ map.cap \in Nat
      /\ events \in Nat /\ asked \in Nat
  BY DescriptorsType, MemoryAssumption DEF TypeInv
<1>4. TypeInv'
  BY <1>1, <1>3 DEF TypeInv, Steps, LateSteps
<1>5. PageInv'
  BY <1>1, <1>2 DEF PageInv, LateSteps
<1>6. MainInv'
  BY <1>1, <1>2 DEF MainInv, LateSteps
<1>7. KeyInv'
  BY <1>1 DEF KeyInv
<1>8. TryInv'
  BY <1>1, <1>3 DEF TryInv, Attempts
<1> QED
  BY <1>4, <1>5, <1>6, <1>7, <1>8

\* Everything that has a descriptor is mapped by the new tables.
LEMMA InvPaging == ASSUME IInv, CreatePaging PROVE IInv'
<1> USE DEF IInv
<1>1. /\ UNCHANGED <<ty, key, events, image, fw, heap, switched, map, asked, tries, gdtr>>
      /\ at = "paging"
      /\ \/ /\ at' = "add_free" /\ cr3' = "os"
            /\ mapped' = {p \in Pages : \E q \in Pages : p <= q /\ map.ty[q] # "hole"}
         \/ at' = "panic" /\ cr3' = cr3 /\ mapped' = mapped
  BY ZenonT(30) DEF CreatePaging, fwVars, exitVars
<1>2. cr3 # "os" /\ switched /\ map.ty = ty
  BY <1>1 DEF MainInv, KeyInv, LateSteps
<1>3. \A p \in Pages : p <= p
  BY MemoryAssumption DEF Pages
<1>4. TypeInv'
  BY <1>1 DEF TypeInv, Steps, LateSteps
<1>5. PageInv'
  BY <1>1, <1>2, ZenonT(30) DEF PageInv, LateSteps
<1>6. MainInv'
  <2>1. cr3' = "os" => at' = "add_free" /\ \A p \in Pages : ty[p] # "hole" => p \in mapped'
    <3>1. CASE at' = "panic" /\ cr3' = cr3
      BY <1>2, <3>1
    <3>2. CASE at' = "add_free" /\ mapped' = {p \in Pages : \E q \in Pages : p <= q /\ map.ty[q] # "hole"}
      BY <1>2, <1>3, <3>2
    <3> QED
      BY <1>1, <3>1, <3>2
  <2>2. at' \in {"add_free", "panic"} /\ (at' = "add_free" => cr3' = "os")
    BY <1>1
  <2>3. switched' = switched /\ ty' = ty /\ map' = map
    BY <1>1
  <2> QED
    BY <1>2, <2>1, <2>2, <2>3 DEF MainInv, LateSteps
<1>7. KeyInv'
  BY <1>1 DEF KeyInv
<1>8. TryInv'
  BY <1>1 DEF TryInv
<1> QED
  BY <1>4, <1>5, <1>6, <1>7, <1>8

\* The second helping: pages of the boot services, which were in nobody's heap.
LEMMA InvAddBoot == ASSUME IInv, AddBootServices PROVE IInv'
<1> USE DEF IInv
<1> DEFINE S == Of("boot", map.ty)
<1>1. /\ UNCHANGED <<ty, key, events, image, fw, switched, map, asked, tries, cr3, gdtr, mapped>>
      /\ at = "add_free" /\ at' = "acpi" /\ heap' = Claim(S)
  BY DEF AddBootServices, fwVars, exitVars, cpuVars
<1>2. cr3 = "os" /\ map.ty = ty
  BY <1>1 DEF MainInv
<1>3. \A p \in Pages : p \in S => ty[p] = "boot" /\ heap[p] = 0
  BY <1>1, <1>2 DEF Of, PageInv, TypeInv, LateSteps
<1>4. /\ heap' \in [Pages -> Nat] /\ \A p \in Pages : heap'[p] <= 1
      /\ \A p \in Pages : p \notin S => heap'[p] = heap[p]
      /\ \A p \in Pages : p \in S /\ heap'[p] > 0 => p >= Offset
  BY <1>1, <1>3, ClaimOnce DEF PageInv
<1>5. TypeInv'
  BY <1>1, <1>4 DEF TypeInv, Steps, LateSteps
<1>6. PageInv'
  <2>1. \A p \in image : p \in Pages /\ p \notin S
    BY <1>3 DEF PageInv, TypeInv
  <2> HIDE DEF S
  <2>2. \A p \in image : ty'[p] = "loader" /\ heap'[p] = 0
    BY <1>1, <1>4, <2>1 DEF PageInv
  <2>3. ASSUME NEW p \in Pages, heap'[p] > 0
        PROVE  p >= Offset /\ (ty'[p] = "loader" \/ (ty'[p] = "boot" /\ cr3' = "os" /\ at' \in LateSteps))
    <3>1. CASE p \in S
      BY <1>1, <1>2, <1>3, <1>4, <2>3, <3>1 DEF LateSteps
    <3>2. CASE p \notin S
      <4>1. heap[p] > 0 /\ ty'[p] = ty[p] /\ cr3' = cr3
        BY <1>1, <1>4, <2>3, <3>2
      <4> QED
        BY <1>1, <4>1 DEF PageInv, LateSteps
    <3> QED
      BY <3>1, <3>2
  <2> QED
    BY <1>1, <1>4, <2>2, <2>3 DEF PageInv
<1>7. MainInv'
  BY <1>1, <1>2 DEF MainInv, LateSteps
<1>8. KeyInv'
  BY <1>1 DEF KeyInv
<1>9. TryInv'
  BY <1>1 DEF TryInv
<1> QED
  BY <1>5, <1>6, <1>7, <1>8, <1>9

\* After that nothing changes hands.
LEMMA InvTail == ASSUME IInv, GetAcpi \/ GdtInit \/ InitTrampoline PROVE IInv'
<1> USE DEF IInv
<1>1. /\ UNCHANGED <<ty, key, events, image, fw, heap, switched, map, asked, tries, cr3>>
      /\ mapped \subseteq mapped'
      /\ \/ at = "acpi" /\ at' \in {"gdt", "panic"} /\ gdtr' = gdtr
         \/ at = "gdt" /\ at' = "trampoline" /\ gdtr' = "os"
         \/ /\ at = "trampoline" /\ at' \in {"done", "panic"} /\ gdtr' = gdtr
            /\ at' = "done" => Of("runtime", map.ty) \cap TrampPages = {}
  <2>1. CASE GetAcpi
    BY <2>1 DEF GetAcpi, fwVars, exitVars, cpuVars
  <2>2. CASE GdtInit
    BY <2>2 DEF GdtInit, fwVars, exitVars
  <2>3. CASE InitTrampoline
    <3>1. UNCHANGED <<ty, key, events, image, fw, heap, switched, map, asked, tries, cr3, gdtr>>
      BY <2>3 DEF InitTrampoline, fwVars, exitVars
    <3>2. /\ mapped \subseteq mapped'
          /\ at = "trampoline" /\ at' \in {"done", "panic"}
          /\ at' = "done" => Of("runtime", map.ty) \cap TrampPages = {}
      BY <2>3 DEF InitTrampoline
    <3> QED
      BY <3>1, <3>2
  <2> QED
    BY <2>1, <2>2, <2>3, ZenonT(30)
<1>2. cr3 = "os" /\ switched
  BY <1>1 DEF MainInv
<1>3. TypeInv'
  BY <1>1 DEF TypeInv, Steps, LateSteps
<1>4. PageInv'
  BY <1>1, <1>2 DEF PageInv, LateSteps
<1>5. MainInv'
  BY <1>1, <1>2 DEF MainInv, LateSteps, Of
<1>6. KeyInv'
  BY <1>1 DEF KeyInv
<1>7. TryInv'
  BY <1>1 DEF TryInv
<1> QED
  BY <1>3, <1>4, <1>5, <1>6, <1>7

LEMMA InvStep == IInv /\ [MemNext]_memVars => IInv'
<1> SUFFICES ASSUME IInv, [MemNext]_memVars PROVE IInv'
  OBVIOUS
<1>1. CASE UNCHANGED memVars
  <2>1. UNCHANGED <<ty, key, events, image, fw, heap, switched, map, asked, tries, cr3, gdtr, mapped, at>>
    BY <1>1 DEF memVars, fwVars, exitVars, cpuVars
  <2>2. TypeInv' /\ PageInv'
    BY <2>1 DEF IInv, TypeInv, PageInv
  <2>3. MainInv'
    BY <2>1, ZenonT(30) DEF IInv, MainInv, Of
  <2>4. KeyInv' /\ TryInv'
    BY <2>1 DEF IInv, KeyInv, TryInv
  <2> QED
    BY <2>2, <2>3, <2>4 DEF IInv
<1>2. CASE Main
  BY <1>2, InvLoop, InvAllocate, InvQuery, InvGetMap, InvExit, InvPaging, InvAddBoot, InvTail DEF Main
<1> QED
  BY <1>1, <1>2, InvFirmware DEF MemNext, Ended

-----------------------------------------------------------------------------
\* change_allocator and exit_uefi together give the allocator every page at most
\* once, and none that is the program's own, the firmware's or unmapped.
THEOREM HeapKeepsToItsPages == MemSpec => []HeapOwnsItsPages
<1>1. IInv => HeapOwnsItsPages
  BY DEF IInv, TypeInv, PageInv, MainInv, HeapOwnsItsPages, InHeap
<1> QED
  BY <1>1, InvInit, InvStep, PTL DEF MemSpec

\* Neither the heap nor the trampoline takes a page that is still in use, but for
\* the firmware's descriptor tables during get_acpi and init_gdt.
THEOREM LiveMemoryIsKept == MemSpec => []NothingLiveOverwritten
<1>1. IInv => NothingLiveOverwritten
  <2> SUFFICES ASSUME IInv PROVE NothingLiveOverwritten
    OBVIOUS
  <2>1. ASSUME fw \in InHeap PROVE cr3 = "os" /\ (gdtr = "os" \/ at \in {"acpi", "gdt", "panic"})
    BY <2>1 DEF IInv, TypeInv, PageInv, MainInv, InHeap, LateSteps
  <2>2. TrampPages \cap InHeap = {}
    <3>1. \A p \in InHeap : p >= Offset
      BY DEF IInv, PageInv, InHeap
    <3>2. \A p \in TrampPages : p \in Int /\ ~ (p >= Offset)
      BY MemoryAssumption
    <3> QED
      BY <3>1, <3>2
  <2>3. at = "done" => TrampPages \cap Of("runtime", map.ty) = {}
    BY DEF IInv, MainInv
  <2> QED
    BY <2>1, <2>2, <2>3 DEF NothingLiveOverwritten
<1> QED
  BY <1>1, InvInit, InvStep, PTL DEF MemSpec

\* The three rounds of exit_boot_services_with_talc fail only through three changes
\* of the map, whatever the firmware does between its calls.
THEOREM ExitNeedsThreeChanges == MemSpec => []ExitFailsOnlyByChange
<1>1. IInv => ExitFailsOnlyByChange
  BY DEF IInv, TypeInv, MainInv, TryInv, ExitFailsOnlyByChange, Attempts
<1> QED
  BY <1>1, InvInit, InvStep, PTL DEF MemSpec

-----------------------------------------------------------------------------
(***************************************************************************)
(* Proofs about the updates of the page tables while the other cores run   *)
(* (PagingUpdate), for any number of cores and updates.                    *)
(*                                                                         *)
(* StaleOnlyUntilInterrupt becomes inductive with two facts about versions *)
(* (Made): every version so far has an author, and only tables of versions *)
(* so far are freed.  The argument: a core that runs, or is in "free", has *)
(* broadcast all its versions.                                             *)
(***************************************************************************)

Made ==
  /\ ver \in Nat /\ MaxUpdates \in Nat /\ ver <= MaxUpdates
  /\ \A v \in 1..ver : by[v] \in Cores
  /\ freed \subseteq 1..ver
  /\ DOMAIN by = Versions
  /\ tlb \in [Cores -> 0..ver]
  /\ irr \in [Cores -> SUBSET Vectors] /\ isr \in [Cores -> SUBSET Vectors]
  /\ DOMAIN pc = Cores

\* Versions have authors and are freed only once they exist, whatever is
\* updated, broadcast, delivered or given up.
LEMMA MadeInductive == (Init => Made) /\ (Made /\ [Next]_vars => Made')
<1>1. Init => Made
  BY UpdateAssumption DEF Init, Made, Versions, Vectors
<1>2. ASSUME Made, [Next]_vars PROVE Made'
  <2> USE <1>2 DEF Made, Goto, ToOthers, Versions, Vectors, Panicked, Update, Kick
  <2>1. CASE UNCHANGED vars
    BY <2>1 DEF vars, treeVars, apicVars
  <2>2. CASE Over
    BY <2>2 DEF Over, vars, treeVars, apicVars
  <2>3. ASSUME NEW c \in Cores, Cli(c) \/ Sti(c) \/ Panic(c) \/ Fault(c) PROVE Made'
    BY <2>3, ZenonT(30) DEF Cli, Sti, Panic, Fault, treeVars, apicVars
  <2>4. ASSUME NEW c \in Cores, NEW d \in Cores, SendKick(c, d) PROVE Made'
    BY <2>4 DEF SendKick, treeVars
  <2>5. ASSUME NEW c \in Cores, UpdatePaging(c) PROVE Made'
    BY <2>5 DEF UpdatePaging, apicVars
  <2>6. ASSUME NEW c \in Cores, BroadcastUpdate(c) \/ BroadcastPanic(c) PROVE Made'
    <3>1. PICK v \in Vectors : ToOthers(c, v)
      BY <2>6 DEF BroadcastUpdate, BroadcastPanic
    <3>2. UNCHANGED <<ver, by, freed, tlb, isr>> /\ DOMAIN pc' = Cores
      BY <2>6 DEF BroadcastUpdate, BroadcastPanic, treeVars
    <3> QED BY <3>1, <3>2
  <2>7. ASSUME NEW c \in Cores, FreeReplaced(c) PROVE Made'
    BY <2>7, ZenonT(30) DEF FreeReplaced, apicVars
  <2>8. ASSUME NEW c \in Cores, PanicHandler(c) PROVE Made'
    BY <2>8 DEF PanicHandler, Delivers, treeVars
  <2>9. ASSUME NEW c \in Cores, UpdatePagingHandle(c) PROVE Made'
    BY <2>9 DEF UpdatePagingHandle, Delivers, treeVars
  <2>10. ASSUME NEW c \in Cores, DummyInterrupt(c) PROVE Made'
    BY <2>10 DEF DummyInterrupt, Delivers, AfterEoi, treeVars
  <2> QED
    BY <2>1, <2>2, <2>3, <2>4, <2>5, <2>6, <2>7, <2>8, <2>9, <2>10, ZenonT(30) DEF Next, Step, Continue, Interrupt
<1> QED BY <1>1, <1>2

\* A core uses tables older than another core's update only while interrupt 33
\* is pending at it or the author has not come to broadcast_fixed_ipi(33).
THEOREM StaleUntilInterrupt == Spec => []StaleOnlyUntilInterrupt
<1>1. Init => StaleOnlyUntilInterrupt
  BY DEF Init, StaleOnlyUntilInterrupt
<1>2. ASSUME Made, Made', StaleOnlyUntilInterrupt, [Next]_vars PROVE StaleOnlyUntilInterrupt'
  <2> USE <1>2 DEF Made, StaleOnlyUntilInterrupt, Goto, ToOthers, Versions
  <2>1. CASE UNCHANGED vars
    BY <2>1 DEF vars, treeVars, apicVars
  <2>2. CASE Over
    BY <2>2 DEF Over, vars, treeVars, apicVars
  <2>3. ASSUME NEW c \in Cores, Cli(c) \/ Sti(c) \/ Panic(c) \/ Fault(c) PROVE StaleOnlyUntilInterrupt'
    <3>1. CASE Cli(c) \/ Sti(c)
      BY <3>1, ZenonT(30) DEF Cli, Sti, treeVars, apicVars
    <3>2. CASE Panic(c)
      BY <3>2, ZenonT(30) DEF Panic, treeVars, apicVars
    <3>3. CASE Fault(c)
      BY <3>3, ZenonT(30) DEF Fault, treeVars, apicVars
    <3> QED
      BY <2>3, <3>1, <3>2, <3>3, ZenonT(30)
  <2>4. ASSUME NEW c \in Cores, NEW d \in Cores, SendKick(c, d) PROVE StaleOnlyUntilInterrupt'
    BY <2>4 DEF SendKick, treeVars
  \* The author was running, so its earlier versions are pending everywhere.
  <2>5. ASSUME NEW c \in Cores, UpdatePaging(c) PROVE StaleOnlyUntilInterrupt'
    BY <2>5 DEF UpdatePaging, apicVars
  <2>6. ASSUME NEW c \in Cores, BroadcastUpdate(c) PROVE StaleOnlyUntilInterrupt'
    BY <2>6 DEF BroadcastUpdate, treeVars
  <2>11. ASSUME NEW c \in Cores, BroadcastPanic(c) PROVE StaleOnlyUntilInterrupt'
    BY <2>11 DEF BroadcastPanic, treeVars
  \* So are all versions of a core that frees.
  <2>7. ASSUME NEW c \in Cores, FreeReplaced(c) PROVE StaleOnlyUntilInterrupt'
    BY <2>7 DEF FreeReplaced, apicVars
  <2>8. ASSUME NEW c \in Cores, PanicHandler(c) PROVE StaleOnlyUntilInterrupt'
    BY <2>8 DEF PanicHandler, Delivers, Panicked, Update, InterruptsOn, treeVars
  \* The flush makes the core's translations as new as the tables.
  <2>9. ASSUME NEW c \in Cores, UpdatePagingHandle(c) PROVE StaleOnlyUntilInterrupt'
    BY <2>9 DEF UpdatePagingHandle, Delivers, treeVars
  <2>10. ASSUME NEW c \in Cores, DummyInterrupt(c) PROVE StaleOnlyUntilInterrupt'
    BY <2>10 DEF DummyInterrupt, Delivers, Kick, Update, treeVars
  <2> QED
    BY <2>1, <2>2, <2>3, <2>4, <2>5, <2>6, <2>7, <2>8, <2>9, <2>10, <2>11, ZenonT(30) DEF Next, Step, Continue, Interrupt
<1> QED BY <1>1, <1>2, MadeInductive, PTL DEF Spec

\* Whoever has taken interrupt 33 once keeps it in service, and with it keeps
\* its translations and is stopped by no other core's panic.
THEOREM DeafForGood == Spec => DeafAfterUpdate
<1> DEFINE Deaf == \A c \in Cores : Update \in isr[c] =>
                     /\ Update \in isr'[c] /\ tlb'[c] = tlb[c]
                     /\ pc'[c] = "stopped" => pc[c] = "stopped"
<1>1. ASSUME Made, Next PROVE Deaf
  <2> USE <1>1 DEF Made, Goto, Update, Kick, Panicked
  <2>1. CASE Over
    BY <2>1 DEF Over, vars, treeVars, apicVars
  <2>2. ASSUME NEW c \in Cores, Cli(c) \/ Sti(c) \/ Panic(c) \/ Fault(c) \/ UpdatePaging(c) \/ FreeReplaced(c) PROVE Deaf
    BY <2>2 DEF Cli, Sti, Panic, Fault, UpdatePaging, FreeReplaced, apicVars
  <2>3. ASSUME NEW c \in Cores, BroadcastUpdate(c) \/ BroadcastPanic(c) PROVE Deaf
    BY <2>3 DEF BroadcastUpdate, BroadcastPanic
  <2>4. ASSUME NEW c \in Cores, NEW d \in Cores, SendKick(c, d) PROVE Deaf
    BY <2>4 DEF SendKick
  \* 32 and 33 are of one class: a core with 33 in service is handed neither.
  <2>5. ASSUME NEW c \in Cores, PanicHandler(c) \/ UpdatePagingHandle(c) PROVE Deaf
    <3>1. 33 \notin isr[c]
      BY <2>5 DEF PanicHandler, UpdatePagingHandle, Delivers, Class
    <3> QED BY <2>5, <3>1 DEF PanicHandler, UpdatePagingHandle, Delivers
  \* The end of a kick takes 65 out of service, not 33.
  <2>6. ASSUME NEW c \in Cores, DummyInterrupt(c) PROVE Deaf
    BY <2>6 DEF DummyInterrupt, AfterEoi
  <2> QED
    BY <2>1, <2>2, <2>3, <2>4, <2>5, <2>6, ZenonT(30) DEF Next, Step, Continue, Interrupt
<1>2. ASSUME Made, [Next]_vars PROVE [Deaf]_vars
  BY <1>1, <1>2
<1> QED BY <1>2, MadeInductive, PTL DEF Spec, DeafAfterUpdate
=============================================================================
