----------------------------- MODULE BootMemory -----------------------------
(***************************************************************************)
(* How the kernel takes over the machine's memory: Main::change_allocator, *)
(* exit_boot_services_with_talc, Main::exit_uefi, and the memory checks of *)
(* init_trampoline, in the order of Main::main.                            *)
(*                                                                         *)
(* Memory is a row of pages and the UEFI memory map gives each its type;   *)
(* a descriptor is a maximal run of one type.  Until boot services end, the*)
(* firmware's own events change the map between any two calls.             *)
(***************************************************************************)
EXTENDS Integers, FiniteSets, FiniteSetsExt

CONSTANTS
  LastPage,    \* of the machine
  Offset,      \* ALLOCATOR_ADD_OFFSET, in pages
  TrampPages,  \* pages of TRAMP_TARGET .. TRAMP_TARGET + len
  MaxSize,     \* ALLOCATOR_FIRST_CREATE_SIZE_OPTION_MAX_ALLOCATE_SIZE, in bytes
  Extra,       \* room for more descriptors in the buffer of the map: 8
  Maps,        \* memory maps at power on
  MaxEvents    \* bound on the changes the firmware makes by itself

Pages == 0..LastPage
PageSize == 4096
MinSize == 2 * PageSize  \* ALLOCATOR_FIRST_CREATE_SIZE_OPTION_MIN_ALLOCATE_SIZE
Attempts == 3
\* "boot" and "runtime" services, "loader": image and data of this program,
\* "conv"entional: free.  Pages without a descriptor are a "hole".
Types == {"conv", "boot", "loader", "runtime", "reserved", "hole"}

\* TRAMP_TARGET > ALLOCATOR_ADD_OFFSET does not compile, and the whole of
\* the binary, up to 0xD000, is below the offset of 0x10000.  The 8 extra
\* descriptors are room for two in every round but the last, and more.
ASSUME MemoryAssumption ==
  /\ LastPage \in Nat /\ Offset \in Nat /\ TrampPages \subseteq 0..(Offset - 1)
  /\ Extra \in Nat /\ Extra >= 2 * (Attempts - 1)
  /\ MaxSize \in Nat /\ MaxEvents \in Nat
  /\ Maps \subseteq [Pages -> Types]

VARIABLES
  ty,        \* the firmware's memory map
  key,       \* its version (map_key)
  events,    \* how often the firmware changed it by itself
  image,     \* loader pages at power on: code, stack and pool of this program
  fw,        \* the page of the firmware's page tables and descriptor tables
  heap,      \* how often every page was claimed by the kernel's allocator
  switched,  \* use_os_alloc
  size,      \* current_attempt_size
  map,       \* the buffer: the map as last read, its key, its capacity
  asked,     \* value of events when the size of the map was asked for
  tries,     \* rounds of the loop around exit_boot_services
  cr3, gdtr,  \* whose tables the processor uses, "fw" or "os"
  mapped,    \* pages mapped by the tables in cr3
  at

fwVars == <<ty, key, events>>
cpuVars == <<cr3, gdtr, mapped>>
exitVars == <<map, asked, tries>>
memVars == <<fwVars, image, fw, heap, switched, size, exitVars, cpuVars, at>>

MemInit ==
  /\ ty \in Maps /\ key = 0 /\ events = 0
  /\ image = {p \in Pages : ty[p] = "loader"}
  /\ fw \in {p \in Pages : ty[p] = "boot"}
  /\ heap = [p \in Pages |-> 0] /\ switched = FALSE /\ size = 0
  /\ map = [ty |-> ty, key |-> 0, cap |-> 0] /\ asked = 0 /\ tries = 0
  /\ cr3 = "fw" /\ gdtr = "fw" /\ mapped = Pages
  /\ at = "memory_map"

Of(t, m) == {p \in Pages : m[p] = t}
\* The number of descriptors of m: a run of one type starts where the type changes.
Descriptors(m) ==
  Cardinality({p \in Pages : m[p] # "hole" /\ (p = 0 \/ m[p] # m[p - 1])})
\* Places where n free pages can be had.
Room(n) == {p \in Pages : n > 0 /\ p + n - 1 \in Pages /\ p..(p + n - 1) \subseteq Of("conv", ty)}

\* Slip: the low pages are not cut off.
ClaimAll(S) == [p \in Pages |-> heap[p] + IF p \in S THEN 1 ELSE 0]

\* add_target_to_os_alloc: what is below the offset is cut off (lengths are whole
\* pages, so less than 1024 bytes remain only when nothing does), then claim().
Claim(S) == [p \in Pages |-> heap[p] + IF p \in S /\ p >= Offset THEN 1 ELSE 0]

-----------------------------------------------------------------------------
(* The firmware: an event takes or returns pages, and the key is a new one. *)

Retyped(S, t) ==
  /\ ty' = [p \in Pages |-> IF p \in S THEN t ELSE ty[p]]
  /\ key' = key + 1
FirmwareEvent ==
  /\ at \in {"memory_map", "loop", "query", "get_map", "exit"} /\ events < MaxEvents
  /\ \E p \in Pages :
       \/ ty[p] = "conv" /\ Retyped({p}, "boot")
       \/ ty[p] = "boot" /\ p # fw /\ Retyped({p}, "conv")
  /\ events' = events + 1
  /\ UNCHANGED <<image, fw, heap, switched, size, exitVars, cpuVars, at>>

-----------------------------------------------------------------------------
(* change_allocator *)

\* Free memory, at most MaxSize; there may be no room for the map.
MemoryMap ==
  /\ at = "memory_map" /\ at' \in {"loop", "panic"}
  /\ size' = Min({MaxSize, PageSize * Cardinality(Of("conv", ty))})
  /\ UNCHANGED <<fwVars, image, fw, heap, switched, exitVars, cpuVars>>

\* allocate_pages succeeded: the pages go to the allocator, and once more.
AllocatePages ==
  /\ at = "loop"
  /\ LET n == size \div PageSize IN
       \E p \in Room(n) : LET got == p..(p + n - 1) IN
         Retyped(got, "loader") /\ heap' = Claim(got)
  /\ UNCHANGED <<events, image, fw, switched, size, exitVars, cpuVars, at>>

\* Slip: the loop never gives up.
AllocateRetries ==
  /\ at = "loop" /\ Room(size \div PageSize) = {}
  /\ size' = Max({size \div 2, MinSize})
  /\ UNCHANGED <<fwVars, image, fw, heap, switched, exitVars, cpuVars, at>>

\* It failed: try half of it, down to MinSize; then use the new allocator.
AllocateFails ==
  /\ at = "loop" /\ Room(size \div PageSize) = {}
  /\ size' = Max({size \div 2, PageSize})
  /\ switched' = (size' < MinSize)
  /\ at' = IF size' < MinSize THEN "query" ELSE "loop"
  /\ UNCHANGED <<fwVars, image, fw, heap, exitVars, cpuVars>>

-----------------------------------------------------------------------------
(* exit_boot_services_with_talc *)

\* The size of the map, and a buffer for it and Extra descriptors, from the
\* kernel's own allocator: asking for it changes nothing for the firmware.
QuerySize ==
  /\ at = "query"
  /\ map' = [map EXCEPT !.cap = Descriptors(ty) + Extra] /\ asked' = events
  /\ \/ at' = "get_map" /\ \E p \in Pages : heap[p] > 0
     \/ at' = "panic"
  /\ UNCHANGED <<fwVars, image, fw, heap, switched, size, tries, cpuVars>>

NextTry ==
  /\ tries' = tries + 1
  /\ at' = IF tries' = Attempts THEN "panic" ELSE "get_map"

\* Slip: the key of an earlier map is used.
GetMapOldKey ==
  /\ at = "get_map"
  /\ IF Descriptors(ty) <= map.cap
       THEN map' = [map EXCEPT !.ty = ty] /\ at' = "exit" /\ UNCHANGED tries
       ELSE NextTry /\ UNCHANGED map
  /\ UNCHANGED <<fwVars, image, fw, heap, switched, size, asked, cpuVars>>

\* get_memory_map into the buffer, whose size is the one of the beginning.
GetMap ==
  /\ at = "get_map"
  /\ IF Descriptors(ty) <= map.cap
       THEN map' = [map EXCEPT !.ty = ty, !.key = key] /\ at' = "exit" /\ UNCHANGED tries
       ELSE NextTry /\ UNCHANGED map
  /\ UNCHANGED <<fwVars, image, fw, heap, switched, size, asked, cpuVars>>

\* exit_boot_services: refused when the map is not the current one.
ExitBootServices ==
  /\ at = "exit"
  /\ IF map.key = key THEN at' = "paging" /\ UNCHANGED tries ELSE NextTry
  /\ UNCHANGED <<fwVars, image, fw, heap, switched, size, map, asked, cpuVars>>

-----------------------------------------------------------------------------
(* exit_uefi *)

\* update_paging and create_paging: from 0 to the end of the last descriptor.
\* (The unmapping of the first page has no flags and is filtered out again.)
CreatePaging ==
  /\ at = "paging"
  /\ \/ /\ at' = "add_free" /\ cr3' = "os"
        /\ mapped' = {p \in Pages : \E q \in Pages : p <= q /\ map.ty[q] # "hole"}
     \/ at' = "panic" /\ UNCHANGED <<cr3, mapped>>
  /\ UNCHANGED <<fwVars, image, fw, heap, switched, size, exitVars, gdtr>>

\* The boot services' memory is no longer needed.
AddBootServices ==
  /\ at = "add_free" /\ at' = "acpi"
  /\ heap' = Claim(Of("boot", map.ty))
  /\ UNCHANGED <<fwVars, image, fw, switched, size, exitVars, cpuVars>>

-----------------------------------------------------------------------------
(* The rest of main, as far as memory is concerned. *)

\* get_acpi allocates, and its error is a panic.
GetAcpi ==
  /\ at = "acpi" /\ at' \in {"gdt", "panic"}
  /\ UNCHANGED <<fwVars, image, fw, heap, switched, size, exitVars, cpuVars>>

\* init_gdt and interrupt::api::init: own descriptor tables, in the heap.
GdtInit ==
  /\ at = "gdt" /\ at' = "trampoline" /\ gdtr' = "os"
  /\ UNCHANGED <<fwVars, image, fw, heap, switched, size, exitVars, cr3, mapped>>

\* Slip: runtime services are not looked for.
InitTrampolineBlind ==
  /\ at = "trampoline" /\ at' = "done"
  /\ UNCHANGED <<fwVars, image, fw, heap, switched, size, exitVars, cpuVars>>

\* init_trampoline: its pages are mapped, which may fail; refused when runtime
\* services are in the way, or when the page behind them is not mapped; else
\* they are overwritten.
InitTrampoline ==
  /\ at = "trampoline"
  /\ \/ /\ mapped' = mapped \cup TrampPages
        /\ at' = IF /\ Of("runtime", map.ty) \cap TrampPages = {}
                    /\ TrampPages \cup {Max(TrampPages) + 1} \subseteq mapped'
                 THEN "done" ELSE "panic"
     \/ at' = "panic" /\ UNCHANGED mapped
  /\ UNCHANGED <<fwVars, image, fw, heap, switched, size, exitVars, cr3, gdtr>>

Ended == at \in {"done", "panic"} /\ UNCHANGED memVars

Main ==
  \/ MemoryMap \/ AllocatePages \/ AllocateFails \/ QuerySize \/ GetMap \/ ExitBootServices
  \/ CreatePaging \/ AddBootServices \/ GetAcpi \/ GdtInit \/ InitTrampoline
MemNext == FirmwareEvent \/ Main \/ Ended

\* The boot processor runs on.
MemSpec == MemInit /\ [][MemNext]_memVars /\ WF_memVars(Main)

-----------------------------------------------------------------------------
(* Properties. *)

InHeap == {p \in Pages : heap[p] > 0}

\* No page is claimed twice, over all rounds of change_allocator and the second
\* helping in exit_uefi, and what the heap consists of is its own: nothing below
\* the offset, nothing of the program's image, its first stack and its blocks in
\* the firmware's pool, nothing the firmware uses now or will go on using.  Once
\* cr3 is switched all of it is mapped.
HeapOwnsItsPages ==
  /\ \A p \in Pages : heap[p] <= 1
  /\ \A p \in InHeap : p >= Offset /\ p \notin image
  /\ \A p \in InHeap : ty[p] = "loader" \/ (ty[p] = "boot" /\ cr3 = "os")
  /\ cr3 = "os" => InHeap \subseteq mapped

\* Nothing in use is overwritten: by allocations, the firmware's page tables,
\* and its descriptor tables but for the time of get_acpi and init_gdt, when they
\* are still loaded while their page is in the heap; by the trampoline, a page of
\* the heap or of runtime services.
NothingLiveOverwritten ==
  /\ fw \in InHeap => cr3 = "os" /\ (gdtr = "os" \/ at \in {"acpi", "gdt", "panic"})
  /\ at = "done" => TrampPages \cap (InHeap \cup Of("runtime", map.ty)) = {}

\* Boot services are left with the map that is in force, and with the kernel's
\* allocator in use since before the size of the map was asked for; they are not
\* left, with memory at hand, only after three changes of the map by the firmware:
\* one in each round, or as many as make it outgrow the buffer for good (the
\* retries do not enlarge it; a change adds two descriptors at most).
ExitFailsOnlyByChange ==
  /\ at \notin {"memory_map", "loop", "query", "panic"} => switched
  /\ cr3 = "os" => map.ty = ty
  /\ tries = Attempts => events - asked >= Attempts

\* The loops come to an end: main goes on to the other cores or panics.
BootEnds == <>(at \in {"done", "panic"})
=============================================================================
