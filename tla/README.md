# okots-os: a TLA+ verification project

okots-os is a kernel for x86_64 that is started by UEFI firmware: it leaves the boot services, sets up its own allocator,
page tables and interrupts, starts the other processors, and then runs an async executor on every core. The modules here
model the parts of it that have state and a protocol, and the algorithms that are easy to get wrong at a border; TLC
checks them on small instances and TLAPS proves the central properties for every instance. Paths below are relative to
the repository's `src/`.

## 1. The system

| part | state | what is hard about it | modules |
|---|---|---|---|
| async executors (`asy_nc/mod.rs`) | per core: task queue, tickets, `noise`, `online`; the list of executors | spawners race with a core that goes into `hlt`; a queue lock is held across a poll | `Executor`, `TaskSched` |
| processor bring-up (`main.rs`, `arch/x86_64/trampoline.asm`) | array of stacks, one counter for three phases, `timer`, `value` | processors that come late; the reuse of the counter; the array is dropped under a search | `SmpBoot` |
| memory take-over (`main.rs`, `uefi_helper/boot.rs`, `multi_core/init/raw.rs`) | the firmware's memory map and its key, the heap, `cr3`, GDT | the map changes between two calls; pages change hands while still in use | `BootMemory` |
| page tables (`memory/paging.rs`, `main.rs`) | tree of tables, the map it was built from | recursion, failures in the middle, tables freed while in use | `MapList`, `Paging` |
| page table update across cores (`main.rs`, `interrupt/raw.rs`) | every core's translations and local APIC | nobody waits for the acknowledgement; no end of interrupt in the handler | `PagingUpdate` |
| allocator and ownership (`memory/physical_allocator.rs`, `send_and_get.rs`, `util_types.rs`) | which allocator is in use, who holds a block | memory that outlives the switch; who frees what, once | `OwnedData` |
| AML mutexes (`acpi/handler.rs`) | table of mutexes and its lock | the lock is held while waiting | `AmlMutex` |
| PCI configuration ports (`acpi/handler.rs`) | port CF8, the devices' registers | two port accesses without a lock; read, modify, write; an address that does not fit in the port | `PciPorts` |
| logger (`logger/*`) | ring of entries and the id of the first | the head is read outside of the lock | `Logger` |
| real time clock (`timer/rtc.rs`, part of `timer/tsc.rs`) | CMOS registers, UTC offset | torn readings, BCD, twelve hours, leap years | `Calendar`, `Rtc` |
| virtio probe (`drivers/disk/virt_io/mod.rs`) | where the walk is | holes, broken tables, lists without end | `PciProbe` |
| batch operations (`simd/mod.rs`) | none | two loops that should agree | `Simd` |

How they interact: the boot processor takes over the memory, builds the page tables, initialises its local APIC and ACPI,
starts the other processors with `init_ap`, and each of them ends `ap_init` in `Executor::new().run()`. Executors kick
each other with IPI 65. The main task probes the PCI functions and maps their pages, and each update of the page tables
reaches the other cores as IPI 33; a panic is IPI 32, of the same priority class. Everything allocates through the
physical allocator and logs through the logger.

## 2. Modules

A definition named `slip` in its comment is not part of any specification: it is a plausible error in the definition
that follows it, and shows that the properties notice it.

### TaskSched, Executor
`Executor` is `asy_nc/mod.rs` with one action per lock acquisition, atomic access or privileged instruction, because code
runs only on cores and the core is the unit of interleaving. `pc[c]` names the place; `queue`, `noise`, `online`, `list`
are the fields of the same name; `qlock[c]` is the guard of the `if let` in `run`, which lives until the poll is over.
`irr[c]` is IPI 65 pending at the local APIC. What a task does when it is polled is its program `Prog[t]`, a sequence of
calls of this module's API; the MC module gives the programs. A queue entry remembers (as history) whether a `spawn_*`
function pushed it, which goes on to kick the core, or a waker or `Executor::spawn`, which do not.

`TaskSched` is what an executor promises: a task is dispatched on the core it was spawned to, first in first out, by one
core at a time, once per wake-up, and never after it has finished. `ImplementsTaskSched` is the refinement.

### SmpBoot
`SmpBoot` is `Main::init_ap` (actions of `Bsp`), the stack search of the trampoline (`Scan`, `Cas`) and `Main::ap_init`
(`ApInit`). `Late` is the set of processors that may miss the SIPIs or the deadline, `Reports` the numbers of processors
the firmware may have reported, for which stacks are made. A search in the dropped array is undefined behaviour; such a
processor goes to the label `wild` and is not followed further.

### BootMemory
Memory is a row of pages with a type each, and a descriptor of the UEFI map is a run of one type. `change_allocator`
(`MemoryMap`, `AllocatePages`, `AllocateFails`), `exit_boot_services_with_talc` (`QuerySize`, `GetMap`,
`ExitBootServices`), `exit_uefi` (`CreatePaging`, `AddBootServices`), `get_acpi`, `init_gdt` and the checks of
`init_trampoline` follow each other as in `Main::main`, and every `?` and `unwrap` on the way may end in a panic. The
firmware (external) may change its map between any two calls until boot services have ended, which makes the key stale.
`heap` counts how often a page was claimed. `fw` is one page of boot services that holds the tables the processor uses.

### PagingUpdate
All cores share one tree, and an update is a version number of it (its contents are the subject of `Paging`); `tlb[c]` is
the version at the core's last flush. `UpdatePaging`, `BroadcastUpdate` and `FreeReplaced` are `util_update_paging`;
`irr` and `isr` are the local APIC's pending and in-service vectors, with its rule of priority classes, so that the three
vectors 32, 33 and 65 compete for delivery as on the machine. An exception in kernel code panics wherever it happens
(`Fault`). Only the main task maps pages today, but `util_update_paging` is open to every core and so is the model.

### OwnedData
Who holds a block: a vector, a `SmartPtr`, a `Data` structure (by its tag), or a slice a `Data` has handed out; and which
of the two allocators made it. `ChangeToOsAllocator` may happen at any point. What the borrow checker enforces (a
borrowed vector is not dropped, `&'static mut` exists once) is a guard. Lengths and element types are left out.

### AmlMutex
`AmlMutex` is the mutex part of the ACPI handler: `create_mutex`, `acquire` and `release` over the vector `AML_MUTEXES`
and its one spin lock (`table`). `acquire` keeps that lock while it waits; `elapsed` is its `u16`, and what its overflow
does depends on the profile (`overflowChecks`). The calls (`Call*`) are those of the AML interpreter, which is external:
it releases only what it holds. A core whose `who_am_i` fails is in `Unidentified`. `held` is history.

### PciPorts
`read_pci_*` and `write_pci_*` as port accesses, one step each: the address to CF8, then the data through CFC; a write of
one or two bytes reads the register first and writes all four bytes back. A call is for an address: a segment, a function
and an offset of 16 bits. `Register` is the register that names, and `Cf8` what the code makes of it: eight bits of the
offset and no segment, so that `offset & 0xfc` of an extended register (from 0x100 on) selects one of the first 64, and a
function of another segment the one with its number in segment 0. Bytes are 0 or 1 and what is written is 1. A byte in
`Status` is set by the device and cleared by writing ones (hardware). `met` and `before` are history. Accesses are
aligned, as the interpreter makes them.

### Logger
`Logger` is `add_log` (atomic, it runs under the write lock), `read_log` in two steps (it loads `LOG_HEAD_ID` before it
locks), the loop of `LogIterator::next`, and the panic handler's `LOG_CAPACITY.store(0)`. An entry carries its number as
history, so that a property can say which one was returned.

### MapList, Paging
`MapList` is `normalize_map_list` and the `retain_mut` of its callers, as operators on sequences of ranges; the library's
unstable sort is an insertion sort, and the keys of the disjoint ranges it gets are distinct. `Paging` is
`memory/paging.rs` with its callers on the boot processor: `CreatePaging`, `UtilUpdateAddPaging` (from `init_ap` and
`init_trampoline`) and `MapPhysicalRegion`. A table is a function from indices to entries, `mem` holds the allocated
ones. Each recursion threads a record with the memory and the number of allocations that still succeed, so that a
failure can hit every allocation; all callers unwrap, so it ends in a panic. Addresses are counted in pages, and all
ranges are aligned and not empty. Two parts of the code are left out because they have no effect: the fragmentation
count goes to a temporary, so the branch of `update_paging` that rebuilds a fragmented table is never taken, and
`clone_paging` has no caller.

### Calendar, Rtc
`Calendar` holds the conversions of `rtc.rs` with their formulas: BCD, the hour register, leap years, days since 1970.
`Rtc` is `sync_and_get_time`, `get_time` register by register in the code's order, and `option_init_time_stamp`, against
a chip that counts on; `late` and `carried` are history. During an update the registers show the old second. The TSC is
exact: its time is the number of seconds that passed.

### PciProbe, Simd, Algorithms
`PciProbe` is the virtio driver's nest of loops as one walk (`Step`): functions that do not exist, devices with one
function, tables that do not validate, capability lists. `Simd` is the integer part of `simd/mod.rs`: the loop over
elements and the one over vectors with a mask for the rest, with elements of `W` bits, on the part that both slices have
(`Used`). `Algorithms` puts the pure algorithms to work as jobs: a list that grows by a range, a date that goes on by a
day, a walk that goes on by a step and remembers (`read`, history) where in the current list of capabilities it has been.
The reference for the walk is stated on the machine and not as a loop: `Visited` are the functions whose vendor is asked
for, `Exist` those of them that are there, `Listed` the capabilities that can be reached from a list's head, and
`Endless` says that the end of the list can not.

## 3. Runs

| run | instance | what it shows |
|---|---|---|
| `exec` | 2 cores that boot into one of five scenarios: every `spawn_*` function, a join across cores with and without a later kick, tickets and a `TimerFuture`, tasks that push to locked queues | no wake-up is lost, no task is forgotten (a waker for it is kept, unless it awaits what never wakes), nothing is queued twice or polled after its end, the executors implement `TaskSched`; a task is kept from its end only by a future that is never ready, a push without a kick to a core that then halts, or a cycle of queue locks; a `TimerFuture` that is not ready at its first poll never is; `yield_now` hangs its core |
| `boot` | 3 APs, 2 of them possibly late, 2 or 3 of them reported | stacks are exclusive, only the surplus stops, the counter is a barrier in each phase unless a straggler counts into it, `init_ap` returns, and who is in time runs |
| `boot_gdt` | 2 APs | violated: on the APs `init_local_apic` runs before `init_gdt`, against its documentation |
| `bootmem` | 11 pages, 4 memory maps, up to 3 events of the firmware | no page is claimed twice and the heap is its own; the firmware's descriptor tables are in the heap while still loaded, from the end of `exit_uefi` to `init_gdt`, and nothing else in use is overwritten; boot services cannot be left only after three changes of the map; the loops end |
| `paging` | 4 levels with fan-out 2 (16 pages), huge pages on 2 levels, 24 firmware maps, 3 updates, a failure at every allocation | translation is what the lists say, with the additions of the last update only; the tree is exactly the allocated memory unless an allocation failed, and after an update as compact as a new one; a torn update leaves each page as before or as wanted |
| `shootdown` | 2 cores, 3 updates, kicks, panics and faults anywhere | a core uses old tables, even freed ones, only while interrupt 33 is pending at it (or the author never gets to the broadcast); after its first 33 it never flushes again and no panic stops it; every other interrupt gets through |
| `data` | 2 blocks, 2 `Data`, both static memories | nothing is freed twice or used after it was freed; only blocks from before the switch go to the wrong allocator; only `get_slice` on an owned `Data` leaks |
| `aml` | 3 cores, one unidentified, 2 mutexes, both profiles, timeouts 1 and 0xFFFF (2 in the model) | one holder per mutex; an acquire that has to wait never succeeds, because the owner cannot release while the table is locked; a wait without a limit stops all mutexes, and in a dev build panics with the table locked; without one every call returns |
| `pci` | 2 cores, 2 calls of any width, 2 functions with a register each that can be reached, one beyond offset 0x100 and one in segment 1, one status byte | a call goes to the register CF8 selects, which is its own only in the first 256 bytes of segment 0; no other register is ever written; there a call that is alone is exact, but every write clears the status bytes of the register that were set when it began; a call that meets another may go to the register selected for the other, and to no third one |
| `log` | 2 readers of different kinds, capacity 3, 5 entries, a panic | the log is a window of the last entries; before the first rotation an iterator is complete and in order; a read is off by the rotations since it loaded the head; an overtaken iterator stays silent |
| `clock` | 7 instants at 57 seconds, 5 seconds more, both hour modes | the kernel's time is UTC less the time the reading took, unless the minute changed during it; in the mode of twelve hours it is half a day fast when read between twelve and one |
| `algorithms` | all lists of 4 ranges over 4 pages; all days to the end of 2101; all slices of 3 elements of 2 bits in vectors of 2, of one length or one shorter; all pairs of devices with two functions | `normalize_map_list` keeps the meaning and returns sorted, disjoint, joined ranges; days are those of the calendar; both SIMD loops agree but for division, where a partial last vector panics, and the cases listed at `LevelsAgree`; the probe reports the vendor capabilities of all functions that exist, maps the pages of missing functions too, and ends unless a capability list does not |

Bounds. Two cores are enough for each executor race, as it is between one target and one spawner at a time; the theorem
covers more spawners. Three processors make a failed exchange, a later failed exchange and an unopposed one possible in
one behaviour, and a stack fewer than processors makes one stop. Three events are as many as the retries of
`exit_boot_services_with_talc`, so all of them can fail, and with room for four descriptors (8 in the code) two changes do
not outgrow the buffer and three do. Three updates let each of two cores update, be overtaken, and update again. Of the
log, two entries more than its capacity let it rotate between any two steps of a reader. Four ranges contain every case
of `normalize_map_list` on pieces of earlier cuts. With fan-out 2 every level of the page tables occurs as in the code
(tables only, huge pages allowed twice, pages), and an update can meet each kind of entry where it wants each other kind;
512 entries would only repeat them. Two blocks suffice for a confusion of owners, as the proofs confirm for any number.
Two PCI calls are one call that meets another, for each address or for the same; addresses 256 bytes apart, and in two
segments, select the same register. Three elements in vectors of two are a
full vector and a partial one; 2 bits have a lowest number, -1, 0 and 1. The days pass the century years 2000 and 2100.
Programs, calls and events are finite, so every run is finite without a state constraint.

Fairness. In `Executor` every core keeps executing (weak fairness per core), a local APIC delivers what is pending when
interrupts are enabled, and time passes. Locks are spin locks without fairness; the liveness properties hold because a
lock that is waited for is released once and the programs are finite. In `SmpBoot` and `BootMemory` the processors run
on. In `AmlMutex` a core that is in a call continues; callers need not call. In `PagingUpdate` code that has been started
goes on, and delivery of an interrupt is strongly fair: the hardware delivers at the first instruction at which interrupts
are enabled and the priority allows it, so a core that disables them again and again cannot put it off for ever. In
`Algorithms` the probe is fair: it is a loop of the main task, which nothing takes the core from for good. The other runs
have no liveness properties and no fairness.

Deadlock is not checked where the system stops: in `aml` (a panic), `paging`, `pci` and `algorithms` (no more calls). In
`exec` the state in which all cores hang, in `boot`, `bootmem`, `clock` and `shootdown` the end, is a step of its own, so
that any other stop would be reported.

## 4. Proofs

`ExecutorProofs`, for any cores, tasks and programs:
* `TypeCorrect`. `TypeOK` is not inductive alone; `ControlInv` says which locals are defined at which label.
* `NoKickIsLost`. `KickInv` strengthens `NoLostKick`: while a core is past its `noise.swap(false)` and before its wake-up,
  `noise` is set only if some spawner is committed to the IPI or the IPI is pending; and at `noise.swap` itself every
  kicked entry has either set `noise` or will.
* `DeadlockLasts`, `QueueFrozen`. From `LockInv` (only the polling core holds a queue lock across steps), that a core's
  step leaves the other cores' labels, targets and locks alone, and that a core that waits for a held lock has no step.
* `TasksPolledOnce`, `TasksNotStranded`. One invariant, `TaskInv`, counts what can still bring a task to be polled, its
  tokens: an entry of a queue, a ticket, the waker in a `JoinInner`, a core at `wake`. A task that is being polled has no
  token before its future suspends, a suspended one has one (`OneToken`, `PollInv`, `Accounted`), a finished one has none
  (`DoneInv`). That needs to know where tasks may be (`HomeInv`: a task is queued only at home, and is spawned once), who
  may wait for whom (`JoinInv`: a waker in a `JoinInner` is that of the one task whose program joins it), and what holds at
  the end of a poll (`ReturnInv`). `Joined` is the race of the join: a result and a waker are there together
  only while the child is on its way from one to the other.
* `TimerTasksSleepOn`. `TimerInv`: the waker of a task at a `TimerFuture` it has been polled at is in the GS block's
  tickets and, by `OneToken`, nowhere else.
* `ExecutorsImplementTaskSched`, the refinement. A step of the executors leaves every core and task where it is
  (`Still`), takes one core on without moving a task (`Quiet`), or moves a task (`Moves`): a push, a pop, the end of a
  poll, or a waker that is put away. Those that change no queue and no poll stutter; each of the others is a step of
  `TaskSched`, whose guards follow from `TaskInv`.

`SmpBootProofs`, for any processors, stacks and reports: `TypeCorrect`, `StacksAreExclusive`, `OnlyTheSurplusStops` and
`EveryoneGetsAStack`, from `StackInv`: a slot is its stack or 0, it is 0 exactly when one processor owns it, and all slots
a search has passed are 0. The last theorem counts the owners with the pigeonhole theorem of the library.
`CounterStaysBarrier` needs `BarrierInv`: how far the flags and the processors are at every label of `init_ap`
(`PhaseInv`), and what the counter counts there as long as nobody strayed (`CountInv`): before its reset the processors
that have started, after it those that have calibrated plus those that run. `StragglersNeverRun` follows from `PhaseInv`.

`MemoryProofs`, of `BootMemory`, for any number of pages, any memory map and any number of changes: `HeapKeepsToItsPages`,
`LiveMemoryIsKept` and `ExitNeedsThreeChanges`, from `IInv`. It says who owns a page at each stage of `main` (`PageInv`,
`MainInv`: a page of boot services is in the heap only after `cr3` was switched and the map in the buffer became final),
that a key names one map (`KeyInv`), and that each failed round, and each pair of descriptors the map has grown by, is paid
for by a change since its size was asked for (`TryInv`). That a change adds two descriptors at most is the lemma
`TwoMoreDescriptors`. The buffer must have room for four more descriptors or more; the code has 8.

Of `PagingUpdate`, in the same module, for any cores and number of updates: `StaleUntilInterrupt`, with the
strengthening `Made` (every version has an author, and only versions that exist are freed): a core that runs, or is
about to free, has broadcast all its versions. `DeafForGood`: with 33 in service neither 32 nor 33 is delivered, as they
share a class, and the end of interrupt of a kick ends the kick.

`DataProofs`, of `OwnedData`, for any blocks and structures: `OwnershipIsSound`. `SoundOwnership` is not
inductive; `OwnInv` adds what the tags stand for (`Tagged`) and that a slice never points to a block that a `SmartPtr`
or a `Data` owns (`Viewed`), since those free without asking whether they are borrowed. `StraysAreOld` needs also that
the kernel's allocator has made nothing before the switch; `LeaksAreViews` follows from `OwnInv` action by action.

Of `Logger`, in the same module, for any capacity and readers: `LogStaysWindow`; `ReadsDrift` and
`OvertakenStaysSilent`, which also need that a loaded head is never ahead of the head; and
`ReadsCompleteBeforeRotation`, for which an iterator that has moved is within the log (`CompleteInv`), so that nothing
is added behind its back.

`AcpiProofs`, of `AmlMutex`, for any cores, mutexes and timeouts: `TypeCorrect`; `Exclusive` (`MutualExclusion` with the owner
and count of free mutexes); `FutileWait` and `ForeverFreezes`, from the fact that the core in the wait holds the table.

Of `PciPorts`, in the same module, for any cores, addresses and status bytes: `AccessesLand`. What the code writes to CF8
selects the register the property names (`Cf8Answers`, from the arithmetic of offsets). Two calls under way have met each
other, so the register in CF8 is that for the call or for one it has met (`MetInv`); as long as a call has met none, the
register it goes to, and what it has read of it, differ from `before` only in status bytes that were set since
(`AloneInv`).

`MapListProofs`, for lists of any length, of ranges of any size with any flags: `NormalizeKeeps`, the correctness of
`normalize_map_list`. Its three loops are recursive functions over the prefixes of a list; a lemma gives each function's
equations, and induction over the prefixes (`NatIndSet`, stated with a set, from the least element of a set of numbers)
what it computes. Overlaying keeps ranges disjoint and gives each page to the last range it is in (`OverlayAllSays`, from
`CutExact` and `CutsStayDisjoint`, which say what one step of the inner loop leaves of a range); what a disjoint list says
of a page does not depend on its order, so sorting (`SortSays`) and joining (`MergeAllSays`) keep it.

`AlgorithmsProofs`, for inputs of any size: `NormalizeIsCorrect` restates that for the lists the run builds.
`DaysAreRight`: `get_time`'s formula counts the days of the Gregorian calendar in every year, since the next day is one
more at the end of a month, of a year and of a leap February (`NextDayCounts`). `ClockIsUtc`, for any date since 1970:
`ClockInv` says that the seconds register plus the updates since are the chip's seconds, and that all registers read
later are as the chip has them, as long as the minutes have not changed.

`PciProofs`, of `PciProbe`, for any machine: `ProbeIsRight`. `ProbeInv` says which functions the walk has passed, that
it has mapped these and reported the capabilities of those that exist, and which part of a list of capabilities it has
read; one that it reads twice is on a list that does not end. The theorem says that each step is an advance; that the
advances come to an end is `ProbeEnds`, which is checked and not proved.

The assumptions are the named `ASSUME`s of the modules: finite sets of cores or processors, natural bounds, distinct
addresses and distinct markers, programs that join a task once, the trampoline below the heap's offset, machines made of
devices with functions, whose capabilities are not at offset 0, and dates since 1970 on the chip.

Only model-checked: all liveness properties, which rest on fairness; the recursions of `Paging` over the levels of a tree
(`TranslatesAsMapped`, `TreeIsMemory`, `TornUpdateMixes`); and `LevelsAgree` of `Simd`, whose
operations on bits are a library's recursive operators.

## 5. What the models show of the code

Properties state what the code does, also where that is less than one would wish for. These are worth a maintainer's look:

* `ap_init` initialises the local APIC before the GDT, against the comment at `init_local_apic` (`boot_gdt`).
* `update_paging_handle` does not send an end of interrupt: a core flushes once in its life, and is then deaf to panics.
* Replaced tables are freed without waiting for the other cores' flush, and the author itself does not flush.
* A waker does not kick: a task woken on a halted core waits for an unrelated interrupt. `TimerFuture` registers where
  nobody looks, and `yield_now` spins on the queue lock its own poll holds.
* `acquire` waits with the table of mutexes locked, so no wait can succeed.
* An allocation failure in an update leaves half-updated live tables; one in creation leaks the finished subtrees.
* Boot services' memory enters the heap while the firmware's GDT and IDT in it are still loaded.
* `init_trampoline` looks for runtime services only; that it does not hit the heap is due to the offset below which the
  heap takes nothing.
* `get_slice` on an owned `Data` leaks its memory.
* The clock is read without a second look, and 12 AM and 12 PM are read as 12 and 24. A reading that is torn at the end of
  1999 would give 1900, for which `year - 1970` underflows; the instants of `clock` are later.
* Narrow PCI writes clear status bytes beside them, and two cores can mix up their accesses.
* `read_pci_*` and `write_pci_*` cut the offset to eight bits and ignore the segment: an access to an extended register
  or another segment reads or writes a different register without an error.
* The probe maps the page of every function it asks for, the missing ones included, and follows a list of capabilities
  without a limit.
* Integer division in vectors panics whenever the length is not a multiple of the lanes.

## 6. Not modelled

* `version/` and `result/`: parsing, formatting and error values. Data without protocol.
* `thread_local/`, `cpu/`, `cpu_flags/`, `util/proto.rs`, `io/console/`: single instructions, firmware calls and set-up that
  happens once; what of it matters to an order (`init_gdt`, a failing `who_am_i`) is a step or an input of the modules above.
* `timer/tsc.rs` but for the UTC offset: the conversions divide by a measured frequency, and what can go wrong there are
  magnitudes a small instance does not have. `Rtc::set_time` has no caller.
* `interrupt/api.rs`: each core has a table of handlers of its own and fills it itself, and `remove` has no caller.
* The assembly of `efi_main` and the mode switches of the trampoline before its stack search: straight-line machine set-up.
  `get_core_info` is a callback of the firmware's MP services; `SmpBoot` starts from the number it reports.
* The inside of talc, of the AML interpreter and of the firmware: external, modelled by what the code relies on.
* Floating point operations of `simd/mod.rs`, as TLA+ has no such numbers.
* Weak memory effects: the code's `Relaxed` loads are modelled as sequentially consistent, which x86_64 gives for single
  locations; a store delayed in a store buffer is not modelled, as all stores that matter are locked exchanges, `SeqCst`
  stores, or under a lock.
