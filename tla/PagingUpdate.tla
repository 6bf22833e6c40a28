---------------------------- MODULE PagingUpdate ----------------------------
(***************************************************************************)
(* Page table updates while the other cores run: Main::util_update_paging, *)
(* the broadcast of vector 33, the interrupt handlers of interrupt/raw.rs  *)
(* and the panic handler with its broadcast of vector 32.                  *)
(*                                                                         *)
(* All cores share one tree of tables.  What a core translates with may be *)
(* older than the tree, until it flushes.  The tree itself is the subject  *)
(* of Paging; here an update is a version number.  AsyncMain::main maps    *)
(* every PCI function's configuration page in turn and so updates the tree *)
(* again and again, with all cores in their executors.                     *)
(*                                                                         *)
(* A local APIC holds the vectors that are pending (irr) and in service    *)
(* (isr).  It delivers the highest pending one when interrupts are enabled *)
(* and its class is above that of every vector in service; an end of       *)
(* interrupt takes the highest vector out of service.                      *)
(***************************************************************************)
EXTENDS Integers, FiniteSets

CONSTANTS
  Cores,       \* the cores, local APICs initialised
  MaxUpdates,  \* bound on the page table updates of a behaviour
  NoCore

ASSUME UpdateAssumption ==
  /\ IsFiniteSet(Cores) /\ NoCore \notin Cores
  /\ MaxUpdates \in Nat

VARIABLES
  ver,    \* the version of the tables: the number of updates so far
  by,     \* the core that made each version
  freed,  \* the versions whose replaced tables have been freed
  tlb,    \* the version of the tables at every core's last flush
  irr,    \* vectors pending at every local APIC
  isr,    \* vectors in service there
  pc      \* where the core is

apicVars == <<irr, isr>>
treeVars == <<ver, by, freed>>
vars == <<treeVars, tlb, apicVars, pc>>

Panicked == 32   \* panic_handler
Update == 33     \* update_paging_handle
Kick == 65       \* dummy_interrupt, sent by the executors
Vectors == {Panicked, Update, Kick}
Class(v) == v \div 16

Versions == 1..MaxUpdates

Init ==
  /\ ver = 0 /\ by = [v \in Versions |-> NoCore] /\ freed = {}
  /\ tlb = [c \in Cores |-> 0]
  /\ irr = [c \in Cores |-> {}] /\ isr = [c \in Cores |-> {}]
  /\ pc = [c \in Cores |-> "run"]

Goto(c, label) == pc' = [pc EXCEPT ![c] = label]
ToOthers(c, v) == irr' = [d \in Cores |-> IF d = c THEN irr[d] ELSE irr[d] \cup {v}]

-----------------------------------------------------------------------------
(* Code of a core. *)

\* with_interr: interrupts are off in the closure and on again behind it.
Cli(c) ==
  /\ pc[c] = "run" /\ Goto(c, "cli")
  /\ UNCHANGED <<treeVars, tlb, apicVars>>
Sti(c) ==
  /\ pc[c] = "cli" /\ Goto(c, "run")
  /\ UNCHANGED <<treeVars, tlb, apicVars>>

\* send_fixed_ipi(id, 65), at the end of the executor's spawn functions.
SendKick(c, d) ==
  /\ pc[c] = "run"
  /\ irr' = [irr EXCEPT ![d] = @ \cup {Kick}]
  /\ UNCHANGED <<treeVars, tlb, isr, pc>>

\* map_physical_region of a page that is not mapped, up to the return of
\* update_paging: the tables are changed in place, and nothing is flushed here.
\* When an allocation fails in the middle, the caller's unwrap panics.
UpdatePaging(c) ==
  /\ pc[c] = "run" /\ ver < MaxUpdates
  /\ ver' = ver + 1 /\ by' = [by EXCEPT ![ver + 1] = c]
  /\ Goto(c, "broadcast") \/ Goto(c, "panic")
  /\ UNCHANGED <<freed, tlb, apicVars>>

\* Slip: the tables are freed before the broadcast.
FreeFirst(c) ==
  /\ pc[c] = "broadcast" /\ freed' = freed \cup {v \in 1..ver : by[v] = c}
  /\ Goto(c, "free")
  /\ UNCHANGED <<ver, by, tlb, apicVars>>

\* broadcast_fixed_ipi(33): to all but the sender.
BroadcastUpdate(c) ==
  /\ pc[c] = "broadcast" /\ Goto(c, "free")
  /\ ToOthers(c, Update)
  /\ UNCHANGED <<treeVars, tlb, isr>>

\* free_not_used_paging: nobody waits for the other cores.
FreeReplaced(c) ==
  /\ pc[c] = "free" /\ Goto(c, "run")
  /\ freed' = freed \cup {v \in 1..ver : by[v] = c}
  /\ UNCHANGED <<ver, by, tlb, apicVars>>

\* The panic handler: disable(), log, broadcast_fixed_ipi(32), hlt for ever.
Panic(c) ==
  /\ pc[c] \in {"run", "cli"} /\ Goto(c, "panic")
  /\ UNCHANGED <<treeVars, tlb, apicVars>>
\* An exception in kernel code (gp_handler, page_fault_handler, ...): its handler
\* panics, wherever the core is; there is no code outside of ring 0.
Fault(c) ==
  /\ pc[c] \in {"run", "cli", "broadcast", "free"} /\ Goto(c, "panic")
  /\ UNCHANGED <<treeVars, tlb, apicVars>>
BroadcastPanic(c) ==
  /\ pc[c] = "panic" /\ Goto(c, "dead")
  /\ ToOthers(c, Panicked)
  /\ UNCHANGED <<treeVars, tlb, isr>>

-----------------------------------------------------------------------------
(* Interrupts.  Handlers run with interrupts off, each as one step. *)

InterruptsOn(c) == pc[c] \in {"run", "broadcast", "free"}
Stopped(c) == pc[c] \in {"dead", "stopped"}

\* The local APIC of core c delivers v.
Delivers(c, v) ==
  /\ InterruptsOn(c)
  /\ v \in irr[c] /\ \A w \in irr[c] : w <= v
  /\ \A w \in isr[c] : Class(w) < Class(v)
  /\ irr' = [irr EXCEPT ![c] = @ \ {v}]

\* send_eoi: all but the highest vector stay in service.
AfterEoi(S) == {v \in S : \E w \in S : v < w}

\* panic_handler: disable(), hlt for ever.
PanicHandler(c) ==
  /\ Delivers(c, Panicked)
  /\ isr' = [isr EXCEPT ![c] = @ \cup {Panicked}]
  /\ Goto(c, "stopped")
  /\ UNCHANGED <<treeVars, tlb>>

\* update_paging_handle: flush_all() and no end of interrupt.
UpdatePagingHandle(c) ==
  /\ Delivers(c, Update)
  /\ isr' = [isr EXCEPT ![c] = @ \cup {Update}]
  /\ tlb' = [tlb EXCEPT ![c] = ver]
  /\ UNCHANGED <<treeVars, pc>>

\* Slips: the interrupt is acknowledged twice, and not at all.
DummyInterruptTwice(c) ==
  /\ Delivers(c, Kick)
  /\ isr' = [isr EXCEPT ![c] = AfterEoi(AfterEoi(@ \cup {Kick}))]
  /\ UNCHANGED <<treeVars, tlb, pc>>
DummyInterruptNever(c) ==
  /\ Delivers(c, Kick)
  /\ isr' = [isr EXCEPT ![c] = @ \cup {Kick}]
  /\ UNCHANGED <<treeVars, tlb, pc>>

\* dummy_interrupt: send_eoi().
DummyInterrupt(c) ==
  /\ Delivers(c, Kick)
  /\ isr' = [isr EXCEPT ![c] = AfterEoi(@ \cup {Kick})]
  /\ UNCHANGED <<treeVars, tlb, pc>>

Interrupt(c) == PanicHandler(c) \/ UpdatePagingHandle(c) \/ DummyInterrupt(c)

\* What follows without a decision of the running task.
Continue(c) == Sti(c) \/ BroadcastUpdate(c) \/ FreeReplaced(c) \/ BroadcastPanic(c)

Step(c) ==
  Cli(c) \/ UpdatePaging(c) \/ Panic(c) \/ Fault(c) \/ Continue(c) \/ \E d \in Cores : SendKick(c, d)

\* All cores have stopped.
Over == (\A c \in Cores : Stopped(c)) /\ UNCHANGED vars

Next == Over \/ \E c \in Cores : Step(c) \/ Interrupt(c)

Spec == Init /\ [][Next]_vars

\* Code goes on, and a closure under with_interr comes to its end.  A local APIC
\* delivers as soon as it can: neither a core that disables interrupts again and
\* again nor a stream of kicks keeps it from that for ever.
Fairness ==
  \A c \in Cores :
    /\ WF_vars(Continue(c))
    /\ SF_vars(PanicHandler(c)) /\ SF_vars(UpdatePagingHandle(c)) /\ SF_vars(DummyInterrupt(c))
FairSpec == Spec /\ Fairness

-----------------------------------------------------------------------------
(* Properties. *)

\* A core translates with tables older than version v although it did not make
\* that version itself only while interrupt 33 is pending at it, or as long as
\* the author has not come to the broadcast; tables that were replaced by v are
\* freed with the core still using them only in the first of these cases.  (The
\* author flushes nothing: its own translations stay as they were.)
StaleOnlyUntilInterrupt ==
  \A c \in Cores : \A v \in 1..ver :
    tlb[c] < v /\ by[v] # c =>
      \/ Update \in irr[c]
      \/ v \notin freed /\ pc[by[v]] \in {"broadcast", "panic", "dead", "stopped"}

\* The handler of 33 does not end the interrupt: whoever has taken it once keeps
\* its translations from then on, whatever is updated and freed, and no panic of
\* another core stops it.
DeafAfterUpdate ==
  [][\A c \in Cores : Update \in isr[c] =>
       /\ Update \in isr'[c] /\ tlb'[c] = tlb[c]
       /\ pc'[c] = "stopped" => pc[c] = "stopped"]_vars

\* Every interrupt is taken, and a panic stops the other cores, with that one
\* exception: after a 33 only the executors' kick gets through.
InterruptsGetThrough ==
  \A c \in Cores, v \in Vectors :
    v \in irr[c] ~> \/ Stopped(c)
                    \/ v # Panicked /\ v \notin irr[c]
                    \/ v # Kick /\ Update \in isr[c]
=============================================================================
