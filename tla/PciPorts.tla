------------------------------ MODULE PciPorts ------------------------------
(***************************************************************************)
(* The configuration space of PCI as the Handler of src/acpi/handler.rs    *)
(* reads and writes it for the ACPI interpreter: the address goes to port  *)
(* CF8 and the register's four bytes through port CFC, in two steps and    *)
(* without a lock; a narrow write reads the whole register first.  The     *)
(* handler is shared by all cores.  The address that fits in CF8 has no    *)
(* segment and only the low eight bits of the offset.                      *)
(*                                                                         *)
(* The device's side is hardware: a byte stores what is written, but a     *)
(* status byte is set by the device and cleared by writing ones to it.     *)
(***************************************************************************)
EXTENDS Integers

CONSTANTS
  Cpus,
  Functions,    \* bus, device and function numbers, each in bits of its own in CF8
  Addresses,    \* what calls may be for: a segment, a function and an offset in bytes, a u16
  Status,       \* the bytes of registers that are status
  MaxAccesses   \* bound on the calls

Lanes == 0..3
ASSUME AddressesAssumption == Addresses \subseteq [seg : Nat, fn : Functions, off : Nat]

\* A register is four bytes.  The one an address is for, and the one that answers when the handler has written it to
\* CF8: offset & 0xfc, and not the segment.
Register(a) == [seg |-> a.seg, fn |-> a.fn, dword |-> a.off \div 4]
Cf8(a) == [seg |-> 0, fn |-> a.fn, dword |-> (a.off % 256) \div 4]
Regs == {Register(a) : a \in Addresses} \cup {Cf8(a) : a \in Addresses}
ASSUME StatusBytes == Status \subseteq Regs \X Lanes

None == "none"
NoCall == [op |-> None, width |-> 4, at |-> None]

VARIABLES
  latch,    \* the register of what was last written to CF8
  space,    \* the bytes of each register
  call,     \* what each core's call is for, or NoCall
  step,     \* the next port access of it
  val,      \* the register's bytes it has read
  met,      \* what other cores' calls are for that are under way at the same time (history)
  before,   \* the registers when the call began (history)
  accesses  \* calls so far
portVars == <<latch, space, call, step, val, met, before, accesses>>

Zero == [i \in Lanes |-> 0]

\* Accesses are aligned: the interpreter splits a field into units of its width.
Requests == [op : {"read", "write"}, width : {1, 2, 4}, at : Addresses]
Aligned(r) == r.at.off % r.width = 0

PortInit ==
  /\ latch = None /\ space = [q \in Regs |-> Zero] /\ accesses = 0
  /\ call = [c \in Cpus |-> NoCall] /\ step = [c \in Cpus |-> "idle"]
  /\ val = [c \in Cpus |-> Zero] /\ met = [c \in Cpus |-> {}] /\ before = [c \in Cpus |-> space]

\* offset & 3 of a byte, offset & 2 of a word: where the shift by eight times that finds it.
First(r) ==
  CASE r.width = 1 -> r.at.off % 4 [] r.width = 2 -> ((r.at.off % 4) \div 2) * 2 [] r.width = 4 -> 0
Touched(r) == First(r)..(First(r) + r.width - 1)

\* The new bytes are all 1.
Written(r, old) == [i \in Lanes |-> IF i \in Touched(r) THEN 1 ELSE old[i]]

\* Hardware: what a write to CFC does to a register.
Store(reg, bytes) ==
  [i \in Lanes |->
     IF <<reg, i>> \in Status THEN (IF bytes[i] = 1 THEN 0 ELSE space[reg][i]) ELSE bytes[i]]

Active == {c \in Cpus : call[c] # NoCall}

\* A call: the first port access of a narrow write is a read's.
Access(c, r) ==
  /\ call[c] = NoCall /\ accesses < MaxAccesses /\ Aligned(r)
  /\ accesses' = accesses + 1
  /\ call' = [call EXCEPT ![c] = r]
  /\ step' = [step EXCEPT ![c] = IF r.op = "write" /\ r.width = 4 THEN "address2" ELSE "address"]
  /\ val' = [val EXCEPT ![c] = Zero]
  /\ met' = [d \in Cpus |-> IF d = c THEN {call[e].at : e \in Active}
                       ELSE IF d \in Active THEN met[d] \cup {r.at} ELSE met[d]]
  /\ before' = [before EXCEPT ![c] = space]
  /\ UNCHANGED <<latch, space>>

Address(c) ==
  /\ step[c] \in {"address", "address2"}
  /\ latch' = Cf8(call[c].at)
  /\ step' = [step EXCEPT ![c] = IF @ = "address" THEN "in" ELSE "out"]
  /\ UNCHANGED <<space, call, val, met, before, accesses>>

\* A narrow write goes on with write_pci_u32, which writes the address again.
PortIn(c) ==
  /\ step[c] = "in"
  /\ val' = [val EXCEPT ![c] = space[latch]]
  /\ step' = [step EXCEPT ![c] = IF call[c].op = "read" THEN "return" ELSE "address2"]
  /\ UNCHANGED <<latch, space, call, met, before, accesses>>

\* Slip: a narrow write writes its own bytes with zeros around.
PortOutAlone(c) ==
  /\ step[c] = "out"
  /\ space' = [space EXCEPT ![latch] = Store(latch, Written(call[c], Zero))]
  /\ step' = [step EXCEPT ![c] = "return"]
  /\ UNCHANGED <<latch, call, val, met, before, accesses>>

PortOut(c) ==
  /\ step[c] = "out"
  /\ space' = [space EXCEPT ![latch] = Store(latch, Written(call[c], val[c]))]
  /\ step' = [step EXCEPT ![c] = "return"]
  /\ UNCHANGED <<latch, call, val, met, before, accesses>>

Return(c) ==
  /\ step[c] = "return"
  /\ step' = [step EXCEPT ![c] = "idle"]
  /\ call' = [call EXCEPT ![c] = NoCall]
  /\ UNCHANGED <<latch, space, val, met, before, accesses>>

\* Hardware: a device reports something.
SetStatus ==
  \E s \in Status :
    /\ space[s[1]][s[2]] = 0
    /\ space' = [space EXCEPT ![s[1]][s[2]] = 1]
    /\ UNCHANGED <<latch, call, step, val, met, before, accesses>>

PortNext ==
  \/ SetStatus
  \/ \E c \in Cpus : Address(c) \/ PortIn(c) \/ PortOut(c) \/ Return(c) \/ \E r \in Requests : Access(c, r)
PortSpec == PortInit /\ [][PortNext]_portVars

-----------------------------------------------------------------------------
(* Properties. *)

Asked(r) == LET lane == r.at.off % 4 IN lane..(lane + r.width - 1)
IsStatus(reg, i) == <<reg, i>> \in Status

\* Only the first 256 bytes of the functions of segment 0 can be reached.  A call for another register goes to the one
\* that is as far into 256 bytes, of the function with that number in segment 0.
Reachable(reg) == reg.seg = 0 /\ reg.dword < 64
Answers(a) ==
  IF Reachable(Register(a)) THEN Register(a) ELSE [seg |-> 0, fn |-> a.fn, dword |-> (a.off \div 4) % 64]

\* What the accesses do to the configuration space.  A call that is alone is exact in the register that answers, which
\* is its own only when that can be reached: a read returns its bytes as they were and changes none, a write sets its
\* own bytes and no other byte that stores.  But a write clears all status bytes of the register that were set when it
\* began, also a narrow one that is not about them: it writes back what it has read.  A call that meets others may go
\* to the register that answers another, and to no third one; and what cannot be reached is never written.
AccessesLandWhereAddressed ==
  [][\A c \in Cpus :
       LET r == call[c]  reg == Answers(call[c].at)  old == before[c][Answers(call[c].at)] IN
       /\ step[c] = "out" /\ step'[c] = "return" =>
            /\ \A q \in Regs \ {Answers(a) : a \in met[c] \cup {r.at}} : space'[q] = space[q]
            /\ \A q \in Regs : ~ Reachable(q) => space'[q] = space[q]
            /\ met[c] = {} =>
                 \A i \in Lanes :
                   IF IsStatus(reg, i) THEN old[i] = 1 => space'[reg][i] = 0
                   ELSE space'[reg][i] = IF i \in Asked(r) THEN 1 ELSE old[i]
       /\ step[c] = "return" /\ step'[c] = "idle" /\ r.op = "read" /\ met[c] = {} =>
            \A i \in Lanes : ~ IsStatus(reg, i) =>
              /\ space[reg][i] = old[i]
              /\ i \in Asked(r) => i \in Touched(r) /\ val[c][i] = old[i]]_portVars
=============================================================================
