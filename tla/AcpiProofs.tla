----------------------------- MODULE AcpiProofs -----------------------------
(***************************************************************************)
(* Proofs about the ACPI handler, for any number of cores: its accesses to *)
(* the PCI configuration space (PciPorts) and its mutexes (AmlMutex).      *)
(***************************************************************************)
EXTENDS PciPorts, AmlMutex, TLAPS

\* Leaves are for the SMT solver unless they say otherwise, with time to spare.
USE SMTT(30)

(***************************************************************************)
(* Proof about PciPorts for any number of cores, registers, status bytes   *)
(* and calls, and for every interleaving of their accesses to the ports.   *)
(***************************************************************************)

Bytes == [Lanes -> {0, 1}]
Calls == {r \in Requests : Aligned(r)}

TypeInv ==
  /\ space \in [Regs -> Bytes]
  /\ call \in [Cpus -> Calls \cup {NoCall}]
  /\ step \in [Cpus -> {"idle", "address", "in", "address2", "out", "return"}]
  /\ val \in [Cpus -> Bytes] /\ before \in [Cpus -> [Regs -> Bytes]]
  /\ met \in [Cpus -> SUBSET Addresses]
  /\ \A c \in Cpus : step[c] = "idle" <=> call[c] = NoCall

\* Two calls under way have met, so the address is that of the call or of one it has met.
MetInv ==
  /\ \A c, d \in Active : c # d => call[d].at \in met[c]
  /\ \A c \in Active : step[c] \in {"in", "out"} => \E a \in met[c] \cup {call[c].at} : latch = Cf8(a)

\* What a register's bytes may be after the device alone has changed them: a byte
\* that stores is as it was, a status byte that was set is set.
Follows(reg, old, new) ==
  \A i \in Lanes : IF IsStatus(reg, i) THEN old[i] = 1 => new[i] = 1 ELSE new[i] = old[i]

\* The register a call goes to by itself, and bytes that are those it had but for the device's doing.
Goal(c) == Cf8(call[c].at)
Keeps(c, new) == Follows(Goal(c), before[c][Goal(c)], new)

\* A call that has met no other.
AloneInv ==
  \A c \in Active : met[c] = {} =>
    /\ step[c] # "return" \/ call[c].op = "read" => Keeps(c, space[Goal(c)])
    /\ step[c] = "return" /\ call[c].op = "read" => Keeps(c, val[c])
    /\ step[c] \in {"address2", "out"} =>
         call[c].op = "write" /\ (call[c].width = 4 \/ Keeps(c, val[c]))

PortInv == TypeInv /\ MetInv /\ AloneInv

-----------------------------------------------------------------------------
\* The parts of an address.
LEMMA AddressParts ==
  ASSUME NEW a \in Addresses
  PROVE  a.seg \in Nat /\ a.fn \in Functions /\ a.off \in Nat
<1>1. a \in [seg : Nat, fn : Functions, off : Nat]
  BY AddressesAssumption
<1> QED
  BY <1>1

\* The handler's masks of the offset find the bytes that were asked for.
LEMMA TouchedIsAsked ==
  ASSUME NEW r \in Calls
  PROVE  Touched(r) = Asked(r) /\ (r.width = 4 => Touched(r) = Lanes)
<1>1. r.width \in {1, 2, 4} /\ r.at.off \in Nat /\ r.at.off % r.width = 0
  <2>1. r.at \in Addresses /\ r.width \in {1, 2, 4} /\ r.at.off % r.width = 0
    BY DEF Calls, Requests, Aligned
  <2>2. r.at.off \in Nat
    BY <2>1, AddressParts
  <2> QED
    BY <2>1, <2>2
<1>2. PICK lane \in 0..3 : lane = r.at.off % 4
  BY <1>1
<1>3. CASE r.width = 1
  BY <1>2, <1>3 DEF Touched, Asked, First
<1>4. CASE r.width = 2
  <2>1. lane \in {0, 2}
    BY <1>1, <1>2, <1>4
  <2> QED
    BY <1>2, <1>4, <2>1 DEF Touched, Asked, First
<1>5. CASE r.width = 4
  <2>1. lane = 0
    BY <1>1, <1>2, <1>5
  <2> QED
    BY <1>2, <1>5, <2>1 DEF Touched, Asked, First, Lanes
<1> QED
  BY <1>1, <1>3, <1>4, <1>5

\* What CF8 makes of an address is the register that answers, which is in reach.
LEMMA Cf8Answers ==
  ASSUME NEW a \in Addresses
  PROVE  Cf8(a) \in Regs /\ Cf8(a) = Answers(a) /\ Reachable(Cf8(a))
<1>1. a.seg \in Nat /\ a.off \in Nat
  BY AddressParts
<1>2. PICK w : w = a.off \div 4
  OBVIOUS
<1>3. w \in Nat /\ (a.off % 256) \div 4 = w % 64 /\ w % 64 < 64 /\ (w < 64 => w % 64 = w)
  <2>1. \A o \in Nat : /\ o \div 4 \in Nat /\ (o % 256) \div 4 = (o \div 4) % 64
                            /\ (o \div 4) % 64 < 64 /\ (o \div 4 < 64 => (o \div 4) % 64 = o \div 4)
    OBVIOUS
  <2> QED
    BY <1>1, <1>2, <2>1, ZenonT(30)
<1>4. Register(a) = [seg |-> a.seg, fn |-> a.fn, dword |-> w] /\ Cf8(a) = [seg |-> 0, fn |-> a.fn, dword |-> w % 64]
  BY <1>2, <1>3 DEF Register, Cf8
<1>5. Cf8(a) \in Regs
  BY DEF Regs
<1>6. Reachable(Cf8(a)) /\ (Reachable(Register(a)) <=> a.seg = 0 /\ w < 64)
  BY <1>3, <1>4 DEF Reachable
<1>7. CASE Reachable(Register(a))
  <2>1. Answers(a) = Register(a)
    BY <1>7 DEF Answers
  <2> QED
    BY <1>3, <1>4, <1>5, <1>6, <1>7, <2>1
<1>8. CASE ~ Reachable(Register(a))
  <2>1. Answers(a) = [seg |-> 0, fn |-> a.fn, dword |-> w % 64]
    BY <1>2, <1>8 DEF Answers
  <2>2. Answers(a) = Cf8(a)
    BY <1>4, <2>1
  <2> QED
    BY <1>5, <1>6, <2>2
<1> QED
  BY <1>7, <1>8

LEMMA CallsAreCalls == NoCall \notin Calls /\ \A r \in Calls : r.at \in Addresses /\ r.op \in {"read", "write"} /\ r.width \in {1, 2, 4}
<1>1. NoCall.op = "none"
  BY DEF NoCall, None
<1> QED
  BY <1>1 DEF Calls, Requests

LEMMA StoreType ==
  ASSUME TypeInv, NEW reg \in Regs, NEW b \in Bytes
  PROVE  Store(reg, b) \in Bytes
BY DEF TypeInv, Store, Bytes

LEMMA NewType ==
  ASSUME NEW r, NEW b \in Bytes
  PROVE  Written(r, b) \in Bytes
BY DEF Written, Bytes

LEMMA PortInvInit == PortInit => PortInv
<1> SUFFICES ASSUME PortInit PROVE PortInv
  OBVIOUS
<1>1. Zero \in Bytes
  BY DEF Zero, Bytes
<1>2. TypeInv
  BY <1>1 DEF PortInit, TypeInv
<1>3. Active = {}
  BY DEF PortInit, Active
<1> QED
  BY <1>2, <1>3 DEF PortInv, MetInv, AloneInv

\* A core whose call is under way: what its accesses work with.
LEMMA Busy ==
  ASSUME TypeInv, MetInv, NEW c \in Cpus, step[c] # "idle"
  PROVE  /\ c \in Active /\ call[c] \in Calls /\ call[c].at \in Addresses /\ Goal(c) \in Regs
         /\ step[c] \in {"in", "out"} =>
              latch \in Regs /\ \E a \in met[c] \cup {call[c].at} : a \in Addresses /\ latch = Cf8(a)
         /\ step[c] \in {"in", "out"} /\ met[c] = {} => latch = Goal(c)
<1>1. c \in Active /\ call[c] \in Calls /\ met[c] \subseteq Addresses
  BY DEF TypeInv, Active
<1>2. call[c].at \in Addresses
  BY <1>1, CallsAreCalls
<1>3. Goal(c) \in Regs
  BY <1>2, Cf8Answers DEF Goal
<1>4. ASSUME step[c] \in {"in", "out"}
      PROVE  /\ latch \in Regs /\ \E a \in met[c] \cup {call[c].at} : a \in Addresses /\ latch = Cf8(a)
             /\ met[c] = {} => latch = Goal(c)
  <2>1. PICK a \in met[c] \cup {call[c].at} : latch = Cf8(a)
    BY <1>1, <1>4 DEF MetInv
  <2>2. a \in Addresses
    BY <1>1, <1>2
  <2>3. latch \in Regs
    BY <2>1, <2>2, Cf8Answers
  <2>4. met[c] = {} => a = call[c].at
    OBVIOUS
  <2> QED
    BY <2>1, <2>2, <2>3, <2>4 DEF Goal
<1> QED
  BY <1>1, <1>2, <1>3, <1>4

LEMMA InvCall == ASSUME PortInv, NEW c \in Cpus, NEW r \in Requests, Access(c, r) PROVE PortInv'
<1> USE DEF PortInv
<1>1. /\ r \in Calls /\ r # NoCall /\ r.at \in Addresses /\ c \notin Active /\ r.op \in {"read", "write"}
      /\ r.width \in {1, 2, 4}
  BY CallsAreCalls DEF Access, Calls, Active
<1>2. /\ call' = [call EXCEPT ![c] = r] /\ val' = [val EXCEPT ![c] = Zero]
      /\ before' = [before EXCEPT ![c] = space] /\ UNCHANGED <<latch, space>>
      /\ step' = [step EXCEPT ![c] = IF r.op = "write" /\ r.width = 4 THEN "address2" ELSE "address"]
      /\ met' = [d \in Cpus |-> IF d = c THEN {call[e].at : e \in Active}
                                ELSE IF d \in Active THEN met[d] \cup {r.at} ELSE met[d]]
  BY DEF Access
<1>3. Active' = Active \cup {c}
  BY <1>1, <1>2 DEF Active, TypeInv
<1>4. \A e \in Active : e \in Cpus /\ call[e].at \in Addresses /\ call'[e] = call[e] /\ step'[e] = step[e]
        /\ val'[e] = val[e] /\ before'[e] = before[e] /\ met'[e] = met[e] \cup {r.at}
  BY <1>1, <1>2, CallsAreCalls DEF Active, TypeInv
<1>5. TypeInv'
  <2>1. Zero \in Bytes /\ space \in [Regs -> Bytes]
    BY DEF Zero, Bytes, TypeInv
  <2>2. met' \in [Cpus -> SUBSET Addresses]
    BY <1>1, <1>2, <1>4 DEF TypeInv
  <2> QED
    BY <1>1, <1>2, <2>1, <2>2 DEF TypeInv
<1>6. c \in Cpus /\ call'[c] = r /\ before'[c] = space /\ step'[c] \in {"address", "address2"}
      /\ (step'[c] = "address2" => r.op = "write" /\ r.width = 4)
      /\ met'[c] = {call[e].at : e \in Active}
  BY <1>2 DEF TypeInv
<1>7. MetInv'
  <2>1. ASSUME NEW d \in Active', NEW e \in Active', d # e PROVE call'[e].at \in met'[d]
    <3>1. CASE d = c
      BY <1>3, <1>4, <1>6, <2>1, <3>1
    <3>2. CASE d # c /\ e = c
      BY <1>3, <1>4, <1>6, <2>1, <3>2
    <3>3. CASE d # c /\ e # c
      BY <1>3, <1>4, <2>1, <3>3 DEF MetInv
    <3> QED
      BY <3>1, <3>2, <3>3
  <2>2. ASSUME NEW d \in Active', step'[d] \in {"in", "out"} PROVE \E a \in met'[d] \cup {call'[d].at} : latch' = Cf8(a)
    <3>1. d \in Active
      BY <1>3, <1>6, <2>2
    <3>2. latch' = latch /\ step[d] \in {"in", "out"} /\ call'[d] = call[d] /\ met[d] \subseteq met'[d]
      <4>1. call'[d] = call[d] /\ step'[d] = step[d] /\ met'[d] = met[d] \cup {r.at}
        BY <1>4, <3>1, ZenonT(30)
      <4> QED
        BY <1>2, <2>2, <4>1
    <3>3. PICK a \in met[d] \cup {call[d].at} : latch = Cf8(a)
      BY <3>1, <3>2 DEF MetInv
    <3> QED
      BY <3>2, <3>3
  <2> QED
    BY <2>1, <2>2 DEF MetInv
<1>8. AloneInv'
  <2>1. \A d \in Active' : met'[d] = {} => d = c
    BY <1>3, <1>4
  <2>2. Follows(Cf8(r.at), space[Cf8(r.at)], space[Cf8(r.at)])
    BY DEF Follows
  <2>3. Keeps(c, space[Goal(c)])'
    BY <1>2, <1>6, <2>2 DEF Keeps, Goal
  <2> QED
    BY <1>2, <1>6, <2>1, <2>3, ZenonT(30) DEF AloneInv
<1> QED
  BY <1>5, <1>7, <1>8

\* A call that has met no other is the only one: only its own steps count for it.
LEMMA OnlyOne ==
  ASSUME PortInv, NEW c \in Cpus, step[c] # "idle", NEW d \in Active, met[d] = {}
  PROVE  d = c
BY Busy DEF PortInv, MetInv

LEMMA InvAddress == ASSUME PortInv, NEW c \in Cpus, Address(c) PROVE PortInv'
<1> USE DEF PortInv
<1>1. /\ UNCHANGED <<space, call, val, met, before>> /\ latch' = Cf8(call[c].at)
      /\ step' = [step EXCEPT ![c] = IF @ = "address" THEN "in" ELSE "out"]
      /\ step[c] \in {"address", "address2"}
  BY DEF Address
<1>2. Active' = Active /\ c \in Active
  BY <1>1, Busy DEF Active
<1>3. TypeInv'
  BY <1>1 DEF TypeInv
<1>4. MetInv'
  BY <1>1, <1>2 DEF MetInv
<1>5. AloneInv'
  <2> SUFFICES ASSUME NEW d \in Active, met[d] = {}
               PROVE  (/\ step[d] # "return" \/ call[d].op = "read" => Keeps(d, space[Goal(d)])
                       /\ step[d] = "return" /\ call[d].op = "read" => Keeps(d, val[d])
                       /\ step[d] \in {"address2", "out"} =>
                            call[d].op = "write" /\ (call[d].width = 4 \/ Keeps(d, val[d])))'
    BY <1>1, <1>2 DEF AloneInv
  <2>1. d = c
    BY <1>1, OnlyOne
  <2>2. step'[c] = IF step[c] = "address" THEN "in" ELSE "out"
    BY <1>1 DEF TypeInv
  <2>3. Keeps(c, space[Goal(c)])'
    BY <1>1, <2>1 DEF AloneInv, Keeps, Goal
  <2>4. step[c] = "address2" => call[c].op = "write" /\ (call[c].width = 4 \/ Keeps(c, val[c])')
    BY <1>1, <2>1 DEF AloneInv, Keeps, Goal
  <2> QED
    BY <1>1, <2>1, <2>2, <2>3, <2>4
<1> QED
  BY <1>3, <1>4, <1>5

LEMMA InvIn == ASSUME PortInv, NEW c \in Cpus, PortIn(c) PROVE PortInv'
<1> USE DEF PortInv
<1>1. /\ UNCHANGED <<latch, space, call, met, before>> /\ step[c] = "in"
      /\ val' = [val EXCEPT ![c] = space[latch]]
      /\ step' = [step EXCEPT ![c] = IF call[c].op = "read" THEN "return" ELSE "address2"]
  BY DEF PortIn
<1>2. /\ Active' = Active /\ c \in Active /\ latch \in Regs /\ call[c] \in Calls
      /\ met[c] = {} => latch = Goal(c)
  BY <1>1, Busy DEF Active
<1>3. TypeInv'
  BY <1>1, <1>2 DEF TypeInv
<1>4. MetInv'
  BY <1>1, <1>2 DEF MetInv
<1>5. AloneInv'
  <2> SUFFICES ASSUME NEW d \in Active, met[d] = {}
               PROVE  (/\ step[d] # "return" \/ call[d].op = "read" => Keeps(d, space[Goal(d)])
                       /\ step[d] = "return" /\ call[d].op = "read" => Keeps(d, val[d])
                       /\ step[d] \in {"address2", "out"} =>
                            call[d].op = "write" /\ (call[d].width = 4 \/ Keeps(d, val[d])))'
    BY <1>1, <1>2 DEF AloneInv
  <2>1. d = c
    BY <1>1, OnlyOne
  <2>2. step'[c] = (IF call[c].op = "read" THEN "return" ELSE "address2") /\ val'[c] = space[Goal(c)]
    BY <1>1, <1>2, <2>1 DEF TypeInv
  <2>3. Keeps(c, space[Goal(c)])
    BY <1>1, <2>1 DEF AloneInv
  <2>4. Keeps(c, space[Goal(c)])' /\ Keeps(c, val[c])'
    BY <1>1, <2>2, <2>3 DEF Keeps, Goal
  <2>5. call[c].op \in {"read", "write"}
    BY <1>2, CallsAreCalls
  <2> QED
    BY <1>1, <2>1, <2>2, <2>4, <2>5
<1> QED
  BY <1>3, <1>4, <1>5

LEMMA InvOut == ASSUME PortInv, NEW c \in Cpus, PortOut(c) PROVE PortInv'
<1> USE DEF PortInv
<1>1. /\ UNCHANGED <<latch, call, val, met, before>> /\ step[c] = "out"
      /\ space' = [space EXCEPT ![latch] = Store(latch, Written(call[c], val[c]))]
      /\ step' = [step EXCEPT ![c] = "return"]
  BY DEF PortOut
<1>2. Active' = Active /\ c \in Active /\ latch \in Regs
  BY <1>1, Busy DEF Active
<1>3. Store(latch, Written(call[c], val[c])) \in Bytes
  BY <1>2, StoreType, NewType DEF TypeInv
<1>4. TypeInv'
  BY <1>1, <1>2, <1>3 DEF TypeInv
<1>5. MetInv'
  BY <1>1, <1>2 DEF MetInv
<1>6. AloneInv'
  <2>1. \A d \in Active : met[d] = {} => d = c
    BY <1>1, OnlyOne
  <2>2. met[c] = {} => call[c].op = "write"
    BY <1>1, <1>2 DEF AloneInv
  <2>3. step'[c] = "return"
    BY <1>1 DEF TypeInv
  <2> QED
    BY <1>1, <1>2, <2>1, <2>2, <2>3 DEF AloneInv
<1> QED
  BY <1>4, <1>5, <1>6

LEMMA InvReturn == ASSUME PortInv, NEW c \in Cpus, Return(c) PROVE PortInv'
<1> USE DEF PortInv
<1>1. /\ UNCHANGED <<latch, space, val, met, before>> /\ step[c] = "return"
      /\ call' = [call EXCEPT ![c] = NoCall] /\ step' = [step EXCEPT ![c] = "idle"]
  BY DEF Return
<1>2. Active' = Active \ {c}
  BY <1>1 DEF Active, TypeInv
<1>3. \A d \in Active' : d \in Active /\ d # c /\ call'[d] = call[d] /\ step'[d] = step[d]
  BY <1>1, <1>2 DEF Active, TypeInv
<1>4. TypeInv'
  BY <1>1 DEF TypeInv
<1>5. MetInv'
  BY <1>1, <1>3 DEF MetInv
<1>6. AloneInv'
  <2>1. \A d \in Active : met[d] = {} => d = c
    BY <1>1, OnlyOne
  <2> QED
    BY <1>1, <1>3, <2>1 DEF AloneInv
<1> QED
  BY <1>4, <1>5, <1>6

\* The device sets status bytes and nothing else.
LEMMA InvStatus == ASSUME PortInv, SetStatus PROVE PortInv'
<1> USE DEF PortInv
<1>1. PICK s \in Status : space' = [space EXCEPT ![s[1]][s[2]] = 1] /\ UNCHANGED <<latch, call, step, val, met, before>>
  BY ZenonT(30) DEF SetStatus
<1>2. PICK reg \in Regs, lane \in Lanes : s = <<reg, lane>>
  <2>1. s \in Regs \X Lanes
    BY StatusBytes
  <2> QED
    BY <2>1
<1>3. space' = [space EXCEPT ![reg] = [space[reg] EXCEPT ![lane] = 1]]
  <2>1. s[1] = reg /\ s[2] = lane
    BY <1>2
  <2> QED
    BY <1>1, <2>1
<1>4. [space[reg] EXCEPT ![lane] = 1] \in Bytes
  BY DEF TypeInv, Bytes
<1>5. TypeInv'
  <2>1. space' \in [Regs -> Bytes]
    BY <1>3, <1>4 DEF TypeInv
  <2> QED
    BY <1>1, <2>1 DEF TypeInv
<1>6. Active' = Active
  BY <1>1 DEF Active
<1>7. MetInv'
  BY <1>1, <1>6 DEF MetInv
<1>8. ASSUME NEW q \in Regs, NEW old \in Bytes, Follows(q, old, space[q]) PROVE Follows(q, old, space'[q])
  <2> SUFFICES ASSUME NEW i \in Lanes
               PROVE  IF IsStatus(q, i) THEN old[i] = 1 => space'[q][i] = 1 ELSE space'[q][i] = old[i]
    BY DEF Follows
  <2>1. CASE q = reg /\ i = lane
    <3>1. space'[q][i] = 1 /\ IsStatus(q, i)
      BY <1>2, <1>3, <1>4, <2>1 DEF TypeInv, Bytes, IsStatus
    <3> QED
      BY <3>1
  <2>2. CASE ~ (q = reg /\ i = lane)
    <3>1. space'[q][i] = space[q][i]
      BY <1>3, <2>2 DEF TypeInv, Bytes
    <3> QED
      BY <1>8, <3>1 DEF Follows
  <2> QED
    BY <2>1, <2>2
<1>9. AloneInv'
  <2> SUFFICES ASSUME NEW d \in Active, met[d] = {}
               PROVE  (/\ step[d] # "return" \/ call[d].op = "read" => Keeps(d, space[Goal(d)])
                       /\ step[d] = "return" /\ call[d].op = "read" => Keeps(d, val[d])
                       /\ step[d] \in {"address2", "out"} =>
                            call[d].op = "write" /\ (call[d].width = 4 \/ Keeps(d, val[d])))'
    BY <1>1, <1>6 DEF AloneInv
  <2>1. Goal(d) \in Regs /\ before[d][Goal(d)] \in Bytes
    BY Busy DEF Active, TypeInv
  <2>2. /\ step[d] # "return" \/ call[d].op = "read" => Keeps(d, space[Goal(d)])
        /\ step[d] = "return" /\ call[d].op = "read" => Keeps(d, val[d])
        /\ step[d] \in {"address2", "out"} =>
             call[d].op = "write" /\ (call[d].width = 4 \/ Keeps(d, val[d]))
    BY DEF AloneInv
  <2>3. Keeps(d, val[d]) => Keeps(d, val[d])'
    BY <1>1 DEF Keeps, Goal
  <2>4. Keeps(d, space[Goal(d)]) => Keeps(d, space[Goal(d)])'
    <3>1. Keeps(d, space[Goal(d)]) => Keeps(d, space'[Goal(d)])
      BY <1>8, <2>1 DEF Keeps
    <3> QED
      BY <1>1, <3>1 DEF Keeps, Goal
  <2> QED
    BY <1>1, <2>2, <2>3, <2>4
<1> QED
  BY <1>5, <1>7, <1>9

LEMMA PortInvStep == PortInv /\ [PortNext]_portVars => PortInv'
<1> SUFFICES ASSUME PortInv, [PortNext]_portVars PROVE PortInv'
  OBVIOUS
<1>1. CASE UNCHANGED portVars
  BY <1>1 DEF portVars, PortInv, TypeInv, MetInv, AloneInv, Active, Keeps, Goal
<1> QED
  BY <1>1, InvCall, InvAddress, InvIn, InvOut, InvReturn, InvStatus DEF PortNext

-----------------------------------------------------------------------------
\* Whatever calls interleave, a write reaches the register that answers its address or
\* that of a call it has met, always one in reach; and a call that met none is exact in
\* the register that answers, but for the status bytes it clears.
THEOREM AccessesLand == PortSpec => AccessesLandWhereAddressed
<1> DEFINE Lands(c) ==
      LET r == call[c]  reg == Answers(call[c].at)  old == before[c][Answers(call[c].at)] IN
      /\ step[c] = "out" /\ step'[c] = "return" =>
           /\ \A q \in Regs \ {Answers(a) : a \in met[c] \cup {r.at}} : space'[q] = space[q]
           /\ \A q \in Regs : ~ Reachable(q) => space'[q] = space[q]
           /\ met[c] = {} =>
                \A i \in Lanes :
                  IF IsStatus(reg, i) THEN old[i] = 1 => space'[reg][i] = 0
                  ELSE space'[reg][i] = IF i \in Asked(r) THEN 1 ELSE old[i]
      /\ step[c] = "return" /\ step'[c] = "idle" /\ r.op = "read" /\ met[c] = {} =>
           \A i \in Lanes : ~ IsStatus(reg, i) =>
             /\ space[reg][i] = old[i]
             /\ i \in Asked(r) => i \in Touched(r) /\ val[c][i] = old[i]
<1>1. ASSUME PortInv, [PortNext]_portVars, NEW c \in Cpus PROVE Lands(c)
  <2> DEFINE reg == Goal(c)
             old == before[c][reg]
  <2> USE <1>1 DEF PortInv
  <2>1. ASSUME step[c] = "out", step'[c] = "return"
        PROVE  /\ \A q \in Regs \ {Answers(a) : a \in met[c] \cup {call[c].at}} : space'[q] = space[q]
               /\ \A q \in Regs : ~ Reachable(q) => space'[q] = space[q]
               /\ met[c] = {} =>
                    \A i \in Lanes :
                      IF IsStatus(reg, i) THEN old[i] = 1 => space'[reg][i] = 0
                      ELSE space'[reg][i] = IF i \in Asked(call[c]) THEN 1 ELSE old[i]
    <3>1. PortOut(c)
      <4>1. step' # step
        BY <2>1
      <4>2. ASSUME NEW d \in Cpus, d # c, Address(d) \/ PortIn(d) \/ PortOut(d) \/ Return(d) \/ \E r \in Requests : Access(d, r)
            PROVE  step'[c] = step[c]
        BY <4>2 DEF Address, PortIn, PortOut, Return, Access, TypeInv
      <4>3. ~ SetStatus /\ ~ UNCHANGED portVars
        BY <4>1, ZenonT(30) DEF SetStatus, portVars
      <4>4. ~ Address(c) /\ ~ PortIn(c) /\ ~ Return(c) /\ ~ \E r \in Requests : Access(c, r)
        BY <2>1 DEF Address, PortIn, Return, Access, TypeInv
      <4> QED
        BY <2>1, <4>2, <4>3, <4>4 DEF PortNext
    <3>2. /\ c \in Active /\ call[c] \in Calls /\ reg \in Regs /\ latch \in Regs
          /\ met[c] = {} => latch = reg
      BY <2>1, Busy
    <3>3. space' = [space EXCEPT ![latch] = Store(latch, Written(call[c], val[c]))]
      BY <3>1 DEF PortOut
    <3>4. /\ \A q \in Regs \ {Answers(a) : a \in met[c] \cup {call[c].at}} : space'[q] = space[q]
          /\ \A q \in Regs : ~ Reachable(q) => space'[q] = space[q]
      <4>1. PICK a \in met[c] \cup {call[c].at} : a \in Addresses /\ latch = Cf8(a)
        BY <2>1, Busy
      <4>2. latch = Answers(a) /\ Reachable(latch)
        BY <4>1, Cf8Answers
      <4>3. \A q \in Regs : q # latch => space'[q] = space[q]
        BY <3>2, <3>3 DEF TypeInv
      <4> QED
        BY <4>1, <4>2, <4>3
    <3>5. ASSUME met[c] = {}, NEW i \in Lanes
          PROVE  IF IsStatus(reg, i) THEN old[i] = 1 => space'[reg][i] = 0
                 ELSE space'[reg][i] = IF i \in Asked(call[c]) THEN 1 ELSE old[i]
      <4> DEFINE new == Written(call[c], val[c])
      <4>1. space'[reg][i] = IF IsStatus(reg, i) THEN (IF new[i] = 1 THEN 0 ELSE space[reg][i]) ELSE new[i]
        BY <3>2, <3>3, <3>5 DEF Store, TypeInv, IsStatus
      <4>2. new[i] = IF i \in Asked(call[c]) THEN 1 ELSE val[c][i]
        BY <3>2, TouchedIsAsked DEF Written
      <4>3. i \in Asked(call[c]) \/ Follows(reg, old, val[c])
        <5>1. call[c].width = 4 \/ Follows(reg, old, val[c])
          BY <2>1, <3>2, <3>5 DEF AloneInv, Keeps
        <5>2. call[c].width = 4 => i \in Asked(call[c])
          BY <3>2, TouchedIsAsked
        <5> QED
          BY <5>1, <5>2
      <4> HIDE DEF new
      <4> QED
        BY <4>1, <4>2, <4>3 DEF Follows
    <3> QED
      BY <3>4, <3>5
  <2>2. ASSUME step[c] = "return", call[c].op = "read", met[c] = {}, NEW i \in Lanes, ~ IsStatus(reg, i)
        PROVE  /\ space[reg][i] = old[i]
               /\ i \in Asked(call[c]) => i \in Touched(call[c]) /\ val[c][i] = old[i]
    <3>1. c \in Active /\ call[c] \in Calls
      BY <2>2, Busy
    <3>2. Follows(reg, old, space[reg]) /\ Follows(reg, old, val[c])
      BY <2>2, <3>1 DEF AloneInv, Keeps
    <3>3. Asked(call[c]) = Touched(call[c])
      BY <3>1, TouchedIsAsked
    <3> QED
      BY <2>2, <3>2, <3>3 DEF Follows
  <2>3. step[c] # "idle" => reg = Answers(call[c].at)
    BY Busy, Cf8Answers DEF Goal
  <2> HIDE DEF reg
  <2> QED
    BY <2>1, <2>2, <2>3
<1>2. PortInv /\ [PortNext]_portVars => \A c \in Cpus : Lands(c)
  BY <1>1
<1> QED
  BY <1>2, PortInvInit, PortInvStep, PTL DEF PortSpec, AccessesLandWhereAddressed

-----------------------------------------------------------------------------
\* A core is between AML_MUTEXES.lock() and the end of acquire.
Inside == {"try", "panic"}

\* The table is locked by exactly the core inside acquire, handles are valid,
\* and a mutex that has been waited for is still taken.
CallInv ==
  \A c \in Cores :
    /\ pc[c] \in Inside <=> table = c
    /\ pc[c] \in Inside \cup {"acquire", "release"} => handle[c] \in Handles
    /\ pc[c] = "release" => held[c][handle[c]] > 0
    /\ pc[c] \in Inside /\ elapsed[c] > 0 => lock[handle[c]]

\* lock, owner and count of a mutex say who holds it and how often.
OwnInv ==
  \A h \in Handles :
    /\ lock[h] <=> owner[h] # Nobody
    /\ \A c \in Cores : IF owner[h] = c THEN held[c][h] = count[h] /\ count[h] > 0
                                        ELSE held[c][h] = 0

IInv == TypeOK /\ CallInv /\ OwnInv

LEMMA InvInit == Init => IInv
<1> SUFFICES ASSUME Init PROVE IInv
  OBVIOUS
<1>1. TypeOK
  BY AmlAssumption DEF Init, TypeOK, Labels
<1>2. CallInv
  BY AmlAssumption, ZenonT(30) DEF Init, CallInv, Inside
<1>3. OwnInv
  BY AmlAssumption DEF Init, OwnInv
<1> QED
  BY <1>1, <1>2, <1>3 DEF IInv

\* A step by a core that is not inside acquire needs the table to be free.
LEMMA OthersWait ==
  ASSUME IInv, NEW c \in Cores, NEW d \in Cores, table = d, c # d, Body(c)
  PROVE  FALSE
<1>1. table # Nobody /\ table # c
  BY AmlAssumption
<1>2. pc[c] \notin Inside
  BY <1>1 DEF IInv, CallInv
<1> QED
  BY <1>1, <1>2, ZenonT(30) DEF Body, Create, AcquireUnidentified, AcquireAgain, AcquireEnter, TryLock,
     AcquireTimeout, Stall, Release, Inside

LEMMA CallStep ==
  ASSUME IInv, NEW c \in Cores, Call(c)
  PROVE  IInv'
<1> USE AmlAssumption DEF IInv, mutexVars, callVars, Goto
<1>1. CASE CallCreate(c)
  <2>1. TypeOK'
    BY <1>1 DEF CallCreate, TypeOK, Labels
  <2>2. CallInv'
    BY <1>1 DEF CallCreate, TypeOK, CallInv, Inside
  <2>3. OwnInv'
    BY <1>1 DEF CallCreate, OwnInv
  <2> QED
    BY <2>1, <2>2, <2>3
<1>2. ASSUME NEW h \in Handles, NEW t \in Timeouts, CallAcquire(c, h, t)
      PROVE  IInv'
  <2>0. h \in Nat /\ t \in 0..MaxU16
    BY DEF Handles
  <2>1. TypeOK'
    BY <1>2, <2>0 DEF CallAcquire, TypeOK, Labels
  <2>2. CallInv'
    BY <1>2 DEF CallAcquire, TypeOK, CallInv, Inside
  <2>3. OwnInv'
    BY <1>2 DEF CallAcquire, OwnInv
  <2> QED
    BY <2>1, <2>2, <2>3
<1>3. ASSUME NEW h \in Handles, CallRelease(c, h)
      PROVE  IInv'
  <2>0. h \in Nat
    BY DEF Handles
  <2>1. TypeOK'
    BY <1>3, <2>0 DEF CallRelease, TypeOK, Labels
  <2>2. CallInv'
    BY <1>3 DEF CallRelease, TypeOK, CallInv, Inside
  <2>3. OwnInv'
    BY <1>3 DEF CallRelease, OwnInv
  <2> QED
    BY <2>1, <2>2, <2>3
<1> QED
  BY <1>1, <1>2, <1>3 DEF Call

LEMMA BodyStep ==
  ASSUME IInv, NEW c \in Cores, Body(c)
  PROVE  IInv'
<1> USE AmlAssumption DEF IInv, mutexVars, callVars, Goto
<1>1. CASE Create(c)
  <2>1. TypeOK'
    BY <1>1 DEF Create, TypeOK, Labels
  <2>2. CallInv'
    BY <1>1 DEF Create, TypeOK, CallInv, Inside
  <2>3. OwnInv'
    BY <1>1 DEF Create, OwnInv
  <2> QED
    BY <2>1, <2>2, <2>3
<1>2. CASE AcquireUnidentified(c)
  <2>1. TypeOK'
    BY <1>2 DEF AcquireUnidentified, TypeOK, Labels
  <2>2. CallInv'
    BY <1>2 DEF AcquireUnidentified, TypeOK, CallInv, Inside
  <2>3. OwnInv'
    BY <1>2 DEF AcquireUnidentified, OwnInv
  <2> QED
    BY <2>1, <2>2, <2>3
<1>3. CASE AcquireAgain(c)
  <2>0. handle[c] \in Handles
    BY <1>3 DEF AcquireAgain, CallInv
  <2>1. TypeOK'
    BY <1>3, <2>0 DEF AcquireAgain, TypeOK, Labels
  <2>2. CallInv'
    BY <1>3, <2>0 DEF AcquireAgain, TypeOK, CallInv, Inside
  <2>3. OwnInv'
    BY <1>3, <2>0 DEF AcquireAgain, TypeOK, OwnInv
  <2> QED
    BY <2>1, <2>2, <2>3
<1>4. CASE AcquireEnter(c)
  <2>1. TypeOK'
    BY <1>4 DEF AcquireEnter, TypeOK, Labels
  <2>2. CallInv'
    BY <1>4 DEF AcquireEnter, TypeOK, CallInv, Inside
  <2>3. OwnInv'
    BY <1>4 DEF AcquireEnter, OwnInv
  <2> QED
    BY <2>1, <2>2, <2>3
<1>5. CASE TryLock(c)
  <2>0. handle[c] \in Handles /\ table = c
    BY <1>5 DEF TryLock, CallInv, Inside
  <2>1. TypeOK'
    BY <1>5, <2>0 DEF TryLock, TypeOK, Labels
  <2>2. CallInv'
    BY <1>5, <2>0 DEF TryLock, TypeOK, CallInv, Inside
  <2>3. OwnInv'
    BY <1>5, <2>0 DEF TryLock, TypeOK, OwnInv
  <2> QED
    BY <2>1, <2>2, <2>3
<1>6. CASE AcquireTimeout(c)
  <2>1. TypeOK'
    BY <1>6 DEF AcquireTimeout, TypeOK, Labels
  <2>2. CallInv'
    BY <1>6 DEF AcquireTimeout, TypeOK, CallInv, Inside
  <2>3. OwnInv'
    BY <1>6 DEF AcquireTimeout, OwnInv
  <2> QED
    BY <2>1, <2>2, <2>3
<1>7. CASE Stall(c)
  <2>1. TypeOK'
    <3>1. elapsed' \in [Cores -> 0..MaxU16]
      <4>1. elapsed[c] \in 0..MaxU16 /\ (elapsed[c] < MaxU16 => elapsed[c] + 1 \in 0..MaxU16) /\ 0 \in 0..MaxU16
        BY DEF TypeOK
      <4>2. \E e \in 0..MaxU16 : elapsed' = [elapsed EXCEPT ![c] = e] \/ elapsed' = elapsed
        BY <1>7, <4>1 DEF Stall
      <4> QED
        BY <4>2 DEF TypeOK
    <3>2. pc' \in [Cores -> Labels]
      BY <1>7, ZenonT(30) DEF Stall, TypeOK, Labels
    <3> QED
      BY <1>7, <3>1, <3>2 DEF Stall, TypeOK
  <2>2. CallInv'
    BY <1>7 DEF Stall, TypeOK, CallInv, Inside
  <2>3. OwnInv'
    BY <1>7 DEF Stall, OwnInv
  <2> QED
    BY <2>1, <2>2, <2>3
<1>8. CASE Release(c)
  <2>0. handle[c] \in Handles /\ held[c][handle[c]] > 0
    BY <1>8 DEF Release, CallInv
  <2>1. TypeOK'
    <3>1. held[c][handle[c]] - 1 \in Nat
      BY <2>0 DEF TypeOK
    <3>2. held' \in [Cores -> [Handles -> Nat]]
      BY <1>8, <3>1, ZenonT(30) DEF Release, TypeOK
    <3>3. count' \in [Handles -> Nat]
      <4>1. \A n \in Nat : (IF n > 0 THEN n - 1 ELSE n) \in Nat
        OBVIOUS
      <4>2. count[handle[c]] \in Nat
        BY <2>0 DEF TypeOK
      <4> QED
        BY <1>8, <4>1, <4>2, ZenonT(30) DEF Release, TypeOK
    <3> QED
      BY <1>8, <3>2, <3>3, ZenonT(30) DEF Release, TypeOK, Labels
  <2>2. CallInv'
    BY <1>8, <2>0 DEF Release, TypeOK, CallInv, Inside
  <2>3. OwnInv'
    BY <1>8, <2>0 DEF Release, TypeOK, OwnInv
  <2> QED
    BY <2>1, <2>2, <2>3
<1> QED
  BY <1>1, <1>2, <1>3, <1>4, <1>5, <1>6, <1>7, <1>8 DEF Body

LEMMA InvStep == IInv /\ [Next]_vars => IInv'
<1> SUFFICES ASSUME IInv, [Next]_vars PROVE IInv'
  OBVIOUS
<1>1. CASE UNCHANGED vars
  BY <1>1 DEF vars, mutexVars, callVars, IInv, TypeOK, CallInv, OwnInv
<1> QED
  BY <1>1, CallStep, BodyStep DEF Next, Quiet

\* Type correctness of the mutexes and of acquire's locals; elapsed stays a u16.
THEOREM TypeCorrect == Spec => []TypeOK
<1>1. IInv => TypeOK
  BY DEF IInv
<1> QED
  BY <1>1, InvInit, InvStep, PTL DEF Spec

\* A mutex of the interpreter has one holder, for any cores, nesting and timeouts.
THEOREM Exclusive == Spec => []MutualExclusion
<1>1. IInv => MutualExclusion
  BY AmlAssumption DEF IInv, TypeOK, OwnInv, MutualExclusion
<1> QED
  BY <1>1, InvInit, InvStep, PTL DEF Spec

\* acquire succeeds at its first try or not at all, for any cores and timeouts.
THEOREM FutileWait == Spec => WaitIsFutile
<1>1. IInv => \A c \in Cores : TryLock(c) => elapsed[c] = 0
  BY DEF IInv, TypeOK, CallInv, Inside, TryLock
<1>2. IInv /\ [Next]_vars => [\A c \in Cores : TryLock(c) => elapsed[c] = 0]_vars
  BY <1>1
<1> QED
  BY <1>2, InvInit, InvStep, PTL DEF Spec, WaitIsFutile

\* An acquire without a limit that has to wait stops every operation on every
\* mutex, for any cores.
THEOREM ForeverFreezes == Spec => ForeverFreezesAll
<1>1. ASSUME IInv, [Next]_vars, NEW c \in Cores, WaitsForever(c)
      PROVE  UNCHANGED <<table, len, mutexVars, held>>
  <2>1. table = c
    BY <1>1 DEF IInv, CallInv, WaitsForever, Inside
  <2>2. CASE UNCHANGED vars
    BY <2>2 DEF vars
  <2>3. ASSUME NEW d \in Cores, Call(d) PROVE UNCHANGED <<table, len, mutexVars, held>>
    BY <2>3 DEF Call, CallCreate, CallAcquire, CallRelease
  <2>4. ASSUME NEW d \in Cores, Body(d) PROVE UNCHANGED <<table, len, mutexVars, held>>
    <3>1. d = c
      BY <1>1, <2>1, <2>4, OthersWait
    <3>2. Stall(c)
      BY <1>1, <2>1, <2>4, <3>1, AmlAssumption, ZenonT(30) DEF WaitsForever, Body, Create, AcquireUnidentified,
         AcquireAgain, AcquireEnter, TryLock, AcquireTimeout, TimedOut, Release
    <3> QED
      BY <3>2 DEF Stall
  <2> QED
    BY <1>1, <2>2, <2>3, <2>4 DEF Next, Quiet
<1>2. IInv /\ [Next]_vars =>
        [(\E c \in Cores : WaitsForever(c)) => UNCHANGED <<table, len, mutexVars, held>>]_vars
  BY <1>1
<1> QED
  BY <1>2, InvInit, InvStep, PTL DEF Spec, ForeverFreezesAll
=============================================================================
