------------------------------ MODULE PciProbe ------------------------------
(***************************************************************************)
(* The search for virtio devices of src/drivers/disk/virt_io/mod.rs, the   *)
(* one thing the kernel's main task does.  The loops over tables, buses    *)
(* and devices are one walk over slots: a slot is the functions of one     *)
(* device, or Broken when its table does not validate.  A function is      *)
(*   vendor   "none" where there is no function, "virtio" or "other"       *)
(*   multi    bit 7 of its header type                                     *)
(*   head, next, id   its list of capabilities: next[k] follows k, 0 ends  *)
(***************************************************************************)
EXTENDS Integers, Sequences

\* Functions with capabilities in Caps, which 0 is not in.
Functions(Caps) ==
  [vendor : {"none", "virtio", "other"}, multi : BOOLEAN,
   head : Caps \cup {0}, next : [Caps -> Caps \cup {0}], id : [Caps -> {"vendor", "other"}]]
Broken == <<>>

\* slot and func are where the walk is, cap the capability it has to read, 0 if
\* none; mapped are the functions whose registers it has mapped, found the
\* capabilities it has reported.
Start == [slot |-> 1, func |-> 1, cap |-> 0, mapped |-> {}, found |-> {}]
Finished(m, p) == p.slot > Len(m)

NextSlot(p) == [p EXCEPT !.slot = @ + 1, !.func = 1]
NextFunc(m, p) == IF p.func < Len(m[p.slot]) THEN [p EXCEPT !.func = @ + 1] ELSE NextSlot(p)

\* The end of the body: a device whose first function is its only one ends here.
Leave(m, p) == IF p.func = 1 /\ ~ m[p.slot][1].multi THEN NextSlot(p) ELSE NextFunc(m, p)

\* Slip: the pointer to the next capability is read with the data of one that is reported.
CapabilityStuck(m, p) ==
  LET f == m[p.slot][p.func]
      q == IF f.id[p.cap] = "vendor" THEN [p EXCEPT !.cap = f.next[@], !.found = @ \cup {<<p.slot, p.func, p.cap>>}]
           ELSE p
  IN  IF q.cap = 0 THEN Leave(m, q) ELSE q

Capability(m, p) ==
  LET f == m[p.slot][p.func]
      q == [p EXCEPT !.cap = f.next[@],
                     !.found = IF f.id[p.cap] = "vendor" THEN @ \cup {<<p.slot, p.func, p.cap>>} ELSE @]
  IN  IF q.cap = 0 THEN Leave(m, q) ELSE q

\* Slip: a missing function ends its device.
FunctionOrBreak(m, p) ==
  LET f == m[p.slot][p.func]
      q == [p EXCEPT !.mapped = @ \cup {<<p.slot, p.func>>}]
  IN  IF f.vendor = "none" THEN NextSlot(q)
      ELSE IF f.vendor = "virtio" /\ f.head # 0 THEN [q EXCEPT !.cap = f.head]
      ELSE Leave(m, q)

Function(m, p) ==
  LET f == m[p.slot][p.func]
      q == [p EXCEPT !.mapped = @ \cup {<<p.slot, p.func>>}]
  IN  IF f.vendor = "none" THEN NextFunc(m, q)
      ELSE IF f.vendor = "virtio" /\ f.head # 0 THEN [q EXCEPT !.cap = f.head]
      ELSE Leave(m, q)

Step(m, p) ==
  IF m[p.slot] = Broken THEN NextSlot(p) ELSE IF p.cap # 0 THEN Capability(m, p) ELSE Function(m, p)
=============================================================================
