----------------------------- MODULE MCPciPorts -----------------------------
(***************************************************************************)
(* Two cores and two functions.  Each has a register that can be reached   *)
(* and one that cannot, one of these for its offset and one for its        *)
(* segment; one register has a status byte.                                *)
(***************************************************************************)
EXTENDS PciPorts, TLC

CONSTANTS f1, f2
Place(seg, fn, lo) == {[seg |-> seg, fn |-> fn, off |-> o] : o \in lo..(lo + 3)}
MCAddresses == Place(0, f1, 4) \cup Place(0, f1, 260) \cup Place(0, f2, 0) \cup Place(1, f2, 0)
MCStatus == {<<[seg |-> 0, fn |-> f1, dword |-> 1], 2>>}
Symm == Permutations(Cpus)
=============================================================================
