------------------------------ MODULE MCPaging ------------------------------
EXTENDS Paging

Entry(start, pages, ty) == [start |-> start, pages |-> pages, ty |-> ty]

\* Memory with code of any size at any place in it, and with or without a device above it.
MCUefiMaps ==
  {<<Entry(0, 8, "other"), Entry(at, n, "code")>> \o above :
     at \in 1..4, n \in {1, 4}, above \in {<<>>, <<Entry(8, 3, "mmio")>>, <<Entry(12, 2, "mmio")>>}}
MCStack == [top |-> 6, len |-> 2]

\* The stacks of two processors, not in order; the trampoline.
MCAdditions ==
  {<<MapRange(4, 5, {"P", "W"}), MapRange(2, 3, {"P", "W"})>>, <<MapRange(1, 3, {"P", "W"})>>}
\* Regions above the memory, in it and across its end.
MCRegions == {[start |-> s, pages |-> n] : s \in {7, 8, 11, 13}, n \in {1, 3}}
=============================================================================
