------------------------------- MODULE MapList -------------------------------
(***************************************************************************)
(* The lists page tables are made from: ranges of pages with flags, in the *)
(* two parallel vectors map_list and flags of src/memory/paging.rs.  In a  *)
(* list as the callers build it a later range overrides earlier ones;      *)
(* normalize_map_list turns it into sorted, disjoint ranges.  A page is a  *)
(* number, a range is lo <= p < hi, and flags are a set.                   *)
(***************************************************************************)
EXTENDS Integers, Sequences

MapRange(lo, hi, fl) == [lo |-> lo, hi |-> hi, fl |-> fl]

In(p, r) == r.lo <= p /\ p < r.hi
Meets(a, b) == a.lo < b.hi /\ a.hi > b.lo

\* Slip: what is above the new range is dropped.
CutTail(old, new) ==
  IF Meets(old, new)
  THEN IF old.lo < new.lo THEN <<[old EXCEPT !.hi = new.lo]>> ELSE <<>>
  ELSE <<old>>

\* What the loop leaves of an older range when a new one is laid over it.
Cut(old, new) ==
  IF Meets(old, new)
  THEN (IF old.lo < new.lo THEN <<[old EXCEPT !.hi = new.lo]>> ELSE <<>>)
       \o (IF old.hi > new.hi THEN <<[old EXCEPT !.lo = new.hi]>> ELSE <<>>)
  ELSE <<old>>

\* A new range is laid over the ranges so far.
Overlay(done, new) ==
  LET left[n \in 0..Len(done)] == IF n = 0 THEN <<>> ELSE left[n - 1] \o Cut(done[n], new)
  IN  Append(left[Len(done)], new)
OverlayAll(list) ==
  LET laid[n \in 0..Len(list)] == IF n = 0 THEN <<>> ELSE Overlay(laid[n - 1], list[n])
  IN  laid[Len(list)]

\* sort_unstable_by_key, by insertion: a range goes behind those that start before it.
Insert(list, r) ==
  LET k == CHOOSE k \in 0..Len(list) :
             (\A i \in 1..k : list[i].lo < r.lo) /\ (\A i \in (k + 1)..Len(list) : list[i].lo >= r.lo)
  IN  [i \in 1..(Len(list) + 1) |-> IF i <= k THEN list[i] ELSE IF i = k + 1 THEN r ELSE list[i - 1]]
SortByStart(list) ==
  LET sorted[n \in 0..Len(list)] == IF n = 0 THEN <<>> ELSE Insert(sorted[n - 1], list[n])
  IN  sorted[Len(list)]

\* A range that goes on where the last one ends, with its flags, makes that one longer.
Merge(done, next) ==
  LET k == Len(done)
  IN  IF k > 0 /\ done[k].hi = next.lo /\ done[k].fl = next.fl
      THEN [done EXCEPT ![k] = [@ EXCEPT !.hi = next.hi]]
      ELSE Append(done, next)
MergeAll(list) ==
  LET merged[n \in 0..Len(list)] == IF n = 0 THEN <<>> ELSE Merge(merged[n - 1], list[n])
  IN  merged[Len(list)]

NormalizeMapList(list) == MergeAll(SortByStart(OverlayAll(list)))

\* retain_mut in create_paging and util_update_paging: without NX its flag goes, and a range that has no flags goes.
Retain(list, nx) ==
  SelectSeq([i \in DOMAIN list |-> [list[i] EXCEPT !.fl = IF nx THEN @ ELSE @ \ {"NX"}]], LAMBDA r : r.fl # {})

-----------------------------------------------------------------------------
(* What a list means: the flags of a page, from the last range it is in. *)

Unmapped == {"unmapped"}

FlagsOf(list, p) ==
  LET in == {i \in DOMAIN list : In(p, list[i])}
  IN  IF in = {} THEN Unmapped ELSE list[CHOOSE i \in in : \A j \in in : j <= i].fl
=============================================================================
