----------------------------- MODULE Algorithms -----------------------------
(***************************************************************************)
(* The pure algorithms at work on every input: lists of ranges as the      *)
(* callers of normalize_map_list push them together, the days from 1970    *)
(* on, and the devices of a machine to probe.  job is what is computed,    *)
(* input the list it is computed from.                                     *)
(***************************************************************************)
EXTENDS MapList, Calendar, PciProbe

CONSTANTS
  Pages,      \* bound on the pages of a range
  Flags,      \* what the flags of a range may be
  MaxRanges,  \* bound on the ranges of a list
  LastYear,   \* bound on the days counted
  Caps,       \* where a function may have capabilities
  Machines    \* the devices that are probed

ASSUME PagesAssumption == Pages \in Nat
ASSUME CapsAssumption == 0 \notin Caps
ASSUME MachinesAssumption == Machines \subseteq Seq(Seq(Functions(Caps)))

VARIABLES job, input
jobVars == <<job, input>>

FirstDay ==
  [is |-> "date", n |-> 0,
   date |-> [year |-> 1970, month |-> 1, day |-> 1, hour |-> 0, min |-> 0, sec |-> 0]]
\* read are the capabilities that have been read of the function where the walk is (history).
Probes == [is : {"probe"}, m : Machines, p : {Start}, read : {{}}]

JobInit == input = <<>> /\ job \in {[is |-> "map"], FirstDay} \cup Probes
AddRange ==
  /\ job.is = "map" /\ Len(input) < MaxRanges
  /\ \E lo, hi \in 0..Pages, fl \in Flags : lo < hi /\ input' = Append(input, MapRange(lo, hi, fl))
  /\ UNCHANGED job
AddDay ==
  /\ job.is = "date" /\ job.date.year <= LastYear
  /\ job' = [job EXCEPT !.n = @ + 1, !.date = NextDay(@)]
  /\ UNCHANGED input
Probe ==
  /\ job.is = "probe" /\ ~ Finished(job.m, job.p)
  /\ LET q == Step(job.m, job.p)
     IN  job' = [job EXCEPT !.p = q, !.read = IF q.cap = 0 THEN {} ELSE @ \cup ({job.p.cap} \ {0})]
  /\ UNCHANGED input
JobNext == AddRange \/ AddDay \/ Probe
JobSpec == JobInit /\ [][JobNext]_jobVars

-----------------------------------------------------------------------------
(* Properties. *)

\* normalize_map_list keeps the meaning of a list: each page gets the flags of the last range it was in, also where
\* ranges split, swallow and touch each other; and its result is in order and disjoint, so that create_recursive may
\* take the first range of a page and map a huge page when one range covers it, with equal neighbours joined.
NormalizedMeansTheSame ==
  job.is = "map" =>
    LET n == NormalizeMapList(input)
    IN  /\ \A p \in 0..(Pages - 1) : FlagsOf(n, p) = FlagsOf(input, p)
        /\ \A i \in 1..Len(n) :
             /\ n[i].lo < n[i].hi
             /\ i < Len(n) => n[i].hi < n[i + 1].lo \/ (n[i].hi = n[i + 1].lo /\ n[i].fl # n[i + 1].fl)

\* The part of get_time that makes days of a date is the Gregorian calendar, counted day by day from 1970.
DaysAreCounted == job.is = "date" => total_days(job.date.year, job.date.month, job.date.day) = job.n

\* A device that says its first function is the only one; the functions the walk comes to, of which some may be missing.
Single(d) == d[1].vendor # "none" /\ ~ d[1].multi
Visited(d) == {f \in DOMAIN d : Single(d) => f = 1}
\* The capabilities that are reached from the head, and a list of them that does not end.
Listed(f) ==
  IF f.vendor # "virtio" \/ f.head = 0 THEN {}
  ELSE {k \in DOMAIN f.next :
          \A S \in SUBSET DOMAIN f.next : f.head \in S /\ (\A c \in S : f.next[c] \in S \cup {0}) => k \in S}
Endless(f) == f.vendor = "virtio" /\ f.head # 0 /\ \A k \in Listed(f) : f.next[k] # 0
AtEndless(m, p) == p.cap # 0 /\ Endless(m[p.slot][p.func])

At(m) == UNION {{<<s, f>> : f \in Visited(m[s])} : s \in DOMAIN m}
Exist(m) == {a \in At(m) : m[a[1]][a[2]].vendor # "none"}
Vendors(m, a) == {k \in Listed(m[a[1]][a[2]]) : m[a[1]][a[2]].id[k] = "vendor"}
AllVendors(m) == UNION {{<<a[1], a[2], k>> : k \in Vendors(m, a)} : a \in Exist(m)}

\* A later function of the walk.
After(p, q) == p.slot < q.slot \/ (p.slot = q.slot /\ p.func < q.func)

\* The search for virtio devices reports the vendor capabilities of the functions that exist, in the end all of them,
\* also where functions are missing between others or the first one is.  A page is mapped before its vendor is read:
\* the pages of missing functions are mapped as well, except behind a first function that says it is the only one.
\* Each step goes to a later function or on in a list, and only in an endless list it comes to a capability again.
ProbeIsComplete ==
  job.is = "probe" =>
    LET m == job.m  p == job.p  q == Step(m, p)
    IN  /\ p.mapped \subseteq At(m) /\ p.found \subseteq AllVendors(m)
        /\ Finished(m, p) => /\ p.mapped = At(m) /\ p.found = AllVendors(m)
                             /\ \A a \in Exist(m) : ~ Endless(m[a[1]][a[2]])
        /\ ~ Finished(m, p) => After(p, q) \/ (p.slot = q.slot /\ p.func = q.func /\ q.cap # 0)
        /\ p.cap \in job.read => AtEndless(m, p)

\* The search ends, or it has come to an endless list of capabilities, which it follows without a limit.
ProbeEnds ==
  job.is = "probe" ~> job.is = "probe" /\ (Finished(job.m, job.p) \/ AtEndless(job.m, job.p))
=============================================================================
