----------------------------- MODULE PciProofs ------------------------------
(***************************************************************************)
(* Proof about the search for virtio devices (PciProbe), on machines of    *)
(* every size.  ProbeInv says which functions the walk has passed and      *)
(* which capabilities of the one it is at.                                 *)
(***************************************************************************)
EXTENDS Algorithms, TLAPS

\* Leaves are for the SMT solver unless they say otherwise, with time to spare.
USE SMTT(30)

\* The walk's state by its parts.
Walk(s, f, c, ma, fo) == [slot |-> s, func |-> f, cap |-> c, mapped |-> ma, found |-> fo]

\* Where the walk comes to functions, which of them it has passed when it is at (s, f), and what a function reports.
Has(m, t, g) == t \in 1..Len(m) /\ g \in Visited(m[t])
Passed(s, f, t, g) == t < s \/ (t = s /\ g < f)
Vendor(fn, k) == k \in Listed(fn) /\ fn.id[k] = "vendor"

\* V are the capabilities the walk has read before it comes to c.
Chain(fn, V, c) ==
  /\ V \subseteq Listed(fn) /\ c \in Listed(fn)
  /\ fn.head \in V \cup {c} /\ \A v \in V : fn.next[v] \in V \cup {c}

\* Where the walk may be.
PlaceInv(m, s, f) ==
  /\ s \in Nat /\ s >= 1 /\ s <= Len(m) + 1 /\ f \in Nat /\ f >= 1
  /\ s <= Len(m) /\ m[s] # Broken => f \in Visited(m[s])
  /\ s > Len(m) \/ m[s] = Broken => f = 1
\* What it has mapped; it has come behind no list that does not end.
MappedInv(m, s, f, c, ma) ==
  /\ \A x : x \in ma <=> \E t, g : x = <<t, g>> /\ Has(m, t, g) /\ (Passed(s, f, t, g) \/ (c # 0 /\ t = s /\ g = f))
  /\ \A t, g : Has(m, t, g) /\ Passed(s, f, t, g) => ~ Endless(m[t][g])
\* What it has found, with the capabilities V of the function where it is.
FoundInv(m, s, f, V, fo) ==
  \A x : x \in fo <=>
    \/ \E t, g, k : x = <<t, g, k>> /\ Has(m, t, g) /\ Passed(s, f, t, g) /\ Vendor(m[t][g], k)
    \/ \E k \in V : x = <<s, f, k>> /\ m[s][f].id[k] = "vendor"
CapInv(m, s, f, c, V) ==
  IF c = 0 THEN V = {} ELSE s <= Len(m) /\ m[s] # Broken /\ Chain(m[s][f], V, c)
ProbeInv(m, p, V) ==
  \E s, f, c, ma, fo :
    /\ p = Walk(s, f, c, ma, fo) /\ PlaceInv(m, s, f)
    /\ MappedInv(m, s, f, c, ma) /\ FoundInv(m, s, f, V, fo) /\ CapInv(m, s, f, c, V)

\* What a step of the walk from p makes of it: the capabilities that have been read, and that it goes on.
ReadOn(p, q, V) == IF q.cap = 0 THEN {} ELSE V \cup ({p.cap} \ {0})
Advances(p, q) == After(p, q) \/ (p.slot = q.slot /\ p.func = q.func /\ q.cap # 0)
StepsOn(m, p, V) == LET q == Step(m, p) IN ProbeInv(m, q, ReadOn(p, q, V)) /\ Advances(p, q)

\* The parts of the walk's state.
LEMMA WalkFields ==
  ASSUME NEW s, NEW f, NEW c, NEW ma, NEW fo
  PROVE  LET w == Walk(s, f, c, ma, fo)
         IN  w.slot = s /\ w.func = f /\ w.cap = c /\ w.mapped = ma /\ w.found = fo
BY DEF Walk

\* The three ways on, by parts: to the next device,
LEMMA NextSlotIs ==
  ASSUME NEW s, NEW f, NEW c, NEW ma, NEW fo
  PROVE  NextSlot(Walk(s, f, c, ma, fo)) = Walk(s + 1, 1, c, ma, fo)
<1>1. PICK w : w = Walk(s, f, c, ma, fo)
  OBVIOUS
<1>2. w.slot = s
  BY <1>1 DEF Walk
<1>3. NextSlot(w) = [[w EXCEPT !.slot = s + 1] EXCEPT !.func = 1]
  BY <1>2 DEF NextSlot
<1>4. [w EXCEPT !.slot = s + 1] = Walk(s + 1, f, c, ma, fo)
  BY <1>1 DEF Walk
<1>5. [Walk(s + 1, f, c, ma, fo) EXCEPT !.func = 1] = Walk(s + 1, 1, c, ma, fo)
  BY DEF Walk
<1> QED
  BY <1>1, <1>3, <1>4, <1>5, ZenonT(30)

\* to the next function or device,
LEMMA NextFuncIs ==
  ASSUME NEW m, NEW s, NEW f, NEW c, NEW ma, NEW fo
  PROVE  NextFunc(m, Walk(s, f, c, ma, fo)) =
           IF f < Len(m[s]) THEN Walk(s, f + 1, c, ma, fo) ELSE Walk(s + 1, 1, c, ma, fo)
<1>1. PICK w : w = Walk(s, f, c, ma, fo)
  OBVIOUS
<1>2. w.slot = s /\ w.func = f
  BY <1>1 DEF Walk
<1>3. [w EXCEPT !.func = f + 1] = Walk(s, f + 1, c, ma, fo)
  BY <1>1 DEF Walk
<1>4. NextSlot(w) = Walk(s + 1, 1, c, ma, fo)
  BY <1>1, NextSlotIs
<1>5. NextFunc(m, w) = IF f < Len(m[s]) THEN [w EXCEPT !.func = f + 1] ELSE NextSlot(w)
  BY <1>2 DEF NextFunc
<1> QED
  BY <1>1, <1>3, <1>4, <1>5

\* and from a function that has been read.
LEMMA LeaveIs ==
  ASSUME NEW m, NEW s, NEW f, NEW c, NEW ma, NEW fo
  PROVE  Leave(m, Walk(s, f, c, ma, fo)) =
           IF f = 1 /\ ~ m[s][1].multi THEN Walk(s + 1, 1, c, ma, fo) ELSE NextFunc(m, Walk(s, f, c, ma, fo))
<1>1. PICK w : w = Walk(s, f, c, ma, fo)
  OBVIOUS
<1>2. w.slot = s /\ w.func = f
  BY <1>1 DEF Walk
<1>3. NextSlot(w) = Walk(s + 1, 1, c, ma, fo)
  BY <1>1, NextSlotIs
<1>4. Leave(m, w) = IF f = 1 /\ ~ m[s][1].multi THEN NextSlot(w) ELSE NextFunc(m, w)
  BY <1>2 DEF Leave
<1> QED
  BY <1>1, <1>3, <1>4

\* The capability behind c is n, and with c the walk has found fp.
Reads(m, s, f, c, ma, fo, fn, n, fp) ==
  /\ fn = m[s][f] /\ n = fn.next[c] /\ fp = IF fn.id[c] = "vendor" THEN fo \cup {<<s, f, c>>} ELSE fo
  /\ Capability(m, Walk(s, f, c, ma, fo)) =
       IF n = 0 THEN Leave(m, Walk(s, f, 0, ma, fp)) ELSE Walk(s, f, n, ma, fp)

\* What the reading of a capability does, by parts.
LEMMA CapabilityIs ==
  ASSUME NEW m, NEW s, NEW f, NEW c, NEW ma, NEW fo
  PROVE  \E fn, n, fp : Reads(m, s, f, c, ma, fo, fn, n, fp)
<1>1. PICK w : w = Walk(s, f, c, ma, fo)
  OBVIOUS
<1>2. w.slot = s /\ w.func = f /\ w.cap = c /\ w.found = fo
  BY <1>1 DEF Walk
<1>3. PICK fn, n, fp : fn = m[s][f] /\ n = fn.next[c] /\ fp = IF fn.id[c] = "vendor" THEN fo \cup {<<s, f, c>>} ELSE fo
  BY ZenonT(30)
<1>4. PICK r : r = Walk(s, f, n, ma, fp)
  OBVIOUS
<1>5. [[w EXCEPT !.cap = n] EXCEPT !.found = fp] = r
  <2>1. [w EXCEPT !.cap = n] = Walk(s, f, n, ma, fo)
    BY <1>1 DEF Walk
  <2>2. [Walk(s, f, n, ma, fo) EXCEPT !.found = fp] = Walk(s, f, n, ma, fp)
    BY DEF Walk
  <2> QED
    BY <1>4, <2>1, <2>2, ZenonT(30)
<1>6. r.cap = n
  BY <1>4 DEF Walk
<1>7. Capability(m, w) = IF r.cap = 0 THEN Leave(m, r) ELSE r
  BY <1>2, <1>3, <1>5, ZenonT(30) DEF Capability
<1> QED
  BY <1>1, <1>3, <1>4, <1>6, <1>7 DEF Reads

\* A device, and the functions it has.
LEMMA DeviceParts ==
  ASSUME NEW m \in Seq(Seq(Functions(Caps))), NEW t \in 1..Len(m)
  PROVE  /\ m[t] \in Seq(Functions(Caps)) /\ Len(m[t]) \in Nat /\ DOMAIN m[t] = 1..Len(m[t])
         /\ m[t] # Broken => 1 <= Len(m[t]) /\ 1 \in Visited(m[t])
         /\ m[t] = Broken => Visited(m[t]) = {}
         /\ \A g \in Visited(m[t]) : g \in 1..Len(m[t]) /\ g \in Nat /\ g >= 1 /\ m[t][g] \in Functions(Caps)
<1> DEFINE d == m[t]
<1>1. d \in Seq(Functions(Caps))
  OBVIOUS
<1> HIDE DEF d
<1>2. Len(d) \in Nat /\ DOMAIN d = 1..Len(d) /\ \A g \in 1..Len(d) : d[g] \in Functions(Caps)
  BY <1>1
<1>3. d # Broken => 1 <= Len(d)
  BY <1>1, <1>2 DEF Broken
<1>4. d # Broken => 1 \in Visited(d)
  BY <1>2, <1>3 DEF Visited, Single
<1>5. \A g \in Visited(d) : g \in 1..Len(d) /\ g \in Nat /\ g >= 1
  BY <1>2, <1>3 DEF Visited, Single
<1>6. d = Broken => Visited(d) = {}
  <2>1. d = Broken => DOMAIN d = {}
    BY <1>2 DEF Broken
  <2>2. Visited(d) \subseteq DOMAIN d
    BY ZenonT(30) DEF Visited
  <2> QED
    BY <2>1, <2>2
<1> QED
  BY <1>1, <1>2, <1>3, <1>4, <1>5, <1>6 DEF d

\* The end of the body: the walk goes to a place where it may be, and has passed one more function, the one it was at.
Goes(m, s, f, u, h) ==
  /\ PlaceInv(m, u, h)
  /\ \A t, g : Has(m, t, g) => (Passed(u, h, t, g) <=> Passed(s, f, t, g) \/ (t = s /\ g = f))

\* To the next device the walk goes from the last function of one.
LEMMA ToNextSlot ==
  ASSUME NEW m \in Seq(Seq(Functions(Caps))), NEW s \in 1..Len(m), NEW f \in Nat,
         m[s] = Broken \/ f \in Visited(m[s]), \A g \in Visited(m[s]) : g <= f
  PROVE  Goes(m, s, f, s + 1, 1)
<1>0. Len(m) \in Nat
  OBVIOUS
<1>1. \A t \in 1..Len(m) : (m[t] # Broken => 1 \in Visited(m[t])) /\ \A g \in Visited(m[t]) : g \in Nat /\ g >= 1
  BY DeviceParts
<1>2. PlaceInv(m, s + 1, 1)
  <2>1. s + 1 \in Nat /\ s + 1 >= 1 /\ s + 1 <= Len(m) + 1
    BY <1>0
  <2>2. s + 1 <= Len(m) /\ m[s + 1] # Broken => 1 \in Visited(m[s + 1])
    BY <1>0, <1>1
  <2> QED
    BY <2>1, <2>2 DEF PlaceInv
<1>3. ASSUME NEW t, NEW g, Has(m, t, g)
      PROVE  Passed(s + 1, 1, t, g) <=> Passed(s, f, t, g) \/ (t = s /\ g = f)
  <2>1. t \in Nat /\ g \in Nat /\ g >= 1 /\ (t = s => g <= f)
    BY <1>1, <1>3 DEF Has
  <2> QED
    BY <2>1 DEF Passed
<1> QED
  BY <1>2, <1>3 DEF Goes

\* To the next function it goes where there is one.
LEMMA ToNextFunc ==
  ASSUME NEW m \in Seq(Seq(Functions(Caps))), NEW s \in 1..Len(m), NEW f \in Nat,
         f \in Visited(m[s]), f + 1 \in Visited(m[s])
  PROVE  Goes(m, s, f, s, f + 1)
<1>0. Len(m) \in Nat
  OBVIOUS
<1>1. \A t \in 1..Len(m) : \A g \in Visited(m[t]) : g \in Nat /\ g >= 1
  BY DeviceParts
<1>2. PlaceInv(m, s, f + 1)
  <2>1. m[s] # Broken
    <3>1. m[s] = Broken => Visited(m[s]) = {}
      BY DeviceParts, ZenonT(30)
    <3> QED
      BY <3>1
  <2> QED
    BY <1>0, <2>1 DEF PlaceInv
<1>3. ASSUME NEW t, NEW g, Has(m, t, g)
      PROVE  Passed(s, f + 1, t, g) <=> Passed(s, f, t, g) \/ (t = s /\ g = f)
  <2>1. t \in Nat /\ g \in Nat /\ g >= 1
    BY <1>1, <1>3 DEF Has
  <2> QED
    BY <2>1 DEF Passed
<1> QED
  BY <1>2, <1>3 DEF Goes

\* Whichever way the body takes, it goes on by one function.
LEMMA Leaves ==
  ASSUME NEW m \in Seq(Seq(Functions(Caps))), NEW s \in 1..Len(m), NEW f \in Visited(m[s]), m[s] # Broken,
         NEW c, NEW ma, NEW fo
  PROVE  LET w == Walk(s, f, c, ma, fo)
             r == IF m[s][f].vendor = "none" THEN NextFunc(m, w) ELSE Leave(m, w)
         IN  \E u, h : r = Walk(u, h, c, ma, fo) /\ Goes(m, s, f, u, h)
<1>0. PICK w : w = Walk(s, f, c, ma, fo)
  OBVIOUS
<1> DEFINE d == m[s]
           r == IF m[s][f].vendor = "none" THEN NextFunc(m, w) ELSE Leave(m, w)
<1>1. /\ Len(d) \in Nat /\ DOMAIN d = 1..Len(d) /\ 1 <= Len(d) /\ 1 \in Visited(d)
      /\ f \in 1..Len(d) /\ f \in Nat
      /\ \A g \in Visited(d) : g \in 1..Len(d)
  BY DeviceParts
<1>3. NextFunc(m, w) = IF f < Len(d) THEN Walk(s, f + 1, c, ma, fo) ELSE Walk(s + 1, 1, c, ma, fo)
  BY <1>0, NextFuncIs
<1>4. Leave(m, w) = IF f = 1 /\ ~ d[1].multi THEN Walk(s + 1, 1, c, ma, fo) ELSE NextFunc(m, w)
  BY <1>0, LeaveIs
<1>5. ASSUME \A g \in Visited(d) : g <= f PROVE Goes(m, s, f, s + 1, 1)
  BY <1>1, <1>5, ToNextSlot
<1>6. CASE d[1].vendor # "none" /\ ~ d[1].multi
  <2>1. Visited(d) = {1} /\ f = 1
    BY <1>6 DEF Visited, Single
  <2>2. r = Walk(s + 1, 1, c, ma, fo)
    BY <1>4, <1>6, <2>1
  <2>3. Goes(m, s, f, s + 1, 1)
    BY <1>5, <2>1
  <2> QED
    BY <1>0, <2>2, <2>3
<1>7. CASE ~ (d[1].vendor # "none" /\ ~ d[1].multi)
  <2>1. Visited(d) = 1..Len(d)
    BY <1>1, <1>7 DEF Visited, Single
  <2>2. r = NextFunc(m, w)
    BY <1>4, <1>7
  <2>3. CASE f < Len(d)
    <3>1. f + 1 \in Visited(d)
      BY <1>1, <2>1, <2>3
    <3>2. Goes(m, s, f, s, f + 1)
      BY <1>1, <3>1, ToNextFunc, ZenonT(30)
    <3> QED
      BY <1>0, <1>3, <2>2, <2>3, <3>2
  <2>4. CASE ~ f < Len(d)
    <3>1. \A g \in Visited(d) : g <= f
      BY <1>1, <2>1, <2>4
    <3>2. Goes(m, s, f, s + 1, 1)
      BY <1>5, <3>1
    <3> QED
      BY <1>0, <1>3, <2>2, <2>4, <3>2
  <2> QED
    BY <2>3, <2>4
<1> QED
  BY <1>6, <1>7

\* The same as one fact: r is the place behind (s, f).
Onward(m, s, f, c, ma, fo, r) == \E u, h : r = Walk(u, h, c, ma, fo) /\ Goes(m, s, f, u, h)
LEMMA LeavesOnward ==
  ASSUME NEW m \in Seq(Seq(Functions(Caps))), NEW s \in 1..Len(m), NEW f \in Visited(m[s]), m[s] # Broken,
         NEW c, NEW ma, NEW fo, NEW q, q = Walk(s, f, c, ma, fo)
  PROVE  /\ m[s][f].vendor = "none" => Onward(m, s, f, c, ma, fo, NextFunc(m, q))
         /\ m[s][f].vendor # "none" => Onward(m, s, f, c, ma, fo, Leave(m, q))
BY Leaves DEF Onward

\* The capabilities one by one: at the end of the list all that are listed have been read; a list that comes to one of
\* them again does not end.
LEMMA ChainStep ==
  ASSUME NEW fn \in Functions(Caps), NEW V, NEW c, Chain(fn, V, c)
  PROVE  /\ fn.vendor = "virtio" /\ c \in Caps /\ c # 0 /\ V \subseteq Caps
         /\ fn.next[c] # 0 => Chain(fn, V \cup {c}, fn.next[c])
         /\ fn.next[c] = 0 => Listed(fn) = V \cup {c} /\ ~ Endless(fn)
         /\ c \in V => Endless(fn)
<1> DEFINE L == Listed(fn)
           nx == fn.next
           W == V \cup {c}
<1>1. DOMAIN nx = Caps /\ (\A k \in Caps : nx[k] \in Caps \cup {0}) /\ 0 \notin Caps
  BY CapsAssumption DEF Functions
<1>2. V \subseteq L /\ c \in L /\ fn.head \in W /\ \A v \in V : nx[v] \in W
  BY DEF Chain
<1>3. fn.vendor = "virtio" /\ fn.head # 0
  BY <1>2 DEF Listed
<1>4. L = {k \in Caps : \A S \in SUBSET Caps : fn.head \in S /\ (\A x \in S : nx[x] \in S \cup {0}) => k \in S}
  BY <1>1, <1>3 DEF Listed
<1> HIDE DEF L, nx
<1>5. c \in Caps /\ V \subseteq Caps /\ c # 0 /\ W \subseteq Caps
  BY <1>1, <1>2, <1>4
<1>6. ASSUME nx[c] # 0 PROVE Chain(fn, W, nx[c])
  <2>1. nx[c] \in Caps
    BY <1>1, <1>5, <1>6
  <2>2. nx[c] \in L
    BY <1>2, <1>4, <1>6, <2>1
  <2> QED
    BY <1>2, <2>2 DEF Chain, L, nx
<1>7. ASSUME nx[c] \in W \cup {0} PROVE L \subseteq W
  <2>1. \A x \in W : nx[x] \in W \cup {0}
    BY <1>2, <1>7
  <2> QED
    BY <1>2, <1>4, <1>5, <2>1, ZenonT(30)
<1>8. ASSUME nx[c] = 0 PROVE L = W /\ ~ Endless(fn)
  <2>1. L = W
    BY <1>2, <1>7, <1>8
  <2>2. c \in L /\ nx[c] = 0
    BY <1>2, <1>8
  <2> QED
    BY <2>1, <2>2 DEF Endless, L, nx
<1>9. ASSUME c \in V PROVE Endless(fn)
  <2>1. \A x \in W : nx[x] \in W /\ nx[x] # 0
    BY <1>1, <1>2, <1>5, <1>9
  <2>2. L \subseteq W
    BY <1>7, <2>1
  <2>3. \A k \in L : nx[k] # 0
    BY <2>1, <2>2
  <2> QED
    BY <1>3, <2>3 DEF Endless, L, nx
<1> QED
  BY <1>3, <1>5, <1>6, <1>8, <1>9 DEF L, nx

\* The walk of a list begins at its head.
LEMMA ChainHead ==
  ASSUME NEW fn \in Functions(Caps), fn.vendor = "virtio", fn.head # 0
  PROVE  Chain(fn, {}, fn.head)
<1>1. DOMAIN fn.next = Caps /\ fn.head \in Caps
  BY DEF Functions
<1>2. fn.head \in Listed(fn)
  BY <1>1 DEF Listed
<1> QED
  BY <1>2 DEF Chain

\* With the function it is at the walk is done.
UpTo(m, s, f, ma, fo) ==
  /\ \A x : x \in ma <=> \E t, g : x = <<t, g>> /\ Has(m, t, g) /\ (Passed(s, f, t, g) \/ (t = s /\ g = f))
  /\ \A t, g : Has(m, t, g) /\ (Passed(s, f, t, g) \/ (t = s /\ g = f)) => ~ Endless(m[t][g])
  /\ \A x : x \in fo <=> \E t, g, k : /\ x = <<t, g, k>> /\ Has(m, t, g) /\ (Passed(s, f, t, g) \/ (t = s /\ g = f))
                                      /\ Vendor(m[t][g], k)

\* A walk that is done with a function keeps the invariant when it goes on.
LEMMA GoesOn ==
  ASSUME NEW m, NEW s, NEW f, NEW u, NEW h, NEW ma, NEW fo, UpTo(m, s, f, ma, fo), Goes(m, s, f, u, h)
  PROVE  ProbeInv(m, Walk(u, h, 0, ma, fo), {})
<1>1. \A t, g : Has(m, t, g) => (Passed(u, h, t, g) <=> Passed(s, f, t, g) \/ (t = s /\ g = f))
  BY DEF Goes
<1>2. MappedInv(m, u, h, 0, ma)
  <2>1. \A x : x \in ma <=> \E t, g : x = <<t, g>> /\ Has(m, t, g) /\ Passed(u, h, t, g)
    BY <1>1, ZenonT(30) DEF UpTo
  <2>2. \A t, g : Has(m, t, g) /\ Passed(u, h, t, g) => ~ Endless(m[t][g])
    BY <1>1 DEF UpTo
  <2> QED
    BY <2>1, <2>2, ZenonT(30) DEF MappedInv
<1>3. FoundInv(m, u, h, {}, fo)
  BY <1>1, ZenonT(30) DEF FoundInv, UpTo
<1>4. CapInv(m, u, h, 0, {}) /\ PlaceInv(m, u, h)
  BY DEF CapInv, Goes
<1> QED
  BY <1>2, <1>3, <1>4, ZenonT(30) DEF ProbeInv

\* With what GoesOn says the step is done, when nothing of the next function has been read.
LEMMA StepDone ==
  ASSUME NEW m, NEW s, NEW f, NEW c, NEW ma, NEW fo, NEW V, NEW w, w = Walk(s, f, c, ma, fo),
         NEW u, NEW h, NEW mb, NEW fp, Step(m, w) = Walk(u, h, 0, mb, fp),
         UpTo(m, s, f, mb, fp), Goes(m, s, f, u, h), s < u \/ (s = u /\ f < h)
  PROVE  StepsOn(m, w, V)
<1>1. PICK q : q = Step(m, w)
  OBVIOUS
<1>2. w.slot = s /\ w.func = f /\ q.slot = u /\ q.func = h /\ q.cap = 0
  BY <1>1, WalkFields
<1>3. ProbeInv(m, q, {})
  BY <1>1, GoesOn
<1>4. Advances(w, q)
  BY <1>2 DEF Advances, After
<1>5. ReadOn(w, q, V) = {}
  BY <1>2 DEF ReadOn
<1> QED
  BY <1>1, <1>3, <1>4, <1>5, ZenonT(30) DEF StepsOn

\* A table that does not validate is passed over.
LEMMA BrokenStep ==
  ASSUME NEW m \in Seq(Seq(Functions(Caps))), NEW s, NEW f, NEW c, NEW ma, NEW fo, NEW V, s <= Len(m),
         PlaceInv(m, s, f), MappedInv(m, s, f, c, ma), FoundInv(m, s, f, V, fo), CapInv(m, s, f, c, V),
         m[s] = Broken
  PROVE  StepsOn(m, Walk(s, f, c, ma, fo), V)
<1>0. PICK w : w = Walk(s, f, c, ma, fo)
  OBVIOUS
<1>1. s \in 1..Len(m) /\ f \in Nat /\ f = 1
  BY DEF PlaceInv
<1>2. c = 0 /\ V = {}
  BY DEF CapInv
<1>3. Step(m, w) = Walk(s + 1, 1, 0, ma, fo)
  <2>1. w.slot = s
    BY <1>0, WalkFields
  <2>2. NextSlot(w) = Walk(s + 1, 1, c, ma, fo)
    BY <1>0, NextSlotIs
  <2> QED
    BY <1>2, <2>1, <2>2 DEF Step
<1>4. Visited(m[s]) = {}
  BY <1>1, DeviceParts, ZenonT(30)
<1>5. Goes(m, s, f, s + 1, 1)
  BY <1>1, <1>4, ToNextSlot
<1>6. \A g : ~ Has(m, s, g)
  BY <1>4 DEF Has
<1>7. UpTo(m, s, f, ma, fo)
  <2>1. \A x : x \in ma <=> \E t, g : x = <<t, g>> /\ Has(m, t, g) /\ (Passed(s, f, t, g) \/ (t = s /\ g = f))
    BY <1>2, <1>6, ZenonT(30) DEF MappedInv
  <2>2. \A t, g : Has(m, t, g) /\ (Passed(s, f, t, g) \/ (t = s /\ g = f)) => ~ Endless(m[t][g])
    BY <1>6, ZenonT(30) DEF MappedInv
  <2>3. \A x : x \in fo <=> \E t, g, k : /\ x = <<t, g, k>> /\ Has(m, t, g) /\ (Passed(s, f, t, g) \/ (t = s /\ g = f))
                                         /\ Vendor(m[t][g], k)
    BY <1>2, <1>6, ZenonT(30) DEF FoundInv
  <2> QED
    BY <2>1, <2>2, <2>3, ZenonT(30) DEF UpTo
<1>8. s < s + 1
  BY <1>1
<1> QED
  BY <1>0, <1>3, <1>5, <1>7, <1>8, StepDone, ZenonT(30)

\* One more function is mapped; when it has no capabilities to read the walk goes on.
LEMMA FunctionStep ==
  ASSUME NEW m \in Seq(Seq(Functions(Caps))), NEW s, NEW f, NEW ma, NEW fo, s <= Len(m),
         PlaceInv(m, s, f), MappedInv(m, s, f, 0, ma), FoundInv(m, s, f, {}, fo), m[s] # Broken
  PROVE  StepsOn(m, Walk(s, f, 0, ma, fo), {})
<1>0. PICK w : w = Walk(s, f, 0, ma, fo)
  OBVIOUS
<1>1. s \in 1..Len(m) /\ f \in Visited(m[s])
  BY DEF PlaceInv
<1>2. PICK fn \in Functions(Caps) : fn = m[s][f]
  BY <1>1, DeviceParts
<1>3. PICK mb : mb = ma \cup {<<s, f>>}
  BY ZenonT(30)
<1>4. PICK q : q = Walk(s, f, 0, mb, fo)
  OBVIOUS
<1>5. Step(m, w) = IF fn.vendor = "none" THEN NextFunc(m, q)
                   ELSE IF fn.vendor = "virtio" /\ fn.head # 0 THEN Walk(s, f, fn.head, mb, fo)
                   ELSE Leave(m, q)
  <2>1. w.slot = s /\ w.func = f /\ w.cap = 0 /\ w.mapped = ma
    BY <1>0, WalkFields
  <2>2. Step(m, w) = Function(m, w)
    BY <2>1 DEF Step
  <2>3. [w EXCEPT !.mapped = mb] = q
    BY <1>0, <1>4 DEF Walk
  <2>4. \A k : [q EXCEPT !.cap = k] = Walk(s, f, k, mb, fo)
    BY <1>4 DEF Walk
  <2>5. Function(m, w) = IF fn.vendor = "none" THEN NextFunc(m, q)
                         ELSE IF fn.vendor = "virtio" /\ fn.head # 0 THEN [q EXCEPT !.cap = fn.head]
                         ELSE Leave(m, q)
    BY <1>2, <1>3, <2>1, <2>3, ZenonT(30) DEF Function
  <2> QED
    BY <2>2, <2>4, <2>5
<1>6. Has(m, s, f)
  BY <1>1 DEF Has
<1>7. \A x : x \in mb <=> \E t, g : x = <<t, g>> /\ Has(m, t, g) /\ (Passed(s, f, t, g) \/ (t = s /\ g = f))
  <2>1. \A x : x \in mb <=> x \in ma \/ x = <<s, f>>
    BY <1>3
  <2>2. \A x : x \in ma <=> \E t, g : x = <<t, g>> /\ Has(m, t, g) /\ Passed(s, f, t, g)
    BY ZenonT(30) DEF MappedInv
  <2> QED
    <3> SUFFICES ASSUME NEW x
                 PROVE  x \in mb <=> \E t, g : x = <<t, g>> /\ Has(m, t, g) /\ (Passed(s, f, t, g) \/ (t = s /\ g = f))
      OBVIOUS
    <3>1. CASE x = <<s, f>>
      BY <1>6, <2>1, <3>1
    <3>2. CASE x # <<s, f>>
      <4>1. x \in mb <=> \E t, g : x = <<t, g>> /\ Has(m, t, g) /\ Passed(s, f, t, g)
        BY <2>1, <2>2, <3>2
      <4> QED
        BY <3>2, <4>1
    <3> QED
      BY <3>1, <3>2
<1>8. CASE fn.vendor = "virtio" /\ fn.head # 0
  <2>1. Step(m, w) = Walk(s, f, fn.head, mb, fo)
    BY <1>5, <1>8
  <2>2. Chain(fn, {}, fn.head)
    BY <1>8, ChainHead
  <2>3. CapInv(m, s, f, fn.head, {})
    BY <1>2, <1>8, <2>2 DEF CapInv
  <2>4. MappedInv(m, s, f, fn.head, mb)
    <3>1. \A t, g : Has(m, t, g) /\ Passed(s, f, t, g) => ~ Endless(m[t][g])
      BY DEF MappedInv
    <3>2. PICK hd : hd = fn.head /\ hd # 0
      BY <1>8
    <3>3. hd # 0
      BY <3>2
    <3>4. \A x : x \in mb <=> \E t, g : /\ x = <<t, g>> /\ Has(m, t, g)
                                       /\ (Passed(s, f, t, g) \/ (hd # 0 /\ t = s /\ g = f))
      BY <1>7, <3>3
    <3>5. MappedInv(m, s, f, hd, mb)
      BY <3>1, <3>4, ZenonT(30) DEF MappedInv
    <3> QED
      BY <3>2, <3>5
  <2> QED
    <3>0. PICK r : r = Step(m, w)
      OBVIOUS
    <3>1. w.cap = 0 /\ w.slot = s /\ w.func = f /\ r.cap = fn.head /\ r.slot = s /\ r.func = f
      BY <1>0, <2>1, <3>0, WalkFields
    <3>2. ProbeInv(m, r, {})
      BY <2>1, <2>3, <2>4, <3>0 DEF ProbeInv
    <3>3. ReadOn(w, r, {}) = {}
      BY <3>1 DEF ReadOn
    <3>4. Advances(w, r)
      BY <1>8, <3>1 DEF Advances
    <3> QED
      BY <1>0, <3>0, <3>2, <3>3, <3>4, ZenonT(30) DEF StepsOn
<1>9. CASE ~ (fn.vendor = "virtio" /\ fn.head # 0)
  <2>1. Step(m, w) = IF fn.vendor = "none" THEN NextFunc(m, q) ELSE Leave(m, q)
    BY <1>5, <1>9
  <2>2. PICK u, h : Step(m, w) = Walk(u, h, 0, mb, fo) /\ Goes(m, s, f, u, h)
    <3>1. CASE fn.vendor = "none"
      <4>1. Onward(m, s, f, 0, mb, fo, NextFunc(m, q))
        BY <1>1, <1>2, <1>4, <3>1, LeavesOnward, ZenonT(30)
      <4> QED
        BY <2>1, <3>1, <4>1, ZenonT(30) DEF Onward
    <3>2. CASE fn.vendor # "none"
      <4>1. Onward(m, s, f, 0, mb, fo, Leave(m, q))
        BY <1>1, <1>2, <1>4, <3>2, LeavesOnward, ZenonT(30)
      <4> QED
        BY <2>1, <3>2, <4>1, ZenonT(30) DEF Onward
    <3> QED
      BY <3>1, <3>2
  <2>3. Listed(fn) = {} /\ ~ Endless(fn)
    BY <1>9 DEF Listed, Endless
  <2>4. UpTo(m, s, f, mb, fo)
    <3>1. \A t, g : Has(m, t, g) /\ Passed(s, f, t, g) => ~ Endless(m[t][g])
      BY DEF MappedInv
    <3>2. \A t, g : Has(m, t, g) /\ (Passed(s, f, t, g) \/ (t = s /\ g = f)) => ~ Endless(m[t][g])
      BY <1>2, <2>3, <3>1
    <3>3. \A k : ~ Vendor(m[s][f], k)
      BY <1>2, <2>3 DEF Vendor
    <3>4. \A x : x \in fo <=> \E t, g, k : x = <<t, g, k>> /\ Has(m, t, g) /\ Passed(s, f, t, g) /\ Vendor(m[t][g], k)
      BY ZenonT(30) DEF FoundInv
    <3>5. \A x : x \in fo <=> \E t, g, k : /\ x = <<t, g, k>> /\ Has(m, t, g) /\ (Passed(s, f, t, g) \/ (t = s /\ g = f))
                                           /\ Vendor(m[t][g], k)
      BY <3>3, <3>4, ZenonT(30)
    <3> QED
      BY <1>7, <3>2, <3>5, ZenonT(30) DEF UpTo
  <2> QED
    <3>1. s < u \/ (s = u /\ f < h)
      BY <1>6, <2>2 DEF Goes, Passed
    <3> QED
      BY <1>0, <2>2, <2>4, <3>1, StepDone, ZenonT(30)
<1> QED
  BY <1>8, <1>9

\* One more capability is read; behind the last one all that are listed are found.
LEMMA CapabilityStep ==
  ASSUME NEW m \in Seq(Seq(Functions(Caps))), NEW s, NEW f, NEW c, NEW ma, NEW fo, NEW V, s <= Len(m),
         PlaceInv(m, s, f), MappedInv(m, s, f, c, ma), FoundInv(m, s, f, V, fo), CapInv(m, s, f, c, V), c # 0
  PROVE  StepsOn(m, Walk(s, f, c, ma, fo), V)
<1>0. PICK w : w = Walk(s, f, c, ma, fo)
  OBVIOUS
<1>1. s \in 1..Len(m) /\ f \in Visited(m[s]) /\ m[s] # Broken /\ Chain(m[s][f], V, c)
  BY DEF PlaceInv, CapInv
<1>2. PICK fn, n, fp : Reads(m, s, f, c, ma, fo, fn, n, fp)
  BY CapabilityIs, ZenonT(30)
<1>3. fn = m[s][f] /\ fn \in Functions(Caps) /\ n = fn.next[c]
  BY <1>1, <1>2, DeviceParts DEF Reads
<1>4. fp = IF fn.id[c] = "vendor" THEN fo \cup {<<s, f, c>>} ELSE fo
  BY <1>2 DEF Reads
<1>5. PICK q : q = Walk(s, f, 0, ma, fp)
  OBVIOUS
<1>6. Step(m, w) = IF n = 0 THEN Leave(m, q) ELSE Walk(s, f, n, ma, fp)
  <2>1. w.slot = s /\ w.cap = c
    BY <1>0, WalkFields
  <2>2. Step(m, w) = Capability(m, w)
    BY <1>1, <2>1 DEF Step
  <2> QED
    BY <1>0, <1>2, <1>5, <2>2 DEF Reads
<1>7. Has(m, s, f)
  BY <1>1 DEF Has
<1>8. \A x : x \in ma <=> \E t, g : x = <<t, g>> /\ Has(m, t, g) /\ (Passed(s, f, t, g) \/ (t = s /\ g = f))
  BY ZenonT(30) DEF MappedInv
<1>9. \A t, g : Has(m, t, g) /\ Passed(s, f, t, g) => ~ Endless(m[t][g])
  BY DEF MappedInv
<1>10. PICK W : W = V \cup {c}
  BY ZenonT(30)
<1>11. FoundInv(m, s, f, W, fp)
  <2>1. \A x : x \in fp <=> x \in fo \/ (x = <<s, f, c>> /\ fn.id[c] = "vendor")
    BY <1>4
  <2>2. \A k : k \in W <=> k \in V \/ k = c
    BY <1>10
  <2> QED
    BY <1>3, <2>1, <2>2, ZenonT(30) DEF FoundInv
<1>12. /\ fn.vendor = "virtio"
       /\ n # 0 => Chain(fn, W, n)
       /\ n = 0 => Listed(fn) = W /\ ~ Endless(fn)
  <2>1. Chain(fn, V, c)
    BY <1>1, <1>3
  <2>2. /\ fn.vendor = "virtio"
        /\ fn.next[c] # 0 => Chain(fn, V \cup {c}, fn.next[c])
        /\ fn.next[c] = 0 => Listed(fn) = V \cup {c} /\ ~ Endless(fn)
    BY <1>3, <2>1, ChainStep, ZenonT(30)
  <2> QED
    BY <1>3, <1>10, <2>2
<1>13. CASE n # 0
  <2>1. CapInv(m, s, f, n, W)
    BY <1>1, <1>3, <1>12, <1>13 DEF CapInv
  <2>2. MappedInv(m, s, f, n, ma)
    BY <1>8, <1>9, <1>13, ZenonT(30) DEF MappedInv
  <2>3. Step(m, w) = Walk(s, f, n, ma, fp)
    BY <1>6, <1>13
  <2> QED
    <3>0. PICK r : r = Step(m, w)
      OBVIOUS
    <3>1. ProbeInv(m, r, W)
      BY <1>11, <2>1, <2>2, <2>3, <3>0 DEF ProbeInv
    <3>2. w.cap = c /\ w.slot = s /\ w.func = f /\ r.cap = n /\ r.slot = s /\ r.func = f
      BY <1>0, <2>3, <3>0, WalkFields
    <3>3. ReadOn(w, r, V) = W
      BY <1>10, <1>13, <3>2 DEF ReadOn
    <3>4. Advances(w, r)
      BY <1>13, <3>2 DEF Advances
    <3> QED
      BY <1>0, <3>0, <3>1, <3>3, <3>4, ZenonT(30) DEF StepsOn
<1>14. CASE n = 0
  <2>1. Step(m, w) = Leave(m, q) /\ m[s][f].vendor # "none"
    BY <1>3, <1>6, <1>12, <1>14
  <2>2. PICK u, h : Step(m, w) = Walk(u, h, 0, ma, fp) /\ Goes(m, s, f, u, h)
    <3>1. Onward(m, s, f, 0, ma, fp, Leave(m, q))
      BY <1>1, <1>5, <2>1, LeavesOnward, ZenonT(30)
    <3> QED
      BY <2>1, <3>1, ZenonT(30) DEF Onward
  <2>3. Listed(fn) = W /\ ~ Endless(fn)
    BY <1>12, <1>14
  <2>4. UpTo(m, s, f, ma, fp)
    <3>1. \A t, g : Has(m, t, g) /\ (Passed(s, f, t, g) \/ (t = s /\ g = f)) => ~ Endless(m[t][g])
      BY <1>3, <1>9, <2>3
    <3>2. \A k : Vendor(m[s][f], k) <=> k \in W /\ m[s][f].id[k] = "vendor"
      BY <1>3, <2>3 DEF Vendor
    <3>3. \A x : x \in fp <=> \E t, g, k : /\ x = <<t, g, k>> /\ Has(m, t, g) /\ (Passed(s, f, t, g) \/ (t = s /\ g = f))
                                           /\ Vendor(m[t][g], k)
      BY <1>7, <1>11, <3>2, ZenonT(30) DEF FoundInv
    <3> QED
      BY <1>8, <3>1, <3>3, ZenonT(30) DEF UpTo
  <2> QED
    <3>1. s < u \/ (s = u /\ f < h)
      BY <1>7, <2>2 DEF Goes, Passed
    <3> QED
      BY <1>0, <2>2, <2>4, <3>1, StepDone, ZenonT(30)
<1> QED
  BY <1>13, <1>14

\* Every step keeps the invariant and goes on.
LEMMA ProbeStep ==
  ASSUME NEW m \in Seq(Seq(Functions(Caps))), NEW p, NEW V, ProbeInv(m, p, V), ~ Finished(m, p)
  PROVE  StepsOn(m, p, V)
<1>1. PICK s, f, c, ma, fo :
        /\ p = Walk(s, f, c, ma, fo) /\ PlaceInv(m, s, f)
        /\ MappedInv(m, s, f, c, ma) /\ FoundInv(m, s, f, V, fo) /\ CapInv(m, s, f, c, V)
  BY ZenonT(30) DEF ProbeInv
<1>2. s <= Len(m)
  <2>1. p.slot = s
    BY <1>1, WalkFields
  <2>2. s \in Nat /\ Len(m) \in Nat
    BY <1>1 DEF PlaceInv
  <2> QED
    BY <2>1, <2>2 DEF Finished
<1>3. CASE m[s] = Broken
  BY <1>1, <1>2, <1>3, BrokenStep, ZenonT(30)
<1>4. CASE m[s] # Broken /\ c = 0
  <2>1. V = {}
    BY <1>1, <1>4 DEF CapInv
  <2> QED
    BY <1>1, <1>2, <1>4, <2>1, FunctionStep, ZenonT(30)
<1>5. CASE m[s] # Broken /\ c # 0
  BY <1>1, <1>2, <1>5, CapabilityStep, ZenonT(30)
<1> QED
  BY <1>3, <1>4, <1>5

\* The invariant holds before the first device.
LEMMA ProbeStart ==
  ASSUME NEW m \in Seq(Seq(Functions(Caps)))
  PROVE  ProbeInv(m, Start, {})
<1>1. Start = Walk(1, 1, 0, {}, {})
  BY DEF Start, Walk
<1>2. PlaceInv(m, 1, 1)
  <2>1. Len(m) \in Nat
    OBVIOUS
  <2>2. 1 <= Len(m) /\ m[1] # Broken => 1 \in Visited(m[1])
    BY <2>1, DeviceParts
  <2> QED
    BY <2>1, <2>2 DEF PlaceInv
<1>3. \A t, g : Has(m, t, g) => ~ Passed(1, 1, t, g)
  <2> SUFFICES ASSUME NEW t, NEW g, Has(m, t, g) PROVE ~ Passed(1, 1, t, g)
    OBVIOUS
  <2>1. t \in 1..Len(m) /\ g \in Visited(m[t])
    BY DEF Has
  <2>2. g \in Nat /\ g >= 1
    BY <2>1, DeviceParts
  <2> QED
    BY <2>1, <2>2 DEF Passed
<1>4. MappedInv(m, 1, 1, 0, {})
  BY <1>3, ZenonT(30) DEF MappedInv
<1>5. FoundInv(m, 1, 1, {}, {})
  BY <1>3, ZenonT(30) DEF FoundInv
<1>6. CapInv(m, 1, 1, 0, {})
  BY DEF CapInv
<1> QED
  BY <1>1, <1>2, <1>4, <1>5, <1>6, ZenonT(30) DEF ProbeInv

\* The vendor capabilities of a function.
LEMMA VendorsAre ==
  ASSUME NEW m, NEW t, NEW g, NEW k
  PROVE  k \in Vendors(m, <<t, g>>) <=> Vendor(m[t][g], k)
BY DEF Vendors, Vendor

\* What the walk's invariant says of the end, and before it.
LEMMA ProbeSays ==
  ASSUME NEW m \in Seq(Seq(Functions(Caps))), NEW p, NEW V, ProbeInv(m, p, V)
  PROVE  /\ p.mapped \subseteq At(m) /\ p.found \subseteq AllVendors(m)
         /\ Finished(m, p) => /\ p.mapped = At(m) /\ p.found = AllVendors(m)
                              /\ \A a \in Exist(m) : ~ Endless(m[a[1]][a[2]])
         /\ p.cap \in V => AtEndless(m, p)
<1>1. PICK s, f, c, ma, fo :
        /\ p = Walk(s, f, c, ma, fo) /\ PlaceInv(m, s, f)
        /\ MappedInv(m, s, f, c, ma) /\ FoundInv(m, s, f, V, fo) /\ CapInv(m, s, f, c, V)
  BY ZenonT(30) DEF ProbeInv
<1>2. p.slot = s /\ p.func = f /\ p.cap = c /\ p.mapped = ma /\ p.found = fo
  BY <1>1, WalkFields
<1>3. \A x : x \in At(m) <=> \E t, g : x = <<t, g>> /\ Has(m, t, g)
  <2>1. DOMAIN m = 1..Len(m)
    OBVIOUS
  <2> QED
    BY <2>1 DEF At, Has
<1>4. \A x : x \in AllVendors(m) <=> \E t, g, k : x = <<t, g, k>> /\ Has(m, t, g) /\ Vendor(m[t][g], k)
  <2>1. \A t, g, k : k \in Vendors(m, <<t, g>>) <=> Vendor(m[t][g], k)
    BY VendorsAre, ZenonT(30)
  <2>2. \A x : x \in AllVendors(m) <=> \E a \in Exist(m) : \E k \in Vendors(m, a) : x = <<a[1], a[2], k>>
    BY DEF AllVendors
  <2>3. ASSUME NEW x, x \in AllVendors(m)
        PROVE  \E t, g, k : x = <<t, g, k>> /\ Has(m, t, g) /\ Vendor(m[t][g], k)
    <3>1. PICK a \in Exist(m) : \E k \in Vendors(m, a) : x = <<a[1], a[2], k>>
      BY <2>2, <2>3
    <3>2. PICK t, g : a = <<t, g>> /\ Has(m, t, g)
      BY <1>3, <3>1 DEF Exist
    <3>3. PICK k \in Vendors(m, <<t, g>>) : x = <<t, g, k>>
      BY <3>1, <3>2
    <3> QED
      BY <2>1, <3>2, <3>3
  <2>4. ASSUME NEW t, NEW g, NEW k, Has(m, t, g), Vendor(m[t][g], k) PROVE <<t, g, k>> \in AllVendors(m)
    <3>0. <<t, g>> \in At(m)
      BY <1>3, <2>4, ZenonT(30)
    <3>1. PICK a \in Exist(m) : a = <<t, g>>
      <4>1. m[t][g].vendor # "none"
        BY <2>4 DEF Vendor, Listed
      <4> QED
        BY <3>0, <4>1 DEF Exist
    <3>2. k \in Vendors(m, a)
      BY <2>1, <2>4, <3>1
    <3>3. <<a[1], a[2], k>> = <<t, g, k>>
      BY <3>1
    <3> QED
      BY <2>2, <3>2, <3>3
  <2> QED
    BY <2>3, <2>4
<1>5. ma \subseteq At(m)
  BY <1>1, <1>3 DEF MappedInv
<1>6. fo \subseteq AllVendors(m)
  <2> SUFFICES ASSUME NEW x, x \in fo PROVE x \in AllVendors(m)
    OBVIOUS
  <2>1. CASE \E t, g, k : x = <<t, g, k>> /\ Has(m, t, g) /\ Passed(s, f, t, g) /\ Vendor(m[t][g], k)
    BY <1>4, <2>1
  <2>2. CASE \E k \in V : x = <<s, f, k>> /\ m[s][f].id[k] = "vendor"
    <3>1. PICK k \in V : x = <<s, f, k>> /\ m[s][f].id[k] = "vendor"
      BY <2>2
    <3>2. c # 0 /\ s <= Len(m) /\ m[s] # Broken /\ V \subseteq Listed(m[s][f])
      BY <1>1, <3>1 DEF CapInv, Chain
    <3>3. Has(m, s, f)
      BY <1>1, <3>2 DEF PlaceInv, Has
    <3>4. Vendor(m[s][f], k)
      BY <3>1, <3>2 DEF Vendor
    <3> QED
      BY <1>4, <3>1, <3>3, <3>4
  <2> QED
    BY <1>1, <2>1, <2>2, ZenonT(30) DEF FoundInv
<1>7. ASSUME Finished(m, p)
      PROVE  ma = At(m) /\ fo = AllVendors(m) /\ \A a \in Exist(m) : ~ Endless(m[a[1]][a[2]])
  <2>1. s \in Nat /\ Len(m) \in Nat /\ s > Len(m)
    BY <1>1, <1>2, <1>7 DEF Finished, PlaceInv
  <2>2. c = 0 /\ V = {}
    BY <1>1, <2>1 DEF CapInv
  <2>3. \A t, g : Has(m, t, g) => Passed(s, f, t, g)
    BY <2>1 DEF Has, Passed
  <2>4. ma = At(m)
    <3>1. \A x : x \in ma <=> \E t, g : x = <<t, g>> /\ Has(m, t, g)
      BY <1>1, <2>2, <2>3, ZenonT(30) DEF MappedInv
    <3> QED
      BY <1>3, <3>1, ZenonT(30)
  <2>5. fo = AllVendors(m)
    <3>1. \A x : x \in fo <=> \E t, g, k : x = <<t, g, k>> /\ Has(m, t, g) /\ Vendor(m[t][g], k)
      BY <1>1, <2>2, <2>3, ZenonT(30) DEF FoundInv
    <3> QED
      BY <1>4, <3>1, ZenonT(30)
  <2>6. \A a \in Exist(m) : ~ Endless(m[a[1]][a[2]])
    <3>1. \A t, g : Has(m, t, g) => ~ Endless(m[t][g])
      BY <1>1, <2>3, ZenonT(30) DEF MappedInv
    <3>2. ASSUME NEW a \in Exist(m) PROVE \E t, g : a = <<t, g>> /\ Has(m, t, g)
      BY <1>3 DEF Exist
    <3> QED
      BY <3>1, <3>2
  <2> QED
    BY <2>4, <2>5, <2>6
<1>8. ASSUME c \in V PROVE c # 0 /\ Endless(m[s][f])
  <2>1. c # 0 /\ s <= Len(m) /\ m[s] # Broken /\ Chain(m[s][f], V, c)
    BY <1>1, <1>8 DEF CapInv
  <2>2. s \in 1..Len(m) /\ f \in Visited(m[s])
    BY <1>1, <2>1 DEF PlaceInv
  <2>3. m[s][f] \in Functions(Caps)
    BY <2>2, DeviceParts
  <2> QED
    BY <1>8, <2>1, <2>3, ChainStep, ZenonT(30)
<1> QED
  BY <1>2, <1>5, <1>6, <1>7, <1>8 DEF AtEndless

-----------------------------------------------------------------------------
(* The probe as the job it is in Algorithms. *)

\* The job as a probe of the machine m, at p, where V has been read.
ProbeIs(j, m, p, V) ==
  j = [is |-> "probe", m |-> m, p |-> p, read |-> V] /\ m \in Machines /\ ProbeInv(m, p, V)

ProbeJob ==
  /\ job.is \in {"map", "date", "probe"}
  /\ job.is = "date" => \E n, c : job = [is |-> "date", n |-> n, date |-> c]
  /\ job.is = "probe" => \E m, p, V : ProbeIs(job, m, p, V)

\* A probe starts with nothing passed and nothing found,
LEMMA ProbeJobStart == JobInit => ProbeJob
<1> SUFFICES ASSUME JobInit PROVE ProbeJob
  OBVIOUS
<1>1. CASE job = [is |-> "map"]
  BY <1>1 DEF JobInit, ProbeJob
<1>2. CASE job = FirstDay
  <2>0. PICK d : job = [is |-> "date", n |-> 0, date |-> d]
    BY <1>2 DEF FirstDay
  <2>1. \E n, c : job = [is |-> "date", n |-> n, date |-> c]
    BY <2>0, ZenonT(30)
  <2>2. job.is = "date"
    BY <1>2 DEF FirstDay
  <2> QED
    BY <2>1, <2>2, ZenonT(30) DEF ProbeJob
<1>3. CASE job \in Probes
  <2>1. PICK m \in Machines : job = [is |-> "probe", m |-> m, p |-> Start, read |-> {}]
    BY <1>3 DEF Probes
  <2>2. ProbeInv(m, Start, {})
    BY MachinesAssumption, ProbeStart
  <2>3. ProbeIs(job, m, Start, {})
    BY <2>1, <2>2, ZenonT(30) DEF ProbeIs
  <2>4. job.is = "probe"
    BY <2>1
  <2> QED
    BY <2>3, <2>4 DEF ProbeJob
<1> QED
  BY <1>1, <1>2, <1>3 DEF JobInit

\* and every step of it keeps the invariant of the walk; the other jobs stay what they are.
LEMMA ProbeJobStep == ProbeJob /\ [JobNext]_jobVars => ProbeJob'
<1> SUFFICES ASSUME ProbeJob, [JobNext]_jobVars PROVE ProbeJob'
  OBVIOUS
<1>1. CASE AddRange
  BY <1>1 DEF AddRange, ProbeJob
<1>2. CASE AddDay
  <2>1. PICK n, c : job = [is |-> "date", n |-> n, date |-> c]
    BY <1>2, ZenonT(30) DEF AddDay, ProbeJob
  <2>2. job' = [[job EXCEPT !.n = job.n + 1] EXCEPT !.date = NextDay(job.date)]
    BY <1>2 DEF AddDay
  <2>3. PICK k, d : k = job.n + 1 /\ d = NextDay(job.date)
    OBVIOUS
  <2>4. job' = [is |-> "date", n |-> k, date |-> d]
    BY <2>1, <2>2, <2>3, ZenonT(30)
  <2>5. job'.is = "date" /\ \E k1, d1 : job' = [is |-> "date", n |-> k1, date |-> d1]
    BY <2>4, ZenonT(30)
  <2> QED
    BY <2>5, ZenonT(30) DEF ProbeJob
<1>3. CASE Probe
  <2>1. PICK m, p, V : ProbeIs(job, m, p, V)
    BY <1>3, ZenonT(30) DEF Probe, ProbeJob
  <2>2. job.m = m /\ job.p = p /\ job.read = V /\ m \in Machines /\ ProbeInv(m, p, V)
    BY <2>1 DEF ProbeIs
  <2>3. PICK q, R : q = Step(m, p) /\ R = ReadOn(p, q, V)
    BY ZenonT(30)
  <2>4. ~ Finished(m, p) /\ job' = [[job EXCEPT !.p = q] EXCEPT !.read = R]
    BY <1>3, <2>2, <2>3 DEF Probe, ReadOn
  <2>5. job' = [is |-> "probe", m |-> m, p |-> q, read |-> R]
    <3>1. [job EXCEPT !.p = q] = [is |-> "probe", m |-> m, p |-> q, read |-> V]
      BY <2>1 DEF ProbeIs
    <3>2. [[is |-> "probe", m |-> m, p |-> q, read |-> V] EXCEPT !.read = R]
            = [is |-> "probe", m |-> m, p |-> q, read |-> R]
      OBVIOUS
    <3> QED
      BY <2>4, <3>1, <3>2, ZenonT(30)
  <2>6. ProbeInv(m, q, R)
    <3>1. StepsOn(m, p, V)
      BY <2>2, <2>4, MachinesAssumption, ProbeStep
    <3> QED
      BY <2>3, <3>1, ZenonT(30) DEF StepsOn
  <2>7. ProbeIs(job', m, q, R)
    BY <2>2, <2>5, <2>6, ZenonT(30) DEF ProbeIs
  <2>8. job'.is = "probe"
    BY <2>5
  <2> QED
    BY <2>7, <2>8 DEF ProbeJob
<1>4. CASE UNCHANGED jobVars
  BY <1>4 DEF jobVars, ProbeJob
<1> QED
  BY <1>1, <1>2, <1>3, <1>4 DEF JobNext

\* On every machine the search for virtio devices reports what there is and maps what it comes to, and it goes on with
\* every step but for lists that do not end.
THEOREM ProbeIsRight == JobSpec => []ProbeIsComplete
<1>1. ProbeJob => ProbeIsComplete
  <2> SUFFICES ASSUME ProbeJob, job.is = "probe" PROVE ProbeIsComplete
    BY ZenonT(30) DEF ProbeIsComplete
  <2>1. PICK m, p, V : ProbeIs(job, m, p, V)
    BY ZenonT(30) DEF ProbeJob
  <2>2. job.m = m /\ job.p = p /\ job.read = V /\ m \in Machines /\ ProbeInv(m, p, V)
    BY <2>1 DEF ProbeIs
  <2>3. m \in Seq(Seq(Functions(Caps)))
    BY <2>2, MachinesAssumption
  <2>4. /\ p.mapped \subseteq At(m) /\ p.found \subseteq AllVendors(m)
        /\ Finished(m, p) => /\ p.mapped = At(m) /\ p.found = AllVendors(m)
                             /\ \A a \in Exist(m) : ~ Endless(m[a[1]][a[2]])
        /\ p.cap \in V => AtEndless(m, p)
    BY <2>2, <2>3, ProbeSays, ZenonT(30)
  <2>5. ~ Finished(m, p) => Advances(p, Step(m, p))
    BY <2>2, <2>3, ProbeStep, ZenonT(30) DEF StepsOn
  <2> QED
    BY <2>2, <2>4, <2>5, ZenonT(30) DEF ProbeIsComplete, Advances
<1> QED
  BY <1>1, ProbeJobStart, ProbeJobStep, PTL DEF JobSpec
=============================================================================
