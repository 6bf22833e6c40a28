--------------------------- MODULE MapListProofs ---------------------------
(***************************************************************************)
(* Proof that normalize_map_list is correct for every list of ranges, of   *)
(* any length and with any flags.                                          *)
(*                                                                         *)
(* Each loop of the function is a recursive function of MapList.  A lemma  *)
(* gives its equations (LeftFunction, LaidFunction, SortedFunction,        *)
(* MergedFunction), and induction over the prefixes of the list            *)
(* (NatIndSet) the rest: overlaying keeps the ranges disjoint and gives a  *)
(* page to the last range it is in, sorting and joining change nothing a   *)
(* disjoint list says.                                                     *)
(***************************************************************************)
EXTENDS MapList, WellFoundedInduction, TLAPS

\* Leaves are for the SMT solver unless they say otherwise, with time to spare.
USE SMTT(30)

\* A set of natural numbers has a least one.
LEMMA Least ==
  ASSUME NEW T \in SUBSET Nat, T # {}
  PROVE  \E x \in T : \A y \in T : x <= y
<1> DEFINE R == OpToRel(<, Nat)
<1>1. IsWellFoundedOn(R, Nat)
  BY NatLessThanWellFounded, ZenonT(30)
<1>2. PICK x \in T : \A y \in T : ~ (<<y, x>> \in R)
  <2> HIDE DEF R
  <2> QED
    BY <1>1, WFMin, ZenonT(30)
<1>3. ASSUME NEW y \in T PROVE x <= y
  <2>1. x \in Nat /\ y \in Nat
    OBVIOUS
  <2>2. y < x => <<y, x>> \in R
    BY <2>1 DEF OpToRel
  <2> HIDE DEF R
  <2>3. ~ (y < x)
    BY <1>2, <2>2
  <2> QED
    BY <2>1, <2>3
<1> QED
  BY <1>3

\* Induction, over a set.
LEMMA NatIndSet ==
  ASSUME NEW S, 0 \in S, \A n \in Nat : n \in S => n + 1 \in S
  PROVE  \A n \in Nat : n \in S
<1> DEFINE T == Nat \ S
<1> SUFFICES ASSUME T # {} PROVE FALSE
  OBVIOUS
<1>1. PICK x \in T : \A y \in T : x <= y
  <2> HIDE DEF T
  <2>1. T \in SUBSET Nat BY DEF T
  <2> QED BY <2>1, Least
<1>2. x # 0 /\ x \in Nat
  OBVIOUS
<1>3. x - 1 \in Nat /\ x - 1 \notin T
  BY <1>1, <1>2
<1> QED
  BY <1>2, <1>3

-----------------------------------------------------------------------------
MapRanges(Flags) == {r \in [lo : Nat, hi : Nat, fl : Flags] : r.lo < r.hi}

IsPair(s, a, b) == Len(s) = 2 /\ s[1] = a /\ s[2] = b

\* The three forms of what is left of an older range: nothing, one piece, two pieces.
LEMMA CutForms ==
  ASSUME NEW Flags, NEW old \in MapRanges(Flags), NEW new \in MapRanges(Flags)
  PROVE  LET left == [old EXCEPT !.hi = new.lo]
             right == [old EXCEPT !.lo = new.hi]
         IN  /\ ~ Meets(old, new) => Cut(old, new) = <<old>>
             /\ Meets(old, new) /\ old.lo < new.lo /\ old.hi > new.hi =>
                  IsPair(Cut(old, new), left, right)
             /\ Meets(old, new) /\ old.lo < new.lo /\ ~ (old.hi > new.hi) => Cut(old, new) = <<left>>
             /\ Meets(old, new) /\ ~ (old.lo < new.lo) /\ old.hi > new.hi => Cut(old, new) = <<right>>
             /\ Meets(old, new) /\ ~ (old.lo < new.lo) /\ ~ (old.hi > new.hi) => Cut(old, new) = <<>>
<1> DEFINE left == [old EXCEPT !.hi = new.lo]
           right == [old EXCEPT !.lo = new.hi]
<1>1. /\ IsPair(<<left>> \o <<right>>, left, right)
      /\ <<left>> \o <<>> = <<left>> /\ <<>> \o <<right>> = <<right>> /\ <<>> \o <<>> = <<>>
  <2> HIDE DEF left, right
  <2> QED BY DEF IsPair
<1> HIDE DEF left, right
<1>2. Cut(old, new) = IF Meets(old, new)
                      THEN (IF old.lo < new.lo THEN <<left>> ELSE <<>>) \o (IF old.hi > new.hi THEN <<right>> ELSE <<>>)
                      ELSE <<old>>
  BY DEF Cut, left, right
<1>3. /\ ~ Meets(old, new) => Cut(old, new) = <<old>>
      /\ Meets(old, new) /\ old.lo < new.lo /\ old.hi > new.hi =>
                  IsPair(Cut(old, new), left, right)
      /\ Meets(old, new) /\ old.lo < new.lo /\ ~ (old.hi > new.hi) => Cut(old, new) = <<left>>
      /\ Meets(old, new) /\ ~ (old.lo < new.lo) /\ old.hi > new.hi => Cut(old, new) = <<right>>
      /\ Meets(old, new) /\ ~ (old.lo < new.lo) /\ ~ (old.hi > new.hi) => Cut(old, new) = <<>>
  BY <1>1, <1>2, ZenonT(30)
<1> QED BY <1>3 DEF left, right

\* Laying a range over an older one leaves of the older one exactly the pages that are not in the new one, in pieces
\* that are ranges with the older one's flags: no page is lost at the four borders and none is kept twice.
THEOREM CutExact ==
  ASSUME NEW Flags, NEW old \in MapRanges(Flags), NEW new \in MapRanges(Flags)
  PROVE  /\ \A i \in 1..Len(Cut(old, new)) :
              Cut(old, new)[i] \in MapRanges(Flags) /\ Cut(old, new)[i].fl = old.fl
         /\ \A p \in Nat :
              (\E i \in 1..Len(Cut(old, new)) : In(p, Cut(old, new)[i])) <=> In(p, old) /\ ~ In(p, new)
         /\ \A p \in Nat : \A i, j \in 1..Len(Cut(old, new)) :
              In(p, Cut(old, new)[i]) /\ In(p, Cut(old, new)[j]) => i = j
<1> DEFINE left == [old EXCEPT !.hi = new.lo]
           right == [old EXCEPT !.lo = new.hi]
<1>1. /\ old = [lo |-> old.lo, hi |-> old.hi, fl |-> old.fl]
      /\ old.lo \in Nat /\ old.hi \in Nat /\ new.lo \in Nat /\ new.hi \in Nat /\ old.fl \in Flags
      /\ old.lo < old.hi /\ new.lo < new.hi
  BY DEF MapRanges
<1>2. /\ left = [lo |-> old.lo, hi |-> new.lo, fl |-> old.fl]
      /\ right = [lo |-> new.hi, hi |-> old.hi, fl |-> old.fl]
  BY <1>1
<1>3. CASE ~ Meets(old, new)
  <2>1. Cut(old, new) = <<old>> BY <1>3, CutForms, ZenonT(30)
  <2>2. \A p \in Nat : In(p, old) => ~ In(p, new) BY <1>1, <1>3 DEF In, Meets
  <2> QED BY <2>1, <2>2
<1>4. CASE Meets(old, new) /\ old.lo < new.lo /\ old.hi > new.hi
  <2>1. IsPair(Cut(old, new), left, right) BY <1>4, CutForms
  <2>2. left \in MapRanges(Flags) /\ right \in MapRanges(Flags)
    BY <1>1, <1>2, <1>4 DEF MapRanges
  <2> QED BY <1>1, <1>2, <1>4, <2>1, <2>2 DEF In, Meets, IsPair
<1>5. CASE Meets(old, new) /\ old.lo < new.lo /\ ~ (old.hi > new.hi)
  <2>1. Cut(old, new) = <<left>> BY <1>5, CutForms, ZenonT(30)
  <2>2. left \in MapRanges(Flags) BY <1>1, <1>2, <1>5 DEF MapRanges
  <2> QED BY <1>1, <1>2, <1>5, <2>1, <2>2 DEF In, Meets
<1>6. CASE Meets(old, new) /\ ~ (old.lo < new.lo) /\ old.hi > new.hi
  <2>1. Cut(old, new) = <<right>> BY <1>6, CutForms, ZenonT(30)
  <2>2. right \in MapRanges(Flags) BY <1>1, <1>2, <1>6 DEF MapRanges
  <2> QED BY <1>1, <1>2, <1>6, <2>1, <2>2 DEF In, Meets
<1>7. CASE Meets(old, new) /\ ~ (old.lo < new.lo) /\ ~ (old.hi > new.hi)
  <2>1. Cut(old, new) = <<>> BY <1>7, CutForms, ZenonT(30)
  <2> QED BY <1>1, <1>7, <2>1 DEF In, Meets
<1> QED BY <1>3, <1>4, <1>5, <1>6, <1>7

\* So the ranges the inner loop has passed stay disjoint from the new one, and from each other if they were: what is
\* left of two ranges without a common page has no common page.
THEOREM CutsStayDisjoint ==
  ASSUME NEW Flags, NEW a \in MapRanges(Flags), NEW b \in MapRanges(Flags), NEW new \in MapRanges(Flags),
         \A p \in Nat : ~ (In(p, a) /\ In(p, b))
  PROVE  \A p \in Nat : \A i \in 1..Len(Cut(a, new)), j \in 1..Len(Cut(b, new)) :
           /\ ~ (In(p, Cut(a, new)[i]) /\ In(p, Cut(b, new)[j]))
           /\ ~ (In(p, Cut(a, new)[i]) /\ In(p, new))
<1>1. SUFFICES ASSUME NEW p \in Nat, NEW i \in 1..Len(Cut(a, new)), NEW j \in 1..Len(Cut(b, new))
               PROVE  /\ ~ (In(p, Cut(a, new)[i]) /\ In(p, Cut(b, new)[j]))
                      /\ ~ (In(p, Cut(a, new)[i]) /\ In(p, new))
  OBVIOUS
<1>2. In(p, Cut(a, new)[i]) => In(p, a) /\ ~ In(p, new) BY CutExact
<1>3. In(p, Cut(b, new)[j]) => In(p, b) BY CutExact
<1> QED BY <1>2, <1>3

\* Lists of ranges that have no page in common, and what such a list says.
Apart(a, b) == a.hi <= b.lo \/ b.hi <= a.lo
Tidy(Flags, l) == l \in Seq(MapRanges(Flags)) /\ \A i, j \in 1..Len(l) : i # j => Apart(l[i], l[j])
Says(l, p, fl) == \E i \in 1..Len(l) : In(p, l[i]) /\ l[i].fl = fl

\* What is left of an older range lies in it, and apart from the new one.
LEMMA CutApart ==
  ASSUME NEW Flags, NEW old \in MapRanges(Flags), NEW new \in MapRanges(Flags)
  PROVE  /\ Cut(old, new) \in Seq(MapRanges(Flags))
         /\ \A i \in 1..Len(Cut(old, new)) :
              /\ old.lo <= Cut(old, new)[i].lo /\ Cut(old, new)[i].hi <= old.hi
              /\ Apart(Cut(old, new)[i], new)
         /\ \A i, j \in 1..Len(Cut(old, new)) : i # j => Apart(Cut(old, new)[i], Cut(old, new)[j])
<1> DEFINE left == [old EXCEPT !.hi = new.lo]
           right == [old EXCEPT !.lo = new.hi]
<1>1. /\ old.lo \in Nat /\ old.hi \in Nat /\ new.lo \in Nat /\ new.hi \in Nat /\ old.fl \in Flags
      /\ old.lo < old.hi /\ new.lo < new.hi
  BY DEF MapRanges
<1>2. /\ left = [lo |-> old.lo, hi |-> new.lo, fl |-> old.fl]
      /\ right = [lo |-> new.hi, hi |-> old.hi, fl |-> old.fl]
  BY DEF MapRanges
<1>3. CASE ~ Meets(old, new)
  <2>1. Cut(old, new) = <<old>> BY <1>3, CutForms, ZenonT(30)
  <2> QED BY <1>1, <1>3, <2>1 DEF Apart, Meets
<1>4. CASE Meets(old, new) /\ old.lo < new.lo /\ old.hi > new.hi
  <2>1. IsPair(Cut(old, new), left, right) BY <1>4, CutForms
  <2>2. left \in MapRanges(Flags) /\ right \in MapRanges(Flags)
    BY <1>1, <1>2, <1>4 DEF MapRanges
  <2>3. Cut(old, new) = <<left>> \o <<right>>
    BY <1>4 DEF Cut
  <2>4. Cut(old, new) \in Seq(MapRanges(Flags))
    <3> HIDE DEF left, right
    <3> QED BY <2>2, <2>3
  <2> QED BY <1>1, <1>2, <1>4, <2>1, <2>4 DEF Apart, Meets, IsPair
<1>5. CASE Meets(old, new) /\ old.lo < new.lo /\ ~ (old.hi > new.hi)
  <2>1. Cut(old, new) = <<left>> BY <1>5, CutForms, ZenonT(30)
  <2>2. left \in MapRanges(Flags) BY <1>1, <1>2, <1>5 DEF MapRanges
  <2> QED BY <1>1, <1>2, <1>5, <2>1, <2>2 DEF Apart, Meets
<1>6. CASE Meets(old, new) /\ ~ (old.lo < new.lo) /\ old.hi > new.hi
  <2>1. Cut(old, new) = <<right>> BY <1>6, CutForms, ZenonT(30)
  <2>2. right \in MapRanges(Flags) BY <1>1, <1>2, <1>6 DEF MapRanges
  <2> QED BY <1>1, <1>2, <1>6, <2>1, <2>2 DEF Apart, Meets
<1>7. CASE Meets(old, new) /\ ~ (old.lo < new.lo) /\ ~ (old.hi > new.hi)
  <2>1. Cut(old, new) = <<>> BY <1>7, CutForms, ZenonT(30)
  <2> QED BY <2>1
<1> QED BY <1>3, <1>4, <1>5, <1>6, <1>7

\* The inner loop as a function: what is left of the first n ranges.
LEMMA LeftFunction ==
  ASSUME NEW done, NEW new, Len(done) \in Nat
  PROVE  \E left : /\ left[0] = <<>>
                   /\ \A n \in 1..Len(done) : left[n] = left[n - 1] \o Cut(done[n], new)
                   /\ Overlay(done, new) = Append(left[Len(done)], new)
<1> DEFINE G(x, n) == x \o Cut(done[n], new)
           F(f, k) == [n \in 0..k |-> IF n = 0 THEN <<>> ELSE G(f[n - 1], n)]
           S == {k \in Nat : \E f : f = F(f, k)}
           left == CHOOSE f : f = F(f, Len(done))
<1>1. Overlay(done, new) = Append(left[Len(done)], new)
  BY DEF Overlay
<1> HIDE DEF G
<1>2. 0 \in S
  <2>1. [n \in 0..0 |-> <<>>] = F([n \in 0..0 |-> <<>>], 0)
    OBVIOUS
  <2> QED
    BY <2>1, ZenonT(30)
<1>3. ASSUME NEW k \in Nat, k \in S PROVE k + 1 \in S
  <2>1. PICK f : f = F(f, k)
    BY <1>3
  <2> DEFINE g == [n \in 0..(k + 1) |-> IF n = k + 1 THEN G(f[k], k + 1) ELSE f[n]]
  <2>2. ASSUME NEW n \in 0..(k + 1) PROVE g[n] = F(g, k + 1)[n]
    <3>1. CASE n = k + 1
      BY <3>1
    <3>2. CASE n \in 0..k
      <4>1. g[n] = f[n] /\ f[n] = F(f, k)[n]
        BY <2>1, <3>2
      <4>2. n # 0 => g[n - 1] = f[n - 1]
        BY <3>2
      <4> QED
        BY <3>2, <4>1, <4>2
    <3> QED
      BY <3>1, <3>2
  <2>3. g = F(g, k + 1) /\ k + 1 \in Nat
    BY <2>2
  <2> HIDE DEF F, g
  <2> QED
    BY <2>3
<1>4. Len(done) \in S
  <2> HIDE DEF S
  <2> QED
    BY <1>2, <1>3, NatIndSet
<1>5. left = F(left, Len(done))
  <2>1. PICK f : f = F(f, Len(done))
    BY <1>4
  <2> HIDE DEF F
  <2> QED
    BY <2>1
<1> HIDE DEF left
<1>6. left[0] = <<>>
  BY <1>5
<1>7. ASSUME NEW n \in 1..Len(done) PROVE left[n] = G(left[n - 1], n)
  <2>1. left[n] = F(left, Len(done))[n] /\ n \in 0..Len(done) /\ n # 0
    BY <1>5
  <2> QED
    BY <2>1
<1> QED
  BY <1>1, <1>6, <1>7, ZenonT(30) DEF G

\* The outer loop: the first n ranges laid over each other.
LEMMA LaidFunction ==
  ASSUME NEW list, Len(list) \in Nat
  PROVE  \E laid : /\ laid[0] = <<>>
                   /\ \A n \in 1..Len(list) : laid[n] = Overlay(laid[n - 1], list[n])
                   /\ OverlayAll(list) = laid[Len(list)]
<1> DEFINE G(x, n) == Overlay(x, list[n])
           F(f, k) == [n \in 0..k |-> IF n = 0 THEN <<>> ELSE G(f[n - 1], n)]
           S == {k \in Nat : \E f : f = F(f, k)}
           laid == CHOOSE f : f = F(f, Len(list))
<1>1. OverlayAll(list) = laid[Len(list)]
  BY DEF OverlayAll
<1> HIDE DEF G
<1>2. 0 \in S
  <2>1. [n \in 0..0 |-> <<>>] = F([n \in 0..0 |-> <<>>], 0)
    OBVIOUS
  <2> QED
    BY <2>1, ZenonT(30)
<1>3. ASSUME NEW k \in Nat, k \in S PROVE k + 1 \in S
  <2>1. PICK f : f = F(f, k)
    BY <1>3
  <2> DEFINE g == [n \in 0..(k + 1) |-> IF n = k + 1 THEN G(f[k], k + 1) ELSE f[n]]
  <2>2. ASSUME NEW n \in 0..(k + 1) PROVE g[n] = F(g, k + 1)[n]
    <3>1. CASE n = k + 1
      BY <3>1
    <3>2. CASE n \in 0..k
      <4>1. g[n] = f[n] /\ f[n] = F(f, k)[n]
        BY <2>1, <3>2
      <4>2. n # 0 => g[n - 1] = f[n - 1]
        BY <3>2
      <4> QED
        BY <3>2, <4>1, <4>2
    <3> QED
      BY <3>1, <3>2
  <2>3. g = F(g, k + 1) /\ k + 1 \in Nat
    BY <2>2
  <2> HIDE DEF F, g
  <2> QED
    BY <2>3
<1>4. Len(list) \in S
  <2> HIDE DEF S
  <2> QED
    BY <1>2, <1>3, NatIndSet
<1>5. laid = F(laid, Len(list))
  <2>1. PICK f : f = F(f, Len(list))
    BY <1>4
  <2> HIDE DEF F
  <2> QED
    BY <2>1
<1> HIDE DEF laid
<1>6. laid[0] = <<>>
  BY <1>5
<1>7. ASSUME NEW n \in 1..Len(list) PROVE laid[n] = G(laid[n - 1], n)
  <2>1. laid[n] = F(laid, Len(list))[n] /\ n \in 0..Len(list) /\ n # 0
    BY <1>5
  <2> QED
    BY <2>1
<1> QED
  BY <1>1, <1>6, <1>7, ZenonT(30) DEF G

\* The first n ranges in order.
LEMMA SortedFunction ==
  ASSUME NEW list, Len(list) \in Nat
  PROVE  \E sorted : /\ sorted[0] = <<>>
                     /\ \A n \in 1..Len(list) : sorted[n] = Insert(sorted[n - 1], list[n])
                     /\ SortByStart(list) = sorted[Len(list)]
<1> DEFINE G(x, n) == Insert(x, list[n])
           F(f, k) == [n \in 0..k |-> IF n = 0 THEN <<>> ELSE G(f[n - 1], n)]
           S == {k \in Nat : \E f : f = F(f, k)}
           sorted == CHOOSE f : f = F(f, Len(list))
<1>1. SortByStart(list) = sorted[Len(list)]
  BY DEF SortByStart
<1> HIDE DEF G
<1>2. 0 \in S
  <2>1. [n \in 0..0 |-> <<>>] = F([n \in 0..0 |-> <<>>], 0)
    OBVIOUS
  <2> QED
    BY <2>1, ZenonT(30)
<1>3. ASSUME NEW k \in Nat, k \in S PROVE k + 1 \in S
  <2>1. PICK f : f = F(f, k)
    BY <1>3
  <2> DEFINE g == [n \in 0..(k + 1) |-> IF n = k + 1 THEN G(f[k], k + 1) ELSE f[n]]
  <2>2. ASSUME NEW n \in 0..(k + 1) PROVE g[n] = F(g, k + 1)[n]
    <3>1. CASE n = k + 1
      BY <3>1
    <3>2. CASE n \in 0..k
      <4>1. g[n] = f[n] /\ f[n] = F(f, k)[n]
        BY <2>1, <3>2
      <4>2. n # 0 => g[n - 1] = f[n - 1]
        BY <3>2
      <4> QED
        BY <3>2, <4>1, <4>2
    <3> QED
      BY <3>1, <3>2
  <2>3. g = F(g, k + 1) /\ k + 1 \in Nat
    BY <2>2
  <2> HIDE DEF F, g
  <2> QED
    BY <2>3
<1>4. Len(list) \in S
  <2> HIDE DEF S
  <2> QED
    BY <1>2, <1>3, NatIndSet
<1>5. sorted = F(sorted, Len(list))
  <2>1. PICK f : f = F(f, Len(list))
    BY <1>4
  <2> HIDE DEF F
  <2> QED
    BY <2>1
<1> HIDE DEF sorted
<1>6. sorted[0] = <<>>
  BY <1>5
<1>7. ASSUME NEW n \in 1..Len(list) PROVE sorted[n] = G(sorted[n - 1], n)
  <2>1. sorted[n] = F(sorted, Len(list))[n] /\ n \in 0..Len(list) /\ n # 0
    BY <1>5
  <2> QED
    BY <2>1
<1> QED
  BY <1>1, <1>6, <1>7, ZenonT(30) DEF G

\* The first n ranges with neighbours joined.
LEMMA MergedFunction ==
  ASSUME NEW list, Len(list) \in Nat
  PROVE  \E merged : /\ merged[0] = <<>>
                     /\ \A n \in 1..Len(list) : merged[n] = Merge(merged[n - 1], list[n])
                     /\ MergeAll(list) = merged[Len(list)]
<1> DEFINE G(x, n) == Merge(x, list[n])
           F(f, k) == [n \in 0..k |-> IF n = 0 THEN <<>> ELSE G(f[n - 1], n)]
           S == {k \in Nat : \E f : f = F(f, k)}
           merged == CHOOSE f : f = F(f, Len(list))
<1>1. MergeAll(list) = merged[Len(list)]
  BY DEF MergeAll
<1> HIDE DEF G
<1>2. 0 \in S
  <2>1. [n \in 0..0 |-> <<>>] = F([n \in 0..0 |-> <<>>], 0)
    OBVIOUS
  <2> QED
    BY <2>1, ZenonT(30)
<1>3. ASSUME NEW k \in Nat, k \in S PROVE k + 1 \in S
  <2>1. PICK f : f = F(f, k)
    BY <1>3
  <2> DEFINE g == [n \in 0..(k + 1) |-> IF n = k + 1 THEN G(f[k], k + 1) ELSE f[n]]
  <2>2. ASSUME NEW n \in 0..(k + 1) PROVE g[n] = F(g, k + 1)[n]
    <3>1. CASE n = k + 1
      BY <3>1
    <3>2. CASE n \in 0..k
      <4>1. g[n] = f[n] /\ f[n] = F(f, k)[n]
        BY <2>1, <3>2
      <4>2. n # 0 => g[n - 1] = f[n - 1]
        BY <3>2
      <4> QED
        BY <3>2, <4>1, <4>2
    <3> QED
      BY <3>1, <3>2
  <2>3. g = F(g, k + 1) /\ k + 1 \in Nat
    BY <2>2
  <2> HIDE DEF F, g
  <2> QED
    BY <2>3
<1>4. Len(list) \in S
  <2> HIDE DEF S
  <2> QED
    BY <1>2, <1>3, NatIndSet
<1>5. merged = F(merged, Len(list))
  <2>1. PICK f : f = F(f, Len(list))
    BY <1>4
  <2> HIDE DEF F
  <2> QED
    BY <2>1
<1> HIDE DEF merged
<1>6. merged[0] = <<>>
  BY <1>5
<1>7. ASSUME NEW n \in 1..Len(list) PROVE merged[n] = G(merged[n - 1], n)
  <2>1. merged[n] = F(merged, Len(list))[n] /\ n \in 0..Len(list) /\ n # 0
    BY <1>5
  <2> QED
    BY <2>1
<1> QED
  BY <1>1, <1>6, <1>7, ZenonT(30) DEF G

-----------------------------------------------------------------------------
(* The loops. *)

\* Concatenation, element by element.
LEMMA Concat ==
  ASSUME NEW V, NEW a \in Seq(V), NEW b \in Seq(V)
  PROVE  /\ a \o b \in Seq(V) /\ Len(a \o b) = Len(a) + Len(b)
         /\ \A i \in 1..Len(a) : (a \o b)[i] = a[i]
         /\ \A i \in 1..Len(b) : (a \o b)[Len(a) + i] = b[i]
         /\ \A i \in 1..Len(a \o b) : i \in 1..Len(a) \/ \E k \in 1..Len(b) : i = Len(a) + k
<1>1. a \o b \in Seq(V) /\ Len(a \o b) = Len(a) + Len(b)
  OBVIOUS
<1>2. \A i \in 1..Len(a) : (a \o b)[i] = a[i]
  OBVIOUS
<1>3. \A i \in 1..Len(b) : (a \o b)[Len(a) + i] = b[i]
  OBVIOUS
<1>4. ASSUME NEW i \in 1..Len(a \o b), i \notin 1..Len(a) PROVE \E k \in 1..Len(b) : i = Len(a) + k
  <2>1. i - Len(a) \in 1..Len(b) /\ i = Len(a) + (i - Len(a))
    BY <1>1, <1>4
  <2> QED
    BY <2>1
<1> QED
  BY <1>1, <1>2, <1>3, <1>4

\* Two tidy lists that are apart make one, which says what they say.
LEMMA ConcatTidy ==
  ASSUME NEW Flags, NEW a, Tidy(Flags, a), NEW b, Tidy(Flags, b),
         \A i \in 1..Len(a), j \in 1..Len(b) : Apart(a[i], b[j])
  PROVE  /\ Tidy(Flags, a \o b)
         /\ \A p, fl : Says(a \o b, p, fl) <=> Says(a, p, fl) \/ Says(b, p, fl)
<1> DEFINE c == a \o b
           V == MapRanges(Flags)
<1>1. a \in Seq(V) /\ b \in Seq(V)
  BY DEF Tidy
<1> HIDE DEF c, V
<1>2. /\ c \in Seq(V) /\ Len(c) = Len(a) + Len(b)
      /\ \A i \in 1..Len(a) : c[i] = a[i]
      /\ \A i \in 1..Len(b) : c[Len(a) + i] = b[i]
      /\ \A i \in 1..Len(c) : i \in 1..Len(a) \/ \E k \in 1..Len(b) : i = Len(a) + k
  BY <1>1, Concat DEF c
<1>3. \A i \in 1..Len(a) : i \in 1..Len(c)
  BY <1>1, <1>2
<1>4. \A i \in 1..Len(b) : Len(a) + i \in 1..Len(c)
  BY <1>1, <1>2
<1>5. ASSUME NEW i \in 1..Len(c), NEW j \in 1..Len(c), i # j PROVE Apart(c[i], c[j])
  <2>1. CASE i \in 1..Len(a) /\ j \in 1..Len(a)
    BY <1>2, <1>5, <2>1 DEF Tidy
  <2>2. CASE i \in 1..Len(a) /\ j \notin 1..Len(a)
    <3>1. PICK k \in 1..Len(b) : j = Len(a) + k
      BY <1>2, <2>2
    <3> QED
      BY <1>2, <2>2, <3>1
  <2>3. CASE i \notin 1..Len(a) /\ j \in 1..Len(a)
    <3>1. PICK k \in 1..Len(b) : i = Len(a) + k
      BY <1>2, <2>3
    <3>2. Apart(a[j], b[k])
      BY <2>3
    <3> QED
      BY <1>2, <2>3, <3>1, <3>2 DEF Apart
  <2>4. CASE i \notin 1..Len(a) /\ j \notin 1..Len(a)
    <3>1. PICK k \in 1..Len(b) : i = Len(a) + k
      BY <1>2, <2>4
    <3>2. PICK l \in 1..Len(b) : j = Len(a) + l
      BY <1>2, <2>4
    <3>3. k # l
      BY <1>5, <3>1, <3>2
    <3>4. Apart(b[k], b[l])
      BY <3>3 DEF Tidy
    <3> QED
      BY <1>2, <3>1, <3>2, <3>4
  <2> QED
    BY <2>1, <2>2, <2>3, <2>4
<1>6. Tidy(Flags, c)
  BY <1>2, <1>5 DEF Tidy, V
<1>7. ASSUME NEW p, NEW fl PROVE Says(c, p, fl) <=> Says(a, p, fl) \/ Says(b, p, fl)
  <2>1. ASSUME Says(c, p, fl) PROVE Says(a, p, fl) \/ Says(b, p, fl)
    <3>1. PICK i \in 1..Len(c) : In(p, c[i]) /\ c[i].fl = fl
      BY <2>1 DEF Says
    <3>2. CASE i \in 1..Len(a)
      BY <1>2, <3>1, <3>2 DEF Says
    <3>3. CASE i \notin 1..Len(a)
      <4>1. PICK k \in 1..Len(b) : i = Len(a) + k
        BY <1>2, <3>3
      <4>2. c[i] = b[k]
        BY <1>2, <4>1
      <4> QED
        BY <3>1, <4>2 DEF Says
    <3> QED
      BY <3>2, <3>3
  <2>2. ASSUME Says(a, p, fl) PROVE Says(c, p, fl)
    <3>1. PICK i \in 1..Len(a) : In(p, a[i]) /\ a[i].fl = fl
      BY <2>2 DEF Says
    <3>2. c[i] = a[i] /\ i \in 1..Len(c)
      BY <1>2, <1>3
    <3> QED
      BY <3>1, <3>2 DEF Says
  <2>3. ASSUME Says(b, p, fl) PROVE Says(c, p, fl)
    <3>1. PICK i \in 1..Len(b) : In(p, b[i]) /\ b[i].fl = fl
      BY <2>3 DEF Says
    <3>2. c[Len(a) + i] = b[i] /\ Len(a) + i \in 1..Len(c)
      BY <1>2, <1>4
    <3> QED
      BY <3>1, <3>2 DEF Says
  <2> QED
    BY <2>1, <2>2, <2>3
<1> QED
  BY <1>6, <1>7 DEF c

\* The fields of a range.
LEMMA RangeFields ==
  ASSUME NEW Flags, NEW r \in MapRanges(Flags)
  PROVE  r.lo \in Nat /\ r.hi \in Nat /\ r.fl \in Flags /\ r.lo < r.hi
BY DEF MapRanges

\* A part of a range is apart from what the range is apart from.
LEMMA PartApart ==
  ASSUME NEW Flags, NEW a \in MapRanges(Flags), NEW b \in MapRanges(Flags), NEW c \in MapRanges(Flags),
         Apart(a, b), b.lo <= c.lo, c.hi <= b.hi
  PROVE  Apart(a, c) /\ Apart(c, a)
BY RangeFields DEF Apart

\* What is left of a range says of its pages outside the new range what it said.
LEMMA CutSays ==
  ASSUME NEW Flags, NEW old \in MapRanges(Flags), NEW new \in MapRanges(Flags)
  PROVE  /\ Tidy(Flags, Cut(old, new))
         /\ \A p \in Nat : \A fl : Says(Cut(old, new), p, fl) <=> ~ In(p, new) /\ In(p, old) /\ old.fl = fl
<1>1. Tidy(Flags, Cut(old, new))
  BY CutApart DEF Tidy
<1>2. ASSUME NEW p \in Nat, NEW fl
      PROVE  Says(Cut(old, new), p, fl) <=> ~ In(p, new) /\ In(p, old) /\ old.fl = fl
  <2>1. \A i \in 1..Len(Cut(old, new)) : Cut(old, new)[i].fl = old.fl
    BY CutExact
  <2>2. (\E i \in 1..Len(Cut(old, new)) : In(p, Cut(old, new)[i])) <=> In(p, old) /\ ~ In(p, new)
    BY CutExact
  <2> QED
    BY <2>1, <2>2 DEF Says
<1> QED
  BY <1>1, <1>2

\* A range alone.
LEMMA SingleSays ==
  ASSUME NEW Flags, NEW r \in MapRanges(Flags)
  PROVE  /\ Tidy(Flags, <<r>>) /\ Len(<<r>>) = 1 /\ <<r>>[1] = r
         /\ \A p, fl : Says(<<r>>, p, fl) <=> In(p, r) /\ r.fl = fl
BY DEF Tidy, Says

\* A list with a new range laid over it stays disjoint and says of a page what the new range says, or what it said.
LEMMA OverlaySays ==
  ASSUME NEW Flags, NEW done, Tidy(Flags, done), NEW new \in MapRanges(Flags)
  PROVE  /\ Tidy(Flags, Overlay(done, new))
         /\ \A p \in Nat : \A fl :
              Says(Overlay(done, new), p, fl) <=> IF In(p, new) THEN new.fl = fl ELSE Says(done, p, fl)
<1>1. done \in Seq(MapRanges(Flags)) /\ Len(done) \in Nat /\ \A i \in 1..Len(done) : done[i] \in MapRanges(Flags)
  BY DEF Tidy
<1>2. PICK left : /\ left[0] = <<>>
                  /\ \A n \in 1..Len(done) : left[n] = left[n - 1] \o Cut(done[n], new)
                  /\ Overlay(done, new) = Append(left[Len(done)], new)
  BY <1>1, LeftFunction, ZenonT(30)
<1> DEFINE P(n) ==
      /\ Tidy(Flags, left[n])
      /\ \A i \in 1..Len(left[n]) : Apart(left[n][i], new)
      /\ \A i \in 1..Len(left[n]), j \in (n + 1)..Len(done) : Apart(left[n][i], done[j])
      /\ \A p \in Nat : \A fl : Says(left[n], p, fl) <=> ~ In(p, new) /\ \E k \in 1..n : In(p, done[k]) /\ done[k].fl = fl
    S == {n \in Nat : n <= Len(done) => P(n)}
<1>3. 0 \in S
  <2>1. P(0)
    BY <1>2 DEF Tidy, Says
  <2> QED
    BY <2>1
<1>4. ASSUME NEW n \in Nat, n \in S PROVE n + 1 \in S
  <2>1. SUFFICES ASSUME n + 1 <= Len(done) PROVE P(n + 1)
    OBVIOUS
  <2>2. P(n)
    BY <1>1, <1>4, <2>1
  <2>3. n + 1 \in 1..Len(done) /\ done[n + 1] \in MapRanges(Flags)
    BY <1>1, <2>1
  <2> DEFINE a == left[n]
             o == done[n + 1]
             c == Cut(o, new)
             d == left[n + 1]
  <2>4. d = a \o c
    <3>1. (n + 1) - 1 = n
      OBVIOUS
    <3>2. left[n + 1] = left[(n + 1) - 1] \o Cut(done[n + 1], new)
      BY <1>2, <2>3, ZenonT(30)
    <3> QED
      BY <3>1, <3>2, ZenonT(30)
  <2>5. /\ Tidy(Flags, c)
        /\ \A i \in 1..Len(c) : c[i] \in MapRanges(Flags) /\ o.lo <= c[i].lo /\ c[i].hi <= o.hi /\ Apart(c[i], new)
        /\ \A p \in Nat : \A fl : Says(c, p, fl) <=> ~ In(p, new) /\ In(p, o) /\ o.fl = fl
    <3>1. Tidy(Flags, c) /\ \A p \in Nat : \A fl : Says(c, p, fl) <=> ~ In(p, new) /\ In(p, o) /\ o.fl = fl
      BY <2>3, CutSays
    <3>2. \A i \in 1..Len(c) : o.lo <= c[i].lo /\ c[i].hi <= o.hi /\ Apart(c[i], new)
      BY <2>3, CutApart
    <3> HIDE DEF c, o, S, P
    <3>3. \A i \in 1..Len(c) : c[i] \in MapRanges(Flags)
      BY <3>1 DEF Tidy
    <3> QED
      BY <3>1, <3>2, <3>3
  <2>6. /\ Tidy(Flags, a) /\ \A i \in 1..Len(a) : a[i] \in MapRanges(Flags) /\ Apart(a[i], new) /\ Apart(a[i], o)
    <3>1. /\ Tidy(Flags, a) /\ \A i \in 1..Len(a) : Apart(a[i], new)
          /\ \A i \in 1..Len(a), j \in (n + 1)..Len(done) : Apart(a[i], done[j])
      BY <2>2
    <3>2. n + 1 \in (n + 1)..Len(done)
      BY <1>1, <2>1
    <3>3. \A i \in 1..Len(a) : Apart(a[i], o)
      BY <3>1, <3>2
    <3> HIDE DEF a, S, P
    <3>4. \A i \in 1..Len(a) : a[i] \in MapRanges(Flags)
      BY <3>1 DEF Tidy
    <3> QED
      BY <3>1, <3>3, <3>4
  <2> HIDE DEF c
  <2>7. \A i \in 1..Len(a), j \in 1..Len(c) : Apart(a[i], c[j])
    <3> HIDE DEF a, o, S, P
    <3> TAKE i \in 1..Len(a), j \in 1..Len(c)
    <3>1. o \in MapRanges(Flags) /\ c[j] \in MapRanges(Flags) /\ o.lo <= c[j].lo /\ c[j].hi <= o.hi
      BY <2>3, <2>5 DEF o
    <3>2. a[i] \in MapRanges(Flags) /\ Apart(a[i], o)
      BY <2>6
    <3> QED
      BY <3>1, <3>2, PartApart
  <2>8. Tidy(Flags, d) /\ \A p, fl : Says(d, p, fl) <=> Says(a, p, fl) \/ Says(c, p, fl)
    <3> HIDE DEF a, d, S, P
    <3>1. Tidy(Flags, a) /\ Tidy(Flags, c)
      BY <2>5, <2>6, ZenonT(30)
    <3>2. Tidy(Flags, a \o c) /\ \A p, fl : Says(a \o c, p, fl) <=> Says(a, p, fl) \/ Says(c, p, fl)
      BY <2>7, <3>1, ConcatTidy, ZenonT(30)
    <3> QED
      BY <2>4, <3>2, ZenonT(30)
  <2>9. ASSUME NEW i \in 1..Len(d) PROVE (\E k \in 1..Len(a) : d[i] = a[k]) \/ \E k \in 1..Len(c) : d[i] = c[k]
    <3>1. a \in Seq(MapRanges(Flags)) /\ c \in Seq(MapRanges(Flags))
      BY <2>5, <2>6 DEF Tidy
    <3> HIDE DEF a, d, S, P
    <3>2. i \in 1..Len(a) \/ \E k \in 1..Len(c) : i = Len(a) + k
      BY <2>4, <3>1, Concat
    <3>3. \A k \in 1..Len(a) : d[k] = a[k]
      BY <2>4, <3>1, Concat
    <3>4. \A k \in 1..Len(c) : d[Len(a) + k] = c[k]
      BY <2>4, <3>1, Concat
    <3> QED
      BY <3>2, <3>3, <3>4, ZenonT(30)
  <2>10. \A i \in 1..Len(d) : Apart(d[i], new)
    <3> HIDE DEF a, d, S, P
    <3> QED
      BY <2>5, <2>6, <2>9, ZenonT(30)
  <2>11. ASSUME NEW i \in 1..Len(d), NEW j \in (n + 2)..Len(done) PROVE Apart(d[i], done[j])
    <3>1. j \in (n + 1)..Len(done) /\ j \in 1..Len(done) /\ j # n + 1
      BY <1>1
    <3>2. CASE \E k \in 1..Len(a) : d[i] = a[k]
      BY <2>2, <3>1, <3>2
    <3>3. CASE \E k \in 1..Len(c) : d[i] = c[k]
      <4>1. PICK k \in 1..Len(c) : d[i] = c[k]
        BY <3>3
      <4>2. Apart(done[j], o) /\ done[j] \in MapRanges(Flags)
        BY <1>1, <2>3, <3>1 DEF Tidy
      <4>3. Apart(c[k], done[j])
        BY <2>3, <2>5, <4>2, PartApart
      <4> QED
        BY <4>1, <4>3
    <3> QED
      BY <2>9, <3>2, <3>3
  <2>12. ASSUME NEW p \in Nat, NEW fl
         PROVE  Says(d, p, fl) <=> ~ In(p, new) /\ \E k \in 1..(n + 1) : In(p, done[k]) /\ done[k].fl = fl
    <3>1. \A k : k \in 1..(n + 1) <=> k \in 1..n \/ k = n + 1
      OBVIOUS
    <3>2. Says(a, p, fl) <=> ~ In(p, new) /\ \E k \in 1..n : In(p, done[k]) /\ done[k].fl = fl
      BY <2>2
    <3> QED
      BY <2>5, <2>8, <3>1, <3>2
  <2>13. (n + 1) + 1 = n + 2
    OBVIOUS
  <2> QED
    BY <2>8, <2>10, <2>11, <2>12, <2>13
<1>5. P(Len(done))
  <2>1. Len(done) \in S
    <3> HIDE DEF S
    <3> QED
      BY <1>1, <1>3, <1>4, NatIndSet
  <2> QED
    BY <1>1, <2>1
<1> DEFINE a == left[Len(done)]
<1>6. Overlay(done, new) = a \o <<new>>
  BY <1>2, <1>5 DEF Tidy
<1>7. \A i \in 1..Len(a), j \in 1..Len(<<new>>) : Apart(a[i], <<new>>[j])
  BY <1>5
<1>8. /\ Tidy(Flags, a \o <<new>>)
      /\ \A p, fl : Says(a \o <<new>>, p, fl) <=> Says(a, p, fl) \/ Says(<<new>>, p, fl)
  <2> HIDE DEF a
  <2>1. Tidy(Flags, a)
    BY <1>5 DEF a
  <2> QED
    BY <1>7, <2>1, SingleSays, ConcatTidy
<1>9. ASSUME NEW p \in Nat, NEW fl
      PROVE  Says(a \o <<new>>, p, fl) <=> IF In(p, new) THEN new.fl = fl ELSE Says(done, p, fl)
  <2>1. Says(<<new>>, p, fl) <=> In(p, new) /\ new.fl = fl
    BY SingleSays
  <2>2. Says(a, p, fl) <=> ~ In(p, new) /\ Says(done, p, fl)
    BY <1>5, ZenonT(30) DEF Says
  <2> QED
    BY <1>8, <2>1, <2>2
<1> QED
  BY <1>6, <1>8, <1>9

\* fl are the flags of the last of the first n ranges that page p is in.
LastIn(list, n, p, fl) ==
  \E i \in 1..n : In(p, list[i]) /\ list[i].fl = fl /\ \A j \in (i + 1)..n : ~ In(p, list[j])

\* One more range decides the flags of its pages.
LEMMA LastInStep ==
  ASSUME NEW list, NEW n \in Nat, NEW p, NEW fl
  PROVE  LastIn(list, n + 1, p, fl) <=> IF In(p, list[n + 1]) THEN list[n + 1].fl = fl ELSE LastIn(list, n, p, fl)
<1>1. CASE In(p, list[n + 1])
  <2>1. ASSUME list[n + 1].fl = fl PROVE LastIn(list, n + 1, p, fl)
    <3>1. n + 1 \in 1..(n + 1) /\ \A j \in ((n + 1) + 1)..(n + 1) : FALSE
      OBVIOUS
    <3> QED
      BY <1>1, <2>1, <3>1 DEF LastIn
  <2>2. ASSUME LastIn(list, n + 1, p, fl) PROVE list[n + 1].fl = fl
    <3>1. PICK i \in 1..(n + 1) : list[i].fl = fl /\ \A j \in (i + 1)..(n + 1) : ~ In(p, list[j])
      BY <2>2 DEF LastIn
    <3>2. i = n + 1 \/ n + 1 \in (i + 1)..(n + 1)
      OBVIOUS
    <3> QED
      BY <1>1, <3>1, <3>2
  <2> QED
    BY <1>1, <2>1, <2>2
<1>2. CASE ~ In(p, list[n + 1])
  <2>1. ASSUME LastIn(list, n, p, fl) PROVE LastIn(list, n + 1, p, fl)
    <3>1. PICK i \in 1..n : In(p, list[i]) /\ list[i].fl = fl /\ \A j \in (i + 1)..n : ~ In(p, list[j])
      BY <2>1 DEF LastIn
    <3>2. \A j \in (i + 1)..(n + 1) : j = n + 1 \/ j \in (i + 1)..n
      OBVIOUS
    <3>3. i \in 1..(n + 1)
      OBVIOUS
    <3> QED
      BY <1>2, <3>1, <3>2, <3>3 DEF LastIn
  <2>2. ASSUME LastIn(list, n + 1, p, fl) PROVE LastIn(list, n, p, fl)
    <3>1. PICK i \in 1..(n + 1) : In(p, list[i]) /\ list[i].fl = fl /\ \A j \in (i + 1)..(n + 1) : ~ In(p, list[j])
      BY <2>2 DEF LastIn
    <3>2. i \in 1..n
      BY <1>2, <3>1
    <3>3. \A j \in (i + 1)..n : j \in (i + 1)..(n + 1)
      OBVIOUS
    <3> QED
      BY <3>1, <3>2, <3>3 DEF LastIn
  <2> QED
    BY <1>2, <2>1, <2>2
<1> QED
  BY <1>1, <1>2

\* The outer loop: a page gets the flags of the last range it is in.
LEMMA OverlayAllSays ==
  ASSUME NEW Flags, NEW list \in Seq(MapRanges(Flags))
  PROVE  /\ Tidy(Flags, OverlayAll(list))
         /\ \A p \in Nat : \A fl : Says(OverlayAll(list), p, fl) <=> LastIn(list, Len(list), p, fl)
<1>1. Len(list) \in Nat /\ \A n \in 1..Len(list) : list[n] \in MapRanges(Flags)
  OBVIOUS
<1>2. PICK laid : /\ laid[0] = <<>>
                  /\ \A n \in 1..Len(list) : laid[n] = Overlay(laid[n - 1], list[n])
                  /\ OverlayAll(list) = laid[Len(list)]
  BY <1>1, LaidFunction
<1> DEFINE P(n) == /\ Tidy(Flags, laid[n])
                   /\ \A p \in Nat : \A fl : Says(laid[n], p, fl) <=> LastIn(list, n, p, fl)
           S == {n \in Nat : n <= Len(list) => P(n)}
<1>3. 0 \in S
  <2>1. P(0)
    BY <1>2 DEF Tidy, Says, LastIn
  <2> QED
    BY <2>1
<1>4. ASSUME NEW n \in Nat, n \in S PROVE n + 1 \in S
  <2>1. SUFFICES ASSUME n + 1 <= Len(list) PROVE P(n + 1)
    OBVIOUS
  <2>2. P(n) /\ n + 1 \in 1..Len(list) /\ (n + 1) - 1 = n
    BY <1>1, <1>4, <2>1
  <2>3. laid[n + 1] = Overlay(laid[n], list[n + 1]) /\ list[n + 1] \in MapRanges(Flags)
    BY <1>1, <1>2, <2>2
  <2>4. /\ Tidy(Flags, laid[n + 1])
        /\ \A p \in Nat : \A fl :
             Says(laid[n + 1], p, fl) <=> IF In(p, list[n + 1]) THEN list[n + 1].fl = fl ELSE Says(laid[n], p, fl)
    BY <2>2, <2>3, OverlaySays
  <2> QED
    BY <2>2, <2>4, LastInStep
<1>5. P(Len(list))
  <2>1. Len(list) \in S
    <3> HIDE DEF S
    <3> QED
      BY <1>1, <1>3, <1>4, NatIndSet
  <2> QED
    BY <1>1, <2>1
<1> QED
  BY <1>2, <1>5

\* What a list says of a page, as the reference has it.
LEMMA FlagsOfLast ==
  ASSUME NEW list, Len(list) \in Nat, DOMAIN list = 1..Len(list), NEW p, NEW fl, LastIn(list, Len(list), p, fl)
  PROVE  FlagsOf(list, p) = fl
<1> DEFINE in == {i \in DOMAIN list : In(p, list[i])}
           last == CHOOSE i \in in : \A j \in in : j <= i
<1>1. PICK i \in 1..Len(list) : In(p, list[i]) /\ list[i].fl = fl /\ \A j \in (i + 1)..Len(list) : ~ In(p, list[j])
  BY DEF LastIn
<1>2. i \in in
  BY <1>1
<1>3. \A j \in in : j \in Nat /\ j <= i
  <2> SUFFICES ASSUME NEW j \in 1..Len(list), In(p, list[j]) PROVE j <= i
    OBVIOUS
  <2> QED
    BY <1>1
<1>4. last \in in /\ \A j \in in : j <= last
  <2> HIDE DEF in
  <2> QED
    BY <1>2, <1>3, ZenonT(30)
<1>5. last = i
  <2> HIDE DEF last
  <2> QED
    BY <1>2, <1>3, <1>4
<1>6. FlagsOf(list, p) = list[last].fl
  BY <1>2 DEF FlagsOf
<1> QED
  BY <1>1, <1>5, <1>6

\* A page in no range is unmapped.
LEMMA FlagsOfNone ==
  ASSUME NEW list, DOMAIN list = 1..Len(list), NEW p, \A i \in 1..Len(list) : ~ In(p, list[i])
  PROVE  FlagsOf(list, p) = Unmapped
BY DEF FlagsOf

\* A page in some range is in a last one.
LEMMA LastExists ==
  ASSUME NEW list, NEW p, NEW m \in Nat, \E i \in 1..m : In(p, list[i])
  PROVE  \E fl : LastIn(list, m, p, fl)
<1> DEFINE S == {n \in Nat : (\E i \in 1..n : In(p, list[i])) => \E fl : LastIn(list, n, p, fl)}
<1>1. 0 \in S
  OBVIOUS
<1>2. ASSUME NEW n \in Nat, n \in S PROVE n + 1 \in S
  <2>1. SUFFICES ASSUME \E i \in 1..(n + 1) : In(p, list[i]) PROVE \E fl : LastIn(list, n + 1, p, fl)
    OBVIOUS
  <2>2. CASE In(p, list[n + 1])
    BY <2>2, LastInStep, ZenonT(30)
  <2>3. CASE ~ In(p, list[n + 1])
    <3>1. \E i \in 1..n : In(p, list[i])
      BY <2>1, <2>3
    <3>2. PICK fl : LastIn(list, n, p, fl)
      BY <1>2, <3>1
    <3> QED
      BY <2>3, <3>2, LastInStep
  <2> QED
    BY <2>2, <2>3
<1>3. m \in S
  <2> HIDE DEF S
  <2> QED
    BY <1>1, <1>2, NatIndSet
<1> QED
  BY <1>3

\* In a tidy list the range a page is in is the only one.
LEMMA TidyFlagsOf ==
  ASSUME NEW Flags, NEW l, Tidy(Flags, l), NEW p \in Nat, NEW fl, Says(l, p, fl)
  PROVE  FlagsOf(l, p) = fl
<1>1. /\ Len(l) \in Nat /\ DOMAIN l = 1..Len(l)
      /\ \A i \in 1..Len(l) : l[i] \in MapRanges(Flags)
      /\ \A i, j \in 1..Len(l) : i # j => Apart(l[i], l[j])
  BY DEF Tidy
<1>2. PICK i \in 1..Len(l) : In(p, l[i]) /\ l[i].fl = fl
  BY DEF Says
<1>3. ASSUME NEW j \in (i + 1)..Len(l) PROVE ~ In(p, l[j])
  <2>1. j \in 1..Len(l) /\ j # i
    BY <1>1
  <2>2. Apart(l[i], l[j]) /\ l[i] \in MapRanges(Flags) /\ l[j] \in MapRanges(Flags)
    BY <1>1, <2>1
  <2> QED
    BY <1>2, <2>2, RangeFields DEF Apart, In
<1>4. LastIn(l, Len(l), p, fl)
  BY <1>2, <1>3 DEF LastIn
<1> QED
  BY <1>1, <1>4, FlagsOfLast

\* Ranges from low to high, none over another; and none that could be joined with the next.
InOrder(l) == \A i, j \in 1..Len(l) : i < j => l[i].hi <= l[j].lo
Joined(l) == \A i \in 1..Len(l) : i < Len(l) => l[i].hi < l[i + 1].lo \/ (l[i].hi = l[i + 1].lo /\ l[i].fl # l[i + 1].fl)

\* There is a place for a range that is apart from the others.
LEMMA InsertPlace ==
  ASSUME NEW Flags, NEW l \in Seq(MapRanges(Flags)), InOrder(l), NEW r \in MapRanges(Flags)
  PROVE  \E k \in 0..Len(l) : (\A i \in 1..k : l[i].lo < r.lo) /\ (\A i \in (k + 1)..Len(l) : l[i].lo >= r.lo)
<1> DEFINE T == {i \in 1..Len(l) : l[i].lo >= r.lo}
<1>1. /\ Len(l) \in Nat /\ \A i \in 1..Len(l) : l[i] \in MapRanges(Flags)
      /\ \A i \in 1..Len(l) : l[i].lo \in Nat /\ l[i].hi \in Nat /\ l[i].lo < l[i].hi
  BY RangeFields
<1>2. r.lo \in Nat
  BY RangeFields
<1>3. CASE T = {}
  <2>1. \A i \in 1..Len(l) : l[i].lo < r.lo
    BY <1>1, <1>2, <1>3
  <2>2. \A i \in (Len(l) + 1)..Len(l) : FALSE
    BY <1>1
  <2>3. Len(l) \in 0..Len(l)
    BY <1>1
  <2> QED
    BY <2>1, <2>2, <2>3
<1>4. CASE T # {}
  <2>1. T \in SUBSET Nat
    OBVIOUS
  <2>2. PICK x \in T : \A y \in T : x <= y
    <3> HIDE DEF T
    <3> QED
      BY <1>4, <2>1, Least
  <2>3. x \in 1..Len(l) /\ x - 1 \in 0..Len(l) /\ l[x].lo >= r.lo
    BY <1>1
  <2>4. ASSUME NEW i \in 1..(x - 1) PROVE l[i].lo < r.lo
    <3>1. i \in 1..Len(l) /\ i \notin T
      BY <1>1, <2>2, <2>3
    <3> QED
      BY <1>1, <1>2, <3>1
  <2>5. ASSUME NEW i \in ((x - 1) + 1)..Len(l) PROVE l[i].lo >= r.lo
    <3>1. i \in 1..Len(l) /\ (i = x \/ x < i)
      BY <1>1, <2>3
    <3>2. x < i => l[x].hi <= l[i].lo
      BY <2>3, <3>1 DEF InOrder
    <3> QED
      BY <1>1, <1>2, <2>3, <3>1, <3>2
  <2> QED
    BY <2>3, <2>4, <2>5, ZenonT(30)
<1> QED
  BY <1>3, <1>4

\* Inserting a range that meets no other keeps the order, and adds what the range says.
LEMMA InsertSays ==
  ASSUME NEW Flags, NEW l \in Seq(MapRanges(Flags)), InOrder(l), NEW r \in MapRanges(Flags),
         \A i \in 1..Len(l) : Apart(l[i], r)
  PROVE  /\ Insert(l, r) \in Seq(MapRanges(Flags)) /\ InOrder(Insert(l, r))
         /\ \A i \in 1..Len(Insert(l, r)) : Insert(l, r)[i] = r \/ \E j \in 1..Len(l) : Insert(l, r)[i] = l[j]
         /\ \A p, fl : Says(Insert(l, r), p, fl) <=> Says(l, p, fl) \/ (In(p, r) /\ r.fl = fl)
<1> DEFINE place(k) == (\A i \in 1..k : l[i].lo < r.lo) /\ (\A i \in (k + 1)..Len(l) : l[i].lo >= r.lo)
           at == CHOOSE k \in 0..Len(l) : place(k)
           V == MapRanges(Flags)
<1>1. /\ Len(l) \in Nat /\ \A i \in 1..Len(l) : l[i] \in MapRanges(Flags)
      /\ \A i \in 1..Len(l) : l[i].lo \in Nat /\ l[i].hi \in Nat /\ l[i].lo < l[i].hi
  BY RangeFields
<1>2. r.lo \in Nat /\ r.hi \in Nat /\ r.lo < r.hi
  BY RangeFields
<1>3. at \in 0..Len(l) /\ place(at)
  <2>1. \E k \in 0..Len(l) : place(k)
    BY InsertPlace
  <2> HIDE DEF place
  <2> QED
    BY <2>1
<1>4. Insert(l, r) = [i \in 1..(Len(l) + 1) |-> IF i <= at THEN l[i] ELSE IF i = at + 1 THEN r ELSE l[i - 1]]
  BY DEF Insert
<1>5. PICK k \in 0..Len(l) : k = at
  BY <1>3
<1>6. (\A i \in 1..k : l[i].lo < r.lo) /\ (\A i \in (k + 1)..Len(l) : l[i].lo >= r.lo)
  BY <1>3, <1>5
<1> HIDE DEF at, place
<1>7. \A i \in 1..k : l[i].hi <= r.lo
  BY <1>1, <1>2, <1>6 DEF Apart
<1>8. \A i \in (k + 1)..Len(l) : r.hi <= l[i].lo
  BY <1>1, <1>2, <1>6 DEF Apart
<1> DEFINE t == [i \in 1..(Len(l) + 1) |-> IF i <= k THEN l[i] ELSE IF i = k + 1 THEN r ELSE l[i - 1]]
<1>9. Insert(l, r) = t
  BY <1>4, <1>5
<1>10. t \in Seq(V) /\ Len(t) = Len(l) + 1
  <2>1. \A i \in 1..(Len(l) + 1) : t[i] \in V
    BY <1>1
  <2>2. t \in [1..(Len(l) + 1) -> V] /\ Len(l) + 1 \in Nat
    BY <1>1, <2>1
  <2> HIDE DEF t, V
  <2> QED
    BY <2>2
<1>11. /\ \A i \in 1..k : t[i] = l[i]
       /\ t[k + 1] = r
       /\ \A i \in (k + 2)..(Len(l) + 1) : t[i] = l[i - 1]
  BY <1>1
<1> HIDE DEF t, V
<1>12. \A i \in 1..Len(t) : i \in 1..k \/ i = k + 1 \/ (i \in (k + 2)..(Len(l) + 1) /\ i - 1 \in (k + 1)..Len(l))
  BY <1>1, <1>10
<1>13. InOrder(t)
  <2> SUFFICES ASSUME NEW i \in 1..Len(t), NEW j \in 1..Len(t), i < j PROVE t[i].hi <= t[j].lo
    BY DEF InOrder
  <2>1. CASE i \in 1..k /\ j \in 1..k
    <3>1. t[i] = l[i] /\ t[j] = l[j] /\ i \in 1..Len(l) /\ j \in 1..Len(l)
      BY <1>1, <1>11, <2>1
    <3> QED
      BY <3>1 DEF InOrder
  <2>2. CASE i \in 1..k /\ j = k + 1
    BY <1>7, <1>11, <2>2
  <2>3. CASE i \in 1..k /\ j \in (k + 2)..(Len(l) + 1)
    <3>1. t[i] = l[i] /\ t[j] = l[j - 1] /\ i \in 1..Len(l) /\ j - 1 \in 1..Len(l) /\ i < j - 1
      BY <1>1, <1>11, <2>3
    <3> QED
      BY <3>1 DEF InOrder
  <2>4. CASE i = k + 1
    <3>1. t[i] = r /\ t[j] = l[j - 1] /\ j - 1 \in (k + 1)..Len(l)
      BY <1>1, <1>10, <1>11, <2>4
    <3> QED
      BY <1>8, <3>1
  <2>5. CASE i \in (k + 2)..(Len(l) + 1)
    <3>1. /\ t[i] = l[i - 1] /\ t[j] = l[j - 1] /\ i - 1 \in 1..Len(l) /\ j - 1 \in 1..Len(l) /\ i - 1 < j - 1
      BY <1>1, <1>10, <1>11, <2>5
    <3> QED
      BY <3>1 DEF InOrder
  <2> QED
    BY <1>10, <1>12, <2>1, <2>2, <2>3, <2>4, <2>5
<1>14. ASSUME NEW i \in 1..Len(t) PROVE t[i] = r \/ \E j \in 1..Len(l) : t[i] = l[j]
  BY <1>1, <1>11, <1>12
<1>15. \A j \in 1..Len(l) : \E i \in 1..Len(t) : t[i] = l[j]
  <2> SUFFICES ASSUME NEW j \in 1..Len(l) PROVE \E i \in 1..Len(t) : t[i] = l[j]
    OBVIOUS
  <2>1. CASE j <= k
    <3>1. j \in 1..Len(t) /\ t[j] = l[j]
      BY <1>1, <1>10, <1>11, <2>1
    <3> QED
      BY <3>1
  <2>2. CASE j > k
    <3>1. j + 1 \in 1..Len(t) /\ t[j + 1] = l[j]
      <4>1. j + 1 \in (k + 2)..(Len(l) + 1) /\ (j + 1) - 1 = j
        BY <1>1, <2>2
      <4> QED
        BY <1>1, <1>10, <1>11, <4>1
    <3> QED
      BY <3>1
  <2> QED
    BY <1>1, <2>1, <2>2
<1>16. k + 1 \in 1..Len(t)
  BY <1>1, <1>10
<1>17. ASSUME NEW p, NEW fl PROVE Says(t, p, fl) <=> Says(l, p, fl) \/ (In(p, r) /\ r.fl = fl)
  <2>1. Says(t, p, fl) => Says(l, p, fl) \/ (In(p, r) /\ r.fl = fl)
    BY <1>14, ZenonT(30) DEF Says
  <2>2. Says(l, p, fl) => Says(t, p, fl)
    BY <1>15, ZenonT(30) DEF Says
  <2>3. In(p, r) /\ r.fl = fl => Says(t, p, fl)
    BY <1>11, <1>16, ZenonT(30) DEF Says
  <2> QED
    BY <2>1, <2>2, <2>3
<1> QED
  BY <1>9, <1>10, <1>13, <1>14, <1>17 DEF V

\* Sorting disjoint ranges puts them in order and changes nothing they say.
LEMMA SortSays ==
  ASSUME NEW Flags, NEW list, Tidy(Flags, list)
  PROVE  /\ SortByStart(list) \in Seq(MapRanges(Flags)) /\ InOrder(SortByStart(list))
         /\ \A p, fl : Says(SortByStart(list), p, fl) <=> Says(list, p, fl)
<1>1. /\ Len(list) \in Nat /\ \A n \in 1..Len(list) : list[n] \in MapRanges(Flags)
      /\ \A i, j \in 1..Len(list) : i # j => Apart(list[i], list[j])
  BY DEF Tidy
<1>2. PICK sorted : /\ sorted[0] = <<>>
                    /\ \A n \in 1..Len(list) : sorted[n] = Insert(sorted[n - 1], list[n])
                    /\ SortByStart(list) = sorted[Len(list)]
  <2>1. Len(list) \in Nat
    BY <1>1
  <2> QED
    BY <2>1, SortedFunction
<1> DEFINE P(n) == /\ sorted[n] \in Seq(MapRanges(Flags)) /\ InOrder(sorted[n])
                   /\ \A i \in 1..Len(sorted[n]) : \E k \in 1..n : sorted[n][i] = list[k]
                   /\ \A p, fl : Says(sorted[n], p, fl) <=> \E k \in 1..n : In(p, list[k]) /\ list[k].fl = fl
           S == {n \in Nat : n <= Len(list) => P(n)}
<1>3. 0 \in S
  <2>1. P(0)
    BY <1>2 DEF InOrder, Says
  <2> QED
    BY <2>1
<1>4. ASSUME NEW n \in Nat, n \in S PROVE n + 1 \in S
  <2>1. SUFFICES ASSUME n + 1 <= Len(list) PROVE P(n + 1)
    OBVIOUS
  <2>2. P(n) /\ n + 1 \in 1..Len(list) /\ (n + 1) - 1 = n
    BY <1>1, <1>4, <2>1
  <2> DEFINE a == sorted[n]
             b == sorted[n + 1]
             r == list[n + 1]
  <2>3. b = Insert(a, r) /\ r \in MapRanges(Flags)
    BY <1>1, <1>2, <2>2
  <2>4. /\ a \in Seq(MapRanges(Flags)) /\ InOrder(a)
        /\ \A i \in 1..Len(a) : \E k \in 1..n : a[i] = list[k]
        /\ \A p, fl : Says(a, p, fl) <=> \E k \in 1..n : In(p, list[k]) /\ list[k].fl = fl
    BY <2>2
  <2>5. \A k \in 1..n : k \in 1..Len(list) /\ k # n + 1
    BY <1>1, <2>1
  <2>6. \A k : k \in 1..(n + 1) <=> k \in 1..n \/ k = n + 1
    OBVIOUS
  <2> HIDE DEF a, b, S, P
  <2>7. \A i \in 1..Len(a) : Apart(a[i], r)
    BY <1>1, <2>2, <2>4, <2>5
  <2> HIDE DEF r
  <2>8. /\ b \in Seq(MapRanges(Flags)) /\ InOrder(b)
        /\ \A i \in 1..Len(b) : b[i] = r \/ \E j \in 1..Len(a) : b[i] = a[j]
        /\ \A p, fl : Says(b, p, fl) <=> Says(a, p, fl) \/ (In(p, r) /\ r.fl = fl)
    BY <2>3, <2>4, <2>7, InsertSays
  <2>9. \A i \in 1..Len(b) : \E k \in 1..(n + 1) : b[i] = list[k]
    <3>1. r = list[n + 1] /\ n + 1 \in 1..(n + 1)
      BY DEF r
    <3> QED
      BY <2>4, <2>6, <2>8, <3>1
  <2>10. ASSUME NEW p, NEW fl
         PROVE  Says(b, p, fl) <=> \E k \in 1..(n + 1) : In(p, list[k]) /\ list[k].fl = fl
    <3>1. r = list[n + 1]
      BY DEF r
    <3>2. Says(b, p, fl) <=> (\E k \in 1..n : In(p, list[k]) /\ list[k].fl = fl) \/ (In(p, r) /\ r.fl = fl)
      <4>1. Says(a, p, fl) <=> \E k \in 1..n : In(p, list[k]) /\ list[k].fl = fl
        BY <2>4
      <4>2. Says(b, p, fl) <=> Says(a, p, fl) \/ (In(p, r) /\ r.fl = fl)
        BY <2>8
      <4> QED
        BY <4>1, <4>2
    <3>3. (\E k \in 1..(n + 1) : In(p, list[k]) /\ list[k].fl = fl)
            <=> (\E k \in 1..n : In(p, list[k]) /\ list[k].fl = fl) \/ (In(p, r) /\ r.fl = fl)
      BY <2>6, <3>1
    <3> QED
      BY <3>2, <3>3
  <2> QED
    BY <2>8, <2>9, <2>10 DEF P, b
<1>5. P(Len(list))
  <2>1. Len(list) \in S
    <3> HIDE DEF S
    <3> QED
      BY <1>1, <1>3, <1>4, NatIndSet
  <2> QED
    BY <1>1, <2>1
<1>6. \A p, fl : Says(sorted[Len(list)], p, fl) <=> Says(list, p, fl)
  <2>1. \A p, fl : Says(sorted[Len(list)], p, fl) <=> \E k \in 1..Len(list) : In(p, list[k]) /\ list[k].fl = fl
    BY <1>5
  <2>2. \A p, fl : Says(list, p, fl) <=> \E k \in 1..Len(list) : In(p, list[k]) /\ list[k].fl = fl
    BY ZenonT(30) DEF Says
  <2> QED
    BY <2>1, <2>2, ZenonT(30)
<1>7. sorted[Len(list)] \in Seq(MapRanges(Flags)) /\ InOrder(sorted[Len(list)])
  BY <1>5
<1> QED
  BY <1>2, <1>6, <1>7, ZenonT(30)

\* A range that begins behind the end of a list.
Behind(l, r) == Len(l) > 0 => l[Len(l)].hi <= r.lo

\* Joining a range to the one before it keeps the order and what both say.
LEMMA MergeSays ==
  ASSUME NEW Flags, NEW m \in Seq(MapRanges(Flags)), InOrder(m), Joined(m), NEW r \in MapRanges(Flags),
         Behind(m, r)
  PROVE  /\ Merge(m, r) \in Seq(MapRanges(Flags)) /\ InOrder(Merge(m, r)) /\ Joined(Merge(m, r))
         /\ Len(Merge(m, r)) > 0 /\ Merge(m, r)[Len(Merge(m, r))].hi = r.hi
         /\ \A p \in Nat : \A fl : Says(Merge(m, r), p, fl) <=> Says(m, p, fl) \/ (In(p, r) /\ r.fl = fl)
<1> DEFINE V == MapRanges(Flags)
           k == Len(m)
           t == Merge(m, r)
<1>1. /\ k \in Nat /\ \A i \in 1..k : m[i] \in V
      /\ \A i \in 1..k : m[i].lo \in Nat /\ m[i].hi \in Nat /\ m[i].lo < m[i].hi
  BY RangeFields
<1>2. r.lo \in Nat /\ r.hi \in Nat /\ r.lo < r.hi
  BY RangeFields
<1>3. \A i \in 1..k : i < k => m[i].hi <= m[k].lo
  BY <1>1 DEF InOrder
<1>4. \A i \in 1..k : m[i].hi <= r.lo
  BY <1>1, <1>2, <1>3 DEF Behind
<1>5. CASE k > 0 /\ m[k].hi = r.lo /\ m[k].fl = r.fl
  <2> DEFINE e == [m[k] EXCEPT !.hi = r.hi]
  <2>1. t = [m EXCEPT ![k] = e] /\ k \in 1..k
    BY <1>1, <1>5 DEF Merge
  <2>2. m[k] \in V
    BY <1>1, <1>5
  <2>3. e.lo = m[k].lo /\ e.hi = r.hi /\ e.fl = m[k].fl /\ e \in V
    <3>1. m[k] \in [lo : Nat, hi : Nat, fl : Flags] /\ m[k].lo < m[k].hi
      BY <2>2 DEF MapRanges
    <3>2. r.lo \in Nat /\ r.hi \in Nat /\ r.lo < r.hi
      BY <1>2
    <3>3. PICK x \in [lo : Nat, hi : Nat, fl : Flags] : x = m[k]
      BY <3>1
    <3>4. /\ [x EXCEPT !.hi = r.hi] \in [lo : Nat, hi : Nat, fl : Flags]
          /\ [x EXCEPT !.hi = r.hi].lo = x.lo /\ [x EXCEPT !.hi = r.hi].hi = r.hi
          /\ [x EXCEPT !.hi = r.hi].fl = x.fl
      BY <3>2
    <3>5. x.lo < r.hi
      BY <1>5, <3>1, <3>2, <3>3
    <3> QED
      BY <3>3, <3>4, <3>5, ZenonT(30) DEF MapRanges
  <2> HIDE DEF e, t, V
  <2>4. t \in Seq(V) /\ Len(t) = k /\ t[k] = e /\ \A i \in 1..k : i # k => t[i] = m[i]
    <3>1. m \in Seq(V)
      BY DEF V
    <3> QED
      BY <2>1, <2>3, <3>1
  <2>5. InOrder(t)
    <3> SUFFICES ASSUME NEW i \in 1..k, NEW j \in 1..k, i < j PROVE t[i].hi <= t[j].lo
      BY <2>4 DEF InOrder
    <3>1. t[i] = m[i] /\ t[j].lo = m[j].lo
      BY <1>1, <2>3, <2>4
    <3> QED
      BY <3>1 DEF InOrder
  <2>6. Joined(t)
    <3> SUFFICES ASSUME NEW i \in 1..k, i < k
                 PROVE  t[i].hi < t[i + 1].lo \/ (t[i].hi = t[i + 1].lo /\ t[i].fl # t[i + 1].fl)
      BY <2>4 DEF Joined
    <3>1. i + 1 \in 1..k
      BY <1>1
    <3>2. t[i] = m[i] /\ t[i + 1].lo = m[i + 1].lo /\ t[i + 1].fl = m[i + 1].fl
      BY <1>1, <2>3, <2>4, <3>1
    <3> QED
      BY <3>2 DEF Joined
  <2>7. ASSUME NEW p \in Nat, NEW fl PROVE Says(t, p, fl) <=> Says(m, p, fl) \/ (In(p, r) /\ r.fl = fl)
    <3>1. In(p, e) <=> In(p, m[k]) \/ In(p, r)
      BY <1>1, <1>2, <1>5, <2>1, <2>3 DEF In
    <3>2. Says(t, p, fl) <=> (In(p, e) /\ e.fl = fl) \/ \E i \in 1..k : i # k /\ In(p, m[i]) /\ m[i].fl = fl
      BY <2>1, <2>4, ZenonT(30) DEF Says
    <3>3. Says(m, p, fl) <=> (In(p, m[k]) /\ m[k].fl = fl) \/ \E i \in 1..k : i # k /\ In(p, m[i]) /\ m[i].fl = fl
      BY <2>1, ZenonT(30) DEF Says
    <3> QED
      BY <1>5, <2>3, <3>1, <3>2, <3>3, ZenonT(30)
  <2> QED
    BY <1>5, <2>3, <2>4, <2>5, <2>6, <2>7 DEF t, V
<1>6. CASE ~ (k > 0 /\ m[k].hi = r.lo /\ m[k].fl = r.fl)
  <2>1. t = Append(m, r)
    BY <1>6 DEF Merge
  <2> HIDE DEF t, V
  <2>2. m \in Seq(V) /\ r \in V
    BY DEF V
  <2>3. t \in Seq(V) /\ Len(t) = k + 1 /\ t[k + 1] = r /\ \A i \in 1..k : t[i] = m[i]
    BY <2>1, <2>2
  <2>4. \A i : i \in 1..(k + 1) <=> i \in 1..k \/ i = k + 1
    BY <1>1
  <2>5. InOrder(t)
    <3> SUFFICES ASSUME NEW i \in 1..(k + 1), NEW j \in 1..(k + 1), i < j PROVE t[i].hi <= t[j].lo
      BY <2>3 DEF InOrder
    <3>1. i \in 1..k
      BY <1>1
    <3>2. CASE j \in 1..k
      BY <2>3, <3>1, <3>2 DEF InOrder
    <3>3. CASE j = k + 1
      BY <1>4, <2>3, <3>1, <3>3
    <3> QED
      BY <2>4, <3>2, <3>3
  <2>6. Joined(t)
    <3> SUFFICES ASSUME NEW i \in 1..k
                 PROVE  t[i].hi < t[i + 1].lo \/ (t[i].hi = t[i + 1].lo /\ t[i].fl # t[i + 1].fl)
      <4>1. \A i \in 1..(k + 1) : i < k + 1 => i \in 1..k
        BY <1>1
      <4> QED
        BY <2>3, <4>1 DEF Joined
    <3>1. CASE i = k
      <4>1. t[i] = m[k] /\ t[i + 1] = r
        BY <2>3, <3>1
      <4> QED
        BY <1>1, <1>2, <1>4, <1>6, <3>1, <4>1
    <3>2. CASE i < k
      <4>1. i + 1 \in 1..k
        BY <1>1, <3>2
      <4>2. t[i] = m[i] /\ t[i + 1] = m[i + 1]
        BY <2>3, <4>1
      <4> QED
        BY <3>2, <4>2 DEF Joined
    <3> QED
      BY <1>1, <3>1, <3>2
  <2>7. ASSUME NEW p \in Nat, NEW fl PROVE Says(t, p, fl) <=> Says(m, p, fl) \/ (In(p, r) /\ r.fl = fl)
    BY <2>3, <2>4, ZenonT(30) DEF Says
  <2>8. Len(t) > 0 /\ t[Len(t)].hi = r.hi
    BY <1>1, <2>3
  <2> QED
    BY <2>3, <2>5, <2>6, <2>7, <2>8 DEF t, V
<1> QED
  BY <1>5, <1>6

\* What Merge makes of a list and the range after it, as one fact.
MergeMakes(Flags, m, r, t) ==
  /\ t \in Seq(MapRanges(Flags)) /\ InOrder(t) /\ Joined(t)
  /\ Len(t) > 0 /\ t[Len(t)].hi = r.hi
  /\ \A p \in Nat : \A fl : Says(t, p, fl) <=> Says(m, p, fl) \/ (In(p, r) /\ r.fl = fl)
\* Merge makes it, when the range lies behind the list.
LEMMA MergeIsMade ==
  ASSUME NEW Flags, NEW m \in Seq(MapRanges(Flags)), InOrder(m), Joined(m), NEW r \in MapRanges(Flags),
         Behind(m, r)
  PROVE  MergeMakes(Flags, m, r, Merge(m, r))
BY MergeSays DEF MergeMakes

\* The second loop: what the list says stays, and no two ranges are left that could be joined.
LEMMA MergeAllSays ==
  ASSUME NEW Flags, NEW list \in Seq(MapRanges(Flags)), InOrder(list)
  PROVE  /\ MergeAll(list) \in Seq(MapRanges(Flags)) /\ InOrder(MergeAll(list)) /\ Joined(MergeAll(list))
         /\ \A p \in Nat : \A fl : Says(MergeAll(list), p, fl) <=> Says(list, p, fl)
<1>1. Len(list) \in Nat /\ \A n \in 1..Len(list) : list[n] \in MapRanges(Flags)
  OBVIOUS
<1>2. PICK merged : /\ merged[0] = <<>>
                    /\ \A n \in 1..Len(list) : merged[n] = Merge(merged[n - 1], list[n])
                    /\ MergeAll(list) = merged[Len(list)]
  BY <1>1, MergedFunction
<1> DEFINE P(n) == /\ merged[n] \in Seq(MapRanges(Flags)) /\ InOrder(merged[n]) /\ Joined(merged[n])
                   /\ Len(merged[n]) > 0 => n > 0 /\ merged[n][Len(merged[n])].hi = list[n].hi
                   /\ \A p \in Nat : \A fl : Says(merged[n], p, fl) <=> \E k \in 1..n : In(p, list[k]) /\ list[k].fl = fl
           S == {n \in Nat : n <= Len(list) => P(n)}
<1>3. 0 \in S
  <2>1. P(0)
    BY <1>2 DEF InOrder, Joined, Says
  <2> QED
    BY <2>1
<1>4. ASSUME NEW n \in Nat, n \in S PROVE n + 1 \in S
  <2>1. SUFFICES ASSUME n + 1 <= Len(list) PROVE P(n + 1)
    OBVIOUS
  <2>2. P(n) /\ n + 1 \in 1..Len(list) /\ (n + 1) - 1 = n
    BY <1>1, <1>4, <2>1
  <2> DEFINE a == merged[n]
             b == merged[n + 1]
             r == list[n + 1]
  <2>3. b = Merge(a, r) /\ r \in MapRanges(Flags)
    BY <1>1, <1>2, <2>2
  <2>4. a \in Seq(MapRanges(Flags)) /\ InOrder(a) /\ Joined(a)
    BY <2>2
  <2>5. Behind(a, r)
    <3>1. ASSUME n > 0 PROVE list[n].hi <= list[n + 1].lo
      BY <1>1, <2>1, <2>2, <3>1 DEF InOrder
    <3>2. Len(a) > 0 => n > 0 /\ a[Len(a)].hi = list[n].hi
      BY <2>2
    <3> QED
      BY <3>1, <3>2 DEF Behind
  <2>6. \A p \in Nat : \A fl : Says(a, p, fl) <=> \E k \in 1..n : In(p, list[k]) /\ list[k].fl = fl
    BY <2>2
  <2>7. \A k : k \in 1..(n + 1) <=> k \in 1..n \/ k = n + 1
    OBVIOUS
  <2> HIDE DEF a, b, S, P, r
  <2>8. /\ b \in Seq(MapRanges(Flags)) /\ InOrder(b) /\ Joined(b)
        /\ Len(b) > 0 /\ b[Len(b)].hi = r.hi
        /\ \A p \in Nat : \A fl : Says(b, p, fl) <=> Says(a, p, fl) \/ (In(p, r) /\ r.fl = fl)
    <3>1. MergeMakes(Flags, a, r, b)
      BY <2>3, <2>4, <2>5, MergeIsMade, ZenonT(30)
    <3> QED
      BY <3>1 DEF MergeMakes
  <2>9. ASSUME NEW p \in Nat, NEW fl
        PROVE  Says(b, p, fl) <=> \E k \in 1..(n + 1) : In(p, list[k]) /\ list[k].fl = fl
    <3>1. r = list[n + 1]
      BY DEF r
    <3>2. Says(a, p, fl) <=> \E k \in 1..n : In(p, list[k]) /\ list[k].fl = fl
      BY <2>6
    <3>3. Says(b, p, fl) <=> Says(a, p, fl) \/ (In(p, r) /\ r.fl = fl)
      BY <2>8
    <3>4. (\E k \in 1..(n + 1) : In(p, list[k]) /\ list[k].fl = fl)
            <=> (\E k \in 1..n : In(p, list[k]) /\ list[k].fl = fl) \/ (In(p, r) /\ r.fl = fl)
      BY <2>7, <3>1
    <3> QED
      BY <3>2, <3>3, <3>4
  <2>10. n + 1 > 0 /\ b[Len(b)].hi = list[n + 1].hi
    BY <2>8 DEF r
  <2> QED
    BY <2>8, <2>9, <2>10, ZenonT(30) DEF P, b
<1>5. P(Len(list))
  <2>1. Len(list) \in S
    <3> HIDE DEF S
    <3> QED
      BY <1>1, <1>3, <1>4, NatIndSet
  <2> QED
    BY <1>1, <2>1
<1>6. \A p \in Nat : \A fl : Says(merged[Len(list)], p, fl) <=> Says(list, p, fl)
  <2>1. \A p \in Nat : \A fl : Says(merged[Len(list)], p, fl) <=> \E k \in 1..Len(list) : In(p, list[k]) /\ list[k].fl = fl
    BY <1>5
  <2>2. \A p, fl : Says(list, p, fl) <=> \E k \in 1..Len(list) : In(p, list[k]) /\ list[k].fl = fl
    BY ZenonT(30) DEF Says
  <2> QED
    BY <2>1, <2>2, ZenonT(30)
<1>7. merged[Len(list)] \in Seq(MapRanges(Flags)) /\ InOrder(merged[Len(list)]) /\ Joined(merged[Len(list)])
  BY <1>5
<1> QED
  BY <1>2, <1>6, <1>7, ZenonT(30)

\* normalize_map_list keeps the meaning of every list of ranges: each page has the flags of the last range it was in;
\* the result is in order, no two of its ranges have a page in common, and none could be joined with the next.
THEOREM NormalizeKeeps ==
  ASSUME NEW Flags, NEW list \in Seq(MapRanges(Flags))
  PROVE  /\ NormalizeMapList(list) \in Seq(MapRanges(Flags))
         /\ InOrder(NormalizeMapList(list)) /\ Joined(NormalizeMapList(list))
         /\ \A p \in Nat : FlagsOf(NormalizeMapList(list), p) = FlagsOf(list, p)
<1> DEFINE o == OverlayAll(list)
           s == SortByStart(o)
           n == NormalizeMapList(list)
<1>1. Tidy(Flags, o) /\ \A p \in Nat : \A fl : Says(o, p, fl) <=> LastIn(list, Len(list), p, fl)
  BY OverlayAllSays
<1> HIDE DEF o
<1>2. s \in Seq(MapRanges(Flags)) /\ InOrder(s) /\ \A p, fl : Says(s, p, fl) <=> Says(o, p, fl)
  BY <1>1, SortSays
<1>3. n = MergeAll(s)
  BY DEF NormalizeMapList, o
<1> HIDE DEF s, n
<1>4. /\ n \in Seq(MapRanges(Flags)) /\ InOrder(n) /\ Joined(n)
      /\ \A p \in Nat : \A fl : Says(n, p, fl) <=> Says(s, p, fl)
  BY <1>2, <1>3, MergeAllSays
<1>5. \A p \in Nat : \A fl : Says(n, p, fl) <=> LastIn(list, Len(list), p, fl)
  BY <1>1, <1>2, <1>4, ZenonT(30)
<1>6. Tidy(Flags, n)
  <2>1. ASSUME NEW i \in 1..Len(n), NEW j \in 1..Len(n), i # j PROVE Apart(n[i], n[j])
    <3>1. i < j \/ j < i
      BY <2>1
    <3> QED
      BY <1>4, <3>1 DEF Apart, InOrder
  <2> QED
    BY <1>4, <2>1 DEF Tidy
<1>7. ASSUME NEW p \in Nat PROVE FlagsOf(n, p) = FlagsOf(list, p)
  <2>1. /\ Len(list) \in Nat /\ DOMAIN list = 1..Len(list)
        /\ DOMAIN n = 1..Len(n)
    BY <1>4
  <2>2. CASE \E i \in 1..Len(list) : In(p, list[i])
    <3>1. PICK fl : LastIn(list, Len(list), p, fl)
      BY <2>1, <2>2, LastExists, ZenonT(30)
    <3>2. FlagsOf(list, p) = fl
      BY <2>1, <3>1, FlagsOfLast
    <3>3. Says(n, p, fl)
      BY <1>5, <3>1
    <3>4. FlagsOf(n, p) = fl
      BY <1>6, <3>3, TidyFlagsOf
    <3> QED
      BY <3>2, <3>4
  <2>3. CASE \A i \in 1..Len(list) : ~ In(p, list[i])
    <3>1. FlagsOf(list, p) = Unmapped
      BY <2>1, <2>3, FlagsOfNone
    <3>2. \A fl : ~ LastIn(list, Len(list), p, fl)
      BY <2>3 DEF LastIn
    <3>3. \A i \in 1..Len(n) : ~ In(p, n[i])
      BY <1>5, <3>2, ZenonT(30) DEF Says
    <3>4. FlagsOf(n, p) = Unmapped
      BY <2>1, <3>3, FlagsOfNone
    <3> QED
      BY <3>1, <3>4
  <2> QED
    BY <2>2, <2>3
<1> QED
  BY <1>4, <1>7 DEF n
=============================================================================
