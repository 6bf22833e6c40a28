----------------------------- MODULE DataProofs -----------------------------
(***************************************************************************)
(* Proofs about what outlives the call that made it: blocks of memory that *)
(* are handed over (OwnedData) and entries of the log (Logger).            *)
(***************************************************************************)
EXTENDS OwnedData, Logger, TLAPS

\* Leaves are for the SMT solver unless they say otherwise, with time to spare.
USE SMTT(30)

(***************************************************************************)
(* Proofs about OwnedData, for any number of blocks and Data structures.   *)
(*                                                                         *)
(* The inductive invariant adds to SoundOwnership what the tags stand for  *)
(* (Tagged): memory without the borrow tag is a block, a borrowed block is *)
(* in a vector, and the mutable tag goes with the exclusive static memory, *)
(* to which there is one way; and where slices may point (Viewed): never   *)
(* to a block that a SmartPtr or a Data owns, since those do not ask       *)
(* whether they are borrowed when they free it.                            *)
(***************************************************************************)

Typed ==
  /\ useOsAlloc \in BOOLEAN /\ atSwitch \subseteq Blocks /\ strays \subseteq Blocks
  /\ maker \in [Blocks -> {"none", "uefi", "os"}]
  /\ vecs \subseteq Blocks /\ smarts \subseteq Blocks
  /\ data \in [Slots -> [ptr : Mem \cup {Null}, tag : SUBSET Tags]]
  /\ inUse \subseteq Slots /\ given \in BOOLEAN
  /\ views \subseteq Mem /\ muts \subseteq Mem

Tagged ==
  \A d \in inUse :
    /\ data[d].ptr # Null /\ "borrow" \notin data[d].tag => data[d].ptr \in Blocks
    /\ "borrow" \in data[d].tag /\ data[d].ptr \in Blocks => data[d].ptr \in vecs
    /\ "mut" \in data[d].tag => data[d].ptr \in {Exclusive, Null}
    /\ data[d].ptr = Exclusive => given /\ "mut" \in data[d].tag

Viewed ==
  /\ \A b \in Blocks : b \in views =>
       maker[b] # "none" /\ b \notin smarts /\ \A d \in Slots : ~Owns(d, b)
  /\ muts \subseteq {Exclusive}
  /\ Exclusive \in views \cup muts => given

OwnInv == Typed /\ SoundOwnership /\ Tagged /\ Viewed

LEMMA OwnershipInit == OwnInit => OwnInv
<1> SUFFICES ASSUME OwnInit PROVE OwnInv
  OBVIOUS
<1> USE DEF OwnInit
<1>1. Typed
  BY ZenonT(30) DEF Typed, Mem, Tags
<1>2. SoundOwnership
  BY DEF SoundOwnership, Owns, Owned, Borrowed
<1>3. Tagged /\ Viewed
  BY DEF Tagged, Viewed
<1> QED BY <1>1, <1>2, <1>3 DEF OwnInv

\* Every step keeps what it can disturb, one action at a time.
LEMMA OwnershipNext == OwnInv /\ [OwnNext]_ownVars => OwnInv'
<1> SUFFICES ASSUME OwnInv, [OwnNext]_ownVars PROVE OwnInv'
  OBVIOUS
<1> USE MemAssumption DEF dataVars, viewVars, OwnInv, Typed, SoundOwnership, Tagged, Viewed, Owns, Owned, Borrowed, Mem, Tags
<1>1. CASE UNCHANGED ownVars
  BY <1>1 DEF ownVars, allocVars
<1>2. CASE ChangeToOsAllocator
  BY <1>2 DEF ChangeToOsAllocator
<1>3. ASSUME NEW b \in Blocks, NewVec(b) PROVE OwnInv'
  BY <1>3 DEF NewVec, Alloc, Current
<1>4. ASSUME NEW b \in Blocks, DropVec(b) PROVE OwnInv'
  BY <1>4 DEF DropVec, Dealloc
<1>5. ASSUME NEW b \in Blocks, NewSmart(b) PROVE OwnInv'
  BY <1>5 DEF NewSmart, Alloc, Current
<1>6. ASSUME NEW b \in Blocks, DropSmart(b) PROVE OwnInv'
  BY <1>6 DEF DropSmart, Dealloc
<1>7. ASSUME NEW b \in Blocks, NEW c \in Blocks, GrowVec(b, c) PROVE OwnInv'
  BY <1>7 DEF GrowVec, Current
<1>8. ASSUME NEW d \in Slots, NewStatic(d) PROVE OwnInv'
  BY <1>8 DEF NewStatic, New, allocVars
<1>9. ASSUME NEW d \in Slots, NewStaticMut(d) PROVE OwnInv'
  BY <1>9 DEF NewStaticMut, New, allocVars
<1>10. ASSUME NEW d \in Slots, NEW b \in Blocks, NewOwned(d, b) PROVE OwnInv'
  BY <1>10 DEF NewOwned, New, allocVars
<1>11. ASSUME NEW d \in Slots, NEW b \in Blocks, NewBorrow(d, b) PROVE OwnInv'
  BY <1>11 DEF NewBorrow, New, allocVars
<1>12. ASSUME NEW d \in Slots, GetSlice(d) PROVE OwnInv'
  BY <1>12 DEF GetSlice, TakePtr, allocVars
<1>13. ASSUME NEW d \in Slots, GetMutSlice(d) PROVE OwnInv'
  BY <1>13 DEF GetMutSlice, TakePtr, allocVars
<1>14. ASSUME NEW d \in Slots, TakeVec(d) PROVE OwnInv'
  BY <1>14 DEF TakeVec, TakePtr, allocVars
<1>15. ASSUME NEW d \in Slots, DropData(d) PROVE OwnInv'
  BY <1>15 DEF DropData, Dealloc
<1>16. ASSUME NEW m \in Mem, EndView(m) PROVE OwnInv'
  BY <1>16 DEF EndView, allocVars
<1> QED
  BY <1>1, <1>2, <1>3, <1>4, <1>5, <1>6, <1>7, <1>8, <1>9, <1>10, <1>11, <1>12, <1>13, <1>14, <1>15, <1>16, ZenonT(30)
  DEF OwnNext, GetSliceStatic, GetSliceStaticMut

\* Data, SmartPtr and vectors free every block at most once and leave no pointer
\* and no slice behind; mutable static memory is given out once.
THEOREM OwnershipIsSound == OwnSpec => []SoundOwnership
<1>1. OwnInv => SoundOwnership
  BY DEF OwnInv
<1> QED BY <1>1, OwnershipInit, OwnershipNext, PTL DEF OwnSpec

\* Which blocks the two allocators can confuse: made by the firmware's pool and
\* alive when the kernel's allocator took over.
Sorted ==
  /\ strays \subseteq atSwitch
  /\ \A b \in Blocks : maker[b] = "uefi" /\ useOsAlloc => b \in atSwitch \ strays
  /\ ~useOsAlloc => strays = {} /\ \A b \in Blocks : maker[b] # "os"

\* Only blocks from before change_to_os_allocator go back to an allocator that
\* did not make them, and nothing is taken from the firmware's pool behind it.
THEOREM StraysAreOld == OwnSpec => []StraysPredateSwitch
<1>1. OwnInit => Sorted
  BY DEF OwnInit, Sorted
<1>2. ASSUME OwnInv, Sorted, [OwnNext]_ownVars PROVE Sorted'
  <2> USE <1>2 DEF OwnInv, Typed, Sorted
  <2>1. CASE UNCHANGED <<useOsAlloc, atSwitch, maker, strays>>
    BY <2>1
  <2>2. CASE ChangeToOsAllocator
    BY <2>2 DEF ChangeToOsAllocator
  <2>3. ASSUME NEW b \in Blocks, Alloc(b), UNCHANGED <<useOsAlloc, atSwitch, strays>> PROVE Sorted'
    BY <2>3 DEF Alloc, Current
  <2>4. ASSUME NEW b \in Blocks, maker[b] # "none", Dealloc(b), UNCHANGED <<useOsAlloc, atSwitch>> PROVE Sorted'
    BY <2>4 DEF Dealloc, Current
  <2>5. ASSUME NEW b \in Blocks, NEW c \in Blocks, GrowVec(b, c) PROVE Sorted'
    <3>1. maker[b] # "none"
      BY <2>5 DEF GrowVec, SoundOwnership, Owned
    <3> QED BY <2>5, <3>1 DEF GrowVec, Current
  <2>6. ASSUME NEW b \in Blocks, DropVec(b) \/ DropSmart(b) PROVE Sorted'
    BY <2>6, <2>4 DEF DropVec, DropSmart, SoundOwnership, Owned
  <2>7. ASSUME NEW d \in Slots, DropData(d) PROVE Sorted'
    <3>1. CASE "borrow" \notin data[d].tag /\ data[d].ptr # Null
      <4>1. data[d].ptr \in Blocks /\ Owned(data[d].ptr)
        BY <2>7, <3>1 DEF DropData, Tagged, Owned, Owns
      <4> QED BY <2>7, <2>4, <3>1, <4>1 DEF DropData, SoundOwnership
    <3> QED BY <2>7, <2>1, <3>1 DEF DropData
  <2> QED
    BY <2>1, <2>2, <2>3, <2>5, <2>6, <2>7
    DEF OwnNext, ownVars, allocVars, NewVec, NewSmart, NewStatic, NewStaticMut, NewOwned, NewBorrow,
        GetSlice, GetSliceStatic, GetMutSlice, GetSliceStaticMut, TakeVec, EndView
<1>3. Sorted => StraysPredateSwitch
  BY DEF Sorted, StraysPredateSwitch
<1> QED BY <1>1, <1>2, <1>3, OwnershipInit, OwnershipNext, PTL DEF OwnSpec

\* A block loses its owner unfreed only where get_slice hands out a slice of it.
THEOREM LeaksAreViews == OwnSpec => LeakedOnlyByView
<1> DEFINE Leak == \A b \in Blocks : maker[b] # "none" /\ maker'[b] # "none" =>
                     /\ Owned(b) /\ ~Owned(b)' => b \in views' \ views
                     /\ ~Owned(b) => ~Owned(b)'
<1>1. ASSUME OwnInv, OwnNext PROVE Leak
  <2> USE <1>1, MemAssumption DEF OwnInv, Typed, SoundOwnership, Tagged, Owned, Owns, Mem, Tags, dataVars, viewVars
  <2>1. ASSUME NEW b \in Blocks, NewVec(b) \/ NewSmart(b) PROVE Leak
    BY <2>1 DEF NewVec, NewSmart, Alloc, Current
  <2>2. ASSUME NEW b \in Blocks, DropVec(b) \/ DropSmart(b) PROVE Leak
    BY <2>2 DEF DropVec, DropSmart, Dealloc
  <2>3. ASSUME NEW b \in Blocks, NEW c \in Blocks, GrowVec(b, c) PROVE Leak
    BY <2>3 DEF GrowVec
  <2>4. ASSUME NEW d \in Slots, NewStatic(d) \/ NewStaticMut(d) PROVE Leak
    <3>1. CASE NewStatic(d)
      BY <3>1 DEF NewStatic, New, allocVars
    <3>2. CASE NewStaticMut(d)
      BY <3>2 DEF NewStaticMut, New, allocVars
    <3> QED
      BY <2>4, <3>1, <3>2, ZenonT(30)
  <2>5. ASSUME NEW d \in Slots, NEW b \in Blocks, NewOwned(d, b) \/ NewBorrow(d, b) PROVE Leak
    <3>1. CASE NewOwned(d, b)
      BY <3>1 DEF NewOwned, New, allocVars
    <3>2. CASE NewBorrow(d, b)
      BY <3>2 DEF NewBorrow, New, allocVars
    <3> QED
      BY <2>5, <3>1, <3>2, ZenonT(30)
  <2>6. ASSUME NEW d \in Slots, GetSlice(d) PROVE Leak
    BY <2>6 DEF GetSlice, TakePtr, allocVars, Viewed
  <2>7. ASSUME NEW d \in Slots, GetMutSlice(d) PROVE Leak
    BY <2>7 DEF GetMutSlice, TakePtr, allocVars
  <2>8. ASSUME NEW d \in Slots, TakeVec(d) PROVE Leak
    BY <2>8 DEF TakeVec, TakePtr, allocVars
  <2>9. ASSUME NEW d \in Slots, DropData(d) PROVE Leak
    BY <2>9 DEF DropData, Dealloc
  <2>10. ASSUME NEW m \in Mem, EndView(m) PROVE Leak
    BY <2>10 DEF EndView, allocVars
  <2>11. ASSUME ChangeToOsAllocator PROVE Leak
    BY <2>11 DEF ChangeToOsAllocator
  <2> QED
    BY <2>1, <2>2, <2>3, <2>4, <2>5, <2>6, <2>7, <2>8, <2>9, <2>10, <2>11, ZenonT(30) DEF OwnNext, GetSliceStatic, GetSliceStaticMut
<1>2. ASSUME OwnInv, [OwnNext]_ownVars PROVE [Leak]_ownVars
  BY <1>1, <1>2
<1> QED BY <1>2, OwnershipInit, OwnershipNext, PTL DEF OwnSpec, LeakedOnlyByView

-----------------------------------------------------------------------------
(* Logger *)

\* A reader's head is never ahead of the log's.
HeadInv == \A r \in Readers : at[r] = "read" => seenHead[r] <= head

LogInv == LogTypeOK /\ LogIsWindow /\ HeadInv

LEMMA LogInvInit == LogInit => LogInv
<1> SUFFICES ASSUME LogInit PROVE LogInv
  OBVIOUS
<1>1. buf = <<>> /\ Len(buf) = 0 /\ buf \in Seq(Entries)
  BY DEF LogInit
<1>2. LogTypeOK
  BY <1>1, LogAssumption DEF LogInit, LogTypeOK
<1>3. LogIsWindow
  BY <1>1, LogAssumption DEF LogInit, LogIsWindow
<1> QED
  BY <1>2, <1>3 DEF LogInit, LogInv, HeadInv

\* Rotating or not, an added entry goes to the end of the window.
LEMMA AddStep ==
  ASSUME LogInv, NEW system \in BOOLEAN, AddLog(system)
  PROVE  LogInv'
<1> DEFINE log == [id |-> added, sys |-> system]
<1> DEFINE kept == IF Len(buf) = cap THEN Tail(buf) ELSE buf
<1> USE LogAssumption DEF LogInv
<1>1. /\ log \in Entries /\ cap = Capacity /\ added \in Nat /\ head \in Nat
      /\ buf \in Seq(Entries) /\ Len(buf) \in Nat
  BY DEF AddLog, LogTypeOK, Entries
<1>2. /\ kept \in Seq(Entries) /\ Len(kept) < Capacity /\ head' \in Nat
      /\ head' + Len(kept) = added
  <2>1. CASE Len(buf) = cap
    <3>1. buf # <<>>
      BY <1>1, <2>1
    <3>2. kept \in Seq(Entries) /\ Len(kept) = Len(buf) - 1
      BY <1>1, <2>1, <3>1
    <3> QED
      BY <1>1, <2>1, <3>2 DEF AddLog, LogIsWindow
  <2>2. CASE Len(buf) # cap
    <3>1. kept = buf /\ head' = head
      BY <2>2 DEF AddLog
    <3>2. Len(buf) < Capacity /\ head + Len(buf) = added
      BY <1>1, <2>2 DEF LogIsWindow
    <3> QED
      BY <1>1, <3>1, <3>2
  <2> QED
    BY <2>1, <2>2
<1>3. \A i \in 1..Len(kept) : kept[i].id = head' + i - 1
  <2>1. CASE Len(buf) = cap
    <3>1. buf # <<>>
      BY <1>1, <2>1
    <3>2. Len(kept) = Len(buf) - 1 /\ \A i \in 1..Len(kept) : kept[i] = buf[i + 1] /\ i + 1 \in 1..Len(buf)
      BY <1>1, <2>1, <3>1
    <3>3. head' = head + 1
      BY <2>1 DEF AddLog
    <3>4. \A i \in 1..Len(kept) : buf[i + 1].id = head + (i + 1) - 1
      BY <3>2 DEF LogIsWindow
    <3> HIDE DEF kept
    <3> TAKE i \in 1..Len(kept)
    <3>5. kept[i].id = head + (i + 1) - 1
      <4>1. kept[i] = buf[i + 1]
        BY <3>2
      <4>2. buf[i + 1].id = head + (i + 1) - 1
        BY <3>4
      <4> QED
        BY <4>1, <4>2
    <3>6. i \in Int
      OBVIOUS
    <3> QED
      BY <1>1, <3>3, <3>5, <3>6
  <2>2. CASE Len(buf) # cap
    BY <2>2 DEF AddLog, LogIsWindow
  <2> QED
    BY <2>1, <2>2
<1>4. buf' = Append(kept, log) /\ added' = added + 1
  BY DEF AddLog
<1> HIDE DEF kept
<1>5. /\ buf' \in Seq(Entries) /\ Len(buf') = Len(kept) + 1
      /\ \A i \in 1..Len(kept) : buf'[i] = kept[i]
      /\ buf'[Len(kept) + 1] = log
  BY <1>1, <1>2, <1>4
<1>6. LogTypeOK'
  BY <1>1, <1>2, <1>4, <1>5 DEF LogTypeOK, AddLog, readVars
<1>7. LogIsWindow'
  <2>1. ASSUME NEW i \in 1..Len(buf') PROVE buf'[i].id = head' + i - 1
    <3>1. CASE i \in 1..Len(kept)
      BY <1>3, <1>5, <3>1
    <3>2. CASE i = Len(kept) + 1
      <4>1. buf'[i].id = added
        BY <1>5, <3>2
      <4> QED
        BY <1>1, <1>2, <3>2, <4>1
    <3> QED
      BY <1>2, <1>5, <2>1, <3>1, <3>2
  <2>2. Len(buf') <= Capacity /\ head' + Len(buf') = added'
    <3>1. Len(kept) \in Nat
      BY <1>2
    <3>2. /\ Len(buf') = Len(kept) + 1 /\ added' = added + 1
          /\ Len(kept) < Capacity /\ head' + Len(kept) = added
      BY <1>2, <1>4, <1>5, ZenonT(30)
    <3>3. Capacity \in Nat /\ head' \in Nat
      BY <1>2
    <3> QED
      BY <3>1, <3>2, <3>3
  <2> QED
    BY <2>1, <2>2 DEF LogIsWindow
<1>8. HeadInv'
  BY <1>1 DEF HeadInv, AddLog, readVars, LogTypeOK
<1> QED
  BY <1>6, <1>7, <1>8

LEMMA ReadStep ==
  ASSUME LogInv, NEW r \in Readers, Reading(r) \/ Again(r)
  PROVE  LogInv'
<1> USE DEF LogInv
<1>1. UNCHANGED <<buf, head, cap, added>>
  BY DEF Reading, Again, LoadHead, ReadNone, ReadOther, ReadSome
<1>2. LogIsWindow'
  BY <1>1 DEF LogIsWindow
<1>3. CASE LoadHead(r)
  BY <1>2, <1>3 DEF LoadHead, LogTypeOK, HeadInv
<1>4. CASE ReadNone(r)
  BY <1>2, <1>4 DEF ReadNone, LogTypeOK, HeadInv
<1>5. CASE ReadOther(r)
  BY <1>2, <1>5 DEF ReadOther, LogTypeOK, HeadInv
<1>6. CASE ReadSome(r)
  <2>1. nextId[r] - seenHead[r] + 1 \in 1..Len(buf)
    BY <1>6 DEF ReadSome, Missing, LogTypeOK
  <2>2. Found(r).id \in Nat
    <3>1. Found(r) \in Entries
      BY <2>1 DEF Found, LogTypeOK
    <3> QED
      BY <3>1 DEF Entries
  <2>3. yielded' \in [Readers -> Seq(Nat)]
    BY <1>6, <2>2 DEF ReadSome, LogTypeOK
  <2> QED
    BY <1>2, <1>6, <2>3 DEF ReadSome, LogTypeOK, HeadInv
<1>7. CASE Again(r)
  BY <1>2, <1>7 DEF Again, LogTypeOK, HeadInv
<1> QED
  BY <1>3, <1>4, <1>5, <1>6, <1>7 DEF Reading

LEMMA LogInvStep == LogInv /\ [LogNext]_logVars => LogInv'
<1> SUFFICES ASSUME LogInv, [LogNext]_logVars PROVE LogInv'
  OBVIOUS
<1>1. CASE Panic
  BY <1>1 DEF Panic, readVars, LogInv, LogTypeOK, LogIsWindow, HeadInv
<1>2. CASE UNCHANGED logVars
  BY <1>2 DEF logVars, readVars, LogInv, LogTypeOK, LogIsWindow, HeadInv
<1> QED
  BY <1>1, <1>2, AddStep, ReadStep DEF LogNext

\* The log holds the last entries in order and never more than the capacity.
THEOREM LogStaysWindow == LogSpec => []LogIsWindow
<1>1. LogInv => LogIsWindow
  BY DEF LogInv
<1> QED
  BY <1>1, LogInvInit, LogInvStep, PTL DEF LogSpec

\* What read_log returns is off by the rotations since it loaded the head.
THEOREM ReadsDrift == LogSpec => ReadDrifts
<1>1. ASSUME LogInv, NEW r \in Readers, ReadSome(r)
      PROVE  Found(r).id = nextId[r] + (head - seenHead[r])
  <2> DEFINE i == nextId[r] - seenHead[r] + 1
  <2>1. nextId[r] \in Nat /\ seenHead[r] \in Nat /\ head \in Nat
    BY <1>1 DEF LogInv, LogTypeOK
  <2>2. i \in 1..Len(buf)
    BY <1>1, <2>1 DEF ReadSome, Missing, LogInv, LogTypeOK
  <2>3. buf[i].id = head + i - 1
    BY <1>1, <2>2 DEF LogInv, LogIsWindow
  <2> QED
    BY <2>1, <2>3 DEF Found
<1>2. LogInv => \A r \in Readers : ReadSome(r) => Found(r).id = nextId[r] + (head - seenHead[r])
  BY <1>1
<1> QED
  BY <1>2, LogInvInit, LogInvStep, PTL DEF LogSpec, ReadDrifts

\* A reader whose next entry has been rotated out, with no read of it under way.
Overtaken(r) ==
  nextId[r] < head /\ at[r] # "some" /\ (at[r] = "read" => nextId[r] < seenHead[r])

LEMMA OvertakenStep ==
  ASSUME NEW r \in Readers, LogInv, Overtaken(r), [LogNext]_logVars
  PROVE  Overtaken(r)'
<1> USE DEF LogInv, LogTypeOK
<1>1. ASSUME NEW system \in BOOLEAN, AddLog(system) PROVE Overtaken(r)'
  BY <1>1 DEF AddLog, Overtaken, readVars
<1>2. ASSUME NEW q \in Readers, Reading(q) \/ Again(q) PROVE Overtaken(r)'
  <2>1. CASE LoadHead(q)
    BY <2>1 DEF LoadHead, Overtaken
  <2>2. CASE ReadNone(q)
    BY <2>2 DEF ReadNone, Overtaken
  <2>3. CASE ReadOther(q)
    <3>1. q # r
      BY <2>3 DEF ReadOther, Overtaken, Missing
    <3> QED
      BY <2>3, <3>1 DEF ReadOther, Overtaken
  <2>4. CASE ReadSome(q)
    <3>1. q # r
      BY <2>4 DEF ReadSome, Overtaken, Missing
    <3> QED
      BY <2>4, <3>1 DEF ReadSome, Overtaken
  <2>5. CASE Again(q)
    BY <2>5 DEF Again, Overtaken
  <2> QED
    BY <1>2, <2>1, <2>2, <2>3, <2>4, <2>5 DEF Reading
<1>3. CASE Panic
  BY <1>3 DEF Panic, Overtaken, readVars
<1>4. CASE UNCHANGED logVars
  BY <1>4 DEF logVars, readVars, Overtaken
<1> QED
  BY <1>1, <1>2, <1>3, <1>4 DEF LogNext

\* An iterator the log has overtaken stays silent for ever, whatever is added.
THEOREM OvertakenStaysSilent == LogSpec => OvertakenForGood
<1> SUFFICES ASSUME NEW r \in Readers
             PROVE  LogSpec => [](at[r] = "next" /\ nextId[r] < head => [](at[r] # "some"))
  BY DEF OvertakenForGood
<1>1. at[r] = "next" /\ nextId[r] < head => Overtaken(r)
  BY DEF Overtaken
<1>2. LogInv /\ Overtaken(r) /\ [LogNext]_logVars => Overtaken(r)'
  BY OvertakenStep
<1>3. Overtaken(r) => at[r] # "some"
  BY DEF Overtaken
<1> QED
  BY <1>1, <1>2, <1>3, LogInvInit, LogInvStep, PTL DEF LogSpec

-----------------------------------------------------------------------------
\* Before the first rotation: an iterator is past its start only within the log.
YieldsWanted(r) == Increasing(yielded[r]) /\ Elements(yielded[r]) = Wanted(r)
Placed(r) == nextId[r] = StartId[r] \/ (nextId[r] >= StartId[r] /\ nextId[r] <= Len(buf))
CompleteInv == head = 0 => \A r \in Readers : YieldsWanted(r) /\ Placed(r)

\* A number at the end of an increasing sequence of smaller ones.
LEMMA IncreasingAppend ==
  ASSUME NEW s \in Seq(Nat), Increasing(s), NEW n \in Nat, \A m \in Elements(s) : m < n
  PROVE  Increasing(Append(s, n)) /\ Elements(Append(s, n)) = Elements(s) \cup {n}
<1> DEFINE a == Append(s, n)
<1>1. /\ DOMAIN s = 1..Len(s) /\ DOMAIN a = 1..(Len(s) + 1) /\ Len(s) \in Nat
      /\ \A i \in 1..Len(s) : a[i] = s[i]
      /\ a[Len(s) + 1] = n
  OBVIOUS
<1>2. \A i \in 1..Len(s) : s[i] < n
  BY <1>1 DEF Elements
<1> HIDE DEF a
<1>3. Increasing(a)
  <2> SUFFICES ASSUME NEW i \in DOMAIN a, NEW j \in DOMAIN a, i < j PROVE a[i] < a[j]
    BY DEF Increasing
  <2>1. i \in 1..Len(s)
    BY <1>1
  <2>2. CASE j \in 1..Len(s)
    BY <1>1, <2>1, <2>2 DEF Increasing
  <2>3. CASE j = Len(s) + 1
    BY <1>1, <1>2, <2>1, <2>3
  <2> QED
    BY <1>1, <2>2, <2>3
<1>4. Elements(a) = Elements(s) \cup {n}
  <2>1. ASSUME NEW m \in Elements(a) PROVE m \in Elements(s) \cup {n}
    <3>1. PICK i \in DOMAIN a : m = a[i]
      BY DEF Elements
    <3>2. i \in 1..Len(s) \/ i = Len(s) + 1
      BY <1>1
    <3> QED
      BY <1>1, <3>1, <3>2 DEF Elements
  <2>2. ASSUME NEW m \in Elements(s) \cup {n} PROVE m \in Elements(a)
    <3>1. CASE m = n
      BY <1>1, <3>1 DEF Elements
    <3>2. CASE m \in Elements(s)
      <4>1. PICK i \in DOMAIN s : m = s[i]
        BY <3>2 DEF Elements
      <4>2. i \in DOMAIN a /\ m = a[i]
        BY <1>1, <4>1
      <4> QED
        BY <4>2 DEF Elements
    <3> QED
      BY <3>1, <3>2
  <2> QED
    BY <2>1, <2>2
<1> QED
  BY <1>3, <1>4 DEF a

LEMMA CompleteInit == LogInit => CompleteInv
<1> SUFFICES ASSUME LogInit, NEW r \in Readers PROVE YieldsWanted(r) /\ Placed(r)
  BY DEF CompleteInv
<1>1. yielded[r] = <<>> /\ buf = <<>> /\ Len(buf) = 0 /\ nextId[r] = StartId[r]
  BY DEF LogInit
<1>2. Increasing(yielded[r]) /\ Elements(yielded[r]) = {}
  BY <1>1 DEF Increasing, Elements
<1>3. Wanted(r) = {}
  BY <1>1 DEF Wanted
<1> QED
  BY <1>1, <1>2, <1>3 DEF YieldsWanted, Placed

\* An entry is added behind the position of every iterator that has moved.
LEMMA CompleteAdd ==
  ASSUME LogInv, CompleteInv, NEW system \in BOOLEAN, AddLog(system)
  PROVE  CompleteInv'
<1> SUFFICES ASSUME head' = 0, NEW r \in Readers PROVE YieldsWanted(r)' /\ Placed(r)'
  BY DEF CompleteInv
<1> DEFINE log == [id |-> added, sys |-> system]
<1>1. head \in Nat /\ added \in Nat /\ buf \in Seq(Entries) /\ nextId[r] \in Nat /\ StartId[r] \in Nat
  BY LogAssumption DEF LogInv, LogTypeOK
<1>2. head = 0 /\ buf' = Append(buf, log) /\ nextId' = nextId /\ yielded' = yielded
  BY <1>1 DEF AddLog, readVars
<1>3. /\ Len(buf') = Len(buf) + 1 /\ Len(buf) \in Nat
      /\ \A i \in 1..Len(buf) : buf'[i] = buf[i]
  <2>1. log \in Entries
    BY <1>1 DEF Entries
  <2> QED
    BY <1>1, <1>2, <2>1
<1>4. YieldsWanted(r) /\ Placed(r)
  BY <1>2, ZenonT(30) DEF CompleteInv
<1>5. Placed(r)'
  BY <1>1, <1>2, <1>3, <1>4 DEF Placed
<1>6. Wanted(r)' = Wanted(r)
  <2>1. ASSUME NEW n \in 0..(Len(buf) - 1) PROVE n \in Wanted(r)' <=> n \in Wanted(r)
    BY <1>2, <1>3, <2>1 DEF Wanted
  <2>2. nextId[r] <= StartId[r] \/ nextId[r] <= Len(buf)
    BY <1>1, <1>4 DEF Placed
  <2>3. ASSUME NEW n \in Wanted(r)' PROVE n \in 0..(Len(buf) - 1)
    BY <1>1, <1>2, <1>3, <2>2, <2>3 DEF Wanted
  <2>4. ASSUME NEW n \in Wanted(r) PROVE n \in 0..(Len(buf) - 1)
    BY <2>4 DEF Wanted
  <2> QED
    BY <2>1, <2>3, <2>4, ZenonT(30)
<1> QED
  BY <1>2, <1>4, <1>5, <1>6 DEF YieldsWanted

\* An iterator that finds an entry before the first rotation finds the one it asks for.
LEMMA CompleteFinds ==
  ASSUME LogInv, CompleteInv, NEW r \in Readers, ReadOther(r) \/ ReadSome(r), head = 0
  PROVE  YieldsWanted(r)' /\ Placed(r)'
<1> DEFINE n == nextId[r]
<1>1. n \in Nat /\ StartId[r] \in Nat /\ yielded[r] \in Seq(Nat) /\ Len(buf) \in Nat
  BY LogAssumption DEF LogInv, LogTypeOK
<1>2. YieldsWanted(r) /\ Placed(r)
  BY ZenonT(30) DEF CompleteInv
<1>3. seenHead[r] = 0
  BY DEF ReadOther, ReadSome, LogInv, HeadInv, LogTypeOK
<1>4. n < Len(buf) /\ Found(r) = buf[n + 1]
  BY <1>1, <1>3 DEF ReadOther, ReadSome, Missing, Found
<1>5. nextId'[r] = n + 1 /\ buf' = buf
  BY DEF ReadOther, ReadSome, LogInv, LogTypeOK
<1>6. n >= StartId[r]
  BY <1>1, <1>2 DEF Placed
<1>7. Placed(r)'
  BY <1>1, <1>4, <1>5, <1>6 DEF Placed
<1>8. Wanted(r)' = Wanted(r) \cup (IF Found(r).sys = Include[r] THEN {n} ELSE {})
  BY <1>1, <1>4, <1>5, <1>6 DEF Wanted
<1>9. CASE ReadOther(r)
  <2>1. yielded' = yielded /\ Wanted(r)' = Wanted(r)
    BY <1>8, <1>9 DEF ReadOther
  <2> QED
    BY <1>2, <1>7, <2>1 DEF YieldsWanted
<1>10. CASE ReadSome(r)
  <2>1. buf[n + 1].id = n
    BY <1>1, <1>4 DEF LogInv, LogIsWindow
  <2>2. yielded'[r] = Append(yielded[r], n)
    BY <1>4, <1>10, <2>1 DEF ReadSome, LogInv, LogTypeOK
  <2>3. \A m \in Elements(yielded[r]) : m < n
    BY <1>2 DEF Wanted, YieldsWanted
  <2>4. Increasing(yielded[r]) /\ Elements(yielded[r]) = Wanted(r)
    BY <1>2 DEF YieldsWanted
  <2>5. Increasing(Append(yielded[r], n)) /\ Elements(Append(yielded[r], n)) = Wanted(r) \cup {n}
    BY <1>1, <2>3, <2>4, IncreasingAppend
  <2>6. Wanted(r)' = Wanted(r) \cup {n}
    BY <1>8, <1>10 DEF ReadSome
  <2> QED
    BY <1>7, <2>2, <2>5, <2>6 DEF YieldsWanted
<1> QED
  BY <1>9, <1>10

LEMMA CompleteRead ==
  ASSUME LogInv, CompleteInv, NEW r \in Readers, Reading(r) \/ Again(r)
  PROVE  CompleteInv'
<1>1. UNCHANGED <<buf, head>>
  BY DEF Reading, Again, LoadHead, ReadNone, ReadOther, ReadSome
<1>2. \A q \in Readers \ {r} : UNCHANGED <<nextId[q], yielded[q]>>
  BY DEF Reading, Again, LoadHead, ReadNone, ReadOther, ReadSome, LogInv, LogTypeOK
<1>3. ASSUME NEW q \in Readers, head = 0, UNCHANGED <<nextId[q], yielded[q]>>
      PROVE  YieldsWanted(q)' /\ Placed(q)'
  <2>1. YieldsWanted(q) /\ Placed(q)
    BY <1>3, ZenonT(30) DEF CompleteInv
  <2>2. Placed(q)' /\ Wanted(q)' = Wanted(q)
    BY <1>1, <1>3, <2>1 DEF Placed, Wanted
  <2> QED
    BY <1>3, <2>1, <2>2 DEF YieldsWanted
<1>4. ASSUME head = 0 PROVE YieldsWanted(r)' /\ Placed(r)'
  <2>1. CASE LoadHead(r) \/ ReadNone(r) \/ Again(r)
    <3>1. UNCHANGED <<nextId[r], yielded[r]>>
      BY <2>1 DEF LoadHead, ReadNone, Again
    <3> QED
      BY <1>3, <1>4, <3>1
  <2>2. CASE ReadOther(r) \/ ReadSome(r)
    BY <1>4, <2>2, CompleteFinds
  <2> QED
    BY <2>1, <2>2, ZenonT(30) DEF Reading
<1>5. ASSUME NEW q \in Readers, head = 0 PROVE YieldsWanted(q)' /\ Placed(q)'
  <2>1. CASE q = r
    BY <1>4, <1>5, <2>1
  <2>2. CASE q # r
    BY <1>2, <1>3, <1>5, <2>2
  <2> QED
    BY <2>1, <2>2
<1>6. head' = head
  BY <1>1
<1> QED
  BY <1>5, <1>6 DEF CompleteInv

\* Until the log is rotated for the first time no iterator misses, repeats or
\* reorders an entry of its kind, however its reads interleave with add_log.
THEOREM ReadsCompleteBeforeRotation == LogSpec => []CompleteBeforeRotation
<1>1. LogInv /\ CompleteInv /\ [LogNext]_logVars => CompleteInv'
  <2> SUFFICES ASSUME LogInv, CompleteInv, [LogNext]_logVars PROVE CompleteInv'
    OBVIOUS
  <2>1. CASE Panic \/ UNCHANGED logVars
    <3>1. UNCHANGED <<buf, head, nextId, yielded>>
      BY <2>1 DEF Panic, logVars, readVars
    <3> QED
      BY <3>1 DEF CompleteInv, YieldsWanted, Placed, Wanted
  <2> QED
    BY <2>1, CompleteAdd, CompleteRead DEF LogNext
<1>2. CompleteInv => CompleteBeforeRotation
  BY DEF CompleteInv, YieldsWanted, CompleteBeforeRotation
<1> QED
  BY <1>1, <1>2, CompleteInit, LogInvInit, LogInvStep, PTL DEF LogSpec
=============================================================================
