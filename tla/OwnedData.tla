------------------------------ MODULE OwnedData ------------------------------
(***************************************************************************)
(* Who owns a block of memory: Data of src/send_and_get.rs, which carries a *)
(* vector, a borrowed slice or static memory across an interface as a raw  *)
(* pointer with a tag; SmartPtr of src/util_types.rs; vectors; and the     *)
(* global allocator, which passes every call on to the firmware's pool or, *)
(* once switched, to the kernel's allocator.                               *)
(*                                                                         *)
(* What the language guarantees is a guard here: a vector is neither       *)
(* dropped nor grown while it is borrowed, a moved value is gone, and an   *)
(* exclusive reference to static memory exists once.                       *)
(***************************************************************************)
EXTENDS Integers, FiniteSets

CONSTANTS
  Blocks,     \* addresses of heap memory
  Slots,      \* Data structures
  Shared,     \* static memory behind a &'static
  Exclusive,  \* static memory behind the one &'static mut
  Null

Mem == Blocks \cup {Shared, Exclusive}
Tags == {"borrow", "static", "mut"}
ASSUME MemAssumption ==
  Null \notin Mem /\ Shared \notin Blocks /\ Exclusive \notin Blocks /\ Shared # Exclusive

VARIABLES
  useOsAlloc, \* use_os_alloc
  atSwitch,   \* the blocks that were alive then
  maker,      \* which allocator made a block: "uefi", "os", "none" if it is free
  strays,     \* blocks that went back to another allocator than their maker
  vecs,       \* blocks held by a vector
  smarts,     \* blocks held by a SmartPtr
  data,       \* the Data structures: pointer and tag
  inUse,      \* the slots with a Data
  given,      \* whether the exclusive reference is used up
  views,      \* memory with slices that a Data has handed out
  muts        \* the same for mutable slices

allocVars == <<useOsAlloc, atSwitch, maker, strays>>
dataVars == <<data, inUse, given>>
viewVars == <<views, muts>>
ownVars == <<allocVars, vecs, smarts, dataVars, viewVars>>

OwnInit ==
  /\ useOsAlloc = FALSE /\ atSwitch = {} /\ strays = {}
  /\ maker = [b \in Blocks |-> "none"]
  /\ vecs = {} /\ smarts = {} /\ inUse = {}
  /\ data = [d \in Slots |-> [ptr |-> Null, tag |-> {}]]
  /\ given = FALSE /\ views = {} /\ muts = {}

Borrowed(b) ==
  \/ \E d \in inUse : data[d].ptr = b /\ "borrow" \in data[d].tag
  \/ b \in views \cup muts

-----------------------------------------------------------------------------
(* OsPhysicalAllocator *)

\* Slip: an entry point that does not ask use_os_alloc.
AllocFromPool(b) == maker[b] = "none" /\ maker' = [maker EXCEPT ![b] = "uefi"]

Current == IF useOsAlloc THEN "os" ELSE "uefi"
Alloc(b) == maker[b] = "none" /\ maker' = [maker EXCEPT ![b] = Current]
\* A block goes to the allocator of the day.
Dealloc(b) ==
  /\ maker' = [maker EXCEPT ![b] = "none"]
  /\ strays' = IF maker[b] = Current THEN strays ELSE strays \cup {b}

ChangeToOsAllocator ==
  /\ ~useOsAlloc /\ useOsAlloc' = TRUE
  /\ atSwitch' = {b \in Blocks : maker[b] # "none"}
  /\ UNCHANGED <<maker, strays, vecs, smarts, dataVars, viewVars>>

-----------------------------------------------------------------------------
(* Vectors and SmartPtr *)

NewVec(b) ==
  /\ Alloc(b) /\ vecs' = vecs \cup {b}
  /\ UNCHANGED <<useOsAlloc, atSwitch, strays, smarts, dataVars, viewVars>>
\* realloc: to another address c or in place.
GrowVec(b, c) ==
  /\ b \in vecs /\ ~Borrowed(b)
  /\ c = b \/ maker[c] = "none"
  /\ maker' = [x \in Blocks |-> IF x = c THEN Current ELSE IF x = b THEN "none" ELSE maker[x]]
  /\ strays' = IF maker[b] = Current THEN strays ELSE strays \cup {b}
  /\ vecs' = (vecs \ {b}) \cup {c}
  /\ UNCHANGED <<useOsAlloc, atSwitch, smarts, dataVars, viewVars>>
DropVec(b) ==
  /\ b \in vecs /\ ~Borrowed(b)
  /\ Dealloc(b) /\ vecs' = vecs \ {b}
  /\ UNCHANGED <<useOsAlloc, atSwitch, smarts, dataVars, viewVars>>

\* ALLOC.alloc and SmartPtr::new, as for the interrupt stacks; Drop.
NewSmart(b) ==
  /\ Alloc(b) /\ smarts' = smarts \cup {b}
  /\ UNCHANGED <<useOsAlloc, atSwitch, strays, vecs, dataVars, viewVars>>
DropSmart(b) ==
  /\ b \in smarts
  /\ Dealloc(b) /\ smarts' = smarts \ {b}
  /\ UNCHANGED <<useOsAlloc, atSwitch, vecs, dataVars, viewVars>>

-----------------------------------------------------------------------------
(* Data *)

New(d, p, t) ==
  /\ d \notin inUse /\ inUse' = inUse \cup {d}
  /\ data' = [data EXCEPT ![d] = [ptr |-> p, tag |-> t]]

NewStatic(d) ==
  /\ New(d, Shared, {"static", "borrow"})
  /\ UNCHANGED <<allocVars, vecs, smarts, given, viewVars>>
NewStaticMut(d) ==
  /\ ~given /\ given' = TRUE
  /\ New(d, Exclusive, {"static", "borrow", "mut"})
  /\ UNCHANGED <<allocVars, vecs, smarts, viewVars>>
\* The vector is moved into the structure and forgotten.
NewOwned(d, b) ==
  /\ b \in vecs /\ ~Borrowed(b) /\ vecs' = vecs \ {b}
  /\ New(d, b, {})
  /\ UNCHANGED <<allocVars, smarts, given, viewVars>>
NewBorrow(d, b) ==
  /\ b \in vecs /\ New(d, b, {"borrow"})
  /\ UNCHANGED <<allocVars, vecs, smarts, given, viewVars>>

\* get_raw_ptr: the pointer can be had once.
TakePtr(d) ==
  /\ d \in inUse /\ data[d].ptr # Null
  /\ data' = [data EXCEPT ![d].ptr = Null]

\* get_slice, of any Data, and get_slice_static.
GetSlice(d) ==
  /\ TakePtr(d) /\ views' = views \cup {data[d].ptr}
  /\ UNCHANGED <<allocVars, vecs, smarts, inUse, given, muts>>
GetSliceStatic(d) == "static" \in data[d].tag /\ GetSlice(d)
\* get_mut_slice and get_slice_static_mut.
GetMutSlice(d) ==
  /\ "mut" \in data[d].tag
  /\ TakePtr(d) /\ muts' = muts \cup {data[d].ptr}
  /\ UNCHANGED <<allocVars, vecs, smarts, inUse, given, views>>
GetSliceStaticMut(d) == "static" \in data[d].tag /\ GetMutSlice(d)

\* Slip: the pointer stays in the structure.
TakeVecKeeps(d) ==
  /\ d \in inUse /\ data[d].ptr # Null /\ data[d].tag \cap {"borrow", "static"} = {}
  /\ vecs' = vecs \cup {data[d].ptr}
  /\ UNCHANGED <<allocVars, smarts, dataVars, viewVars>>

TakeVec(d) ==
  /\ data[d].tag \cap {"borrow", "static"} = {}
  /\ TakePtr(d) /\ vecs' = vecs \cup {data[d].ptr}
  /\ UNCHANGED <<allocVars, smarts, inUse, given, viewVars>>

\* Slip: nothing is freed.
DropDataNever(d) ==
  /\ d \in inUse /\ inUse' = inUse \ {d}
  /\ UNCHANGED <<allocVars, vecs, smarts, data, given, viewVars>>

\* Drop: what is owned and still there is freed.
DropData(d) ==
  /\ d \in inUse /\ inUse' = inUse \ {d}
  /\ IF "borrow" \notin data[d].tag /\ data[d].ptr # Null
       THEN Dealloc(data[d].ptr)
       ELSE UNCHANGED <<maker, strays>>
  /\ UNCHANGED <<useOsAlloc, atSwitch, vecs, smarts, data, given, viewVars>>

\* The last slice of m goes out of scope.
EndView(m) ==
  /\ m \in views \cup muts
  /\ views' = views \ {m} /\ muts' = muts \ {m}
  /\ UNCHANGED <<allocVars, vecs, smarts, dataVars>>

OwnNext ==
  \/ ChangeToOsAllocator
  \/ \E b \in Blocks : NewVec(b) \/ DropVec(b) \/ NewSmart(b) \/ DropSmart(b) \/ \E c \in Blocks : GrowVec(b, c)
  \/ \E d \in Slots : NewStatic(d) \/ NewStaticMut(d) \/ \E b \in Blocks : NewOwned(d, b) \/ NewBorrow(d, b)
  \/ \E d \in Slots : GetSlice(d) \/ GetSliceStatic(d) \/ GetMutSlice(d) \/ GetSliceStaticMut(d)
  \/ \E d \in Slots : TakeVec(d) \/ DropData(d)
  \/ \E m \in Mem : EndView(m)

OwnSpec == OwnInit /\ [][OwnNext]_ownVars

-----------------------------------------------------------------------------
(* Properties. *)

Owns(d, b) == d \in inUse /\ data[d].ptr = b /\ "borrow" \notin data[d].tag
Owned(b) == b \in vecs \/ b \in smarts \/ \E d \in Slots : Owns(d, b)

\* A block is owned once (by one vector, SmartPtr or Data, so it is freed once)
\* and not after it was freed; every pointer and every slice that is around
\* leads to living memory; and a Data that can still give out mutable memory is
\* the only way to it.
SoundOwnership ==
  /\ vecs \cap smarts = {}
  /\ \A d \in Slots, b \in Blocks : Owns(d, b) =>
       b \notin vecs \cup smarts /\ \A e \in Slots : Owns(e, b) => e = d
  /\ \A b \in Blocks : Owned(b) \/ Borrowed(b) => maker[b] # "none"
  /\ views \cap muts = {}
  /\ \A d \in inUse : "mut" \in data[d].tag /\ data[d].ptr # Null =>
       /\ data[d].ptr \notin views \cup muts
       /\ \A e \in inUse : data[e].ptr = data[d].ptr => e = d

\* A block loses its owner without being freed only when the Data that owns it
\* gives out a slice (get_slice does not look at the tag), and then for good.
LeakedOnlyByView ==
  [][\A b \in Blocks : maker[b] # "none" /\ maker'[b] # "none" =>
       /\ Owned(b) /\ ~Owned(b)' => b \in views' \ views
       /\ ~Owned(b) => ~Owned(b)']_ownVars

\* Blocks from before the switch may go back to an allocator that did not make
\* them, each at most once: all that is allocated later is returned to its maker,
\* and the firmware's pool, which ends with boot services, is not called again.
StraysPredateSwitch ==
  /\ strays \subseteq atSwitch
  /\ \A b \in Blocks : maker[b] = "uefi" /\ useOsAlloc => b \in atSwitch \ strays
=============================================================================
