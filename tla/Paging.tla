------------------------------- MODULE Paging -------------------------------
(***************************************************************************)
(* The page tables of src/memory/paging.rs and the functions of            *)
(* src/main.rs and src/acpi/handler.rs that change them.  Everything here  *)
(* is done by the boot processor.                                          *)
(*                                                                         *)
(* A table is a function from indices to entries.  An entry is free, leads *)
(* to a table of the next lower level, or maps a page (a huge one above    *)
(* level 0) with flags.  Levels are 0 (Pt) to Top.  Any allocation may     *)
(* fail: an operation is told how many of its allocations succeed.  A      *)
(* failure ends in the panic of the caller's unwrap, with the tables as    *)
(* they then are.                                                          *)
(***************************************************************************)
EXTENDS MapList, FiniteSets, SequencesExt, TLC

CONSTANTS
  Fanout,       \* entries of a table, 512 in the code
  Top,          \* the target level
  AllowHuge,    \* allow_huge_at
  Nx,           \* the processor has NX
  UefiMaps,     \* memory maps the firmware may hand over: sequences of [start, pages, ty]
  Stack,        \* stack_data: [top, len]
  Additions,    \* what init_ap and init_trampoline add: sequences of ranges
  Regions,      \* what the ACPI code maps: [start, pages]
  MaxUpdates    \* bound: updates after create_paging

ASSUME PagingAssumption ==
  /\ Fanout \in Nat \ {0, 1} /\ Top \in Nat /\ AllowHuge \in 0..(Top - 1) /\ Nx \in BOOLEAN /\ MaxUpdates \in Nat

VARIABLES
  mem,       \* the allocated tables
  root,      \* CR3 and page_table.virt of GS; 0 before create_paging
  mapping,   \* page_table.memory_mapping of GS
  status,    \* "boot", "up" or "panic"
  uefi,      \* the memory map of this boot
  extra,     \* history: what the last update added
  updates    \* updates so far

vars == <<mem, root, mapping, status, uefi, extra, updates>>

Size(level) == Fanout ^ level
Indices == 0..(Fanout - 1)
Pages == 0..(Size(Top + 1) - 1)

Free == [k |-> "free"]
Page(at, fl) == [k |-> "page", at |-> at, fl |-> fl \cup {"P"}]
Relay(table) == [k |-> "table", to |-> table]

\* Some address that is not in use.
Fresh(m) == CHOOSE t \in 1..(Cardinality(DOMAIN m) + 1) : t \notin DOMAIN m
Without(m, t) == [u \in DOMAIN m \ {t} |-> m[u]]

\* A slip: a huge page for a range that begins inside it.
CanBeHugeFromInside(level, sub, lo, hi) == level # 0 /\ level <= AllowHuge /\ Len(sub) = 1 /\ sub[1].hi >= hi

Overlapping(list, lo, hi) == SelectSeq(list, LAMBDA r : r.lo < hi /\ r.hi > lo)
CanBeHuge(level, sub, lo, hi) ==
  level # 0 /\ level <= AllowHuge /\ Len(sub) = 1 /\ sub[1].lo <= lo /\ sub[1].hi >= hi
UpdateCanBeHuge(level, sub, lo, hi) ==
  level # 0 /\ level <= AllowHuge /\ Len(sub) = 1 /\ sub[1].lo <= lo /\ sub[1].hi >= hi

-----------------------------------------------------------------------------
(* The recursions thread a record: the memory, the allocations that will   *)
(* still succeed, whether all went well, the table a create returns, and   *)
(* the subtrees an update has taken out (tmp_vec).                         *)

ForIndices(Step(_, _), s) == FoldLeft(Step, s, [i \in 1..Fanout |-> i - 1])

Set(s, table, i, entry) == [s EXCEPT !.mem[table][i] = entry]

\* On the failure of a child its parent frees itself, and only itself.
RECURSIVE CreateRecursive(_, _, _, _)
CreateRecursive(st, base, level, list) ==
  LET table == Fresh(st.mem)
      zeroed == [st EXCEPT !.mem = @ @@ (table :> [i \in Indices |-> Free]), !.left = @ - 1]
      Entry(s, i) ==
        LET lo == base + i * Size(level)
            hi == lo + Size(level)
            sub == Overlapping(list, lo, hi)
            child == CreateRecursive(s, lo, level - 1, sub)
        IN  CASE ~ s.ok \/ sub = <<>> -> s
              [] level = 0 \/ CanBeHuge(level, sub, lo, hi) -> Set(s, table, i, Page(lo, sub[1].fl))
              [] OTHER -> IF child.ok
                          THEN Set(child, table, i, Relay(child.table))
                          ELSE [child EXCEPT !.mem = Without(@, table)]
  IN  IF st.left = 0
      THEN [st EXCEPT !.ok = FALSE]
      ELSE [ForIndices(Entry, zeroed) EXCEPT !.table = table]

\* Slips: an update that keeps the subtree it overwrites twice; one that clears an entry before it has the table for it.
TakeOutTwice(s, entry, level) ==
  IF entry.k = "table"
  THEN [s EXCEPT !.out = @ \o [i \in 1..2 |-> [table |-> entry.to, level |-> level - 1]]] ELSE s
DescendCleared(child, table, i) == Set(child, table, i, IF child.ok THEN Relay(child.table) ELSE Free)

\* The subtree of an entry that is overwritten is kept for free_not_used_paging.
TakeOut(s, entry, level) ==
  IF entry.k = "table" THEN [s EXCEPT !.out = Append(@, [table |-> entry.to, level |-> level - 1])] ELSE s

\* An entry without a table gets a new one, or keeps what it maps when there is no memory for it.
Descend(child, table, i) == IF child.ok THEN Set(child, table, i, Relay(child.table)) ELSE child

RECURSIVE UpdateRecursive(_, _, _, _, _)
UpdateRecursive(st, table, base, level, list) ==
  LET Entry(s, i) ==
        LET lo == base + i * Size(level)
            hi == lo + Size(level)
            sub == Overlapping(list, lo, hi)
            cur == s.mem[table][i]
        IN  CASE ~ s.ok -> s
              [] s.ok /\ sub = <<>> -> Set(TakeOut(s, cur, level), table, i, Free)
              [] s.ok /\ sub # <<>> /\ (level = 0 \/ UpdateCanBeHuge(level, sub, lo, hi)) ->
                   Set(TakeOut(s, cur, level), table, i, Page(lo, sub[1].fl))
              [] OTHER -> IF cur.k = "table" THEN UpdateRecursive(s, cur.to, lo, level - 1, sub)
                          ELSE Descend(CreateRecursive(s, lo, level - 1, sub), table, i)
  IN  ForIndices(Entry, st)

RECURSIVE DeallocRecursive(_, _, _)
DeallocRecursive(st, table, level) ==
  LET Entry(s, i) ==
        IF level > 0 /\ s.ok /\ st.mem[table][i].k = "table"
        THEN DeallocRecursive(s, st.mem[table][i].to, level - 1)
        ELSE s
      below == ForIndices(Entry, st)
  IN  IF table \in DOMAIN st.mem
      THEN [below EXCEPT !.mem = Without(@, table)]
      ELSE [st EXCEPT !.ok = FALSE]     \* freed before

FreeNotUsedPaging(st) ==
  FoldLeft(LAMBDA s, o : DeallocRecursive(s, o.table, o.level), st, st.out)

Start(left) == [mem |-> mem, left |-> left, ok |-> TRUE, table |-> 0, out |-> <<>>]

CreatePageTable(list, left) == CreateRecursive(Start(left), 0, Top, list)
\* The fragmentation level is 0 for ever, as update_recursive counts in a temporary: the branch of update_paging for a
\* fragmented table is not taken.
UpdatePaging(list, left) == UpdateRecursive(Start(left), root, 0, Top, list)

\* get_addr: the entry that maps a page.
RECURSIVE Walk(_, _, _, _)
Walk(m, table, level, p) ==
  LET e == m[table][(p \div Size(level)) % Fanout]
  IN  CASE e.k = "free" -> Free
        [] e.k = "page" -> [at |-> e.at + (p % Size(level)), fl |-> e.fl]
        [] OTHER -> Walk(m, e.to, level - 1, p)
GetAddr(p) == Walk(mem, root, Top, p)

-----------------------------------------------------------------------------
(* Main::update_paging: the list for a memory map. *)

Kernel == {"P", "W", "NX"}
End(u) == Max({u[i].start + u[i].pages : i \in DOMAIN u})
Special(e) ==
  CASE e.ty = "code" -> <<MapRange(e.start, e.start + e.pages, {"P", "W"})>>
    [] e.ty = "mmio" -> <<MapRange(e.start, e.start + e.pages, Kernel \cup {"PCD"})>>
    [] OTHER -> <<>>
MapOf(u) ==
  <<MapRange(0, End(u), Kernel)>> \o FlattenSeq([i \in DOMAIN u |-> Special(u[i])])
  \o <<MapRange(Stack.top, Stack.top + Stack.len, Kernel), MapRange(0, 1, {})>>

Init ==
  /\ mem = <<>> /\ root = 0 /\ mapping = <<>> /\ status = "boot" /\ extra = <<>> /\ updates = 0
  /\ uefi \in UefiMaps

\* exit_uefi up to create_paging's return.
CreatePaging(left) ==
  LET list == NormalizeMapList(Retain(MapOf(uefi), Nx))
      s == CreatePageTable(list, left)
  IN  /\ status = "boot"
      /\ mem' = s.mem
      /\ \/ s.ok /\ status' = "up" /\ root' = s.table /\ mapping' = list
         \/ ~ s.ok /\ status' = "panic" /\ UNCHANGED <<root, mapping>>
      /\ UNCHANGED <<uefi, extra, updates>>

\* util_update_paging::<true> works on a clone of page_table, so that the mapping stays the one of create_paging.
UtilUpdatePaging(ranges, left) ==
  LET s == UpdatePaging(NormalizeMapList(Retain(ranges, Nx)), left)
      freed == FreeNotUsedPaging(s)
  IN  /\ status = "up" /\ updates < MaxUpdates
      /\ \/ /\ s.ok /\ mem' = freed.mem
            /\ status' = IF freed.ok THEN "up" ELSE "double free"
         \/ ~ s.ok /\ mem' = s.mem /\ status' = "panic"
      /\ updates' = updates + 1
      /\ UNCHANGED <<root, mapping, uefi>>

UtilUpdateAddPaging(add, left) == UtilUpdatePaging(mapping \o add, left) /\ extra' = add

\* The ACPI handler looks at the first page only.
MapPhysicalRegion(r, left) ==
  /\ status = "up" /\ GetAddr(r.start) = Free
  /\ UtilUpdateAddPaging(<<MapRange(r.start, r.start + r.pages, Kernel \cup {"PCD"})>>, left)

Next ==
  \E left \in 0..Cardinality(Pages) :
    \/ CreatePaging(left)
    \/ \E add \in Additions : UtilUpdateAddPaging(add, left)
    \/ \E r \in Regions : MapPhysicalRegion(r, left)

Spec == Init /\ [][Next]_vars

-----------------------------------------------------------------------------
(* Properties. *)

\* What a list says of a page, without tables.
Meant(list, p) ==
  LET fl == FlagsOf(Retain(list, Nx), p)
  IN  IF fl = Unmapped THEN Free ELSE [at |-> p, fl |-> fl \cup {"P"}]

RECURSIVE Tables(_, _)
Tables(m, t) ==   \* the tables of a tree, once for every path
  <<t>> \o FlattenSeq([i \in 1..Fanout |->
             IF t \in DOMAIN m /\ m[t][i - 1].k = "table" THEN Tables(m, m[t][i - 1].to) ELSE <<>>])
ToTree == ToSet(Tables(mem, root))

\* get_addr returns every page's own address, with the flags of the last range pushed for it, among the ranges for
\* the firmware's map and those of the last update; earlier updates leave no trace.  Ranges
\* without flags change nothing: page 0, which the list wants to take away with one, stays mapped like its neighbours.
TranslatesAsMapped ==
  status = "up" => \A p \in Pages : GetAddr(p) = Meant(MapOf(uefi) \o extra, p)

RECURSIVE Shape(_, _)
Shape(m, t) ==   \* the tree without the places of its tables
  [i \in Indices |-> IF m[t][i].k = "table" THEN [k |-> "table", below |-> Shape(m, m[t][i].to)] ELSE m[t][i]]
NewTree ==
  CreateRecursive([Start(Cardinality(Pages)) EXCEPT !.mem = <<>>], 0, Top, NormalizeMapList(Retain(mapping \o extra, Nx)))

\* No table that is reached is free, none is reached on two paths, and nothing is freed twice.  And only a failure
\* leaks: otherwise the tables in memory are those of the tree, after all replacements, and the tree is like one that
\* is made new from the same list: updates join and split huge pages where a creation would.
TreeIsMemory ==
  /\ status # "double free"
  /\ root # 0 => ToTree \subseteq DOMAIN mem /\ Cardinality(ToTree) = Len(Tables(mem, root))
  /\ status = "up" => DOMAIN mem = ToTree /\ Shape(mem, root) = Shape(NewTree.mem, NewTree.table)

\* An update that runs out of memory leaves each page as it was or as it was to be: the panic handler runs on such
\* tables.
TornUpdateMixes ==
  [][status = "up" => \A p \in Pages : GetAddr(p)' \in {GetAddr(p), Meant(MapOf(uefi) \o extra', p)}]_vars
=============================================================================
