------------------------------- MODULE Logger -------------------------------
(***************************************************************************)
(* The kernel log: add_log and read_log of src/logger/core.rs, the         *)
(* LogIterator of src/logger/types.rs, and the panic handler's             *)
(* LOG_CAPACITY.store(0) of src/main.rs.                                   *)
(*                                                                         *)
(* The log is a deque of at most LOG_CAPACITY entries; LOG_HEAD_ID is the  *)
(* number of the entry at its front.  A reader loads LOG_HEAD_ID before it *)
(* takes the lock, and writers may rotate the deque in between.            *)
(***************************************************************************)
EXTENDS Integers, Sequences

CONSTANTS
  Capacity,    \* the initial LOG_CAPACITY
  MaxLogs,     \* bound: calls of add_log
  Readers,     \* the iterators
  StartId,     \* LogIterator::new's arguments, by reader
  Include

ASSUME LogAssumption ==
  /\ Capacity \in Nat \ {0} /\ MaxLogs \in Nat
  /\ StartId \in [Readers -> Nat] /\ Include \in [Readers -> BOOLEAN]

VARIABLES
  buf,       \* LOG_BUF, with the number of every entry as history
  head,      \* LOG_HEAD_ID
  cap,       \* LOG_CAPACITY
  added,     \* history: entries pushed so far
  at,        \* of every reader
  nextId,    \* next_id
  seenHead,  \* read_log's local head
  yielded    \* history: the numbers of the entries an iterator has returned

readVars == <<at, nextId, seenHead, yielded>>
logVars == <<buf, head, cap, added, readVars>>

LogInit ==
  /\ buf = <<>> /\ head = 0 /\ cap = Capacity /\ added = 0
  /\ at = [r \in Readers |-> "next"] /\ nextId = StartId
  /\ seenHead = [r \in Readers |-> 0] /\ yielded = [r \in Readers |-> <<>>]

-----------------------------------------------------------------------------
(* add_log runs under the write lock; readers see of it only the counter. *)

\* Slips: a rotation that is not counted; one entry too many.
AddLogUncounted(system) ==
  LET log == [id |-> added, sys |-> system]
      kept == IF Len(buf) = cap THEN Tail(buf) ELSE buf
  IN  /\ added < MaxLogs /\ cap > 0
      /\ buf' = Append(kept, log)
      /\ added' = added + 1
      /\ UNCHANGED <<head, cap, readVars>>
AddLogLate(system) ==
  LET log == [id |-> added, sys |-> system]
      full == Len(buf) > cap
  IN  /\ added < MaxLogs /\ cap > 0
      /\ buf' = Append(IF full THEN Tail(buf) ELSE buf, log)
      /\ head' = IF full THEN head + 1 ELSE head
      /\ added' = added + 1
      /\ UNCHANGED <<cap, readVars>>

AddLog(system) ==
  LET log == [id |-> added, sys |-> system]
      full == Len(buf) = cap
  IN  /\ added < MaxLogs /\ cap > 0
      /\ buf' = Append(IF full THEN Tail(buf) ELSE buf, log)
      /\ head' = IF full THEN head + 1 ELSE head
      /\ added' = added + 1
      /\ UNCHANGED <<cap, readVars>>

\* The panic handler: from now on add_log returns at once.
Panic ==
  /\ cap' = 0
  /\ UNCHANGED <<buf, head, added, readVars>>

-----------------------------------------------------------------------------
(* LogIterator::next, a loop around read_log. *)

LoadHead(r) ==
  /\ at[r] = "next"
  /\ seenHead' = [seenHead EXCEPT ![r] = head]
  /\ at' = [at EXCEPT ![r] = "read"]
  /\ UNCHANGED <<buf, head, cap, added, nextId, yielded>>

Missing(r) == nextId[r] < seenHead[r] \/ nextId[r] >= seenHead[r] + Len(buf)
Found(r) == buf[nextId[r] - seenHead[r] + 1]

\* Slips: an iterator that catches up with the head; an entry too far.
ReadNoneCatchesUp(r) ==
  /\ at[r] = "read" /\ Missing(r)
  /\ nextId' = [nextId EXCEPT ![r] = IF @ < seenHead[r] THEN seenHead[r] ELSE @]
  /\ at' = [at EXCEPT ![r] = "none"]
  /\ UNCHANGED <<buf, head, cap, added, seenHead, yielded>>
ReadSomeSkips(r) ==
  /\ at[r] = "read" /\ ~ Missing(r) /\ Found(r).sys = Include[r]
  /\ nextId' = [nextId EXCEPT ![r] = @ + 2]
  /\ yielded' = [yielded EXCEPT ![r] = Append(@, Found(r).id)]
  /\ at' = [at EXCEPT ![r] = "some"]
  /\ UNCHANGED <<buf, head, cap, added, seenHead>>

ReadNone(r) ==
  /\ at[r] = "read" /\ Missing(r)
  /\ at' = [at EXCEPT ![r] = "none"]
  /\ UNCHANGED <<buf, head, cap, added, nextId, seenHead, yielded>>

\* An entry of the other kind: go round the loop.
ReadOther(r) ==
  /\ at[r] = "read" /\ ~ Missing(r) /\ Found(r).sys # Include[r]
  /\ nextId' = [nextId EXCEPT ![r] = @ + 1]
  /\ at' = [at EXCEPT ![r] = "next"]
  /\ UNCHANGED <<buf, head, cap, added, seenHead, yielded>>

ReadSome(r) ==
  /\ at[r] = "read" /\ ~ Missing(r) /\ Found(r).sys = Include[r]
  /\ nextId' = [nextId EXCEPT ![r] = @ + 1]
  /\ yielded' = [yielded EXCEPT ![r] = Append(@, Found(r).id)]
  /\ at' = [at EXCEPT ![r] = "some"]
  /\ UNCHANGED <<buf, head, cap, added, seenHead>>

\* The caller asks for the next entry, also after a None: there may be more by now.
Again(r) ==
  /\ at[r] \in {"some", "none"}
  /\ at' = [at EXCEPT ![r] = "next"]
  /\ UNCHANGED <<buf, head, cap, added, nextId, seenHead, yielded>>

Reading(r) == LoadHead(r) \/ ReadNone(r) \/ ReadOther(r) \/ ReadSome(r)

LogNext ==
  \/ \E system \in BOOLEAN : AddLog(system)
  \/ Panic
  \/ \E r \in Readers : Reading(r) \/ Again(r)

LogSpec == LogInit /\ [][LogNext]_logVars

-----------------------------------------------------------------------------
(* Properties. *)

Entries == [id : Nat, sys : BOOLEAN]

\* Type invariant.
LogTypeOK ==
  /\ buf \in Seq(Entries) /\ head \in Nat /\ cap \in {0, Capacity} /\ added \in Nat
  /\ at \in [Readers -> {"next", "read", "some", "none"}]
  /\ nextId \in [Readers -> Nat] /\ seenHead \in [Readers -> Nat]
  /\ yielded \in [Readers -> Seq(Nat)]

\* The log is the window of the last entries that starts at LOG_HEAD_ID, through
\* rotations and after a panic: no entry is out of place and none is kept too long.
LogIsWindow ==
  /\ Len(buf) <= Capacity
  /\ head + Len(buf) = added
  /\ \A i \in 1..Len(buf) : buf[i].id = head + i - 1

\* As read_log loads the head before it locks, it returns the entry as many places
\* after the one asked for as the log was rotated in between: the right one if it
\* was not, and never an older one.
ReadDrifts ==
  [][\A r \in Readers : ReadSome(r) => Found(r).id = nextId[r] + (head - seenHead[r])]_logVars

\* read_log returns None for a number below the head and the iterator keeps its
\* number then: an iterator the log has overtaken never returns an entry again.
OvertakenForGood ==
  \A r \in Readers : [](at[r] = "next" /\ nextId[r] < head => [](at[r] # "some"))

Increasing(s) == \A i, j \in DOMAIN s : i < j => s[i] < s[j]
Elements(s) == {s[i] : i \in DOMAIN s}

\* While head = 0 the entry of number n is at n + 1.
Wanted(r) == {n \in 0..(Len(buf) - 1) :
                n >= StartId[r] /\ n < nextId[r] /\ buf[n + 1].sys = Include[r]}

\* Before the first rotation an iterator has returned every entry of its kind from
\* its start to its position, once each and in order.
CompleteBeforeRotation ==
  head = 0 => \A r \in Readers : Increasing(yielded[r]) /\ Elements(yielded[r]) = Wanted(r)
=============================================================================
