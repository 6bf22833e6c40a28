------------------------------ MODULE AmlMutex ------------------------------
(***************************************************************************)
(* The mutexes the ACPI handler gives to the AML interpreter,              *)
(* src/acpi/handler.rs 17-23 and 224-285.  All of them live in one vector  *)
(* behind one spin lock, AML_MUTEXES.  acquire keeps that lock until it    *)
(* returns, also while it waits for a mutex, and release needs it.         *)
(***************************************************************************)
EXTENDS Naturals

CONSTANTS
  Cores,
  Nobody,
  MaxMutexes,       \* bound: calls of create_mutex
  MaxCalls,         \* bound: calls of acquire by every core
  MaxU16,           \* 0xFFFF: as a timeout it means for ever
  Timeouts,         \* timeouts the interpreter passes
  Unidentified      \* cores on which who_am_i returns None

ASSUME AmlAssumption ==
  /\ Nobody \notin Cores
  /\ MaxMutexes \in Nat /\ MaxCalls \in Nat /\ MaxU16 \in Nat
  /\ Timeouts \subseteq 0..MaxU16
  /\ Unidentified \subseteq Cores

VARIABLES
  table,    \* the core that holds AML_MUTEXES
  len,      \* mutexes.len()
  lock,     \* of every mutex: taken
  owner,
  count,
  pc,       \* the call a core is in
  handle,   \* its arguments
  timeout,
  elapsed,  \* acquire's local
  creates,  \* create_mutex calls so far
  overflowChecks,   \* the profile the kernel is built with: on in dev, off in release
  calls,    \* acquires a core has begun
  held      \* history: acquires of a core that returned Ok, less its releases

mutexVars == <<lock, owner, count>>
callVars == <<handle, timeout, creates, calls, overflowChecks>>
vars == <<table, len, mutexVars, pc, callVars, elapsed, held>>

Handles == 0..(MaxMutexes - 1)

Init ==
  /\ table = Nobody /\ len = 0
  /\ lock = [h \in Handles |-> FALSE] /\ owner = [h \in Handles |-> Nobody]
  /\ count = [h \in Handles |-> 0]
  /\ pc = [c \in Cores |-> "idle"] /\ handle = [c \in Cores |-> 0]
  /\ timeout = [c \in Cores |-> 0] /\ elapsed = [c \in Cores |-> 0]
  /\ overflowChecks \in BOOLEAN /\ creates = 0 /\ calls = [c \in Cores |-> 0]
  /\ held = [c \in Cores |-> [h \in Handles |-> 0]]

Goto(c, label) == pc' = [pc EXCEPT ![c] = label]

-----------------------------------------------------------------------------
(* The interpreter: it releases what it has acquired. *)

CallCreate(c) ==
  /\ pc[c] = "idle" /\ creates < MaxMutexes
  /\ creates' = creates + 1
  /\ Goto(c, "create")
  /\ UNCHANGED <<table, len, mutexVars, handle, timeout, calls, overflowChecks, elapsed, held>>

CallAcquire(c, h, t) ==
  /\ pc[c] = "idle" /\ h < len /\ calls[c] < MaxCalls
  /\ handle' = [handle EXCEPT ![c] = h] /\ timeout' = [timeout EXCEPT ![c] = t]
  /\ calls' = [calls EXCEPT ![c] = @ + 1]
  /\ Goto(c, "acquire")
  /\ UNCHANGED <<table, len, mutexVars, creates, overflowChecks, elapsed, held>>

CallRelease(c, h) ==
  /\ pc[c] = "idle" /\ held[c][h] > 0
  /\ handle' = [handle EXCEPT ![c] = h]
  /\ Goto(c, "release")
  /\ UNCHANGED <<table, len, mutexVars, timeout, creates, calls, overflowChecks, elapsed, held>>

-----------------------------------------------------------------------------

Create(c) ==
  /\ pc[c] = "create" /\ table = Nobody
  /\ len' = len + 1
  /\ Goto(c, "idle")
  /\ UNCHANGED <<table, mutexVars, callVars, elapsed, held>>

\* who_am_i() is None: the caller gets PrtInvalidAddress.
AcquireUnidentified(c) ==
  /\ pc[c] = "acquire" /\ table = Nobody /\ c \in Unidentified
  /\ Goto(c, "idle")
  /\ UNCHANGED <<table, len, mutexVars, callVars, elapsed, held>>

\* The mutex is this core's already.
AcquireAgain(c) ==
  LET h == handle[c]
  IN  /\ pc[c] = "acquire" /\ table = Nobody /\ c \notin Unidentified
      /\ owner[h] = c
      /\ count' = [count EXCEPT ![h] = @ + 1]
      /\ held' = [held EXCEPT ![c][h] = @ + 1]
      /\ Goto(c, "idle")
      /\ UNCHANGED <<table, len, lock, owner, callVars, elapsed>>

AcquireEnter(c) ==
  /\ pc[c] = "acquire" /\ table = Nobody /\ c \notin Unidentified
  /\ owner[handle[c]] # c
  /\ table' = c
  /\ elapsed' = [elapsed EXCEPT ![c] = 0]
  /\ Goto(c, "try")
  /\ UNCHANGED <<len, mutexVars, callVars, held>>

TryLock(c) ==
  LET h == handle[c]
  IN  /\ pc[c] = "try" /\ ~ lock[h]
      /\ lock' = [lock EXCEPT ![h] = TRUE]
      /\ owner' = [owner EXCEPT ![h] = c]
      /\ count' = [count EXCEPT ![h] = 1]
      /\ held' = [held EXCEPT ![c][h] = @ + 1]
      /\ table' = Nobody
      /\ Goto(c, "idle")
      /\ UNCHANGED <<len, callVars, elapsed>>

TimedOut(c) == timeout[c] # MaxU16 /\ elapsed[c] >= timeout[c]

\* Slips: a timeout that leaves the table locked; a wait that does not hold the
\* table; a release that unlocks at every level.
TimeoutKeepsTable(c) ==
  /\ pc[c] = "try" /\ lock[handle[c]]
  /\ TimedOut(c)
  /\ Goto(c, "idle")
  /\ UNCHANGED <<table, len, mutexVars, callVars, elapsed, held>>
StallUnlocked(c) ==
  /\ pc[c] = "try" /\ lock[handle[c]] /\ ~ TimedOut(c)
  /\ elapsed' = [elapsed EXCEPT ![c] = (@ + 1) % (MaxU16 + 1)]
  /\ table' = Nobody
  /\ UNCHANGED <<len, mutexVars, pc, callVars, held>>
ReleaseAtOnce(c) ==
  LET h == handle[c]
  IN  /\ pc[c] = "release" /\ table = Nobody
      /\ count' = [count EXCEPT ![h] = IF @ > 0 THEN @ - 1 ELSE @]
      /\ lock' = [lock EXCEPT ![h] = FALSE]
      /\ owner' = [owner EXCEPT ![h] = Nobody]
      /\ held' = [held EXCEPT ![c][h] = @ - 1]
      /\ Goto(c, "idle")
      /\ UNCHANGED <<table, len, callVars, elapsed>>

AcquireTimeout(c) ==
  /\ pc[c] = "try" /\ lock[handle[c]]
  /\ TimedOut(c)
  /\ table' = Nobody
  /\ Goto(c, "idle")
  /\ UNCHANGED <<len, mutexVars, callVars, elapsed, held>>

\* A millisecond more.  elapsed is a u16.
Stall(c) ==
  /\ pc[c] = "try" /\ lock[handle[c]]
  /\ ~ TimedOut(c)
  /\ \/ elapsed[c] < MaxU16 /\ elapsed' = [elapsed EXCEPT ![c] = @ + 1] /\ UNCHANGED pc
     \/ /\ elapsed[c] = MaxU16 /\ ~ overflowChecks
        /\ elapsed' = [elapsed EXCEPT ![c] = 0] /\ UNCHANGED pc
     \/ elapsed[c] = MaxU16 /\ overflowChecks /\ Goto(c, "panic") /\ UNCHANGED elapsed
  /\ UNCHANGED <<table, len, mutexVars, callVars, held>>

Release(c) ==
  LET h == handle[c]
  IN  /\ pc[c] = "release" /\ table = Nobody
      /\ count' = [count EXCEPT ![h] = IF @ > 0 THEN @ - 1 ELSE @]
      /\ lock' = [lock EXCEPT ![h] = IF count[h] = 1 THEN FALSE ELSE @]
      /\ owner' = [owner EXCEPT ![h] = IF count[h] = 1 THEN Nobody ELSE @]
      /\ held' = [held EXCEPT ![c][h] = @ - 1]
      /\ Goto(c, "idle")
      /\ UNCHANGED <<table, len, callVars, elapsed>>

Call(c) ==
  \/ CallCreate(c)
  \/ \E h \in Handles : (\E t \in Timeouts : CallAcquire(c, h, t)) \/ CallRelease(c, h)
Body(c) ==
  \/ Create(c) \/ AcquireUnidentified(c) \/ AcquireAgain(c) \/ AcquireEnter(c) \/ TryLock(c)
  \/ AcquireTimeout(c) \/ Stall(c) \/ Release(c)

\* The interpreter may have nothing to do.
Quiet == (\A c \in Cores : pc[c] = "idle") /\ UNCHANGED vars

Next == (\E c \in Cores : Call(c) \/ Body(c)) \/ Quiet

Spec == Init /\ [][Next]_vars
FairSpec == Spec /\ \A c \in Cores : WF_vars(Body(c))

-----------------------------------------------------------------------------
(* Properties. *)

Labels == {"idle", "create", "acquire", "try", "release", "panic"}

\* Type invariant.
TypeOK ==
  /\ overflowChecks \in BOOLEAN
  /\ table \in Cores \cup {Nobody} /\ len \in Nat /\ creates \in Nat
  /\ lock \in [Handles -> BOOLEAN] /\ owner \in [Handles -> Cores \cup {Nobody}]
  /\ count \in [Handles -> Nat]
  /\ pc \in [Cores -> Labels] /\ handle \in [Cores -> Nat]
  /\ timeout \in [Cores -> 0..MaxU16] /\ elapsed \in [Cores -> 0..MaxU16]
  /\ calls \in [Cores -> Nat] /\ held \in [Cores -> [Handles -> Nat]]

\* A mutex is held by one core at a time, as often as that core has acquired and
\* not released it, whatever nesting and timeouts the other cores go through.
MutualExclusion ==
  \A c \in Cores, h \in Handles :
    held[c][h] > 0 => lock[h] /\ owner[h] = c /\ count[h] = held[c][h]

\* acquire waits with the table locked, so nobody can release what it waits for:
\* an acquire that does not get the mutex at its first try never gets it, and a
\* timeout only delays the error.
WaitIsFutile ==
  [][\A c \in Cores : TryLock(c) => elapsed[c] = 0]_vars

WaitsForever(c) == pc[c] \in {"try", "panic"} /\ timeout[c] = MaxU16 /\ lock[handle[c]]

\* With the timeout 0xFFFF it is the end of all mutexes: from then on no core
\* creates, acquires or releases any.
ForeverFreezesAll ==
  [][(\E c \in Cores : WaitsForever(c)) => UNCHANGED <<table, len, mutexVars, held>>]_vars

\* How calls end.  Only such a wait is a danger: every other call returns, also when
\* cores wait for each other, unless some core has begun to wait for ever.  And in a
\* dev build the wait is not even for ever: elapsed overflows and the core panics,
\* with the table locked.
EveryCallReturns ==
  \A c \in Cores :
    /\ pc[c] # "idle" ~> pc[c] = "idle" \/ \E d \in Cores : WaitsForever(d)
    /\ WaitsForever(c) /\ overflowChecks ~> pc[c] = "panic" /\ table = c
=============================================================================
