------------------------------ MODULE TaskSched ------------------------------
(***************************************************************************)
(* What the executors of src/asy_nc/mod.rs promise to the tasks, with no   *)
(* locks, flags, wakers or interrupts: a task belongs to the core it was   *)
(* spawned to, a core polls one task at a time in the order in which they  *)
(* became ready, a task is ready once for every wake-up, and a finished    *)
(* task is never polled again.                                             *)
(***************************************************************************)
EXTENDS Naturals, Sequences

CONSTANTS Cores, Tasks, NoCore, NoTask

VARIABLES
  home,       \* the core a task was spawned to
  ready,      \* the tasks to be polled on every core, in order
  running,    \* the task every core polls
  waiting,    \* suspended tasks
  finished

vars == <<home, ready, running, waiting, finished>>

Init ==
  /\ home = [t \in Tasks |-> NoCore]
  /\ ready = [c \in Cores |-> <<>>]
  /\ running = [c \in Cores |-> NoTask]
  /\ waiting = {} /\ finished = {}

Spawn(t, c) ==
  /\ home[t] = NoCore
  /\ home' = [home EXCEPT ![t] = c]
  /\ ready' = [ready EXCEPT ![c] = Append(@, t)]
  /\ UNCHANGED <<running, waiting, finished>>

Dispatch(c) ==
  /\ running[c] = NoTask /\ ready[c] # <<>>
  /\ running' = [running EXCEPT ![c] = Head(ready[c])]
  /\ ready' = [ready EXCEPT ![c] = Tail(@)]
  /\ UNCHANGED <<home, waiting, finished>>

Suspend(c) ==
  /\ running[c] # NoTask
  /\ running' = [running EXCEPT ![c] = NoTask]
  /\ waiting' = waiting \cup {running[c]}
  /\ UNCHANGED <<home, ready, finished>>

Finish(c) ==
  /\ running[c] # NoTask
  /\ running' = [running EXCEPT ![c] = NoTask]
  /\ finished' = finished \cup {running[c]}
  /\ UNCHANGED <<home, ready, waiting>>

Wake(t) ==
  /\ t \in waiting
  /\ waiting' = waiting \ {t}
  /\ ready' = [ready EXCEPT ![home[t]] = Append(@, t)]
  /\ UNCHANGED <<home, running, finished>>

Next ==
  \/ \E c \in Cores : Dispatch(c) \/ Suspend(c) \/ Finish(c) \/ \E t \in Tasks : Spawn(t, c)
  \/ \E t \in Tasks : Wake(t)

Spec == Init /\ [][Next]_vars
=============================================================================
