------------------------------ MODULE Executor ------------------------------
(***************************************************************************)
(* The per-core async executors of src/asy_nc/mod.rs.                      *)
(*                                                                         *)
(* Every core owns one executor: a task queue behind a spin lock, a map of *)
(* timer tickets, and the two flags `noise' and `online' with which a      *)
(* spawner decides whether the core has to be kicked with IPI 65 before it *)
(* notices new work.  A core runs Executor::run for ever: it polls queued  *)
(* tasks and, with nothing to do, halts until an interrupt arrives.        *)
(*                                                                         *)
(* Code runs only on cores, so the core is the unit of interleaving: one   *)
(* action per lock acquisition, atomic access or privileged instruction.   *)
(* What a task does when it is polled is given by its program Prog[t], a   *)
(* sequence of calls of this module's API; a poll continues the program    *)
(* where the last one left off.                                            *)
(***************************************************************************)
EXTENDS Integers, Sequences

CONSTANTS
  Cores,      \* the cores; a core is its local APIC id
  Tasks,      \* the tasks, and the boot context of every core
  Prog,       \* Prog[t]: the calls task t makes, in order
  Boots,      \* what the cores run between Executor::new and run: functions from cores
  NoCore, NoTask

SpawnKicked == {"spawn_global", "spawn_selected_async_index", "spawn_selected_lapic_id"}
SpawnOps == SpawnKicked \cup {"spawn"}
Ops == SpawnOps \cup {"join", "yield_now", "timer", "ticket", "pending"}

\* A call: `task' is the task it spawns or joins, `arg' an index, an id or a duration.
Call == [op : Ops, task : Tasks, arg : Nat]

ASSUME ConstantsAssumption ==
  /\ Cores \subseteq Nat
  /\ NoCore \notin Cores
  /\ NoTask \notin Tasks
  /\ Prog \in [Tasks -> Seq(Call)]
  /\ Boots \subseteq [Cores -> Tasks]

\* A boot context is not a task: no future, no waker, no poll.
IsBoot(t) == \E b \in Boots, c \in Cores : t = b[c]

\* A future is moved into the one task it becomes: it is spawned by one call at
\* most, and a boot context is not a task.  Only `spawn' hands out the JoinHandle,
\* to its caller, who can await it once and afterwards.
ASSUME ProgramsAssumption ==
  /\ \A b \in Boots : \A c, d \in Cores : b[c] = b[d] => c = d
  /\ \A s, t \in Tasks : \A i \in 1..Len(Prog[s]), j \in 1..Len(Prog[t]) :
       /\ Prog[s][i].op \in SpawnOps => ~ IsBoot(Prog[s][i].task)
       /\ Prog[s][i].op \in SpawnOps /\ Prog[t][j].op \in SpawnOps
            /\ Prog[s][i].task = Prog[t][j].task => s = t /\ i = j
       /\ Prog[s][i].op = "join" /\ Prog[t][j].op = "join"
            /\ Prog[s][i].task = Prog[t][j].task => s = t /\ i = j
       /\ Prog[s][i].op = "join" =>
            \E k \in 1..(i - 1) : Prog[s][k].op = "spawn" /\ Prog[s][k].task = Prog[s][i].task
  /\ \A t \in Tasks : IsBoot(t) => \A i \in 1..Len(Prog[t]) : Prog[t][i].op \in SpawnOps

VARIABLES
  list,       \* ASYNC_LIST.0: the registered executors, in order
  rr,         \* ASYNC_LIST.1: the round robin counter
  readers,    \* the cores that hold ASYNC_LIST.0 for reading
  queue,      \* task_queue of every executor; `by' says who pushed the entry
  qlock,      \* the core that holds the queue's lock across steps
  tickets,    \* tasks with a waker in inner.tickets of every executor
  gsTickets,  \* tasks with one in the CoreExecutor of every core's GS block
  noise,      \* the executor has been told of work
  online,     \* the executor is not halted
  irr,        \* IPI 65 is pending at the core's local APIC
  pc,         \* where the core is
  cur,        \* the task (or boot context) the core is running
  obj,        \* the task the core is spawning or waking
  tgt,        \* the executor to whose queue it pushes that task
  flag,       \* the core's local `already', then `needs_ipi'
  ip,         \* next call of every task
  yielded,    \* YieldNow.yielded
  left,       \* TimerFuture.deadline less the time, 0 when past, -1 without a timer
  home,       \* the executor whose queue the task was spawned to
  data,       \* JoinInner.data is Some
  waker,      \* JoinInner.waker
  done        \* tasks whose future has returned Ready

listVars == <<list, rr, readers>>
queueVars == <<queue, qlock>>
timerVars == <<tickets, gsTickets, left>>
kickVars == <<noise, online, irr>>
coreVars == <<cur, obj, tgt, flag>>
taskVars == <<ip, yielded, home, data, waker, done>>
vars == <<listVars, queueVars, timerVars, kickVars, pc, coreVars, taskVars>>

\* The entry a push_back adds: pushed by a spawn_* function, which goes on to
\* set `noise', or by Executor::spawn or a waker, which does not.
Entry == [task : Tasks, by : {"kick", "bare"}]

Init ==
  /\ list = <<>> /\ rr = 0 /\ readers = {}
  /\ queue = [c \in Cores |-> <<>>] /\ qlock = [c \in Cores |-> NoCore]
  /\ tickets = [c \in Cores |-> {}] /\ gsTickets = [c \in Cores |-> {}]
  /\ left = [t \in Tasks |-> -1]
  /\ noise = [c \in Cores |-> FALSE] /\ online = [c \in Cores |-> TRUE]
  /\ irr = [c \in Cores |-> FALSE]
  /\ pc = [c \in Cores |-> "new"]
  /\ cur \in Boots /\ tgt = [c \in Cores |-> NoCore]
  /\ obj = [c \in Cores |-> NoTask] /\ flag = [c \in Cores |-> FALSE]
  /\ ip = [t \in Tasks |-> 1] /\ yielded = [t \in Tasks |-> FALSE]
  /\ home = [t \in Tasks |-> NoCore]
  /\ data = [t \in Tasks |-> FALSE] /\ waker = [t \in Tasks |-> NoTask]
  /\ done = {}

Goto(c, label) == pc' = [pc EXCEPT ![c] = label]
InQueue(c, t) == \E i \in 1..Len(queue[c]) : queue[c][i].task = t

\* The call the core is at, if its program has one left.
AtCall(c) == pc[c] = "exec" /\ ip[cur[c]] <= Len(Prog[cur[c]])
TheCall(c) == Prog[cur[c]][ip[cur[c]]]
AtOp(c, ops) == AtCall(c) /\ TheCall(c).op \in ops
AdvanceIp(c) == ip' = [ip EXCEPT ![cur[c]] = @ + 1]

\* Slip in push_back: at the wrong end.
PushFront(c, t, by) ==
  /\ qlock[c] = NoCore
  /\ queue' = [queue EXCEPT ![c] = <<[task |-> t, by |-> by]>> \o @]
  /\ UNCHANGED qlock

\* task_queue.lock().push_back(task), from the code that does not hold the lock.
PushBack(c, t, by) ==
  /\ qlock[c] = NoCore
  /\ queue' = [queue EXCEPT ![c] = Append(@, [task |-> t, by |-> by])]
  /\ UNCHANGED qlock

-----------------------------------------------------------------------------
(* Executor::new, then the boot context. *)

New(c) ==
  /\ pc[c] = "new" /\ readers = {}
  /\ list' = Append(list, c)
  /\ Goto(c, "exec")
  /\ UNCHANGED <<rr, readers, queueVars, timerVars, kickVars, coreVars, taskVars>>

BootEnd(c) ==
  /\ pc[c] = "exec" /\ IsBoot(cur[c]) /\ ~ AtCall(c)
  /\ cur' = [cur EXCEPT ![c] = NoTask]
  /\ Goto(c, "check_timers")
  /\ UNCHANGED <<listVars, queueVars, timerVars, kickVars, obj, tgt, flag, taskVars>>

-----------------------------------------------------------------------------
(* The spawn functions.  The executor they select is looked up under the   *)
(* read lock of ASYNC_LIST, which is kept until `needs_ipi' is known.      *)

Selected(c) ==
  LET call == TheCall(c)
  IN  {list[i] : i \in {k \in 1..Len(list) :
         \/ call.op = "spawn_global" /\ k = (rr % Len(list)) + 1
         \/ call.op = "spawn_selected_async_index" /\ k = call.arg + 1
         \/ call.op \in {"spawn_selected_lapic_id", "spawn"} /\ list[k] = call.arg}}

\* No such executor: the function returns false and the future is dropped.  (The
\* caller of `spawn' has the executor in hand.)
SpawnFails(c) ==
  /\ AtOp(c, SpawnKicked) /\ Selected(c) = {}
  /\ AdvanceIp(c)
  /\ UNCHANGED <<listVars, queueVars, timerVars, kickVars, pc, coreVars,
                 yielded, home, data, waker, done>>

SpawnSelect(c) ==
  LET kicked == TheCall(c).op \in SpawnKicked
  IN  /\ AtOp(c, SpawnOps)
      /\ \E e \in Selected(c) : tgt' = [tgt EXCEPT ![c] = e]
      /\ obj' = [obj EXCEPT ![c] = TheCall(c).task]
      /\ rr' = IF TheCall(c).op = "spawn_global" THEN rr + 1 ELSE rr
      /\ readers' = IF kicked THEN readers \cup {c} ELSE readers
      /\ Goto(c, IF kicked THEN "spawn_push" ELSE "spawn")
      /\ UNCHANGED <<list, queueVars, timerVars, kickVars, cur, flag, taskVars>>

\* Executor::spawn, called by the spawn_* functions or on its own.
SpawnPush(c) ==
  /\ pc[c] = "spawn_push"
  /\ PushBack(tgt[c], obj[c], "kick")
  /\ home' = [home EXCEPT ![obj[c]] = tgt[c]]
  /\ Goto(c, "spawn_noise")
  /\ UNCHANGED <<listVars, timerVars, kickVars, coreVars, ip, yielded, data, waker, done>>

Spawn(c) ==
  /\ pc[c] = "spawn"
  /\ PushBack(tgt[c], obj[c], "bare")
  /\ home' = [home EXCEPT ![obj[c]] = tgt[c]]
  /\ AdvanceIp(c)
  /\ Goto(c, "exec")
  /\ UNCHANGED <<listVars, timerVars, kickVars, coreVars, yielded, data, waker, done>>

SpawnNoise(c) ==
  /\ pc[c] = "spawn_noise"
  /\ flag' = [flag EXCEPT ![c] = noise[tgt[c]]]
  /\ noise' = [noise EXCEPT ![tgt[c]] = TRUE]
  /\ Goto(c, "spawn_online")
  /\ UNCHANGED <<listVars, queueVars, timerVars, online, irr, cur, obj, tgt, taskVars>>

\* Slip: only `online' decides about the IPI.
SpawnOnlineOnly(c) ==
  /\ pc[c] = "spawn_online"
  /\ flag' = [flag EXCEPT ![c] = ~ online[tgt[c]]]
  /\ readers' = readers \ {c}
  /\ Goto(c, "spawn_ipi")
  /\ UNCHANGED <<list, rr, queueVars, timerVars, kickVars, cur, obj, tgt, taskVars>>

SpawnOnline(c) ==
  /\ pc[c] = "spawn_online"
  /\ flag' = [flag EXCEPT ![c] = ~ @ \/ ~ online[tgt[c]]]
  /\ readers' = readers \ {c}
  /\ Goto(c, "spawn_ipi")
  /\ UNCHANGED <<list, rr, queueVars, timerVars, kickVars, cur, obj, tgt, taskVars>>

SpawnIpi(c) ==
  /\ pc[c] = "spawn_ipi"
  /\ irr' = [irr EXCEPT ![tgt[c]] = @ \/ flag[c]]
  /\ AdvanceIp(c)
  /\ Goto(c, "exec")
  /\ UNCHANGED <<listVars, queueVars, timerVars, noise, online, coreVars,
                 yielded, home, data, waker, done>>

-----------------------------------------------------------------------------
(* The futures a task awaits.  Ready lets the program go on in the same    *)
(* poll, Pending ends the poll.                                            *)

\* JoinHandle::poll and TimerFuture::poll returning Ready.
JoinReady(c) ==
  /\ AtOp(c, {"join"}) /\ data[TheCall(c).task]
  /\ data' = [data EXCEPT ![TheCall(c).task] = FALSE]
  /\ AdvanceIp(c)
  /\ UNCHANGED <<listVars, queueVars, timerVars, kickVars, pc, coreVars, yielded, home, waker, done>>

TimerReady(c) ==
  /\ AtOp(c, {"timer", "ticket"}) /\ left[cur[c]] = 0
  /\ left' = [left EXCEPT ![cur[c]] = -1]
  /\ AdvanceIp(c)
  /\ UNCHANGED <<listVars, queueVars, tickets, gsTickets, kickVars, pc, coreVars,
                 yielded, home, data, waker, done>>

TimerNew(c) ==
  /\ AtOp(c, {"timer", "ticket"}) /\ left[cur[c]] = -1
  /\ left' = [left EXCEPT ![cur[c]] = TheCall(c).arg]
  /\ UNCHANGED <<listVars, queueVars, tickets, gsTickets, kickVars, pc, coreVars, taskVars>>

\* YieldNow::poll: the first time it wakes its own task and is Pending, the
\* second time it is Ready.
YieldNow(c) ==
  LET t == cur[c]
  IN  /\ AtOp(c, {"yield_now"})
      /\ yielded' = [yielded EXCEPT ![t] = ~ @]
      /\ IF yielded[t]
         THEN AdvanceIp(c) /\ UNCHANGED <<pc, obj, tgt>>
         ELSE /\ obj' = [obj EXCEPT ![c] = t] /\ tgt' = [tgt EXCEPT ![c] = c]
              /\ Goto(c, "wake") /\ UNCHANGED ip
      /\ UNCHANGED <<listVars, queueVars, timerVars, kickVars, cur, flag, home, data, waker, done>>

\* The data lock is held over the check and the store of the waker, so the
\* finishing task either stores its result first or finds the waker.
JoinPending(c) ==
  /\ AtOp(c, {"join"}) /\ ~ data[TheCall(c).task]
  /\ waker' = [waker EXCEPT ![TheCall(c).task] = cur[c]]
  /\ Goto(c, "poll_returns")
  /\ UNCHANGED <<listVars, queueVars, timerVars, kickVars, coreVars, ip, yielded, home, data, done>>

\* What TimerFuture would do if it registered with the executor.
TimerPendingInTickets(c) ==
  /\ AtOp(c, {"timer"}) /\ left[cur[c]] > 0
  /\ tickets' = [tickets EXCEPT ![c] = @ \cup {cur[c]}]
  /\ Goto(c, "poll_returns")
  /\ UNCHANGED <<listVars, queueVars, gsTickets, left, kickVars, coreVars, taskVars>>

\* TimerFuture registers with the CoreExecutor of the GS block.
TimerPending(c) ==
  /\ AtOp(c, {"timer"}) /\ left[cur[c]] > 0
  /\ gsTickets' = [gsTickets EXCEPT ![c] = @ \cup {cur[c]}]
  /\ Goto(c, "poll_returns")
  /\ UNCHANGED <<listVars, queueVars, tickets, left, kickVars, coreVars, taskVars>>

\* A future that registers with the executor itself, through get_core_inner()
\* and the public field tickets.
TicketPending(c) ==
  /\ AtOp(c, {"ticket"}) /\ left[cur[c]] > 0
  /\ tickets' = [tickets EXCEPT ![c] = @ \cup {cur[c]}]
  /\ Goto(c, "poll_returns")
  /\ UNCHANGED <<listVars, queueVars, gsTickets, left, kickVars, coreVars, taskVars>>

PendingForever(c) ==
  /\ AtOp(c, {"pending"})
  /\ Goto(c, "poll_returns")
  /\ UNCHANGED <<listVars, queueVars, timerVars, kickVars, coreVars, taskVars>>

\* Slips at the end of a task: the waker is not looked for, or woken but not taken.
FinishDataOnly(c) ==
  /\ pc[c] = "exec" /\ ~ IsBoot(cur[c]) /\ ~ AtCall(c)
  /\ data' = [data EXCEPT ![cur[c]] = TRUE]
  /\ Goto(c, "poll_returns")
  /\ UNCHANGED <<listVars, queueVars, timerVars, kickVars, coreVars, ip, yielded, home, waker, done>>
FinishWakerKeeps(c) ==
  LET w == waker[cur[c]]
  IN  /\ pc[c] = "finish_waker"
      /\ IF w = NoTask
         THEN Goto(c, "poll_returns") /\ UNCHANGED <<obj, tgt>>
         ELSE /\ obj' = [obj EXCEPT ![c] = w] /\ tgt' = [tgt EXCEPT ![c] = home[w]]
              /\ Goto(c, "wake")
      /\ UNCHANGED <<listVars, queueVars, timerVars, kickVars, cur, flag, taskVars>>

\* The future of the task is through: spawn's wrapper stores the result, takes
\* the waker of whoever joined, and wakes it.
FinishData(c) ==
  /\ pc[c] = "exec" /\ ~ IsBoot(cur[c]) /\ ~ AtCall(c)
  /\ data' = [data EXCEPT ![cur[c]] = TRUE]
  /\ Goto(c, "finish_waker")
  /\ UNCHANGED <<listVars, queueVars, timerVars, kickVars, coreVars, ip, yielded, home, waker, done>>

FinishWaker(c) ==
  LET w == waker[cur[c]]
  IN  /\ pc[c] = "finish_waker"
      /\ waker' = [waker EXCEPT ![cur[c]] = NoTask]
      /\ IF w = NoTask
         THEN Goto(c, "poll_returns") /\ UNCHANGED <<obj, tgt>>
         ELSE /\ obj' = [obj EXCEPT ![c] = w] /\ tgt' = [tgt EXCEPT ![c] = home[w]]
              /\ Goto(c, "wake")
      /\ UNCHANGED <<listVars, queueVars, timerVars, kickVars, cur, flag,
                     ip, yielded, home, data, done>>

\* wake and wake_by_ref: no noise, no IPI.
Wake(c) ==
  /\ pc[c] = "wake"
  /\ PushBack(tgt[c], obj[c], "bare")
  /\ Goto(c, "poll_returns")
  /\ UNCHANGED <<listVars, timerVars, kickVars, coreVars, taskVars>>

-----------------------------------------------------------------------------
(* Executor::run. *)

\* One round of check_timers: wake the tickets of a deadline that has passed,
\* or go on when there is none.
CheckTimers(c) ==
  LET due == {t \in tickets[c] : left[t] = 0}
  IN  /\ pc[c] = "check_timers"
      /\ \/ /\ due = {}
            /\ Goto(c, "pop_front")
            /\ UNCHANGED <<queueVars, tickets>>
         \/ \E t \in due :
              /\ PushBack(home[t], t, "bare")
              /\ tickets' = [tickets EXCEPT ![c] = @ \ {t}]
              /\ UNCHANGED pc
      /\ UNCHANGED <<listVars, gsTickets, left, kickVars, coreVars, taskVars>>

\* A slip in run: the guard dropped before the poll.
PopSomeUnlocked(c) ==
  /\ pc[c] = "pop_front" /\ qlock[c] = NoCore /\ queue[c] # <<>>
  /\ cur' = [cur EXCEPT ![c] = Head(queue[c]).task]
  /\ queue' = [queue EXCEPT ![c] = Tail(@)]
  /\ Goto(c, "noise_load")
  /\ UNCHANGED <<listVars, qlock, timerVars, kickVars, obj, tgt, flag, taskVars>>

\* `if let Some(task) = self.inner.task_queue.lock().pop_front()': the guard is a
\* temporary of the scrutinee, it lives to the end of the block that polls.
PopSome(c) ==
  /\ pc[c] = "pop_front" /\ qlock[c] = NoCore /\ queue[c] # <<>>
  /\ cur' = [cur EXCEPT ![c] = Head(queue[c]).task]
  /\ queue' = [queue EXCEPT ![c] = Tail(@)]
  /\ qlock' = [qlock EXCEPT ![c] = c]
  /\ Goto(c, "noise_load")
  /\ UNCHANGED <<listVars, timerVars, kickVars, obj, tgt, flag, taskVars>>

NoiseLoad(c) ==
  /\ pc[c] = "noise_load"
  /\ Goto(c, IF noise[c] THEN "noise_store" ELSE "exec")
  /\ UNCHANGED <<listVars, queueVars, timerVars, kickVars, coreVars, taskVars>>

NoiseStore(c) ==
  /\ pc[c] = "noise_store"
  /\ noise' = [noise EXCEPT ![c] = FALSE]
  /\ Goto(c, "exec")
  /\ UNCHANGED <<listVars, queueVars, timerVars, online, irr, coreVars, taskVars>>

\* poll has returned and the block ends: the queue is unlocked.
PollReturns(c) ==
  /\ pc[c] = "poll_returns"
  /\ done' = IF ip[cur[c]] > Len(Prog[cur[c]]) THEN done \cup {cur[c]} ELSE done
  /\ cur' = [cur EXCEPT ![c] = NoTask]
  /\ qlock' = [qlock EXCEPT ![c] = NoCore]
  /\ Goto(c, "check_timers")
  /\ UNCHANGED <<listVars, queue, timerVars, kickVars, obj, tgt, flag,
                 ip, yielded, home, data, waker>>

\* No task: the else branch runs with interrupts disabled.
PopNone(c) ==
  /\ pc[c] = "pop_front" /\ qlock[c] = NoCore /\ queue[c] = <<>>
  /\ Goto(c, "idle_check")
  /\ UNCHANGED <<listVars, queueVars, timerVars, kickVars, coreVars, taskVars>>

\* Slip on the way to hlt: noise is ignored.
IdleNoiseIgnored(c) ==
  /\ pc[c] = "idle_noise"
  /\ Goto(c, "idle_offline")
  /\ UNCHANGED <<listVars, queueVars, timerVars, kickVars, coreVars, taskVars>>

IdleCheck(c) ==
  /\ pc[c] = "idle_check" /\ qlock[c] = NoCore
  /\ Goto(c, IF tickets[c] = {} /\ queue[c] = <<>> THEN "idle_noise" ELSE "check_timers")
  /\ UNCHANGED <<listVars, queueVars, timerVars, kickVars, coreVars, taskVars>>

IdleNoise(c) ==
  /\ pc[c] = "idle_noise"
  /\ noise' = [noise EXCEPT ![c] = FALSE]
  /\ Goto(c, IF noise[c] THEN "check_timers" ELSE "idle_offline")
  /\ UNCHANGED <<listVars, queueVars, timerVars, online, irr, coreVars, taskVars>>

IdleOffline(c) ==
  /\ pc[c] = "idle_offline"
  /\ online' = [online EXCEPT ![c] = FALSE]
  /\ Goto(c, "hlt")
  /\ UNCHANGED <<listVars, queueVars, timerVars, noise, irr, coreVars, taskVars>>

IdleOnline(c) ==
  /\ pc[c] = "idle_online"
  /\ online' = [online EXCEPT ![c] = TRUE]
  /\ Goto(c, "check_timers")
  /\ UNCHANGED <<listVars, queueVars, timerVars, noise, irr, coreVars, taskVars>>

-----------------------------------------------------------------------------
(* Interrupts and time. *)

\* with_interr keeps interrupts off; enable_and_hlt turns them on as it halts.
InterruptsOff == {"idle_check", "idle_noise", "idle_offline"}

\* The local APIC delivers IPI 65: dummy_interrupt acknowledges it, and a
\* halted core goes on behind its hlt.
DummyInterrupt(c) ==
  /\ irr[c] /\ pc[c] \notin InterruptsOff
  /\ irr' = [irr EXCEPT ![c] = FALSE]
  /\ pc' = [pc EXCEPT ![c] = IF @ = "hlt" THEN "idle_online" ELSE @]
  /\ UNCHANGED <<listVars, queueVars, timerVars, noise, online, coreVars, taskVars>>

\* Another interrupt (vector 33, an NMI) can end the hlt as well.
OtherInterrupt(c) ==
  /\ pc[c] = "hlt"
  /\ Goto(c, "idle_online")
  /\ UNCHANGED <<listVars, queueVars, timerVars, kickVars, coreVars, taskVars>>

Tick ==
  /\ \E t \in Tasks : left[t] > 0
  /\ left' = [t \in Tasks |-> IF left[t] > 0 THEN left[t] - 1 ELSE left[t]]
  /\ UNCHANGED <<listVars, queueVars, tickets, gsTickets, kickVars, pc, coreVars, taskVars>>

Spawning(c) ==
  SpawnFails(c) \/ SpawnSelect(c) \/ Spawn(c) \/ SpawnPush(c) \/ SpawnNoise(c) \/ SpawnOnline(c) \/ SpawnIpi(c)

Polling(c) ==
  \/ JoinReady(c) \/ TimerReady(c) \/ TimerNew(c)
  \/ YieldNow(c) \/ JoinPending(c) \/ TimerPending(c) \/ TicketPending(c) \/ PendingForever(c)
  \/ FinishData(c) \/ FinishWaker(c) \/ Wake(c)

Run(c) ==
  \/ CheckTimers(c) \/ PopSome(c) \/ NoiseLoad(c) \/ NoiseStore(c) \/ PollReturns(c)
  \/ PopNone(c) \/ IdleCheck(c) \/ IdleNoise(c) \/ IdleOffline(c) \/ IdleOnline(c)

\* What core c executes on its own.
Step(c) == New(c) \/ BootEnd(c) \/ Spawning(c) \/ Polling(c) \/ Run(c)

\* Core c spins on the queue lock of executor e, as it spawns or wakes a task.
WaitsFor(c, e) == pc[c] \in {"spawn", "spawn_push", "wake"} /\ tgt[c] = e

Deadlocked(D) == D # {} /\ \A c \in D : \E e \in Cores : WaitsFor(c, e) /\ qlock[e] \in D

\* The cores have stopped for good, each spinning on a lock that one of them holds.
Hung == Deadlocked(Cores) /\ UNCHANGED vars

Next == Tick \/ Hung \/ \E c \in Cores : Step(c) \/ DummyInterrupt(c) \/ OtherInterrupt(c)

Spec == Init /\ [][Next]_vars

\* A core keeps executing, its local APIC delivers what is pending, time passes.
Fairness ==
  /\ \A c \in Cores : WF_vars(Step(c)) /\ WF_vars(DummyInterrupt(c))
  /\ WF_vars(Tick)

FairSpec == Spec /\ Fairness

-----------------------------------------------------------------------------
(* Properties. *)

Labels ==
  {"new", "exec", "spawn", "spawn_push", "spawn_noise", "spawn_online", "spawn_ipi", "finish_waker",
   "wake", "poll_returns", "check_timers", "pop_front", "noise_load", "noise_store", "idle_check",
   "idle_noise", "idle_offline", "hlt", "idle_online"}

\* Type invariant of the executors, the cores and the tasks.
TypeOK ==
  /\ list \in Seq(Cores) /\ rr \in Nat /\ readers \subseteq Cores
  /\ queue \in [Cores -> Seq(Entry)] /\ qlock \in [Cores -> Cores \cup {NoCore}]
  /\ tickets \in [Cores -> SUBSET Tasks] /\ gsTickets \in [Cores -> SUBSET Tasks]
  /\ left \in [Tasks -> Nat \cup {-1}]
  /\ noise \in [Cores -> BOOLEAN] /\ online \in [Cores -> BOOLEAN] /\ irr \in [Cores -> BOOLEAN]
  /\ pc \in [Cores -> Labels]
  /\ cur \in [Cores -> Tasks \cup {NoTask}] /\ obj \in [Cores -> Tasks \cup {NoTask}]
  /\ tgt \in [Cores -> Cores \cup {NoCore}] /\ flag \in [Cores -> BOOLEAN]
  /\ ip \in [Tasks -> Nat \ {0}] /\ yielded \in [Tasks -> BOOLEAN]
  /\ home \in [Tasks -> Cores \cup {NoCore}]
  /\ data \in [Tasks -> BOOLEAN] /\ waker \in [Tasks -> Tasks \cup {NoTask}]
  /\ done \subseteq Tasks

\* A kick for core c that is still to come: the spawner has pushed, and will send IPI 65.
KickComing(c, s) ==
  /\ tgt[s] = c
  /\ \/ pc[s] = "spawn_noise" /\ ~ noise[c]
     \/ pc[s] = "spawn_online" /\ ~ flag[s]
     \/ pc[s] = "spawn_ipi" /\ flag[s]

HasKickEntry(c) == \E i \in 1..Len(queue[c]) : queue[c][i].by = "kick"

\* No lost wake-up: a core does not halt over a task that one of the spawn_*
\* functions pushed, unless the IPI that ends the halt is pending or the spawner
\* is about to send it.  This is what noise, online and the checks of the else
\* branch of run are for, in whatever order the cores take their steps.
NoLostKick ==
  \A c \in Cores : pc[c] = "hlt" /\ HasKickEntry(c) =>
    irr[c] \/ \E s \in Cores : KickComing(c, s)

\* Everything that can still bring task t to be polled: an entry of a queue, a
\* ticket, the waker a join left behind, and a core that is about to wake it.
QueueTokens(t) ==
  UNION {{<<"queue", c, i>> : i \in {k \in 1..Len(queue[c]) : queue[c][k].task = t}} : c \in Cores}
TicketTokens(t) == {<<"ticket", c>> : c \in {k \in Cores : t \in tickets[k]}}
GsTokens(t) == {<<"gs", c>> : c \in {k \in Cores : t \in gsTickets[k]}}
JoinTokens(t) == {<<"join", s>> : s \in {k \in Tasks : waker[k] = t}}
CallTokens(t) == {<<"wake", c>> : c \in {k \in Cores : pc[k] = "wake" /\ obj[k] = t}}

WakeTokens(t) == QueueTokens(t) \cup TicketTokens(t) \cup GsTokens(t) \cup JoinTokens(t) \cup CallTokens(t)

\* Nothing in create_waker keeps a task from being queued twice, and run polls
\* whatever it pops: a task that awaits one future at a time is nevertheless
\* never queued twice, never polled by two cores, and never polled again after
\* its future returned Ready (which would panic).
PolledOnceAtATime ==
  \A t \in Tasks :
    /\ \A x, y \in WakeTokens(t) : x = y
    /\ \A c, d \in Cores : cur[c] = t /\ cur[d] = t => c = d
    /\ t \in done => WakeTokens(t) = {} /\ \A c \in Cores : cur[c] # t

\* A future that is never ready and keeps no waker.
AwaitsNothing(t) == ip[t] <= Len(Prog[t]) /\ Prog[t][ip[t]].op = "pending"

\* No task is forgotten: a task that was spawned and has not finished is queued or
\* being polled, or somebody keeps its waker: a ticket, the JoinInner of the task it
\* awaits, or a core on its way to wake it.  And no joiner is: once spawn's wrapper has
\* stored the result and looked for a waker, none is left behind in the JoinInner.
NoStrandedTask ==
  \A t \in Tasks :
    /\ home[t] # NoCore /\ t \notin done =>
         WakeTokens(t) # {} \/ AwaitsNothing(t) \/ \E c \in Cores : cur[c] = t
    /\ waker[t] # NoTask /\ data[t] =>
         \E c \in Cores : pc[c] = "finish_waker" /\ cur[c] = t

\* The task core c polls; a boot context is not one.
PolledBy(c) == IF qlock[c] = c THEN cur[c] ELSE NoTask

\* The refinement mapping: the queues without who pushed, and the tasks that are
\* neither queued nor polled nor finished.
TasksIn(q) == [i \in 1..Len(q) |-> q[i].task]
ReadyTasks == [c \in Cores |-> TasksIn(queue[c])]
RunningTasks == [c \in Cores |-> PolledBy(c)]
WaitingTasks ==
  {t \in Tasks : /\ home[t] # NoCore /\ t \notin done
                 /\ \A c \in Cores : ~ InQueue(c, t) /\ PolledBy(c) # t}

Sched == INSTANCE TaskSched WITH
  ready <- ReadyTasks, running <- RunningTasks, waiting <- WaitingTasks, finished <- done

\* The executors, with all their locks, flags and wakers, implement TaskSched:
\* FIFO dispatch on the home core, one poll at a time, one poll per wake-up, none
\* after the end.
ImplementsTaskSched == Sched!Spec

\* The queue lock a poll holds is released by nobody else: cores that wait for
\* each other's queue while they poll (or for their own) do so for ever.
DeadlockIsForever == [][\A D \in SUBSET Cores : Deadlocked(D) => Deadlocked(D)']_vars

\* While a task is polled nobody can add to the queue of its core: a spawn or a
\* wake aimed at it waits for the end of the poll.
QueueFrozenWhilePolling ==
  [][\A c \in Cores : qlock[c] = c => queue'[c] = queue[c]]_vars

\* A future that is never ready, or whose waker nobody looks for.
NeverReady(t) == \E i \in 1..Len(Prog[t]) : Prog[t][i].op \in {"pending", "timer"}

\* Task t lies in the queue of a halted core to which a waker or Executor::spawn
\* pushed it: neither of them sets `noise' or sends the IPI.
Overslept(t) ==
  \E c \in Cores : /\ pc[c] = "hlt" /\ ~ irr[c]
                   /\ InQueue(c, t) /\ ~ HasKickEntry(c)

\* In the end every task that was queued has been polled to its end.  Only three
\* things can keep it from that: a future that is never ready, a push without a
\* kick to a core that then halts, and cores that spin on each other's queue.
TasksFinish ==
  <>[](\A t \in Tasks : home[t] # NoCore =>
         \/ t \in done \/ NeverReady(t) \/ Overslept(t)
         \/ \E D \in SUBSET Cores : Deadlocked(D))

\* yield_now wakes the task from within its own poll, whose core holds the lock
\* of the queue the waker pushes to: the core hangs.
YieldHangsCore ==
  \A c \in Cores : AtOp(c, {"yield_now"}) ~> [] Deadlocked({c})

\* Task t has been polled and is left waiting for a TimerFuture.
AwaitsTimer(t) ==
  /\ ip[t] <= Len(Prog[t]) /\ Prog[t][ip[t]].op = "timer" /\ left[t] # -1
  /\ \A c \in Cores : cur[c] # t

\* A TimerFuture that is not ready when it is first polled leaves its waker in
\* the tickets of the GS block, which check_timers does not look at: the task is
\* never polled again.
TimerNeverWakes == [][\A t \in Tasks : AwaitsTimer(t) => AwaitsTimer(t)']_vars
=============================================================================
