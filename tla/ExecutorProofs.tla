--------------------------- MODULE ExecutorProofs ---------------------------
(***************************************************************************)
(* Proofs about Executor for any number of cores and tasks and for any     *)
(* programs: the types, the kicks of idle cores, the queue locks, the      *)
(* places a task can be woken from (no task is polled twice at a time, or  *)
(* forgotten), the timer tickets, and that the executors implement         *)
(* TaskSched.                                                              *)
(***************************************************************************)
EXTENDS Executor, TLAPS

(* Nearly every step is a matter of first-order logic and of the updates of  *)
(* functions; the steps that need arithmetic or sequences say so.            *)
USE ZenonT(30)

-----------------------------------------------------------------------------
(* Sequences, and the tasks of a queue. *)

LEMMA ElementsType ==
  ASSUME NEW S, NEW q \in Seq(S)
  PROVE  Len(q) \in Nat /\ \A i \in 1..Len(q) : q[i] \in S
BY SMTT(30)

LEMMA SameSeq ==
  ASSUME NEW S, NEW p \in Seq(S), NEW q \in Seq(S), Len(p) = Len(q), \A i \in 1..Len(p) : p[i] = q[i]
  PROVE  p = q
BY SMTT(30)

LEMMA AppendFacts ==
  ASSUME NEW S, NEW q \in Seq(S), NEW e
  PROVE  /\ Len(Append(q, e)) = Len(q) + 1 /\ Append(q, e)[Len(q) + 1] = e
         /\ \A i \in 1..Len(q) : Append(q, e)[i] = q[i]
         /\ e \in S => Append(q, e) \in Seq(S)
BY SMTT(30)

LEMMA TailFacts ==
  ASSUME NEW S, NEW q \in Seq(S), q # <<>>
  PROVE  /\ Len(q) \in Nat \ {0} /\ 1 \in 1..Len(q) /\ Head(q) = q[1]
         /\ Tail(q) \in Seq(S) /\ Len(Tail(q)) = Len(q) - 1
         /\ \A i \in 1..Len(Tail(q)) : i + 1 \in 1..Len(q) /\ Tail(q)[i] = q[i + 1]
BY SMTT(30)

LEMMA OneMore ==
  ASSUME NEW n \in Nat
  PROVE  1..(n + 1) = 1..n \cup {n + 1} /\ n + 1 \notin 1..n
BY SMTT(30)

LEMMA OneLess ==
  ASSUME NEW n \in Nat, NEW i \in 1..n, i # 1
  PROVE  i - 1 \in 1..(n - 1) /\ (i - 1) + 1 = i
BY SMTT(30)

LEMMA TasksInSeq ==
  ASSUME NEW q \in Seq(Entry)
  PROVE  TasksIn(q) \in Seq(Tasks) /\ Len(TasksIn(q)) = Len(q) /\ \A i \in 1..Len(q) : TasksIn(q)[i] = q[i].task
<1>1. Len(q) \in Nat /\ \A i \in 1..Len(q) : q[i] \in Entry
  BY ElementsType
<1>2. \A i \in 1..Len(q) : q[i].task \in Tasks
  BY <1>1, SMTT(30) DEF Entry
<1> QED
  BY <1>1, <1>2, SMTT(30) DEF TasksIn

LEMMA TasksInAppend ==
  ASSUME NEW q \in Seq(Entry), NEW e \in Entry
  PROVE  TasksIn(Append(q, e)) = Append(TasksIn(q), e.task)
<1> DEFINE p == Append(q, e)
           s == TasksIn(q)
           r == Append(s, e.task)
<1>1. p \in Seq(Entry) /\ Len(p) = Len(q) + 1 /\ p[Len(q) + 1] = e /\ \A i \in 1..Len(q) : p[i] = q[i]
  BY AppendFacts, SMTT(30)
<1>2. e.task \in Tasks /\ Len(q) \in Nat
  BY ElementsType DEF Entry
<1> HIDE DEF p
<1>3. TasksIn(p) \in Seq(Tasks) /\ Len(TasksIn(p)) = Len(q) + 1
      /\ \A i \in 1..(Len(q) + 1) : TasksIn(p)[i] = p[i].task
  BY <1>1, TasksInSeq
<1>4. s \in Seq(Tasks) /\ Len(s) = Len(q) /\ \A i \in 1..Len(q) : s[i] = q[i].task
  BY TasksInSeq
<1> HIDE DEF s
<1>5. /\ r \in Seq(Tasks) /\ Len(r) = Len(q) + 1 /\ r[Len(q) + 1] = e.task
      /\ \A i \in 1..Len(q) : r[i] = s[i]
  BY <1>2, <1>4, AppendFacts, SMTT(30)
<1> HIDE DEF r
<1>6. \A i \in 1..(Len(q) + 1) : i \in 1..Len(q) \/ i = Len(q) + 1
  BY <1>2, OneMore, SMTT(30)
<1>7. \A i \in 1..(Len(q) + 1) : TasksIn(p)[i] = r[i]
  BY <1>1, <1>3, <1>4, <1>5, <1>6
<1>8. TasksIn(p) = r
  BY <1>3, <1>5, <1>7, SameSeq
<1> QED
  BY <1>8 DEF p, r, s

LEMMA TasksInTail ==
  ASSUME NEW q \in Seq(Entry), q # <<>>
  PROVE  TasksIn(Tail(q)) = Tail(TasksIn(q)) /\ Head(TasksIn(q)) = q[1].task /\ TasksIn(q) # <<>>
<1> DEFINE p == Tail(q)
           s == TasksIn(q)
           r == Tail(s)
<1>1. /\ Len(q) \in Nat \ {0} /\ 1 \in 1..Len(q) /\ p \in Seq(Entry) /\ Len(p) = Len(q) - 1
      /\ \A i \in 1..Len(p) : i + 1 \in 1..Len(q) /\ p[i] = q[i + 1]
  BY TailFacts
<1> HIDE DEF p
<1>2. TasksIn(p) \in Seq(Tasks) /\ Len(TasksIn(p)) = Len(p) /\ \A i \in 1..Len(p) : TasksIn(p)[i] = p[i].task
  BY <1>1, TasksInSeq
<1>3. s \in Seq(Tasks) /\ Len(s) = Len(q) /\ \A i \in 1..Len(q) : s[i] = q[i].task
  BY TasksInSeq
<1> HIDE DEF s
<1>4. s # <<>>
  BY <1>1, <1>3, SMTT(30)
<1>5. /\ r \in Seq(Tasks) /\ Len(r) = Len(q) - 1 /\ Head(s) = s[1]
      /\ \A i \in 1..Len(r) : r[i] = s[i + 1]
  BY <1>3, <1>4, TailFacts
<1> HIDE DEF r
<1>6. \A i \in 1..Len(p) : TasksIn(p)[i] = r[i]
  BY <1>1, <1>2, <1>3, <1>5
<1>7. TasksIn(p) = r
  BY <1>1, <1>2, <1>5, <1>6, SameSeq
<1>8. Head(s) = q[1].task
  BY <1>1, <1>3, <1>5
<1> QED
  BY <1>4, <1>7, <1>8 DEF p, r, s

LEMMA TasksInEmpty == TasksIn(<<>>) = <<>>
<1>1. <<>> \in Seq(Entry) /\ Len(<<>>) = 0
  BY SMTT(30)
<1>2. TasksIn(<<>>) \in Seq(Tasks) /\ Len(TasksIn(<<>>)) = 0
  BY <1>1, TasksInSeq
<1> QED
  BY <1>2, SMTT(30)

-----------------------------------------------------------------------------
(* Types.  TypeOK alone is not inductive: what a core pushes, and where, is *)
(* known only from the label it is at.                                      *)

InTask == {"new", "exec", "spawn", "spawn_push", "spawn_noise", "spawn_online", "spawn_ipi",
           "finish_waker", "wake", "poll_returns", "noise_load", "noise_store"}
Pushing == {"spawn", "spawn_push", "wake"}
Spawns == {"spawn", "spawn_push", "spawn_noise", "spawn_online", "spawn_ipi"}

ControlInv ==
  \A c \in Cores :
    /\ pc[c] \in InTask => cur[c] \in Tasks
    /\ pc[c] \in Pushing => obj[c] \in Tasks
    /\ pc[c] \in Spawns => tgt[c] \in Cores

TypeInv == TypeOK /\ ControlInv

\* A call of a program is a call.
LEMMA TheCallType ==
  ASSUME TypeInv, NEW c \in Cores, AtCall(c)
  PROVE  TheCall(c) \in Call
<1>1. cur[c] \in Tasks /\ ip[cur[c]] \in Nat \ {0}
  BY DEF TypeInv, TypeOK, ControlInv, AtCall, InTask
<1>2. Prog[cur[c]] \in Seq(Call)
  BY <1>1, ConstantsAssumption
<1> QED
  BY <1>1, <1>2, SMTT(30) DEF AtCall, TheCall

\* The spawn functions select an executor of a core.
LEMMA SelectedType ==
  ASSUME TypeInv, NEW c
  PROVE  Selected(c) \subseteq Cores
<1>1. \A i \in 1..Len(list) : list[i] \in Cores
  BY SMTT(30) DEF TypeInv, TypeOK
<1>2. \A e \in Selected(c) : \E i \in 1..Len(list) : e = list[i]
  BY DEF Selected
<1> QED
  BY <1>1, <1>2

LEMMA PushBackType ==
  ASSUME TypeInv, NEW c, NEW t \in Tasks, NEW by \in {"kick", "bare"}, PushBack(c, t, by)
  PROVE  queue' \in [Cores -> Seq(Entry)] /\ qlock' = qlock
<1>1. [task |-> t, by |-> by] \in Entry
  BY DEF Entry
<1>2. \A q \in Seq(Entry) : Append(q, [task |-> t, by |-> by]) \in Seq(Entry)
  BY <1>1, SMTT(30)
<1> QED
  BY <1>2 DEF PushBack, TypeInv, TypeOK

\* Init establishes the types.
LEMMA TypeInit == Init => TypeInv
BY ConstantsAssumption, SMTT(30) DEF Init, TypeInv, TypeOK, ControlInv, Labels, InTask, Pushing, Spawns

LEMMA TypeSpawning ==
  ASSUME TypeInv, NEW c \in Cores, Spawning(c)
  PROVE  TypeInv'
<1> USE DEF TypeInv, TypeOK, ControlInv, Labels, InTask, Pushing, Spawns,
            listVars, queueVars, timerVars, kickVars, coreVars, taskVars, Goto, AdvanceIp
<1>1. CASE SpawnFails(c)
  BY <1>1, SMTT(30) DEF SpawnFails, AtOp, AtCall
<1>2. CASE SpawnSelect(c)
  <2>1. AtCall(c)
    BY <1>2 DEF SpawnSelect, AtOp
  <2>2. TheCall(c).task \in Tasks
    BY <2>1, TheCallType DEF Call
  <2>3. Selected(c) \subseteq Cores
    BY SelectedType
  <2>4. cur[c] \in Tasks
    BY <2>1 DEF AtCall
  <2> QED
    BY <1>2, <2>2, <2>3, <2>4, SMTT(30) DEF SpawnSelect
<1>3. CASE Spawn(c)
  <2>1. queue' \in [Cores -> Seq(Entry)] /\ qlock' = qlock
    BY <1>3, PushBackType DEF Spawn
  <2>2. ip' \in [Tasks -> Nat \ {0}] /\ home' \in [Tasks -> Cores \cup {NoCore}]
    BY <1>3, SMTT(30) DEF Spawn
  <2>3. pc' = [pc EXCEPT ![c] = "exec"] /\ cur[c] \in Tasks
    BY <1>3 DEF Spawn
  <2>4. UNCHANGED <<listVars, timerVars, kickVars, coreVars, yielded, data, waker, done>>
    BY <1>3 DEF Spawn
  <2> QED
    BY <2>1, <2>2, <2>3, <2>4
<1>4. CASE SpawnPush(c)
  <2>1. queue' \in [Cores -> Seq(Entry)] /\ qlock' = qlock
    BY <1>4, PushBackType DEF SpawnPush
  <2> QED
    BY <1>4, <2>1 DEF SpawnPush
<1>5. CASE SpawnNoise(c)
  BY <1>5 DEF SpawnNoise
<1>6. CASE SpawnOnline(c)
  BY <1>6 DEF SpawnOnline
<1>7. CASE SpawnIpi(c)
  BY <1>7, SMTT(30) DEF SpawnIpi
<1> QED
  BY <1>1, <1>2, <1>3, <1>4, <1>5, <1>6, <1>7 DEF Spawning

LEMMA TypePolling ==
  ASSUME TypeInv, NEW c \in Cores, Polling(c)
  PROVE  TypeInv'
<1> USE DEF TypeInv, TypeOK, ControlInv, Labels, InTask, Pushing, Spawns,
            listVars, queueVars, timerVars, kickVars, coreVars, taskVars, Goto, AdvanceIp
<1>1. CASE JoinReady(c)
  <2>1. cur[c] \in Tasks
    BY <1>1 DEF JoinReady, AtOp, AtCall
  <2>2. ip' \in [Tasks -> Nat \ {0}]
    BY <1>1, <2>1, SMTT(30) DEF JoinReady
  <2>4. data' \in [Tasks -> BOOLEAN]
    <3> DEFINE k == TheCall(c).task
    <3>1. data' = [data EXCEPT ![k] = FALSE]
      BY <1>1 DEF JoinReady
    <3> HIDE DEF k
    <3> QED
      BY <3>1
  <2>3. UNCHANGED <<listVars, queueVars, timerVars, kickVars, pc, coreVars,
                    yielded, home, waker, done>>
    BY <1>1 DEF JoinReady
  <2> QED
    BY <2>2, <2>3, <2>4
<1>2. CASE TimerReady(c)
  BY <1>2, SMTT(30) DEF TimerReady, AtOp, AtCall
<1>3. CASE TimerNew(c)
  <2>1. TheCall(c).arg \in Nat
    BY <1>3, TheCallType DEF TimerNew, AtOp, Call
  <2> QED
    BY <1>3, <2>1 DEF TimerNew
<1>4. CASE YieldNow(c)
  <2>1. cur[c] \in Tasks
    BY <1>4 DEF YieldNow, AtOp, AtCall
  <2>2. yielded' \in [Tasks -> BOOLEAN]
    BY <1>4, <2>1 DEF YieldNow
  <2>3. UNCHANGED <<listVars, queueVars, timerVars, kickVars, cur, flag, home, data, waker, done>>
    BY <1>4 DEF YieldNow
  <2>4. CASE AdvanceIp(c) /\ UNCHANGED <<pc, obj, tgt>>
    BY <2>1, <2>2, <2>3, <2>4, SMTT(30)
  <2>5. CASE /\ obj' = [obj EXCEPT ![c] = cur[c]] /\ tgt' = [tgt EXCEPT ![c] = c]
             /\ Goto(c, "wake") /\ UNCHANGED ip
    BY <2>1, <2>2, <2>3, <2>5
  <2> QED
    BY <1>4, <2>4, <2>5 DEF YieldNow
<1>5. CASE JoinPending(c)
  BY <1>5 DEF JoinPending, AtOp, AtCall
<1>6. CASE TimerPending(c)
  BY <1>6 DEF TimerPending, AtOp, AtCall
<1>7. CASE TicketPending(c)
  BY <1>7 DEF TicketPending, AtOp, AtCall
<1>8. CASE PendingForever(c)
  BY <1>8 DEF PendingForever, AtOp, AtCall
<1>9. CASE FinishData(c)
  BY <1>9 DEF FinishData
<1>10. CASE FinishWaker(c)
  <2>1. cur[c] \in Tasks
    BY <1>10 DEF FinishWaker
  <2>2. waker' \in [Tasks -> Tasks \cup {NoTask}]
    BY <1>10, <2>1 DEF FinishWaker
  <2>3. UNCHANGED <<listVars, queueVars, timerVars, kickVars, cur, flag, ip, yielded, home, data, done>>
    BY <1>10 DEF FinishWaker
  <2>4. CASE Goto(c, "poll_returns") /\ UNCHANGED <<obj, tgt>>
    BY <2>1, <2>2, <2>3, <2>4
  <2>5. CASE waker[cur[c]] # NoTask
    <3> DEFINE w == waker[cur[c]]
    <3>1. w \in Tasks /\ home[w] \in Cores \cup {NoCore}
      BY <2>1, <2>5
    <3>2. /\ obj' = [obj EXCEPT ![c] = w] /\ tgt' = [tgt EXCEPT ![c] = home[w]]
          /\ pc' = [pc EXCEPT ![c] = "wake"]
      BY <1>10, <2>5 DEF FinishWaker
    <3> HIDE DEF w
    <3> QED
      BY <2>1, <2>2, <2>3, <3>1, <3>2
  <2> QED
    BY <1>10, <2>4, <2>5 DEF FinishWaker
<1>11. CASE Wake(c)
  <2>1. queue' \in [Cores -> Seq(Entry)] /\ qlock' = qlock
    BY <1>11, PushBackType DEF Wake
  <2> QED
    BY <1>11, <2>1 DEF Wake
<1> QED
  BY <1>1, <1>2, <1>3, <1>4, <1>5, <1>6, <1>7, <1>8, <1>9, <1>10, <1>11 DEF Polling

LEMMA TypeRun ==
  ASSUME TypeInv, NEW c \in Cores, Run(c)
  PROVE  TypeInv'
<1> USE DEF TypeInv, TypeOK, ControlInv, Labels, InTask, Pushing, Spawns,
            listVars, queueVars, timerVars, kickVars, coreVars, taskVars, Goto
<1>1. CASE CheckTimers(c)
  <2>1. CASE UNCHANGED <<queueVars, tickets>> /\ Goto(c, "pop_front")
    BY <1>1, <2>1 DEF CheckTimers
  <2>2. CASE \E t \in tickets[c] :
               /\ PushBack(home[t], t, "bare")
               /\ tickets' = [tickets EXCEPT ![c] = @ \ {t}]
               /\ UNCHANGED pc
    <3>1. PICK t \in tickets[c] :
               /\ PushBack(home[t], t, "bare")
               /\ tickets' = [tickets EXCEPT ![c] = @ \ {t}]
               /\ UNCHANGED pc
      BY <2>2
    <3>2. queue' \in [Cores -> Seq(Entry)] /\ qlock' = qlock
      BY <3>1, PushBackType
    <3> QED
      BY <1>1, <3>1, <3>2 DEF CheckTimers
  <2> QED
    BY <1>1, <2>1, <2>2 DEF CheckTimers
<1>2. CASE PopSome(c)
  <2>1. Head(queue[c]).task \in Tasks /\ Tail(queue[c]) \in Seq(Entry)
    <3>1. queue[c] \in Seq(Entry) /\ queue[c] # <<>>
      BY <1>2 DEF PopSome
    <3>2. Head(queue[c]) \in Entry /\ Tail(queue[c]) \in Seq(Entry)
      BY <3>1, SMTT(30)
    <3> QED
      BY <3>2 DEF Entry
  <2> QED
    BY <1>2, <2>1 DEF PopSome
<1>3. CASE NoiseLoad(c)
  BY <1>3 DEF NoiseLoad
<1>4. CASE NoiseStore(c)
  BY <1>4 DEF NoiseStore
<1>5. CASE PollReturns(c)
  BY <1>5 DEF PollReturns
<1>6. CASE PopNone(c)
  BY <1>6 DEF PopNone
<1>7. CASE IdleCheck(c)
  BY <1>7 DEF IdleCheck
<1>8. CASE IdleNoise(c)
  BY <1>8 DEF IdleNoise
<1>9. CASE IdleOffline(c)
  BY <1>9 DEF IdleOffline
<1>10. CASE IdleOnline(c)
  BY <1>10 DEF IdleOnline
<1> QED
  BY <1>1, <1>2, <1>3, <1>4, <1>5, <1>6, <1>7, <1>8, <1>9, <1>10 DEF Run

\* Every step keeps the types.
LEMMA TypeStep == TypeInv /\ [Next]_vars => TypeInv'
<1> SUFFICES ASSUME TypeInv, [Next]_vars
             PROVE  TypeInv'
  OBVIOUS
<1> USE DEF TypeInv, TypeOK, ControlInv, Labels, InTask, Pushing, Spawns,
            listVars, queueVars, timerVars, kickVars, coreVars, taskVars, Goto
<1>1. CASE Tick
  BY <1>1, SMTT(30) DEF Tick
<1>2. ASSUME NEW c \in Cores, Step(c)
      PROVE  TypeInv'
  <2>1. CASE New(c)
    BY <2>1, SMTT(30) DEF New
  <2>2. CASE BootEnd(c)
    BY <2>2 DEF BootEnd
  <2> QED
    BY <1>2, <2>1, <2>2, TypeSpawning, TypePolling, TypeRun DEF Step
<1>3. ASSUME NEW c \in Cores, DummyInterrupt(c)
      PROVE  TypeInv'
  <2>1. irr' \in [Cores -> BOOLEAN]
    BY <1>3 DEF DummyInterrupt
  <2>2. pc' \in [Cores -> Labels] /\ \A d \in Cores : pc'[d] = pc[d] \/ pc'[d] = "idle_online"
    BY <1>3 DEF DummyInterrupt
  <2> QED
    BY <1>3, <2>1, <2>2 DEF DummyInterrupt
<1>5. ASSUME NEW c \in Cores, OtherInterrupt(c)
      PROVE  TypeInv'
  BY <1>5 DEF OtherInterrupt
<1>4. CASE UNCHANGED vars
  BY <1>4 DEF vars
<1> QED
  BY <1>1, <1>2, <1>3, <1>4, <1>5 DEF Next, Hung

\* Type correctness of the executors, for any cores, tasks and programs.
THEOREM TypeCorrect == Spec => []TypeOK
<1>1. TypeInv => TypeOK
  BY DEF TypeInv
<1> QED
  BY <1>1, TypeInit, TypeStep, PTL DEF Spec

-----------------------------------------------------------------------------
(* No lost wake-up.  The argument is about a core on its way into hlt: from *)
(* the moment it has cleared `noise' to the end of the halt, `noise' is set *)
(* again only by a spawner that finds it clear and so will send the IPI,    *)
(* and before that moment a spawner that has pushed has yet to set it.      *)

\* A spawner that has decided to send the IPI to core c, or is bound to.
Committed(c, s) ==
  /\ tgt[s] = c
  /\ \/ pc[s] = "spawn_online" /\ ~ flag[s]
     \/ pc[s] = "spawn_ipi" /\ flag[s]

KickInvAt(c) ==
  /\ pc[c] \in {"idle_offline", "hlt"} /\ noise[c] =>
       irr[c] \/ \E s \in Cores : Committed(c, s)
  /\ pc[c] \in {"idle_offline", "hlt"} /\ HasKickEntry(c) =>
       irr[c] \/ \E s \in Cores : KickComing(c, s)
  /\ pc[c] = "idle_noise" /\ HasKickEntry(c) =>
       noise[c] \/ \E s \in Cores : tgt[s] = c /\ pc[s] = "spawn_noise"

KickInv == \A c \in Cores : KickInvAt(c)

Going == {"idle_noise", "idle_offline", "hlt"}
Kicking == {"spawn_noise", "spawn_online", "spawn_ipi"}

\* A waker or Executor::spawn adds no entry that a kick has to follow.
LEMMA BarePush ==
  ASSUME TypeInv, NEW e, NEW t, PushBack(e, t, "bare"), NEW d \in Cores, HasKickEntry(d)'
  PROVE  HasKickEntry(d)
<1>1. queue[d] \in Seq(Entry)
  BY DEF TypeInv, TypeOK
<1>2. CASE queue'[d] = queue[d]
  BY <1>2 DEF HasKickEntry
<1>3. CASE queue'[d] = Append(queue[d], [task |-> t, by |-> "bare"])
  <2>1. PICK i \in 1..Len(queue'[d]) : queue'[d][i].by = "kick"
    BY DEF HasKickEntry
  <2>2. i \in 1..Len(queue[d]) /\ queue'[d][i] = queue[d][i]
    BY <1>1, <1>3, <2>1, SMTT(30)
  <2> QED
    BY <2>1, <2>2 DEF HasKickEntry
<1> QED
  BY <1>2, <1>3 DEF PushBack, TypeInv, TypeOK

\* What keeps the three facts about core d.
KickKept(d) ==
  /\ pc'[d] = pc[d] /\ noise'[d] = noise[d] /\ (irr[d] => irr'[d])
  /\ HasKickEntry(d)' => HasKickEntry(d)
  /\ \A s \in Cores : Committed(d, s) => irr'[d] \/ Committed(d, s)'
  /\ \A s \in Cores : KickComing(d, s) => irr'[d] \/ KickComing(d, s)'
  /\ \A s \in Cores : tgt[s] = d /\ pc[s] = "spawn_noise" => tgt'[s] = d /\ pc'[s] = "spawn_noise"

LEMMA KickKeeps ==
  ASSUME NEW d \in Cores, KickInvAt(d), KickKept(d)
  PROVE  KickInvAt(d)'
<1>1. CASE pc[d] \in {"idle_offline", "hlt"}
  <2>1. noise'[d] => irr'[d] \/ \E s \in Cores : Committed(d, s)'
    BY <1>1 DEF KickInvAt, KickKept
  <2>2. HasKickEntry(d)' => irr'[d] \/ \E s \in Cores : KickComing(d, s)'
    BY <1>1 DEF KickInvAt, KickKept
  <2> QED
    BY <1>1, <2>1, <2>2 DEF KickInvAt, KickKept
<1>2. CASE pc[d] = "idle_noise"
  BY <1>2 DEF KickInvAt, KickKept
<1>3. CASE pc[d] \notin {"idle_offline", "hlt", "idle_noise"}
  BY <1>3 DEF KickInvAt, KickKept
<1> QED
  BY <1>1, <1>2, <1>3

\* A step of core c that neither sends, sets noise nor goes to halt.
KickQuiet(c) ==
  /\ pc[c] \notin Kicking /\ (pc'[c] \in Going => pc'[c] = pc[c])
  /\ \A d \in Cores \ {c} : pc'[d] = pc[d] /\ tgt'[d] = tgt[d] /\ flag'[d] = flag[d]
  /\ \A d \in Cores : HasKickEntry(d)' => HasKickEntry(d)
  /\ UNCHANGED <<noise, irr>>

LEMMA KickFrame ==
  ASSUME KickInv, NEW c \in Cores, KickQuiet(c)
  PROVE  KickInv'
<1> SUFFICES ASSUME NEW d \in Cores, pc'[d] \in Going
             PROVE  KickInvAt(d)'
  BY DEF KickInv, KickInvAt, Going
<1>1. pc'[d] = pc[d]
  BY DEF KickQuiet
<1>2. \A s \in Cores : pc[s] \in Kicking =>
         pc'[s] = pc[s] /\ tgt'[s] = tgt[s] /\ flag'[s] = flag[s]
  BY DEF KickQuiet
<1>3. \A s \in Cores : Committed(d, s) => Committed(d, s)'
  BY <1>2 DEF Committed, Kicking
<1>4. \A s \in Cores : KickComing(d, s) => KickComing(d, s)'
  BY <1>2 DEF KickComing, Kicking, KickQuiet
<1>5. \A s \in Cores : tgt[s] = d /\ pc[s] = "spawn_noise" => tgt'[s] = d /\ pc'[s] = "spawn_noise"
  BY <1>2 DEF Kicking
<1>6. KickKept(d)
  BY <1>1, <1>3, <1>4, <1>5 DEF KickKept, KickQuiet
<1> QED
  BY <1>6, KickKeeps DEF KickInv

LEMMA KickSpawning ==
  ASSUME TypeInv, KickInv, NEW c \in Cores, Spawning(c)
  PROVE  KickInv'
<1> USE DEF listVars, queueVars, timerVars, kickVars, coreVars, taskVars, Going, Kicking
<1>a. pc \in [Cores -> Labels] /\ tgt \in [Cores -> Cores \cup {NoCore}]
  BY DEF TypeInv, TypeOK
<1>1. CASE SpawnFails(c)
  BY <1>1, <1>a, KickFrame DEF SpawnFails, AtOp, AtCall, HasKickEntry, KickQuiet
<1>2. CASE SpawnSelect(c)
  <2> DEFINE label == IF TheCall(c).op \in SpawnKicked THEN "spawn_push" ELSE "spawn"
  <2>1. pc' = [pc EXCEPT ![c] = label] /\ pc[c] = "exec" /\ label \notin Going
    BY <1>2 DEF SpawnSelect, Goto, AtOp, AtCall
  <2>2. UNCHANGED <<queue, noise, irr, flag>> /\ \A s \in Cores \ {c} : tgt'[s] = tgt[s]
    BY <1>2, <1>a DEF SpawnSelect
  <2> HIDE DEF label
  <2>q. KickQuiet(c)
    BY <2>1, <2>2, <1>a DEF KickQuiet, HasKickEntry
  <2> QED
    BY <2>q, KickFrame
<1>3. CASE Spawn(c)
  <2>1. \A d \in Cores : HasKickEntry(d)' => HasKickEntry(d)
    BY <1>3, BarePush DEF Spawn
  <2>2. /\ pc[c] = "spawn" /\ pc' = [pc EXCEPT ![c] = "exec"]
        /\ UNCHANGED <<noise, irr, tgt, flag>>
    BY <1>3 DEF Spawn, Goto
  <2>q. KickQuiet(c)
    BY <2>1, <2>2, <1>a DEF KickQuiet
  <2> QED
    BY <2>q, KickFrame
<1>4. CASE SpawnPush(c)
  <2>1. /\ pc[c] = "spawn_push" /\ pc' = [pc EXCEPT ![c] = "spawn_noise"]
        /\ UNCHANGED <<noise, irr, tgt, flag>>
    BY <1>4 DEF SpawnPush, Goto
  <2>2. \A d \in Cores \ {tgt[c]} : HasKickEntry(d)' => HasKickEntry(d)
    BY <1>4, <1>a DEF SpawnPush, PushBack, HasKickEntry, TypeInv, TypeOK
  <2>3. \A d, s \in Cores : Committed(d, s) => Committed(d, s)'
    BY <2>1, <1>a DEF Committed
  <2>4. \A d, s \in Cores : KickComing(d, s) => KickComing(d, s)'
    BY <2>1, <1>a DEF KickComing
  <2>5. \A d \in Cores : noise[d] \/ d # tgt[c] \/ KickComing(d, c)'
    BY <2>1, <1>a DEF KickComing
  <2>6. SUFFICES ASSUME NEW d \in Cores, pc'[d] \in Going
                 PROVE  KickInvAt(d)'
    BY DEF KickInv, KickInvAt
  <2>7. pc'[d] = pc[d]
    BY <2>1, <2>6, <1>a
  <2>8. \A s \in Cores : Committed(d, s) => KickComing(d, s)
    BY DEF Committed, KickComing
  <2>9. CASE d = tgt[c]
    <3>1. KickInvAt(d)
      BY DEF KickInv
    <3>2. CASE noise[d]
      BY <2>1, <2>3, <2>7, <2>8, <3>1, <3>2 DEF KickInvAt, Committed, KickComing
    <3>3. CASE ~ noise[d]
      BY <2>1, <2>5, <2>7, <2>9, <3>3, SMTT(30) DEF KickInvAt, KickComing
    <3> QED
      BY <3>2, <3>3
  <2>10. CASE d # tgt[c]
    <3>1. \A s \in Cores : tgt[s] = d /\ pc[s] = "spawn_noise" => tgt'[s] = d /\ pc'[s] = "spawn_noise"
      BY <2>1, <1>a
    <3>2. KickKept(d)
      BY <2>1, <2>2, <2>3, <2>4, <2>7, <2>10, <3>1 DEF KickKept
    <3> QED
      BY <3>2, KickKeeps DEF KickInv
  <2> QED
    BY <2>9, <2>10
<1>5. CASE SpawnNoise(c)
  <2>1. /\ pc[c] = "spawn_noise" /\ pc' = [pc EXCEPT ![c] = "spawn_online"]
        /\ flag' = [flag EXCEPT ![c] = noise[tgt[c]]] /\ noise' = [noise EXCEPT ![tgt[c]] = TRUE]
        /\ UNCHANGED <<queue, irr, tgt>> /\ tgt[c] \in Cores
    BY <1>5 DEF SpawnNoise, Goto, TypeInv, ControlInv, Spawns
  <2>2. noise \in [Cores -> BOOLEAN] /\ flag \in [Cores -> BOOLEAN]
    BY DEF TypeInv, TypeOK
  <2>3. SUFFICES ASSUME NEW d \in Cores, pc'[d] \in Going
                 PROVE  KickInvAt(d)'
    BY DEF KickInv, KickInvAt
  <2>4. pc'[d] = pc[d] /\ (HasKickEntry(d)' <=> HasKickEntry(d))
    BY <2>1, <2>3, <1>a DEF HasKickEntry
  <2>5. \A s \in Cores : Committed(d, s) => Committed(d, s)' /\ KickComing(d, s)'
    BY <2>1, <2>2, <1>a DEF Committed, KickComing
  <2>6. CASE d # tgt[c]
    <3>1. \A s \in Cores : KickComing(d, s) => KickComing(d, s)'
      BY <2>1, <2>2, <2>6, <1>a DEF KickComing
    <3>2. \A s \in Cores : tgt[s] = d /\ pc[s] = "spawn_noise" => tgt'[s] = d /\ pc'[s] = "spawn_noise"
      BY <2>1, <2>6, <1>a
    <3>3. noise'[d] = noise[d]
      BY <2>1, <2>2, <2>6
    <3>4. irr'[d] = irr[d]
      BY <2>1
    <3>5. KickKept(d)
      BY <2>4, <2>5, <3>1, <3>2, <3>3, <3>4 DEF KickKept
    <3> QED
      BY <3>5, KickKeeps DEF KickInv
  <2>7. CASE d = tgt[c] /\ noise[d]
    <3>1. noise'[d] /\ irr'[d] = irr[d]
      BY <2>1, <2>2, <2>7
    <3>2. KickInvAt(d)
      BY DEF KickInv
    <3> QED
      BY <2>4, <2>5, <2>7, <3>1, <3>2 DEF KickInvAt
  <2>8. CASE d = tgt[c] /\ ~ noise[d]
    <3>1. Committed(d, c)' /\ KickComing(d, c)'
      BY <2>1, <2>2, <2>8, <1>a DEF Committed, KickComing
    <3>2. noise'[d]
      BY <2>1, <2>2, <2>8
    <3> QED
      BY <2>4, <3>1, <3>2 DEF KickInvAt
  <2> QED
    BY <2>6, <2>7, <2>8
<1>6. CASE SpawnOnline(c)
  <2>1. /\ pc[c] = "spawn_online" /\ pc' = [pc EXCEPT ![c] = "spawn_ipi"]
        /\ flag' = [flag EXCEPT ![c] = ~ flag[c] \/ ~ online[tgt[c]]]
        /\ UNCHANGED <<queue, irr, tgt, noise>>
    BY <1>6 DEF SpawnOnline, Goto
  <2>2. flag \in [Cores -> BOOLEAN] /\ online \in [Cores -> BOOLEAN]
    BY DEF TypeInv, TypeOK
  <2>3. SUFFICES ASSUME NEW d \in Cores, pc'[d] \in Going
                 PROVE  KickInvAt(d)'
    BY DEF KickInv, KickInvAt
  <2>4. pc'[d] = pc[d] /\ (HasKickEntry(d)' <=> HasKickEntry(d))
    BY <2>1, <2>3, <1>a DEF HasKickEntry
  <2>5. \A s \in Cores : Committed(d, s) => Committed(d, s)'
    BY <2>1, <2>2, <1>a DEF Committed
  <2>6. \A s \in Cores : KickComing(d, s) => KickComing(d, s)'
    BY <2>1, <2>2, <1>a DEF KickComing
  <2>7. \A s \in Cores : tgt[s] = d /\ pc[s] = "spawn_noise" => tgt'[s] = d /\ pc'[s] = "spawn_noise"
    BY <2>1, <1>a
  <2>8. KickKept(d)
    BY <2>1, <2>4, <2>5, <2>6, <2>7 DEF KickKept
  <2> QED
    BY <2>8, KickKeeps DEF KickInv
<1>7. CASE SpawnIpi(c)
  <2>1. /\ pc[c] = "spawn_ipi" /\ pc' = [pc EXCEPT ![c] = "exec"] /\ tgt[c] \in Cores
        /\ irr' = [irr EXCEPT ![tgt[c]] = irr[tgt[c]] \/ flag[c]]
        /\ UNCHANGED <<queue, flag, tgt, noise>>
    BY <1>7 DEF SpawnIpi, Goto, TypeInv, ControlInv, Spawns
  <2>2. irr \in [Cores -> BOOLEAN] /\ flag \in [Cores -> BOOLEAN]
    BY DEF TypeInv, TypeOK
  <2>3. SUFFICES ASSUME NEW d \in Cores, pc'[d] \in Going
                 PROVE  KickInvAt(d)'
    BY DEF KickInv, KickInvAt
  <2>4. pc'[d] = pc[d] /\ (HasKickEntry(d)' <=> HasKickEntry(d))
    BY <2>1, <2>3, <1>a DEF HasKickEntry
  <2>5. \A s \in Cores : Committed(d, s) => irr'[d] \/ Committed(d, s)'
    BY <2>1, <2>2, <1>a DEF Committed
  <2>6. \A s \in Cores : KickComing(d, s) => irr'[d] \/ KickComing(d, s)'
    BY <2>1, <2>2, <1>a DEF KickComing
  <2>7. irr[d] => irr'[d]
    BY <2>1, <2>2
  <2>8. \A s \in Cores : tgt[s] = d /\ pc[s] = "spawn_noise" => tgt'[s] = d /\ pc'[s] = "spawn_noise"
    BY <2>1, <1>a
  <2>9. KickKept(d)
    BY <2>1, <2>4, <2>5, <2>6, <2>7, <2>8 DEF KickKept
  <2> QED
    BY <2>9, KickKeeps DEF KickInv
<1> QED
  BY <1>1, <1>2, <1>3, <1>4, <1>5, <1>6, <1>7 DEF Spawning

LEMMA KickPolling ==
  ASSUME TypeInv, KickInv, NEW c \in Cores, Polling(c)
  PROVE  KickInv'
<1> USE DEF listVars, queueVars, timerVars, kickVars, coreVars, taskVars, Going, Kicking
<1>a. pc \in [Cores -> Labels] /\ tgt \in [Cores -> Cores \cup {NoCore}]
  BY DEF TypeInv, TypeOK
<1>1. CASE JoinReady(c) \/ TimerReady(c) \/ TimerNew(c)
  <2>1. pc[c] = "exec" /\ UNCHANGED <<pc, queue, noise, irr, tgt, flag>>
    BY <1>1 DEF JoinReady, TimerReady, TimerNew, AtOp, AtCall
  <2>q. KickQuiet(c)
    BY <2>1, <1>a DEF KickQuiet, HasKickEntry
  <2> QED
    BY <2>q, KickFrame
<1>2. CASE \/ JoinPending(c) \/ TimerPending(c) \/ TicketPending(c) \/ PendingForever(c)
  <2>1. /\ pc[c] = "exec" /\ pc' = [pc EXCEPT ![c] = "poll_returns"]
        /\ UNCHANGED <<queue, noise, irr, tgt, flag>>
    BY <1>2 DEF JoinPending, TimerPending, TicketPending, PendingForever, AtOp, AtCall, Goto
  <2>q. KickQuiet(c)
    BY <2>1, <1>a DEF KickQuiet, HasKickEntry
  <2> QED
    BY <2>q, KickFrame
<1>3. CASE YieldNow(c)
  <2>1. /\ pc[c] = "exec" /\ (pc' = pc \/ pc' = [pc EXCEPT ![c] = "wake"])
        /\ UNCHANGED <<queue, noise, irr, flag>> /\ \A s \in Cores \ {c} : tgt'[s] = tgt[s]
    BY <1>3, <1>a DEF YieldNow, AtOp, AtCall, Goto
  <2>q. KickQuiet(c)
    BY <2>1, <1>a DEF KickQuiet, HasKickEntry
  <2> QED
    BY <2>q, KickFrame
<1>4. CASE FinishData(c)
  <2>q. KickQuiet(c)
    BY <1>4, <1>a DEF FinishData, Goto, HasKickEntry, KickQuiet
  <2> QED
    BY <2>q, KickFrame
<1>5. CASE FinishWaker(c)
  <2> DEFINE label == IF waker[cur[c]] = NoTask THEN "poll_returns" ELSE "wake"
  <2>1. /\ pc[c] = "finish_waker" /\ pc' = [pc EXCEPT ![c] = label] /\ label \notin Going
        /\ UNCHANGED <<queue, noise, irr, flag>> /\ \A s \in Cores \ {c} : tgt'[s] = tgt[s]
    BY <1>5, <1>a DEF FinishWaker, Goto
  <2> HIDE DEF label
  <2>q. KickQuiet(c)
    BY <2>1, <1>a DEF KickQuiet, HasKickEntry
  <2> QED
    BY <2>q, KickFrame
<1>6. CASE Wake(c)
  <2>1. \A d \in Cores : HasKickEntry(d)' => HasKickEntry(d)
    BY <1>6, BarePush DEF Wake
  <2>2. /\ pc[c] = "wake" /\ pc' = [pc EXCEPT ![c] = "poll_returns"]
        /\ UNCHANGED <<noise, irr, tgt, flag>>
    BY <1>6 DEF Wake, Goto
  <2>q. KickQuiet(c)
    BY <2>1, <2>2, <1>a DEF KickQuiet
  <2> QED
    BY <2>q, KickFrame
<1> QED
  BY <1>1, <1>2, <1>3, <1>4, <1>5, <1>6 DEF Polling

LEMMA KickRun ==
  ASSUME TypeInv, KickInv, NEW c \in Cores, Run(c)
  PROVE  KickInv'
<1> USE DEF listVars, queueVars, timerVars, kickVars, coreVars, taskVars, Going, Kicking
<1>a. pc \in [Cores -> Labels] /\ queue \in [Cores -> Seq(Entry)] /\ noise \in [Cores -> BOOLEAN]
  BY DEF TypeInv, TypeOK
<1>1. CASE CheckTimers(c)
  <2>1. \A d \in Cores : HasKickEntry(d)' => HasKickEntry(d)
    <3>1. CASE UNCHANGED queue
      BY <3>1 DEF HasKickEntry
    <3>2. CASE \E t \in tickets[c] : PushBack(home[t], t, "bare")
      BY <3>2, BarePush
    <3> QED
      BY <1>1, <3>1, <3>2 DEF CheckTimers
  <2>2. /\ pc[c] = "check_timers" /\ (pc' = pc \/ pc' = [pc EXCEPT ![c] = "pop_front"])
        /\ UNCHANGED <<noise, irr, tgt, flag>>
    BY <1>1 DEF CheckTimers, Goto
  <2>q. KickQuiet(c)
    BY <2>1, <2>2, <1>a DEF KickQuiet
  <2> QED
    BY <2>q, KickFrame
<1>2. CASE PopSome(c)
  <2>1. \A d \in Cores : HasKickEntry(d)' => HasKickEntry(d)
    <3>1. ASSUME NEW i \in 1..Len(Tail(queue[c]))
          PROVE  i + 1 \in 1..Len(queue[c]) /\ Tail(queue[c])[i] = queue[c][i + 1]
      BY <1>2, <1>a, SMTT(30) DEF PopSome
    <3>2. queue' = [queue EXCEPT ![c] = Tail(queue[c])]
      BY <1>2 DEF PopSome
    <3> QED
      BY <3>1, <3>2, <1>a, SMTT(30) DEF HasKickEntry
  <2>2. /\ pc[c] = "pop_front" /\ pc' = [pc EXCEPT ![c] = "noise_load"]
        /\ UNCHANGED <<noise, irr, tgt, flag>>
    BY <1>2 DEF PopSome, Goto
  <2>q. KickQuiet(c)
    BY <2>1, <2>2, <1>a DEF KickQuiet
  <2> QED
    BY <2>q, KickFrame
<1>3. CASE NoiseLoad(c) \/ PollReturns(c) \/ PopNone(c) \/ IdleOnline(c)
  <2>1. /\ pc[c] \notin Kicking /\ UNCHANGED <<queue, noise, irr, tgt, flag>>
        /\ \E label \in {"noise_store", "exec", "check_timers", "idle_check"} :
              pc' = [pc EXCEPT ![c] = label]
    BY <1>3 DEF NoiseLoad, PollReturns, PopNone, IdleOnline, Goto
  <2>q. KickQuiet(c)
    BY <2>1, <1>a DEF KickQuiet, HasKickEntry
  <2> QED
    BY <2>q, KickFrame
<1>4. ASSUME NoiseStore(c) \/ IdleCheck(c) \/ IdleNoise(c) \/ IdleOffline(c)
      PROVE  KickInv'
  <2>1. UNCHANGED <<queue, irr, tgt, flag>> /\ pc[c] \notin Kicking
    BY <1>4 DEF NoiseStore, IdleCheck, IdleNoise, IdleOffline
  <2>2. /\ noise' = noise \/ noise' = [noise EXCEPT ![c] = FALSE]
        /\ \E label \in Labels \ Kicking : pc' = [pc EXCEPT ![c] = label]
    BY <1>4 DEF NoiseStore, IdleCheck, IdleNoise, IdleOffline, Goto, Labels
  <2>3. ASSUME NEW d \in Cores
        PROVE  /\ \A s \in Cores : Committed(d, s) => Committed(d, s)'
               /\ \A s \in Cores : KickComing(d, s) => KickComing(d, s)'
               /\ \A s \in Cores : tgt[s] = d /\ pc[s] = "spawn_noise" =>
                                    tgt'[s] = d /\ pc'[s] = "spawn_noise"
               /\ HasKickEntry(d)' <=> HasKickEntry(d)
               /\ noise'[d] => noise[d]
               /\ d # c => noise'[d] = noise[d] /\ pc'[d] = pc[d]
               /\ irr'[d] = irr[d]
    BY <2>1, <2>2, <1>a DEF Committed, KickComing, HasKickEntry
  <2>4. SUFFICES ASSUME NEW d \in Cores
                 PROVE  KickInvAt(d)'
    BY DEF KickInv, KickInvAt
  <2>5. CASE d # c
    <3>1. KickKept(d)
      BY <2>3, <2>5 DEF KickKept
    <3> QED
      BY <3>1, KickKeeps DEF KickInv
  <2>6. CASE d = c /\ NoiseStore(c)
    <3>1. pc'[d] = "exec"
      BY <2>6, <1>a DEF NoiseStore, Goto
    <3> QED
      BY <3>1 DEF KickInvAt
  <2>7. CASE d = c /\ IdleCheck(c)
    <3>1. pc'[d] = "check_timers" \/ (pc'[d] = "idle_noise" /\ queue[d] = <<>>)
      BY <2>7, <1>a DEF IdleCheck, Goto
    <3>2. queue[d] = <<>> => ~ HasKickEntry(d)
      BY SMTT(30) DEF HasKickEntry
    <3> QED
      BY <2>3, <3>1, <3>2 DEF KickInvAt
  <2>8. CASE d = c /\ IdleNoise(c)
    <3>1. noise'[c] = FALSE /\ pc[c] = "idle_noise"
      BY <2>8, <1>a DEF IdleNoise
    <3>2. CASE noise[c]
      <4>1. pc'[c] = "check_timers"
        BY <2>8, <3>2, <1>a DEF IdleNoise, Goto
      <4> QED
        BY <2>8, <4>1 DEF KickInvAt
    <3>3. CASE ~ noise[c]
      <4>1. \A s \in Cores : tgt[s] = c /\ pc[s] = "spawn_noise" => KickComing(c, s)'
        BY <2>3, <3>1 DEF KickComing
      <4>2. pc'[c] = "idle_offline"
        BY <2>8, <3>3, <1>a DEF IdleNoise, Goto
      <4> QED
        BY <2>3, <2>8, <3>1, <3>3, <4>1, <4>2 DEF KickInv, KickInvAt
    <3> QED
      BY <3>2, <3>3
  <2>9. CASE d = c /\ IdleOffline(c)
    <3>1. pc[c] = "idle_offline" /\ pc'[c] = "hlt" /\ noise'[c] = noise[c]
      BY <2>9, <1>a DEF IdleOffline, Goto
    <3> QED
      BY <2>3, <2>9, <3>1 DEF KickInv, KickInvAt
  <2> QED
    BY <1>4, <2>5, <2>6, <2>7, <2>8, <2>9
<1> QED
  BY <1>1, <1>2, <1>3, <1>4 DEF Run

LEMMA KickStep == TypeInv /\ KickInv /\ [Next]_vars => KickInv'
<1> SUFFICES ASSUME TypeInv, KickInv, [Next]_vars
             PROVE  KickInv'
  OBVIOUS
<1> USE DEF listVars, queueVars, timerVars, kickVars, coreVars, taskVars, Going, Kicking
<1>a. pc \in [Cores -> Labels]
  BY DEF TypeInv, TypeOK
<1>1. CASE Tick \/ UNCHANGED vars
  <2>1. UNCHANGED <<queue, noise, irr, pc, tgt, flag>>
    BY <1>1 DEF Tick, vars
  <2> QED
    BY <2>1, SMTT(30) DEF KickInv, KickInvAt, Committed, KickComing, HasKickEntry
<1>2. ASSUME NEW c \in Cores, New(c) \/ BootEnd(c) \/ OtherInterrupt(c)
      PROVE  KickInv'
  <2>1. /\ pc[c] \notin Kicking /\ UNCHANGED <<queue, noise, irr, tgt, flag>>
        /\ \E label \in {"exec", "check_timers", "idle_online"} : pc' = [pc EXCEPT ![c] = label]
    BY <1>2 DEF New, BootEnd, OtherInterrupt, Goto
  <2>q. KickQuiet(c)
    BY <2>1, <1>a DEF KickQuiet, HasKickEntry
  <2> QED
    BY <2>q, KickFrame
<1>3. ASSUME NEW c \in Cores, DummyInterrupt(c)
      PROVE  KickInv'
  <2>1. UNCHANGED <<queue, noise, tgt, flag>> /\ irr' = [irr EXCEPT ![c] = FALSE]
    BY <1>3 DEF DummyInterrupt
  <2>2. /\ \A d \in Cores : pc'[d] # pc[d] => d = c /\ pc[d] = "hlt" /\ pc'[d] = "idle_online"
        /\ pc'[c] \notin Going
    BY <1>3 DEF DummyInterrupt, InterruptsOff, TypeInv, TypeOK
  <2>3. SUFFICES ASSUME NEW d \in Cores, pc'[d] \in Going
                 PROVE  KickInvAt(d)'
    BY DEF KickInv, KickInvAt
  <2>4. pc'[d] = pc[d] /\ irr'[d] = irr[d] /\ noise'[d] = noise[d] /\ (HasKickEntry(d)' <=> HasKickEntry(d))
    BY <2>1, <2>2, <2>3 DEF HasKickEntry, TypeInv, TypeOK
  <2>5. \A s \in Cores : Committed(d, s) => Committed(d, s)'
    BY <2>1, <2>2 DEF Committed
  <2>6. \A s \in Cores : KickComing(d, s) => KickComing(d, s)'
    BY <2>1, <2>2 DEF KickComing
  <2>7. \A s \in Cores : tgt[s] = d /\ pc[s] = "spawn_noise" => tgt'[s] = d /\ pc'[s] = "spawn_noise"
    BY <2>1, <2>2
  <2>8. KickKept(d)
    BY <2>4, <2>5, <2>6, <2>7 DEF KickKept
  <2> QED
    BY <2>8, KickKeeps DEF KickInv
<1> QED
  BY <1>1, <1>2, <1>3, KickSpawning, KickPolling, KickRun DEF Next, Hung, Step

\* No core ever halts over a task that a spawn_* function pushed to its queue
\* without the IPI being pending or on its way (noise, online and run's else branch).
THEOREM NoKickIsLost == Spec => []NoLostKick
<1>1. Init => KickInv
  BY DEF Init, KickInv, KickInvAt
<1>2. KickInv => NoLostKick
  BY DEF KickInv, KickInvAt, NoLostKick
<1> QED
  BY <1>1, <1>2, TypeInit, TypeStep, KickStep, PTL DEF Spec

-----------------------------------------------------------------------------
(* The queue lock. *)

\* What a core owns: nobody else moves it, aims it, or touches the lock its poll holds.
Own(d) == <<pc[d], tgt[d], qlock[d]>>

LEMMA StepIsLocal ==
  ASSUME TypeInv, NEW c \in Cores, Step(c), NEW d \in Cores \ {c}
  PROVE  UNCHANGED Own(d)
<1> USE DEF Own, listVars, queueVars, timerVars, kickVars, coreVars, taskVars, Goto
<1>a. /\ pc \in [Cores -> Labels] /\ tgt \in [Cores -> Cores \cup {NoCore}]
      /\ qlock \in [Cores -> Cores \cup {NoCore}]
  BY DEF TypeInv, TypeOK
<1>1. CASE New(c) \/ BootEnd(c)
  BY <1>1, <1>a DEF New, BootEnd
<1>2. CASE Spawning(c)
  BY <1>2, <1>a DEF Spawning, SpawnFails, SpawnSelect, Spawn, SpawnPush, SpawnNoise, SpawnOnline,
     SpawnIpi, PushBack
<1>3. CASE Polling(c)
  BY <1>3, <1>a DEF Polling, JoinReady, TimerReady, TimerNew, YieldNow, JoinPending, TimerPending,
     TicketPending, PendingForever, FinishData, FinishWaker, Wake, PushBack
<1>4. CASE Run(c)
  BY <1>4, <1>a DEF Run, CheckTimers, PopSome, NoiseLoad, NoiseStore, PollReturns, PopNone,
     IdleCheck, IdleNoise, IdleOffline, IdleOnline, PushBack
<1> QED
  BY <1>1, <1>2, <1>3, <1>4 DEF Step

\* A core that waits for a locked queue takes no step.
LEMMA WaiterIsStuck ==
  ASSUME NEW c \in Cores, NEW e, WaitsFor(c, e), qlock[e] # NoCore
  PROVE  ~ Step(c)
<1> USE DEF WaitsFor
<1>1. ~ New(c) /\ ~ BootEnd(c)
  BY DEF New, BootEnd
<1>2. ~ Spawning(c)
  BY DEF Spawning, SpawnFails, SpawnSelect, Spawn, SpawnPush, SpawnNoise, SpawnOnline, SpawnIpi,
     PushBack, AtOp, AtCall
<1>3. ~ Polling(c)
  BY DEF Polling, JoinReady, TimerReady, TimerNew, YieldNow, JoinPending, TimerPending,
     TicketPending, PendingForever, FinishData, FinishWaker, Wake, PushBack, AtOp, AtCall
<1>4. ~ Run(c)
  BY DEF Run, CheckTimers, PopSome, NoiseLoad, NoiseStore, PollReturns, PopNone,
     IdleCheck, IdleNoise, IdleOffline, IdleOnline
<1> QED
  BY <1>1, <1>2, <1>3, <1>4 DEF Step

\* Only the core that polls from a queue holds its lock across steps.
LockInv == \A c \in Cores : qlock[c] \in {c, NoCore}

LEMMA LockStep == TypeInv /\ LockInv /\ [Next]_vars => LockInv'
<1> SUFFICES ASSUME TypeInv, LockInv, [Next]_vars, NEW d \in Cores
             PROVE  qlock'[d] \in {d, NoCore}
  BY DEF LockInv
<1> USE DEF listVars, queueVars, timerVars, kickVars, coreVars, taskVars, Goto
<1>a. qlock \in [Cores -> Cores \cup {NoCore}]
  BY DEF TypeInv, TypeOK
<1>1. CASE Step(d)
  <2>1. CASE PopSome(d) \/ PollReturns(d)
    BY <2>1, <1>a DEF PopSome, PollReturns
  <2>2. CASE UNCHANGED qlock
    BY <2>2 DEF LockInv
  <2>3. Spawning(d) => UNCHANGED qlock
    BY DEF Spawning, SpawnFails, SpawnSelect, Spawn, SpawnPush, SpawnNoise, SpawnOnline, SpawnIpi, PushBack
  <2>4. Polling(d) => UNCHANGED qlock
    BY DEF Polling, JoinReady, TimerReady, TimerNew, YieldNow, JoinPending, TimerPending,
       TicketPending, PendingForever, FinishData, FinishWaker, Wake, PushBack
  <2>5. New(d) \/ BootEnd(d) => UNCHANGED qlock
    BY DEF New, BootEnd
  <2>6. Run(d) => PopSome(d) \/ PollReturns(d) \/ UNCHANGED qlock
    BY DEF Run, CheckTimers, NoiseLoad, NoiseStore, PopNone, IdleCheck, IdleNoise, IdleOffline,
       IdleOnline, PushBack
  <2> QED
    BY <1>1, <2>1, <2>2, <2>3, <2>4, <2>5, <2>6 DEF Step
<1>2. ASSUME NEW c \in Cores \ {d}, Step(c)
      PROVE  qlock'[d] \in {d, NoCore}
  BY <1>2, StepIsLocal DEF LockInv, Own
<1>3. ASSUME \/ Tick \/ UNCHANGED vars \/ \E c \in Cores : DummyInterrupt(c) \/ OtherInterrupt(c)
      PROVE  qlock'[d] \in {d, NoCore}
  BY <1>3 DEF Tick, vars, DummyInterrupt, OtherInterrupt, LockInv
<1> QED
  BY <1>1, <1>2, <1>3 DEF Next, Hung

\* Cores that spin for each other's queue (or for their own) while they poll
\* stay that way: the guard of run's `if let' is dropped only after the poll.
THEOREM DeadlockLasts == Spec => DeadlockIsForever
<1>1. Init => LockInv
  <2>1. Init => qlock = [c \in Cores |-> NoCore]
    BY DEF Init
  <2> QED
    BY <2>1 DEF LockInv
<1>2. TypeInv /\ LockInv /\ [Next]_vars =>
        [\A D \in SUBSET Cores : Deadlocked(D) => Deadlocked(D)']_vars
  <2> SUFFICES ASSUME TypeInv, LockInv, Next, NEW D \in SUBSET Cores, Deadlocked(D)
               PROVE  Deadlocked(D)'
    BY DEF Deadlocked, WaitsFor, vars, coreVars, queueVars
  <2>1. ASSUME NEW c \in D
        PROVE  ~ Step(c)
    BY <2>1, WaiterIsStuck, ConstantsAssumption DEF Deadlocked
  <2>2. ASSUME NEW c \in D
        PROVE  UNCHANGED Own(c)
    <3>1. ASSUME NEW s \in Cores, Step(s)
          PROVE  UNCHANGED Own(c)
      BY <2>1, <3>1, StepIsLocal
    <3>2. CASE Tick \/ Hung
      BY <3>2 DEF Tick, Hung, vars, Own, coreVars, queueVars
    <3>3. ASSUME NEW s \in Cores, DummyInterrupt(s) \/ OtherInterrupt(s)
          PROVE  UNCHANGED Own(c)
      <4>1. pc[c] # "hlt"
        BY DEF Deadlocked, WaitsFor
      <4> QED
        BY <3>3, <4>1 DEF DummyInterrupt, OtherInterrupt, Own, coreVars, queueVars, Goto, TypeInv, TypeOK
    <3> QED
      BY <3>1, <3>2, <3>3 DEF Next
  <2>3. ASSUME NEW c \in D
        PROVE  \E e \in D : WaitsFor(c, e) /\ qlock[e] = e
    BY ConstantsAssumption DEF Deadlocked, LockInv
  <2> QED
    BY <2>2, <2>3, SMTT(30) DEF Deadlocked, WaitsFor, Own
<1> QED
  BY <1>1, <1>2, TypeInit, TypeStep, LockStep, PTL DEF Spec, DeadlockIsForever

\* Nobody adds to the queue of a core that polls, or takes from it.
LEMMA FrozenStep ==
  ASSUME TypeInv, [Next]_vars, NEW c \in Cores, qlock[c] = c
  PROVE  queue'[c] = queue[c]
<1> USE DEF listVars, queueVars, timerVars, kickVars, coreVars, taskVars
<1>1. ASSUME NEW e, NEW t, NEW by, PushBack(e, t, by)
      PROVE  queue'[c] = queue[c]
  BY <1>1, ConstantsAssumption DEF PushBack, TypeInv, TypeOK
<1>2. ASSUME NEW s \in Cores, PopSome(s)
      PROVE  queue'[c] = queue[c]
  BY <1>2, ConstantsAssumption DEF PopSome, TypeInv, TypeOK
<1>3. ASSUME NEW s \in Cores, Step(s)
      PROVE  \/ UNCHANGED queue \/ PopSome(s)
             \/ \E e \in Cores \cup {NoCore}, t \in Tasks, by \in {"kick", "bare"} : PushBack(e, t, by)
  <2>1. New(s) \/ BootEnd(s) => UNCHANGED queue
    BY DEF New, BootEnd
  <2>2. Spawning(s) => \/ UNCHANGED queue
                       \/ PushBack(tgt[s], obj[s], "kick") /\ pc[s] \in Pushing
                       \/ PushBack(tgt[s], obj[s], "bare") /\ pc[s] \in Pushing
    BY DEF Spawning, SpawnFails, SpawnSelect, Spawn, SpawnPush, SpawnNoise, SpawnOnline, SpawnIpi, Pushing
  <2>3. Polling(s) => \/ UNCHANGED queue
                      \/ PushBack(tgt[s], obj[s], "bare") /\ pc[s] \in Pushing
    BY DEF Polling, JoinReady, TimerReady, TimerNew, YieldNow, JoinPending, TimerPending,
       TicketPending, PendingForever, FinishData, FinishWaker, Wake, Pushing
  <2>4. Run(s) => \/ UNCHANGED queue \/ PopSome(s)
                  \/ \E t \in tickets[s] : PushBack(home[t], t, "bare")
    BY DEF Run, CheckTimers, NoiseLoad, NoiseStore, PollReturns, PopNone, IdleCheck, IdleNoise,
       IdleOffline, IdleOnline
  <2>5. /\ tgt[s] \in Cores \cup {NoCore}
        /\ pc[s] \in Pushing => obj[s] \in Tasks
        /\ \A t \in tickets[s] : t \in Tasks /\ home[t] \in Cores \cup {NoCore}
    BY DEF TypeInv, TypeOK, ControlInv
  <2> QED
    BY <1>3, <2>1, <2>2, <2>3, <2>4, <2>5 DEF Step
<1>4. ASSUME Tick \/ Hung \/ \E s \in Cores : DummyInterrupt(s) \/ OtherInterrupt(s)
      PROVE  UNCHANGED queue
  BY <1>4 DEF Tick, Hung, vars, DummyInterrupt, OtherInterrupt
<1> QED
  BY <1>1, <1>2, <1>3, <1>4 DEF Next, vars

\* Nothing is added to a queue while its core polls a task.
THEOREM QueueFrozen == Spec => QueueFrozenWhilePolling
<1>1. TypeInv /\ [Next]_vars => [\A c \in Cores : qlock[c] = c => queue'[c] = queue[c]]_vars
  BY FrozenStep
<1> QED
  BY <1>1, TypeInit, TypeStep, PTL DEF Spec, QueueFrozenWhilePolling

-----------------------------------------------------------------------------
(* Where a task is.  A poll holds the lock of the queue of the task's home;  *)
(* a task is spawned by one call, and from then on whatever can wake it      *)
(* leads to its home.                                                        *)

PollOnly == {"noise_load", "noise_store", "finish_waker", "wake", "poll_returns"}
InPoll == PollOnly \cup Spawns \cup {"exec"}
InBoot == {"new", "exec"} \cup Spawns

RunInv ==
  \A c \in Cores :
    /\ qlock[c] = c => pc[c] \in InPoll /\ cur[c] \in Tasks /\ home[cur[c]] = c
    /\ qlock[c] # c => /\ pc[c] \notin PollOnly
                       /\ cur[c] # NoTask => IsBoot(cur[c]) /\ pc[c] \in InBoot

BootInv ==
  /\ \A t \in Tasks : IsBoot(t) => home[t] = NoCore
  /\ \A c, d \in Cores : IsBoot(cur[c]) /\ cur[c] = cur[d] => c = d

\* A core in a spawn function is at the call that spawns obj.
CallInv ==
  \A c \in Cores : pc[c] \in Spawns =>
    ip[cur[c]] <= Len(Prog[cur[c]]) /\ TheCall(c).op \in SpawnOps /\ TheCall(c).task = obj[c]

\* Call i of task s has not pushed yet.
Unspawned(s, i) == i > ip[s] \/ (i = ip[s] /\ \A c \in Cores : cur[c] = s => pc[c] \notin Kicking)

SpawnInv ==
  \A s \in Tasks : \A i \in 1..Len(Prog[s]) :
    Prog[s][i].op \in SpawnOps /\ Unspawned(s, i) => home[Prog[s][i].task] = NoCore

WhereInv ==
  /\ \A c \in Cores : \A i \in 1..Len(queue[c]) : home[queue[c][i].task] = c
  /\ \A c \in Cores : \A t \in tickets[c] \cup gsTickets[c] : home[t] = c
  /\ \A t \in Tasks : waker[t] # NoTask => home[waker[t]] # NoCore
  /\ \A c \in Cores : pc[c] = "wake" => tgt[c] = home[obj[c]] /\ home[obj[c]] # NoCore

HomeInv == LockInv /\ RunInv /\ BootInv /\ CallInv /\ SpawnInv /\ WhereInv

\* Nobody else changes what a core runs.
LEMMA CurIsLocal ==
  ASSUME TypeInv, NEW c \in Cores, Step(c), NEW d \in Cores \ {c}
  PROVE  cur'[d] = cur[d] /\ obj'[d] = obj[d]
<1> USE DEF listVars, queueVars, timerVars, kickVars, coreVars, taskVars
<1>a. cur \in [Cores -> Tasks \cup {NoTask}] /\ obj \in [Cores -> Tasks \cup {NoTask}]
  BY DEF TypeInv, TypeOK
<1>1. CASE New(c) \/ BootEnd(c)
  BY <1>1, <1>a DEF New, BootEnd
<1>2. CASE Spawning(c)
  BY <1>2, <1>a DEF Spawning, SpawnFails, SpawnSelect, Spawn, SpawnPush, SpawnNoise, SpawnOnline, SpawnIpi
<1>3. CASE Polling(c)
  BY <1>3, <1>a DEF Polling, JoinReady, TimerReady, TimerNew, YieldNow, JoinPending, TimerPending,
     TicketPending, PendingForever, FinishData, FinishWaker, Wake
<1>4. CASE Run(c)
  BY <1>4, <1>a DEF Run, CheckTimers, PopSome, NoiseLoad, NoiseStore, PollReturns, PopNone,
     IdleCheck, IdleNoise, IdleOffline, IdleOnline
<1> QED
  BY <1>1, <1>2, <1>3, <1>4 DEF Step

\* Two cores never run one task or boot context.
LEMMA CurUnique ==
  ASSUME TypeInv, HomeInv, NEW c \in Cores, NEW d \in Cores, cur[c] # NoTask, cur[c] = cur[d]
  PROVE  c = d
<1>1. CASE qlock[c] = c
  BY <1>1, ConstantsAssumption DEF HomeInv, RunInv, BootInv
<1>2. CASE qlock[c] # c
  BY <1>2 DEF HomeInv, RunInv, BootInv
<1> QED
  BY <1>1, <1>2

\* A boot context only spawns: whoever else is called is called from a poll.
LEMMA CalledInPoll ==
  ASSUME TypeInv, HomeInv, NEW c \in Cores, NEW ops, AtOp(c, ops), ops \cap SpawnOps = {}
  PROVE  qlock[c] = c
<1>1. cur[c] \in Tasks /\ ip[cur[c]] \in 1..Len(Prog[cur[c]])
  <2>1. cur[c] \in Tasks /\ ip[cur[c]] \in Nat \ {0} /\ Prog[cur[c]] \in Seq(Call)
    BY ConstantsAssumption DEF TypeInv, TypeOK, ControlInv, AtOp, AtCall, InTask
  <2> QED
    BY <2>1, SMTT(30) DEF AtOp, AtCall
<1>2. ~ IsBoot(cur[c])
  BY <1>1, ProgramsAssumption, SMTT(30) DEF AtOp, TheCall
<1>3. cur[c] # NoTask
  BY <1>1, ConstantsAssumption
<1> QED
  BY <1>2, <1>3 DEF HomeInv, RunInv

-----------------------------------------------------------------------------
(* The steps that move no task from one place to another. *)

placeVars == <<queue, qlock, tickets, gsTickets, waker, home, done>>

Still == UNCHANGED <<placeVars, pc, cur, obj, tgt, ip>>

Quiet(c) ==
  /\ UNCHANGED placeVars
  /\ \A d \in Cores \ {c} : UNCHANGED <<pc[d], cur[d], obj[d], tgt[d]>>
  /\ \A t \in Tasks : ip'[t] = ip[t] \/ (t = cur[c] /\ ip'[t] = ip[t] + 1)
  /\ pc[c] \notin {"wake", "poll_returns"} /\ pc'[c] # "wake"
  /\ qlock[c] = c => pc'[c] \in InPoll /\ cur'[c] = cur[c]
  /\ qlock[c] # c => /\ pc'[c] \notin PollOnly
                     /\ cur'[c] # NoTask => cur'[c] = cur[c] /\ pc'[c] \in InBoot
  /\ pc'[c] \in Spawns =>
       /\ cur'[c] = cur[c] /\ ip' = ip
       /\ ip[cur[c]] <= Len(Prog[cur[c]]) /\ TheCall(c).op \in SpawnOps /\ TheCall(c).task = obj'[c]
  /\ pc[c] \in Kicking => pc'[c] \in Kicking \/ ip'[cur[c]] # ip[cur[c]]
  /\ pc'[c] = "finish_waker" => ip'[cur[c]] > Len(Prog[cur[c]])
  /\ pc'[c] = "poll_returns" => ip' = ip /\ (pc[c] = "finish_waker" \/ AwaitsNothing(cur[c]))

\* The steps that do.
YieldFirst(c) == YieldNow(c) /\ ~ yielded[cur[c]]
WakesJoiner(c) == FinishWaker(c) /\ waker[cur[c]] # NoTask
TimerFires(c, t) ==
  /\ pc[c] = "check_timers" /\ t \in tickets[c] /\ left[t] = 0 /\ PushBack(home[t], t, "bare")
  /\ tickets' = [tickets EXCEPT ![c] = @ \ {t}]
  /\ UNCHANGED <<pc, listVars, gsTickets, left, kickVars, coreVars, taskVars>>

Moves(c) ==
  \/ SpawnPush(c) \/ Spawn(c) \/ YieldFirst(c) \/ JoinPending(c) \/ TimerPending(c)
  \/ TicketPending(c) \/ WakesJoiner(c) \/ Wake(c) \/ (\E t \in Tasks : TimerFires(c, t))
  \/ PopSome(c) \/ PollReturns(c)

LEMMA QuietSpawning ==
  ASSUME TypeInv, HomeInv, NEW c \in Cores, Spawning(c)
  PROVE  Quiet(c) \/ Moves(c)
<1> USE DEF listVars, queueVars, timerVars, kickVars, coreVars, taskVars, placeVars, Goto, AdvanceIp,
            Spawns, Kicking, PollOnly, InPoll, InBoot
<1>a. /\ pc \in [Cores -> Labels] /\ ip \in [Tasks -> Nat \ {0}] /\ cur[c] \in Tasks
      /\ obj \in [Cores -> Tasks \cup {NoTask}] /\ tgt \in [Cores -> Cores \cup {NoCore}]
  BY DEF TypeInv, TypeOK, ControlInv, InTask, Spawning, SpawnFails, SpawnSelect, Spawn, SpawnPush,
     SpawnNoise, SpawnOnline, SpawnIpi, AtOp, AtCall
<1>b. /\ qlock[c] # c => (cur[c] # NoTask => pc[c] \in InBoot)
      /\ pc[c] \in Spawns => ip[cur[c]] <= Len(Prog[cur[c]]) /\ TheCall(c).op \in SpawnOps /\ TheCall(c).task = obj[c]
  BY DEF HomeInv, RunInv, CallInv
<1>1. CASE SpawnFails(c)
  BY <1>1, <1>a DEF SpawnFails, AtOp, AtCall, Quiet
<1>2. CASE SpawnSelect(c)
  <2> DEFINE label == IF TheCall(c).op \in SpawnKicked THEN "spawn_push" ELSE "spawn"
  <2>1. /\ pc[c] = "exec" /\ pc' = [pc EXCEPT ![c] = label] /\ obj' = [obj EXCEPT ![c] = TheCall(c).task]
        /\ ip[cur[c]] <= Len(Prog[cur[c]]) /\ TheCall(c).op \in SpawnOps
        /\ \E e \in Selected(c) : tgt' = [tgt EXCEPT ![c] = e]
        /\ UNCHANGED <<placeVars, ip, cur>>
    BY <1>2 DEF SpawnSelect, AtOp, AtCall
  <2>2. label \in {"spawn", "spawn_push"}
    OBVIOUS
  <2> HIDE DEF label
  <2>3. /\ pc'[c] = label /\ obj'[c] = TheCall(c).task
        /\ \A d \in Cores \ {c} : UNCHANGED <<pc[d], cur[d], obj[d], tgt[d]>>
    BY <1>a, <2>1
  <2> QED
    BY <1>a, <2>1, <2>2, <2>3 DEF Quiet
<1>3. CASE SpawnNoise(c)
  BY <1>3, <1>a, <1>b DEF SpawnNoise, Quiet, TheCall
<1>4. CASE SpawnOnline(c)
  BY <1>4, <1>a, <1>b DEF SpawnOnline, Quiet, TheCall
<1>5. CASE SpawnIpi(c)
  BY <1>5, <1>a, SMTT(30) DEF SpawnIpi, Quiet
<1> QED
  BY <1>1, <1>2, <1>3, <1>4, <1>5 DEF Spawning, Moves

LEMMA QuietPolling ==
  ASSUME TypeInv, HomeInv, NEW c \in Cores, Polling(c)
  PROVE  Quiet(c) \/ Moves(c)
<1> USE DEF listVars, queueVars, timerVars, kickVars, coreVars, taskVars, placeVars, Goto, AdvanceIp,
            Spawns, Kicking, PollOnly, InPoll, InBoot
<1>a. /\ pc \in [Cores -> Labels] /\ ip \in [Tasks -> Nat \ {0}] /\ cur[c] \in Tasks
      /\ obj \in [Cores -> Tasks \cup {NoTask}] /\ tgt \in [Cores -> Cores \cup {NoCore}]
      /\ waker \in [Tasks -> Tasks \cup {NoTask}]
  BY DEF TypeInv, TypeOK, ControlInv, InTask, Polling, JoinReady, TimerReady, TimerNew, YieldNow,
     JoinPending, TimerPending, TicketPending, PendingForever, FinishData, FinishWaker, Wake, AtOp, AtCall
<1>1. CASE JoinReady(c)
  BY <1>1, <1>a DEF JoinReady, AtOp, AtCall, Quiet
<1>2. CASE TimerReady(c) \/ TimerNew(c)
  BY <1>2, <1>a DEF TimerReady, TimerNew, AtOp, AtCall, Quiet
<1>3. CASE YieldNow(c) /\ yielded[cur[c]]
  BY <1>3, <1>a DEF YieldNow, AtOp, AtCall, Quiet
<1>4. CASE PendingForever(c)
  <2>1. qlock[c] = c
    BY <1>4, CalledInPoll DEF PendingForever, SpawnOps, SpawnKicked
  <2> QED
    BY <1>4, <1>a, <2>1 DEF PendingForever, AtOp, AtCall, TheCall, AwaitsNothing, Quiet
<1>5. CASE FinishData(c)
  <2>1. qlock[c] = c /\ ip[cur[c]] > Len(Prog[cur[c]])
    <3>1. cur[c] # NoTask /\ Prog[cur[c]] \in Seq(Call)
      BY <1>a, ConstantsAssumption
    <3> QED
      BY <1>5, <1>a, <3>1, SMTT(30) DEF FinishData, AtCall, HomeInv, RunInv
  <2> QED
    BY <1>5, <1>a, <2>1 DEF FinishData, Quiet
<1>6. CASE FinishWaker(c) /\ waker[cur[c]] = NoTask
  <2>1. qlock[c] = c
    BY <1>6 DEF FinishWaker, HomeInv, RunInv
  <2>2. /\ pc[c] = "finish_waker" /\ pc' = [pc EXCEPT ![c] = "poll_returns"] /\ UNCHANGED <<obj, tgt, cur, ip>>
        /\ waker' = [waker EXCEPT ![cur[c]] = NoTask]
        /\ UNCHANGED <<queue, qlock, tickets, gsTickets, home, done>>
    BY <1>6 DEF FinishWaker
  <2>3. waker' = waker
    BY <1>6, <1>a, <2>2
  <2> QED
    BY <1>a, <2>1, <2>2, <2>3 DEF Quiet
<1> QED
  BY <1>1, <1>2, <1>3, <1>4, <1>5, <1>6 DEF Polling, Moves, YieldFirst, WakesJoiner

LEMMA QuietRun ==
  ASSUME TypeInv, HomeInv, NEW c \in Cores, Run(c) \/ New(c) \/ BootEnd(c) \/ OtherInterrupt(c)
  PROVE  Quiet(c) \/ Moves(c)
<1> USE DEF listVars, queueVars, timerVars, kickVars, coreVars, taskVars, placeVars, Goto,
            Spawns, Kicking, PollOnly, InPoll, InBoot
<1>a. /\ pc \in [Cores -> Labels] /\ ip \in [Tasks -> Nat \ {0}]
      /\ cur \in [Cores -> Tasks \cup {NoTask}]
  BY DEF TypeInv, TypeOK
<1>b. /\ qlock[c] = c => pc[c] \in InPoll
      /\ qlock[c] # c => pc[c] \notin PollOnly /\ (cur[c] # NoTask => pc[c] \in InBoot)
  BY DEF HomeInv, RunInv
<1>1. CASE CheckTimers(c)
  <2>1. CASE Goto(c, "pop_front") /\ UNCHANGED <<queueVars, tickets>>
    BY <1>1, <2>1, <1>a, <1>b DEF CheckTimers, Quiet
  <2>2. CASE \E t \in tickets[c] : TimerFires(c, t)
    BY <2>2 DEF Moves, TypeInv, TypeOK
  <2> QED
    BY <1>1, <2>1, <2>2 DEF CheckTimers, TimerFires
<1>2. CASE NoiseLoad(c)
  BY <1>2, <1>a, <1>b DEF NoiseLoad, Quiet
<1>3. CASE NoiseStore(c)
  BY <1>3, <1>a, <1>b DEF NoiseStore, Quiet
<1>4. CASE PopNone(c)
  BY <1>4, <1>a, <1>b DEF PopNone, Quiet
<1>5. CASE IdleCheck(c)
  BY <1>5, <1>a, <1>b DEF IdleCheck, Quiet
<1>6. CASE IdleNoise(c)
  BY <1>6, <1>a, <1>b DEF IdleNoise, Quiet
<1>7. CASE IdleOffline(c)
  BY <1>7, <1>a, <1>b DEF IdleOffline, Quiet
<1>8. CASE IdleOnline(c)
  BY <1>8, <1>a, <1>b DEF IdleOnline, Quiet
<1>9. CASE New(c)
  BY <1>9, <1>a, <1>b DEF New, Quiet
<1>10. CASE BootEnd(c)
  <2>1. IsBoot(cur[c]) /\ c # NoCore
    BY <1>10, ConstantsAssumption DEF BootEnd
  <2>2. qlock[c] = c => cur[c] \in Tasks /\ home[cur[c]] = c
    BY DEF HomeInv, RunInv
  <2>3. qlock[c] # c
    BY <2>1, <2>2 DEF HomeInv, BootInv
  <2> QED
    BY <1>10, <1>a, <1>b, <2>3 DEF BootEnd, Quiet
<1>11. CASE OtherInterrupt(c)
  BY <1>11, <1>a, <1>b DEF OtherInterrupt, Quiet
<1> QED
  BY <1>1, <1>2, <1>3, <1>4, <1>5, <1>6, <1>7, <1>8, <1>9, <1>10, <1>11 DEF Run, Moves

\* Every step moves a task from one place to another, or leaves them all.
LEMMA StepKinds ==
  ASSUME TypeInv, HomeInv, [Next]_vars
  PROVE  Still \/ \E c \in Cores : Quiet(c) \/ Moves(c)
<1>1. CASE Tick \/ UNCHANGED vars
  BY <1>1 DEF Tick, vars, Still, placeVars, listVars, queueVars, timerVars, kickVars, coreVars, taskVars
<1>2. ASSUME NEW c \in Cores, DummyInterrupt(c)
      PROVE  Still \/ Quiet(c)
  <2> USE DEF Still, placeVars, queueVars, timerVars, kickVars, coreVars, taskVars, TypeInv, TypeOK
  <2>1. CASE pc[c] # "hlt"
    BY <1>2, <2>1 DEF DummyInterrupt
  <2>2. CASE pc[c] = "hlt"
    <3>1. pc' = [pc EXCEPT ![c] = "idle_online"] /\ UNCHANGED <<placeVars, cur, obj, tgt, ip>>
      BY <1>2, <2>2 DEF DummyInterrupt
    <3>2. qlock[c] # c /\ cur[c] = NoTask
      BY <2>2 DEF HomeInv, RunInv, InPoll, PollOnly, Spawns, InBoot
    <3> QED
      BY <2>2, <3>1, <3>2 DEF Quiet, PollOnly, Spawns, InBoot, Kicking
  <2> QED
    BY <2>1, <2>2
<1> QED
  BY <1>1, <1>2, QuietSpawning, QuietPolling, QuietRun DEF Next, Hung, Step

-----------------------------------------------------------------------------
(* HomeInv is inductive. *)

LEMMA HomeInit == Init => HomeInv
<1> SUFFICES ASSUME Init
             PROVE  HomeInv
  OBVIOUS
<1>a. /\ queue = [c \in Cores |-> <<>>] /\ qlock = [c \in Cores |-> NoCore]
      /\ tickets = [c \in Cores |-> {}] /\ gsTickets = [c \in Cores |-> {}]
      /\ pc = [c \in Cores |-> "new"] /\ cur \in Boots
      /\ home = [t \in Tasks |-> NoCore] /\ waker = [t \in Tasks |-> NoTask]
  BY DEF Init
<1>1. LockInv
  BY <1>a DEF LockInv
<1>2. \A c \in Cores : cur[c] \in Tasks /\ cur[c] # NoTask /\ IsBoot(cur[c])
  BY <1>a, ConstantsAssumption DEF IsBoot
<1>3. RunInv
  <2>1. \A c \in Cores : qlock[c] # c /\ pc[c] = "new"
    BY <1>a, ConstantsAssumption
  <2> QED
    BY <1>2, <2>1 DEF RunInv, PollOnly, InBoot
<1>4. BootInv
  BY <1>a, ProgramsAssumption DEF BootInv
<1>5. CallInv /\ WhereInv
  BY <1>a, SMTT(30) DEF CallInv, Spawns, WhereInv
<1>6. SpawnInv
  <2>1. \A s \in Tasks : \A i \in 1..Len(Prog[s]) : Prog[s][i].task \in Tasks
    <3> SUFFICES ASSUME NEW s \in Tasks, NEW i \in 1..Len(Prog[s])
                 PROVE  Prog[s][i].task \in Tasks
      OBVIOUS
    <3>1. Prog[s] \in Seq(Call)
      BY ConstantsAssumption
    <3>2. Prog[s][i] \in Call
      BY <3>1, SMTT(30)
    <3> QED
      BY <3>2 DEF Call
  <2> QED
    BY <1>a, <2>1 DEF SpawnInv
<1> QED
  BY <1>1, <1>3, <1>4, <1>5, <1>6 DEF HomeInv

\* What a core can do to its program without a push.
LEMMA UnspawnedKept ==
  ASSUME TypeInv, NEW c \in Cores, NEW s \in Tasks, NEW i \in Nat, Unspawned(s, i)',
         \A d \in Cores \ {c} : UNCHANGED <<pc[d], cur[d]>>,
         \A t \in Tasks : ip'[t] = ip[t] \/ (t = cur[c] /\ ip'[t] = ip[t] + 1),
         pc[c] \in Kicking => \/ cur'[c] = cur[c] /\ pc'[c] \in Kicking
                              \/ ip'[cur[c]] # ip[cur[c]]
  PROVE  Unspawned(s, i)
<1>1. ip[s] \in Nat
  BY DEF TypeInv, TypeOK
<1>2. CASE i > ip[s]
  BY <1>2 DEF Unspawned
<1>3. CASE i <= ip[s]
  <2>1. i = ip[s] /\ ip'[s] = ip[s] /\ \A d \in Cores : cur'[d] = s => pc'[d] \notin Kicking
    BY <1>1, <1>3, SMTT(30) DEF Unspawned
  <2>2. ASSUME NEW d \in Cores, cur[d] = s, pc[d] \in Kicking
        PROVE  FALSE
    BY <2>1, <2>2
  <2> QED
    BY <2>1, <2>2 DEF Unspawned
<1> QED
  BY <1>1, <1>2, <1>3, SMTT(30)

LEMMA HomeQuiet ==
  ASSUME TypeInv, HomeInv, NEW c \in Cores, Quiet(c)
  PROVE  HomeInv'
<1>a. UNCHANGED <<queue, qlock, tickets, gsTickets, waker, home>>
  BY DEF Quiet, placeVars
<1>1. LockInv'
  BY <1>a DEF HomeInv, LockInv
<1>2. RunInv'
  <2> SUFFICES ASSUME NEW d \in Cores
               PROVE  RunInv!(d)'
    BY DEF RunInv
  <2>1. CASE d = c
    BY <1>a, <2>1 DEF HomeInv, RunInv, Quiet, PollOnly, InPoll, InBoot
  <2>2. CASE d # c
    BY <1>a, <2>2 DEF HomeInv, RunInv, Quiet
  <2> QED
    BY <2>1, <2>2
<1>3. BootInv'
  <2>1. \A d \in Cores : cur'[d] = cur[d] \/ cur'[d] = NoTask
    BY DEF Quiet
  <2>2. ~ IsBoot(NoTask)
    BY ConstantsAssumption DEF IsBoot
  <2> QED
    BY <1>a, <2>1, <2>2 DEF HomeInv, BootInv
<1>4. CallInv'
  <2> SUFFICES ASSUME NEW d \in Cores, pc'[d] \in Spawns
               PROVE  CallInv!(d)'
    BY DEF CallInv
  <2>1. CASE d = c
    BY <2>1 DEF Quiet, TheCall
  <2>2. CASE d # c
    <3>1. pc'[d] = pc[d] /\ cur'[d] = cur[d] /\ obj'[d] = obj[d]
      BY <2>2 DEF Quiet
    <3>2. cur[d] \in Tasks
      BY <3>1 DEF TypeInv, ControlInv, Spawns, InTask
    <3>3. cur[d] # cur[c]
      BY <2>2, <3>2, CurUnique, ConstantsAssumption
    <3>4. ip'[cur[d]] = ip[cur[d]]
      BY <3>2, <3>3 DEF Quiet
    <3> QED
      BY <3>1, <3>4 DEF HomeInv, CallInv, TheCall
  <2> QED
    BY <2>1, <2>2
<1>5. SpawnInv'
  <2> SUFFICES ASSUME NEW s \in Tasks, NEW i \in 1..Len(Prog[s]), Prog[s][i].op \in SpawnOps, Unspawned(s, i)'
               PROVE  home'[Prog[s][i].task] = NoCore
    BY DEF SpawnInv
  <2>1. pc[c] \in Kicking => \/ cur'[c] = cur[c] /\ pc'[c] \in Kicking
                             \/ ip'[cur[c]] # ip[cur[c]]
    BY DEF Quiet, Kicking, Spawns
  <2>2. Unspawned(s, i)
    BY <2>1, UnspawnedKept, SMTT(30) DEF Quiet
  <2> QED
    BY <1>a, <2>2 DEF HomeInv, SpawnInv
<1>6. WhereInv'
  BY <1>a DEF HomeInv, WhereInv, Quiet
<1> QED
  BY <1>1, <1>2, <1>3, <1>4, <1>5, <1>6 DEF HomeInv

\* A step that spawns nothing and leaves the programs where they are.
Settled(c) ==
  /\ UNCHANGED <<home, ip>>
  /\ \A d \in Cores \ {c} : UNCHANGED <<pc[d], cur[d], obj[d], tgt[d], qlock[d]>>
  /\ pc[c] \notin Kicking /\ pc'[c] \notin Spawns
  /\ cur'[c] = cur[c] \/ ~ IsBoot(cur'[c])

LEMMA HomeSettled ==
  ASSUME TypeInv, HomeInv, NEW c \in Cores, Settled(c)
  PROVE  BootInv' /\ CallInv' /\ SpawnInv'
<1>1. BootInv'
  BY SMTT(30) DEF HomeInv, BootInv, Settled
<1>2. CallInv'
  BY DEF HomeInv, CallInv, TheCall, Settled
<1>3. SpawnInv'
  <2> SUFFICES ASSUME NEW s \in Tasks, NEW i \in 1..Len(Prog[s]), Prog[s][i].op \in SpawnOps, Unspawned(s, i)'
               PROVE  home'[Prog[s][i].task] = NoCore
    BY DEF SpawnInv
  <2>2. Unspawned(s, i)
    BY UnspawnedKept, SMTT(30) DEF Settled
  <2> QED
    BY <2>2 DEF HomeInv, SpawnInv, Settled
<1> QED
  BY <1>1, <1>2, <1>3

\* The locality of a step, for all that a core has.
LEMMA OthersStay ==
  ASSUME TypeInv, NEW c \in Cores, Step(c)
  PROVE  \A d \in Cores \ {c} : UNCHANGED <<pc[d], cur[d], obj[d], tgt[d], qlock[d]>>
BY StepIsLocal, CurIsLocal DEF Own

LEMMA MovesAreSteps ==
  ASSUME NEW c \in Cores, Moves(c)
  PROVE  Step(c)
<1>1. ASSUME NEW t, TimerFires(c, t)
      PROVE  CheckTimers(c)
  BY <1>1 DEF TimerFires, CheckTimers
<1> QED
  BY <1>1 DEF Moves, Step, Spawning, Polling, Run, YieldFirst, WakesJoiner

\* An entry is pushed to the end of one queue.
LEMMA PushAdds ==
  ASSUME TypeInv, NEW e \in Cores, NEW t, NEW by, PushBack(e, t, by)
  PROVE  /\ qlock[e] = NoCore /\ UNCHANGED qlock
         /\ \A d \in Cores \ {e} : queue'[d] = queue[d]
         /\ Len(queue'[e]) = Len(queue[e]) + 1
         /\ \A i \in 1..Len(queue[e]) : queue'[e][i] = queue[e][i]
         /\ queue'[e][Len(queue[e]) + 1].task = t
<1>1. queue \in [Cores -> Seq(Entry)] /\ queue[e] \in Seq(Entry)
  BY DEF TypeInv, TypeOK
<1> DEFINE entry == [task |-> t, by |-> by]
<1>2. queue'[e] = Append(queue[e], entry) /\ \A d \in Cores \ {e} : queue'[d] = queue[d]
  BY <1>1 DEF PushBack
<1>3. entry.task = t
  OBVIOUS
<1> HIDE DEF entry
<1>4. /\ Len(queue'[e]) = Len(queue[e]) + 1 /\ queue'[e][Len(queue[e]) + 1] = entry
      /\ \A i \in 1..Len(queue[e]) : queue'[e][i] = queue[e][i]
  BY <1>1, <1>2, SMTT(30)
<1> QED
  BY <1>2, <1>3, <1>4 DEF PushBack

LEMMA PushHome ==
  ASSUME TypeInv, HomeInv, NEW e \in Cores, NEW t, NEW by, PushBack(e, t, by),
         home'[t] = e, \A u \in Tasks \ {t} : home'[u] = home[u],
         home[t] # NoCore => home'[t] = home[t]
  PROVE  \A c \in Cores : \A i \in 1..Len(queue'[c]) : home'[queue'[c][i].task] = c
<1> SUFFICES ASSUME NEW c \in Cores, NEW i \in 1..Len(queue'[c])
             PROVE  home'[queue'[c][i].task] = c
  OBVIOUS
<1>a. \A d \in Cores : Len(queue[d]) \in Nat /\ \A j \in 1..Len(queue[d]) : queue[d][j].task \in Tasks
  <2> SUFFICES ASSUME NEW d \in Cores
               PROVE  Len(queue[d]) \in Nat /\ \A j \in 1..Len(queue[d]) : queue[d][j].task \in Tasks
    OBVIOUS
  <2>1. queue[d] \in Seq(Entry)
    BY DEF TypeInv, TypeOK
  <2>2. \A j \in 1..Len(queue[d]) : queue[d][j] \in Entry
    BY <2>1, ElementsType
  <2> QED
    BY <2>1, <2>2, SMTT(30) DEF Entry
<1>1. CASE i \in 1..Len(queue[c])
  <2>1. queue'[c][i] = queue[c][i]
    BY <1>1, PushAdds
  <2>2. home[queue[c][i].task] = c /\ queue[c][i].task \in Tasks
    BY <1>a, <1>1 DEF HomeInv, WhereInv
  <2>3. c # NoCore
    BY ConstantsAssumption
  <2> QED
    BY <2>1, <2>2, <2>3
<1>2. CASE i \notin 1..Len(queue[c])
  <2>1. c = e /\ i = Len(queue[e]) + 1
    BY <1>a, <1>2, PushAdds, SMTT(30)
  <2> QED
    BY <2>1, PushAdds, SMTT(30)
<1> QED
  BY <1>1, <1>2

\* The push of a spawn: the task is new.
LEMMA SpawnIsFresh ==
  ASSUME TypeInv, HomeInv, NEW c \in Cores, pc[c] \in {"spawn", "spawn_push"}
  PROVE  /\ obj[c] \in Tasks /\ home[obj[c]] = NoCore /\ ~ IsBoot(obj[c])
         /\ cur[c] \in Tasks /\ ip[cur[c]] \in 1..Len(Prog[cur[c]])
         /\ Prog[cur[c]][ip[cur[c]]].op \in SpawnOps /\ Prog[cur[c]][ip[cur[c]]].task = obj[c]
<1>1. cur[c] \in Tasks /\ obj[c] \in Tasks /\ ip[cur[c]] \in Nat \ {0}
  BY DEF TypeInv, TypeOK, ControlInv, InTask, Pushing
<1>2. Prog[cur[c]] \in Seq(Call)
  BY <1>1, ConstantsAssumption
<1>3. /\ ip[cur[c]] \in 1..Len(Prog[cur[c]])
      /\ Prog[cur[c]][ip[cur[c]]].op \in SpawnOps /\ Prog[cur[c]][ip[cur[c]]].task = obj[c]
  BY <1>1, <1>2, SMTT(30) DEF HomeInv, CallInv, Spawns, TheCall
<1>4. \A d \in Cores : cur[d] = cur[c] => pc[d] \notin Kicking
  BY <1>1, CurUnique, ConstantsAssumption DEF Kicking
<1>5. Unspawned(cur[c], ip[cur[c]])
  BY <1>4 DEF Unspawned
<1>6. home[obj[c]] = NoCore
  BY <1>1, <1>3, <1>5 DEF HomeInv, SpawnInv
<1>7. ~ IsBoot(obj[c])
  BY <1>1, <1>3, ProgramsAssumption, SMTT(30)
<1> QED
  BY <1>1, <1>3, <1>6, <1>7

LEMMA HomeSpawn ==
  ASSUME TypeInv, HomeInv, NEW c \in Cores, SpawnPush(c) \/ Spawn(c)
  PROVE  HomeInv'
<1> USE DEF listVars, queueVars, timerVars, kickVars, coreVars, taskVars, Goto, AdvanceIp
<1> DEFINE t == obj[c]
           s == cur[c]
<1>a. pc[c] \in {"spawn", "spawn_push"}
  BY DEF Spawn, SpawnPush
<1>b. /\ t \in Tasks /\ home[t] = NoCore /\ ~ IsBoot(t) /\ s \in Tasks /\ ip[s] \in 1..Len(Prog[s])
      /\ Prog[s][ip[s]].op \in SpawnOps /\ Prog[s][ip[s]].task = t
  BY <1>a, SpawnIsFresh
<1>c. tgt[c] \in Cores /\ tgt[c] # NoCore
  BY <1>a, ConstantsAssumption DEF TypeInv, ControlInv, Spawns
<1>d. /\ pc \in [Cores -> Labels] /\ home \in [Tasks -> Cores \cup {NoCore}] /\ ip \in [Tasks -> Nat \ {0}]
  BY DEF TypeInv, TypeOK
<1>e. /\ \E by \in {"kick", "bare"} : PushBack(tgt[c], t, by)
      /\ home' = [home EXCEPT ![t] = tgt[c]]
      /\ UNCHANGED <<qlock, tickets, gsTickets, waker, cur, obj, tgt>>
      /\ \/ pc' = [pc EXCEPT ![c] = "spawn_noise"] /\ ip' = ip
         \/ pc' = [pc EXCEPT ![c] = "exec"] /\ ip' = [ip EXCEPT ![s] = ip[s] + 1]
  BY DEF Spawn, SpawnPush, PushBack
<1>f. home'[t] = tgt[c] /\ \A u \in Tasks \ {t} : home'[u] = home[u]
  BY <1>b, <1>d, <1>e
<1>g. \A u \in Tasks : home[u] # NoCore => u # t /\ home'[u] = home[u]
  BY <1>b, <1>f
<1>1. LockInv'
  BY <1>e DEF HomeInv, LockInv
<1>2. RunInv'
  <2> SUFFICES ASSUME NEW d \in Cores
               PROVE  RunInv!(d)'
    BY DEF RunInv
  <2>1. pc'[d] = pc[d] \/ (d = c /\ pc'[d] \in {"spawn_noise", "exec"})
    BY <1>d, <1>e
  <2>2. qlock[d] = d => home'[cur[d]] = home[cur[d]]
    BY <1>g, ConstantsAssumption DEF HomeInv, RunInv
  <2>3. UNCHANGED <<qlock, cur>>
    BY <1>e
  <2> QED
    BY <1>a, <2>1, <2>2, <2>3 DEF HomeInv, RunInv, PollOnly, InPoll, InBoot, Spawns
<1>3. BootInv'
  BY <1>b, <1>e, <1>f DEF HomeInv, BootInv
<1>4. CallInv'
  <2> SUFFICES ASSUME NEW d \in Cores, pc'[d] \in Spawns
               PROVE  CallInv!(d)'
    BY DEF CallInv
  <2>1. pc[d] \in Spawns
    BY <1>a, <1>d, <1>e DEF Spawns
  <2>2. cur[d] \in Tasks /\ (d = c => ip' = ip)
    BY <1>d, <1>e, <2>1, SMTT(30) DEF TypeInv, ControlInv, Spawns, InTask
  <2>3. d # c => cur[d] # s
    BY <2>2, CurUnique, ConstantsAssumption
  <2>4. ip'[cur[d]] = ip[cur[d]]
    BY <1>b, <1>d, <1>e, <2>2, <2>3
  <2> QED
    BY <1>e, <2>1, <2>4 DEF HomeInv, CallInv, TheCall
<1>5. SpawnInv'
  <2> SUFFICES ASSUME NEW r \in Tasks, NEW i \in 1..Len(Prog[r]), Prog[r][i].op \in SpawnOps, Unspawned(r, i)'
               PROVE  home'[Prog[r][i].task] = NoCore
    BY DEF SpawnInv
  <2>1. Unspawned(r, i)
    <3>1. pc[c] \notin Kicking
      BY <1>a DEF Kicking
    <3>2. \A d \in Cores \ {c} : UNCHANGED <<pc[d], cur[d]>>
      BY <1>d, <1>e
    <3>3. \A u \in Tasks : ip'[u] = ip[u] \/ (u = cur[c] /\ ip'[u] = ip[u] + 1)
      BY <1>b, <1>d, <1>e
    <3> QED
      BY <3>1, <3>2, <3>3, UnspawnedKept, SMTT(30)
  <2>2. ~ (r = s /\ i = ip[s])
    BY <1>b, <1>d, <1>e, SMTT(30) DEF Unspawned, Kicking
  <2>3. Prog[r][i].task # t
    <3> SUFFICES ASSUME Prog[r][i].task = t
                 PROVE  FALSE
      OBVIOUS
    <3>1. r = s /\ i = ip[s]
      BY <1>b, ProgramsAssumption, SMTT(30)
    <3> QED
      BY <2>2, <3>1
  <2>4. Prog[r][i].task \in Tasks
    <3>1. Prog[r] \in Seq(Call)
      BY ConstantsAssumption
    <3>2. Prog[r][i] \in Call
      BY <3>1, SMTT(30)
    <3> QED
      BY <3>2 DEF Call
  <2> QED
    BY <1>f, <2>1, <2>3, <2>4 DEF HomeInv, SpawnInv
<1>6. WhereInv'
  <2>1. \A d \in Cores : \A i \in 1..Len(queue'[d]) : home'[queue'[d][i].task] = d
    BY <1>b, <1>c, <1>e, <1>f, PushHome
  <2>2. \A d \in Cores : \A u \in tickets'[d] \cup gsTickets'[d] : home'[u] = d
    BY <1>e, <1>g, ConstantsAssumption, SMTT(30) DEF HomeInv, WhereInv, TypeInv, TypeOK
  <2>3. \A u \in Tasks : waker'[u] # NoTask => home'[waker'[u]] # NoCore
    BY <1>e, <1>g, ConstantsAssumption, SMTT(30) DEF HomeInv, WhereInv, TypeInv, TypeOK
  <2>4. \A d \in Cores : pc'[d] = "wake" => tgt'[d] = home'[obj'[d]] /\ home'[obj'[d]] # NoCore
    <3> SUFFICES ASSUME NEW d \in Cores, pc'[d] = "wake"
                 PROVE  tgt'[d] = home'[obj'[d]] /\ home'[obj'[d]] # NoCore
      OBVIOUS
    <3>1. pc[d] = "wake" /\ obj[d] \in Tasks
      BY <1>d, <1>e DEF TypeInv, ControlInv, Pushing
    <3> QED
      BY <1>e, <1>g, <3>1 DEF HomeInv, WhereInv
  <2> QED
    BY <2>1, <2>2, <2>3, <2>4 DEF WhereInv
<1> QED
  BY <1>1, <1>2, <1>3, <1>4, <1>5, <1>6 DEF HomeInv

\* What a core that polls does to its own label keeps RunInv.
LEMMA RunKept ==
  ASSUME HomeInv, NEW c \in Cores, UNCHANGED <<home, qlock, cur>>, qlock[c] = c, pc'[c] \in InPoll,
         \A d \in Cores \ {c} : UNCHANGED <<pc[d]>>
  PROVE  RunInv'
BY DEF HomeInv, RunInv

\* A task that suspends itself leaves its waker where it leads to its home.
LEMMA HomeSuspend ==
  ASSUME TypeInv, HomeInv, NEW c \in Cores,
         YieldFirst(c) \/ JoinPending(c) \/ TimerPending(c) \/ TicketPending(c) \/ WakesJoiner(c)
  PROVE  HomeInv'
<1> USE DEF listVars, queueVars, timerVars, kickVars, coreVars, taskVars, Goto
<1>a. /\ pc \in [Cores -> Labels] /\ waker \in [Tasks -> Tasks \cup {NoTask}]
      /\ obj \in [Cores -> Tasks \cup {NoTask}] /\ tgt \in [Cores -> Cores \cup {NoCore}]
      /\ tickets \in [Cores -> SUBSET Tasks] /\ gsTickets \in [Cores -> SUBSET Tasks]
  BY DEF TypeInv, TypeOK
<1>b. qlock[c] = c
  <2>1. CASE YieldFirst(c)
    BY <2>1, CalledInPoll DEF YieldFirst, YieldNow, SpawnOps, SpawnKicked
  <2>2. CASE JoinPending(c)
    BY <2>2, CalledInPoll DEF JoinPending, SpawnOps, SpawnKicked
  <2>3. CASE TimerPending(c)
    BY <2>3, CalledInPoll DEF TimerPending, SpawnOps, SpawnKicked
  <2>4. CASE TicketPending(c)
    BY <2>4, CalledInPoll DEF TicketPending, SpawnOps, SpawnKicked
  <2>5. CASE WakesJoiner(c)
    BY <2>5 DEF WakesJoiner, FinishWaker, HomeInv, RunInv, PollOnly
  <2> QED
    BY <2>1, <2>2, <2>3, <2>4, <2>5
<1>c. cur[c] \in Tasks /\ home[cur[c]] = c /\ c # NoCore
  BY <1>b, ConstantsAssumption DEF HomeInv, RunInv
<1>d. /\ UNCHANGED <<home, ip, cur, queue, qlock>>
      /\ pc[c] \in {"exec", "finish_waker"} /\ pc'[c] \in {"wake", "poll_returns"}
      /\ \A d \in Cores \ {c} : UNCHANGED <<pc[d], obj[d], tgt[d]>>
  BY <1>a DEF YieldFirst, YieldNow, JoinPending, TimerPending, TicketPending, WakesJoiner, FinishWaker,
     AtOp, AtCall
<1>1. Settled(c)
  BY <1>d DEF Settled, Kicking, Spawns
<1>2. LockInv'
  BY <1>d DEF HomeInv, LockInv
<1>3. RunInv'
  BY <1>b, <1>d, RunKept DEF InPoll, PollOnly
<1>4. WhereInv'
  <2>1. \A d \in Cores : \A t \in tickets'[d] \cup gsTickets'[d] : home[t] = d
    <3>1. CASE UNCHANGED <<tickets, gsTickets>>
      BY <3>1 DEF HomeInv, WhereInv
    <3>2. CASE TimerPending(c)
      BY <1>a, <1>c, <3>2 DEF TimerPending, HomeInv, WhereInv
    <3>3. CASE TicketPending(c)
      BY <1>a, <1>c, <3>3 DEF TicketPending, HomeInv, WhereInv
    <3> QED
      BY <3>1, <3>2, <3>3 DEF YieldFirst, YieldNow, JoinPending, WakesJoiner, FinishWaker
  <2>2. \A t \in Tasks : waker'[t] # NoTask => home[waker'[t]] # NoCore
    <3>1. CASE UNCHANGED waker
      BY <3>1 DEF HomeInv, WhereInv
    <3>2. CASE JoinPending(c)
      BY <1>a, <1>c, <3>2 DEF JoinPending, HomeInv, WhereInv
    <3>3. CASE WakesJoiner(c)
      BY <1>a, <1>c, <3>3 DEF WakesJoiner, FinishWaker, HomeInv, WhereInv
    <3> QED
      BY <3>1, <3>2, <3>3 DEF YieldFirst, YieldNow, TimerPending, TicketPending
  <2>3. pc'[c] = "wake" => tgt'[c] = home[obj'[c]] /\ home[obj'[c]] # NoCore
    <3>1. CASE pc'[c] = "poll_returns"
      BY <3>1
    <3>2. CASE YieldFirst(c)
      BY <1>a, <1>c, <3>2 DEF YieldFirst, YieldNow
    <3>3. CASE WakesJoiner(c)
      <4> DEFINE w == waker[cur[c]]
      <4>1. obj' = [obj EXCEPT ![c] = w] /\ tgt' = [tgt EXCEPT ![c] = home[w]] /\ w # NoTask
        BY <3>3 DEF WakesJoiner, FinishWaker
      <4>2. home[w] # NoCore
        BY <1>c, <4>1 DEF HomeInv, WhereInv
      <4> HIDE DEF w
      <4> QED
        BY <1>a, <4>1, <4>2
    <3> QED
      BY <1>a, <3>1, <3>2, <3>3 DEF JoinPending, TimerPending, TicketPending
  <2> QED
    BY <1>d, <2>1, <2>2, <2>3 DEF HomeInv, WhereInv
<1> QED
  BY <1>1, <1>2, <1>3, <1>4, HomeSettled DEF HomeInv

\* A waker, also that of a ticket, pushes its task to the queue of its home.
LEMMA HomeWake ==
  ASSUME TypeInv, HomeInv, NEW c \in Cores, Wake(c) \/ \E t \in Tasks : TimerFires(c, t)
  PROVE  HomeInv'
<1> USE DEF listVars, queueVars, timerVars, kickVars, coreVars, taskVars, Goto
<1>a. /\ pc \in [Cores -> Labels] /\ tickets \in [Cores -> SUBSET Tasks]
      /\ home \in [Tasks -> Cores \cup {NoCore}]
  BY DEF TypeInv, TypeOK
<1>1. PICK t \in Tasks : home[t] \in Cores /\ PushBack(home[t], t, "bare")
  <2>1. CASE Wake(c)
    <3>1. obj[c] \in Tasks /\ tgt[c] = home[obj[c]] /\ home[obj[c]] # NoCore
      BY <2>1 DEF Wake, HomeInv, WhereInv, TypeInv, ControlInv, Pushing
    <3> QED
      BY <2>1, <3>1, <1>a DEF Wake
  <2>2. CASE \E t \in Tasks : TimerFires(c, t)
    BY <2>2, <1>a DEF TimerFires, HomeInv, WhereInv
  <2> QED
    BY <2>1, <2>2
<1>2. UNCHANGED <<home, ip, cur, obj, tgt, qlock, waker, gsTickets>>
  BY <1>1 DEF Wake, TimerFires, PushBack
<1>3. /\ \A d \in Cores \ {c} : pc'[d] = pc[d]
      /\ pc[c] \notin Kicking /\ pc'[c] \notin Spawns /\ (pc'[c] = "wake" => pc[c] = "wake")
      /\ \A d \in Cores : tickets'[d] \subseteq tickets[d]
  BY <1>a DEF Wake, TimerFires, Kicking, Spawns
<1>4. Settled(c)
  BY <1>2, <1>3 DEF Settled
<1>5. LockInv'
  BY <1>2 DEF HomeInv, LockInv
<1>6. RunInv'
  <2>1. CASE Wake(c)
    <3>1. qlock[c] = c /\ pc'[c] = "poll_returns"
      BY <1>a, <2>1 DEF Wake, HomeInv, RunInv, PollOnly
    <3> QED
      BY <1>2, <1>3, <3>1, RunKept DEF InPoll, PollOnly
  <2>2. CASE \E u \in Tasks : TimerFires(c, u)
    BY <1>2, <2>2 DEF TimerFires, HomeInv, RunInv
  <2> QED
    BY <2>1, <2>2
<1>7. WhereInv'
  <2>1. \A d \in Cores : \A i \in 1..Len(queue'[d]) : home'[queue'[d][i].task] = d
    BY <1>1, <1>2, PushHome
  <2> QED
    BY <1>2, <1>3, <2>1 DEF HomeInv, WhereInv
<1> QED
  BY <1>4, <1>5, <1>6, <1>7, HomeSettled DEF HomeInv

\* The head of a queue is taken out, the others move up.
LEMMA PopTakes ==
  ASSUME TypeInv, NEW c \in Cores, PopSome(c)
  PROVE  /\ queue[c] # <<>> /\ Len(queue[c]) \in Nat \ {0} /\ 1 \in 1..Len(queue[c])
         /\ queue[c][1].task \in Tasks
         /\ cur' = [cur EXCEPT ![c] = queue[c][1].task]
         /\ \A d \in Cores \ {c} : queue'[d] = queue[d]
         /\ Len(queue'[c]) = Len(queue[c]) - 1
         /\ \A i \in 1..Len(queue'[c]) : i + 1 \in 1..Len(queue[c]) /\ queue'[c][i] = queue[c][i + 1]
<1>1. queue \in [Cores -> Seq(Entry)] /\ queue[c] \in Seq(Entry) /\ queue[c] # <<>>
  BY DEF TypeInv, TypeOK, PopSome
<1>2. queue'[c] = Tail(queue[c]) /\ \A d \in Cores \ {c} : queue'[d] = queue[d]
  BY <1>1 DEF PopSome
<1>3. Head(queue[c]) = queue[c][1] /\ queue[c][1] \in Entry /\ Len(queue[c]) \in Nat \ {0}
  BY <1>1, SMTT(30)
<1>4. /\ Len(queue'[c]) = Len(queue[c]) - 1
      /\ \A i \in 1..Len(queue'[c]) : i + 1 \in 1..Len(queue[c]) /\ queue'[c][i] = queue[c][i + 1]
  BY <1>1, <1>2, <1>3, SMTT(30)
<1>5. cur' = [cur EXCEPT ![c] = queue[c][1].task]
  BY <1>3 DEF PopSome
<1> QED
  BY <1>1, <1>2, <1>3, <1>4, <1>5, SMTT(30) DEF Entry

LEMMA HomePop ==
  ASSUME TypeInv, HomeInv, NEW c \in Cores, PopSome(c)
  PROVE  HomeInv'
<1> USE DEF listVars, queueVars, timerVars, kickVars, coreVars, taskVars, Goto
<1> DEFINE t == queue[c][1].task
<1>a. /\ pc \in [Cores -> Labels] /\ qlock \in [Cores -> Cores \cup {NoCore}]
      /\ cur \in [Cores -> Tasks \cup {NoTask}]
  BY DEF TypeInv, TypeOK
<1>b. t \in Tasks /\ home[t] = c /\ c # NoCore /\ ~ IsBoot(t) /\ cur' = [cur EXCEPT ![c] = t]
  <2>1. t \in Tasks /\ 1 \in 1..Len(queue[c]) /\ cur' = [cur EXCEPT ![c] = t]
    BY PopTakes
  <2>2. home[t] = c /\ c # NoCore
    BY <2>1, ConstantsAssumption DEF HomeInv, WhereInv
  <2> QED
    BY <2>1, <2>2 DEF HomeInv, BootInv
<1> HIDE DEF t
<1>c. /\ pc[c] = "pop_front" /\ pc' = [pc EXCEPT ![c] = "noise_load"] /\ qlock' = [qlock EXCEPT ![c] = c]
      /\ UNCHANGED <<home, ip, obj, tgt, tickets, gsTickets, waker>>
  BY DEF PopSome
<1>1. Settled(c)
  BY <1>a, <1>b, <1>c DEF Settled, Kicking, Spawns
<1>2. LockInv'
  BY <1>a, <1>c DEF HomeInv, LockInv
<1>3. RunInv'
  BY <1>a, <1>b, <1>c DEF HomeInv, RunInv, InPoll, PollOnly
<1>4. WhereInv'
  <2>1. ASSUME NEW d \in Cores, NEW i \in 1..Len(queue'[d])
        PROVE  home[queue'[d][i].task] = d
    <3>1. \A j \in 1..Len(queue[d]) : home[queue[d][j].task] = d
      BY DEF HomeInv, WhereInv
    <3>2. CASE d # c
      <4>1. queue'[d] = queue[d]
        BY <3>2, PopTakes
      <4> QED
        BY <3>1, <4>1
    <3>3. CASE d = c
      <4>1. i + 1 \in 1..Len(queue[d]) /\ queue'[d][i] = queue[d][i + 1]
        BY <3>3, PopTakes
      <4> QED
        BY <3>1, <4>1
    <3> QED
      BY <3>2, <3>3
  <2> QED
    BY <1>a, <1>c, <2>1 DEF HomeInv, WhereInv
<1> QED
  BY <1>1, <1>2, <1>3, <1>4, HomeSettled DEF HomeInv

LEMMA HomePollReturns ==
  ASSUME TypeInv, HomeInv, NEW c \in Cores, PollReturns(c)
  PROVE  HomeInv'
<1> USE DEF listVars, queueVars, timerVars, kickVars, coreVars, taskVars, Goto
<1>a. /\ pc \in [Cores -> Labels] /\ qlock \in [Cores -> Cores \cup {NoCore}]
      /\ cur \in [Cores -> Tasks \cup {NoTask}] /\ c # NoCore
  BY ConstantsAssumption DEF TypeInv, TypeOK
<1>b. /\ pc[c] = "poll_returns" /\ pc' = [pc EXCEPT ![c] = "check_timers"]
      /\ qlock' = [qlock EXCEPT ![c] = NoCore] /\ cur' = [cur EXCEPT ![c] = NoTask]
      /\ UNCHANGED <<home, ip, obj, tgt, queue, tickets, gsTickets, waker>>
  BY DEF PollReturns
<1>c. ~ IsBoot(NoTask)
  BY ConstantsAssumption DEF IsBoot
<1>1. Settled(c)
  BY <1>a, <1>b, <1>c DEF Settled, Kicking, Spawns
<1>2. LockInv'
  BY <1>a, <1>b DEF HomeInv, LockInv
<1>3. RunInv'
  BY <1>a, <1>b DEF HomeInv, RunInv, PollOnly
<1>4. WhereInv'
  BY <1>a, <1>b DEF HomeInv, WhereInv
<1> QED
  BY <1>1, <1>2, <1>3, <1>4, HomeSettled DEF HomeInv

LEMMA HomeStep == TypeInv /\ HomeInv /\ [Next]_vars => HomeInv'
<1> SUFFICES ASSUME TypeInv, HomeInv, [Next]_vars
             PROVE  HomeInv'
  OBVIOUS
<1>1. CASE Still
  <2> USE DEF Still, placeVars, HomeInv
  <2>1. LockInv' /\ RunInv' /\ BootInv'
    BY <1>1 DEF LockInv, RunInv, BootInv
  <2>2. CallInv' /\ SpawnInv'
    BY <1>1 DEF CallInv, TheCall, SpawnInv, Unspawned
  <2>3. WhereInv'
    BY <1>1 DEF WhereInv
  <2> QED
    BY <2>1, <2>2, <2>3
<1>2. ASSUME NEW c \in Cores, Quiet(c) \/ Moves(c)
      PROVE  HomeInv'
  BY <1>2, HomeQuiet, HomeSpawn, HomeSuspend, HomeWake, HomePop, HomePollReturns DEF Moves
<1> QED
  BY <1>1, <1>2, StepKinds

-----------------------------------------------------------------------------
(* What can still wake a task, one part of WakeTokens after the other. *)

LEMMA TokenParts ==
  ASSUME NEW t
  PROVE  WakeTokens(t) = QueueTokens(t) \cup TicketTokens(t) \cup GsTokens(t) \cup JoinTokens(t) \cup CallTokens(t)
BY DEF WakeTokens

LEMMA TokenPartsNext ==
  ASSUME NEW t
  PROVE  WakeTokens(t)' = QueueTokens(t)' \cup TicketTokens(t)' \cup GsTokens(t)' \cup JoinTokens(t)' \cup CallTokens(t)'
BY DEF WakeTokens

LEMMA TokenFrame ==
  ASSUME NEW t
  PROVE  /\ UNCHANGED queue => QueueTokens(t)' = QueueTokens(t)
         /\ UNCHANGED tickets => TicketTokens(t)' = TicketTokens(t)
         /\ UNCHANGED gsTickets => GsTokens(t)' = GsTokens(t)
         /\ UNCHANGED waker => JoinTokens(t)' = JoinTokens(t)
         /\ UNCHANGED <<pc, obj>> => CallTokens(t)' = CallTokens(t)
BY SMTT(30) DEF QueueTokens, TicketTokens, GsTokens, JoinTokens, CallTokens

\* A wake call begins, ends, or neither.
LEMMA CallFrame ==
  ASSUME NEW t, NEW c \in Cores, \A d \in Cores \ {c} : UNCHANGED <<pc[d], obj[d]>>
  PROVE  /\ pc[c] # "wake" /\ pc'[c] # "wake" => CallTokens(t)' = CallTokens(t)
         /\ pc[c] # "wake" /\ pc'[c] = "wake" =>
              CallTokens(t)' = IF obj'[c] = t THEN CallTokens(t) \cup {<<"wake", c>>} ELSE CallTokens(t)
         /\ pc[c] = "wake" /\ pc'[c] # "wake" => CallTokens(t)' = CallTokens(t) \ {<<"wake", c>>}
<1>1. \A x : x \in CallTokens(t) <=> \E d \in Cores : pc[d] = "wake" /\ obj[d] = t /\ x = <<"wake", d>>
  BY DEF CallTokens
<1>2. \A x : x \in CallTokens(t)' <=> \E d \in Cores : pc'[d] = "wake" /\ obj'[d] = t /\ x = <<"wake", d>>
  BY DEF CallTokens
<1>3. \A d, e \in Cores : <<"wake", d>> = <<"wake", e>> => d = e
  OBVIOUS
<1>4. CASE pc[c] # "wake" /\ pc'[c] # "wake"
  <2>1. \A x : x \in CallTokens(t)' <=> x \in CallTokens(t)
    BY <1>1, <1>2, <1>4
  <2> QED
    BY <1>4, <2>1
<1>5. CASE pc[c] # "wake" /\ pc'[c] = "wake"
  <2>1. \A x : x \in CallTokens(t)' <=> x \in CallTokens(t) \/ (obj'[c] = t /\ x = <<"wake", c>>)
    BY <1>1, <1>2, <1>5, SMTT(30)
  <2> QED
    BY <1>5, <2>1
<1>6. CASE pc[c] = "wake" /\ pc'[c] # "wake"
  <2>1. \A x : x \in CallTokens(t)' <=> x \in CallTokens(t) /\ x # <<"wake", c>>
    BY <1>1, <1>2, <1>3, <1>6, SMTT(30)
  <2> QED
    BY <1>6, <2>1
<1> QED
  BY <1>4, <1>5, <1>6

LEMMA QueueTokenIs ==
  ASSUME NEW t
  PROVE  \A x : x \in QueueTokens(t) <=> \E d \in Cores : \E i \in 1..Len(queue[d]) : queue[d][i].task = t /\ x = <<"queue", d, i>>
BY SMTT(30) DEF QueueTokens

LEMMA QueueTokenIsNext ==
  ASSUME NEW t
  PROVE  \A x : x \in QueueTokens(t)' <=> \E d \in Cores : \E i \in 1..Len(queue'[d]) : queue'[d][i].task = t /\ x = <<"queue", d, i>>
BY SMTT(30) DEF QueueTokens

\* A push adds a token for the task it pushes.
LEMMA PushTokens ==
  ASSUME TypeInv, NEW e \in Cores, NEW t, NEW by, PushBack(e, t, by), NEW u
  PROVE  QueueTokens(u)' = IF u = t THEN QueueTokens(u) \cup {<<"queue", e, Len(queue[e]) + 1>>}
                                    ELSE QueueTokens(u)
<1>a. \A d \in Cores : Len(queue[d]) \in Nat
  BY SMTT(30) DEF TypeInv, TypeOK
<1> DEFINE n == Len(queue[e]) + 1
<1>1. /\ \A d \in Cores \ {e} : queue'[d] = queue[d]
      /\ 1..Len(queue'[e]) = 1..Len(queue[e]) \cup {n} /\ n \notin 1..Len(queue[e])
      /\ \A i \in 1..Len(queue[e]) : queue'[e][i] = queue[e][i]
      /\ queue'[e][n].task = t
  BY <1>a, PushAdds, SMTT(30)
<1> HIDE DEF n
<1>2. \A x : x \in QueueTokens(u)' <=> x \in QueueTokens(u) \/ (u = t /\ x = <<"queue", e, n>>)
  <2> TAKE x
  <2>1. ASSUME x \in QueueTokens(u)'
        PROVE  x \in QueueTokens(u) \/ (u = t /\ x = <<"queue", e, n>>)
    <3>a. PICK d \in Cores : \E i \in 1..Len(queue'[d]) : queue'[d][i].task = u /\ x = <<"queue", d, i>>
      BY <2>1, QueueTokenIsNext, SMTT(30)
    <3>1. PICK i \in 1..Len(queue'[d]) : queue'[d][i].task = u /\ x = <<"queue", d, i>>
      BY <3>a
    <3>2. CASE i \in 1..Len(queue[d])
      BY <1>1, <3>1, <3>2, QueueTokenIs
    <3>3. CASE i \notin 1..Len(queue[d])
      BY <1>1, <3>1, <3>3
    <3> QED
      BY <3>2, <3>3
  <2>2. ASSUME x \in QueueTokens(u)
        PROVE  x \in QueueTokens(u)'
    <3>a. PICK d \in Cores : \E i \in 1..Len(queue[d]) : queue[d][i].task = u /\ x = <<"queue", d, i>>
      BY <2>2, QueueTokenIs, SMTT(30)
    <3>1. PICK i \in 1..Len(queue[d]) : queue[d][i].task = u /\ x = <<"queue", d, i>>
      BY <3>a
    <3>2. i \in 1..Len(queue'[d]) /\ queue'[d][i] = queue[d][i]
      BY <1>1
    <3> QED
      BY <3>1, <3>2, QueueTokenIsNext
  <2>3. ASSUME u = t, x = <<"queue", e, n>>
        PROVE  x \in QueueTokens(u)'
    BY <1>1, <2>3, QueueTokenIsNext
  <2> QED
    BY <2>1, <2>2, <2>3
<1> QED
  BY <1>2 DEF n

\* Whatever leads to a task leads to its home, so a task that was never spawned has no token.
LEMMA TokenNeedsHome ==
  ASSUME TypeInv, HomeInv, NEW t \in Tasks, home[t] = NoCore
  PROVE  WakeTokens(t) = {}
<1>a. NoCore \notin Cores /\ NoTask \notin Tasks
  BY ConstantsAssumption
<1>1. QueueTokens(t) = {}
  BY <1>a, QueueTokenIs, SMTT(30) DEF HomeInv, WhereInv
<1>2. TicketTokens(t) = {}
  BY <1>a, SMTT(30) DEF HomeInv, WhereInv, TicketTokens
<1>3. GsTokens(t) = {}
  <2>1. \A c \in Cores : t \notin gsTickets[c]
    BY <1>a DEF HomeInv, WhereInv
  <2> QED
    BY <2>1 DEF GsTokens
<1>4. JoinTokens(t) = {}
  BY <1>a DEF HomeInv, WhereInv, JoinTokens
<1>5. CallTokens(t) = {}
  BY <1>a DEF HomeInv, WhereInv, CallTokens
<1> QED
  BY <1>1, <1>2, <1>3, <1>4, <1>5, TokenParts

\* A task in a queue, a ticket map or the hands of a waker has the token that says so.
LEMMA TokenHeld ==
  ASSUME NEW t
  PROVE  /\ \A d \in Cores : \A i \in 1..Len(queue[d]) : queue[d][i].task = t => <<"queue", d, i>> \in WakeTokens(t)
         /\ \A d \in Cores : t \in tickets[d] => <<"ticket", d>> \in WakeTokens(t)
         /\ \A d \in Cores : t \in gsTickets[d] => <<"gs", d>> \in WakeTokens(t)
         /\ \A s \in Tasks : waker[s] = t => <<"join", s>> \in WakeTokens(t)
         /\ \A d \in Cores : pc[d] = "wake" /\ obj[d] = t => <<"wake", d>> \in WakeTokens(t)
<1>1. \A d \in Cores : \A i \in 1..Len(queue[d]) : queue[d][i].task = t => <<"queue", d, i>> \in QueueTokens(t)
  BY QueueTokenIs
<1>2. \A d \in Cores : t \in tickets[d] => <<"ticket", d>> \in TicketTokens(t)
  BY DEF TicketTokens
<1>3. \A d \in Cores : t \in gsTickets[d] => <<"gs", d>> \in GsTokens(t)
  BY DEF GsTokens
<1>4. \A s \in Tasks : waker[s] = t => <<"join", s>> \in JoinTokens(t)
  BY DEF JoinTokens
<1>5. \A d \in Cores : pc[d] = "wake" /\ obj[d] = t => <<"wake", d>> \in CallTokens(t)
  BY DEF CallTokens
<1> QED
  BY <1>1, <1>2, <1>3, <1>4, <1>5, TokenParts

\* One task gets a token or changes the one it has, the others keep theirs.
MovesToken(t) ==
  /\ \A u \in Tasks \ {t} : WakeTokens(u)' = WakeTokens(u)
  /\ \E y : WakeTokens(t)' = {y}

OneToken == \A t \in Tasks : \A x, y \in WakeTokens(t) : x = y

\* The waker in a JoinInner is that of the one task that can join.
JoinInv ==
  \A s \in Tasks : waker[s] # NoTask =>
    \E i \in 1..Len(Prog[waker[s]]) : Prog[waker[s]][i].op = "join" /\ Prog[waker[s]][i].task = s

LEMMA JoinStep == TypeInv /\ JoinInv /\ [Next]_vars => JoinInv'
<1> SUFFICES ASSUME TypeInv, JoinInv, [Next]_vars
             PROVE  JoinInv'
  OBVIOUS
<1> USE DEF listVars, queueVars, timerVars, kickVars, coreVars, taskVars
<1>a. waker \in [Tasks -> Tasks \cup {NoTask}]
  BY DEF TypeInv, TypeOK
<1>1. CASE UNCHANGED waker
  BY <1>1 DEF JoinInv
<1>2. ASSUME NEW c \in Cores, JoinPending(c)
      PROVE  JoinInv'
  <2>1. cur[c] \in Tasks /\ ip[cur[c]] \in 1..Len(Prog[cur[c]])
    <3>1. cur[c] \in Tasks /\ ip[cur[c]] \in Nat \ {0} /\ Prog[cur[c]] \in Seq(Call)
      BY <1>2, ConstantsAssumption DEF JoinPending, AtOp, AtCall, TypeInv, TypeOK, ControlInv, InTask
    <3> QED
      BY <1>2, <3>1, SMTT(30) DEF JoinPending, AtOp, AtCall
  <2>2. TheCall(c).op = "join" /\ waker' = [waker EXCEPT ![TheCall(c).task] = cur[c]]
    BY <1>2 DEF JoinPending, AtOp
  <2> QED
    BY <1>a, <2>1, <2>2 DEF JoinInv, TheCall
<1>3. ASSUME NEW c \in Cores, FinishWaker(c)
      PROVE  JoinInv'
  BY <1>a, <1>3 DEF FinishWaker, JoinInv
<1>4. ASSUME NEW c \in Cores, Step(c)
      PROVE  UNCHANGED waker \/ JoinPending(c) \/ FinishWaker(c)
  <2>1. CASE New(c) \/ BootEnd(c) \/ Spawning(c)
    BY <2>1 DEF New, BootEnd, Spawning, SpawnFails, SpawnSelect, Spawn, SpawnPush, SpawnNoise, SpawnOnline, SpawnIpi
  <2>2. CASE Polling(c)
    BY <2>2 DEF Polling, JoinReady, TimerReady, TimerNew, YieldNow, TimerPending,
       TicketPending, PendingForever, FinishData, Wake
  <2>3. CASE Run(c)
    BY <2>3 DEF Run, CheckTimers, PopSome, NoiseLoad, NoiseStore, PollReturns, PopNone,
       IdleCheck, IdleNoise, IdleOffline, IdleOnline
  <2> QED
    BY <1>4, <2>1, <2>2, <2>3 DEF Step
<1>5. CASE Tick \/ Hung \/ UNCHANGED vars
  BY <1>1, <1>5 DEF Tick, Hung, vars
<1>6. ASSUME NEW c \in Cores, DummyInterrupt(c) \/ OtherInterrupt(c)
      PROVE  JoinInv'
  BY <1>1, <1>6 DEF DummyInterrupt, OtherInterrupt
<1> QED
  BY <1>1, <1>2, <1>3, <1>4, <1>5, <1>6 DEF Next

\* A JoinHandle is awaited by one task.
LEMMA OneJoiner ==
  ASSUME NEW s \in Tasks, NEW t \in Tasks, NEW i \in 1..Len(Prog[s]), NEW j \in 1..Len(Prog[t]),
         Prog[s][i].op = "join", Prog[t][j].op = "join", Prog[s][i].task = Prog[t][j].task
  PROVE  s = t
BY ProgramsAssumption

\* The waker goes to a place of its own when a poll ends with Pending.
LEMMA SuspendTokens ==
  ASSUME TypeInv, JoinInv, NEW c \in Cores, NEW t \in Tasks, t = cur[c], WakeTokens(t) = {},
         YieldFirst(c) \/ JoinPending(c) \/ TimerPending(c) \/ TicketPending(c)
  PROVE  MovesToken(t)
<1> USE DEF listVars, queueVars, timerVars, kickVars, coreVars, taskVars, Goto
<1>a. /\ pc \in [Cores -> Labels] /\ waker \in [Tasks -> Tasks \cup {NoTask}]
      /\ obj \in [Cores -> Tasks \cup {NoTask}] /\ tgt \in [Cores -> Cores \cup {NoCore}]
      /\ tickets \in [Cores -> SUBSET Tasks] /\ gsTickets \in [Cores -> SUBSET Tasks]
  BY DEF TypeInv, TypeOK
<1>b. \A d \in Cores \ {c} : UNCHANGED <<pc[d], obj[d]>>
  BY <1>a DEF YieldFirst, YieldNow, JoinPending, TimerPending, TicketPending
<1>1. CASE YieldFirst(c)
  <2>1. UNCHANGED <<queue, tickets, gsTickets, waker>> /\ pc[c] # "wake" /\ pc'[c] = "wake" /\ obj'[c] = t
    BY <1>1, <1>a DEF YieldFirst, YieldNow, AtOp, AtCall
  <2>2. \A u \in Tasks : CallTokens(u)' = IF u = t THEN CallTokens(u) \cup {<<"wake", c>>} ELSE CallTokens(u)
    BY <1>b, <2>1, CallFrame
  <2>3. \A u \in Tasks : WakeTokens(u)' = IF u = t THEN WakeTokens(u) \cup {<<"wake", c>>} ELSE WakeTokens(u)
    BY <2>1, <2>2, TokenFrame, TokenParts, TokenPartsNext
  <2> QED
    BY <2>3 DEF MovesToken
<1>2. CASE JoinPending(c)
  <2> DEFINE s == TheCall(c).task
  <2>0. waker[s] = NoTask
    <3> SUFFICES ASSUME waker[s] # NoTask
                 PROVE  FALSE
      OBVIOUS
    <3>1. s \in Tasks /\ TheCall(c).op = "join" /\ TheCall(c) = Prog[t][ip[t]]
      BY <1>2, TheCallType DEF JoinPending, AtOp, AtCall, Call, TheCall
    <3>2. ip[t] \in 1..Len(Prog[t])
      <4>1. ip[t] \in Nat \ {0} /\ Prog[t] \in Seq(Call)
        BY ConstantsAssumption DEF TypeInv, TypeOK
      <4>2. ip[t] <= Len(Prog[t])
        BY <1>2 DEF JoinPending, AtOp, AtCall
      <4> QED
        BY <4>1, <4>2, SMTT(30)
    <3>3. waker[s] \in Tasks
      BY <1>a, <3>1
    <3>a. PICK i \in 1..Len(Prog[waker[s]]) : Prog[waker[s]][i].op = "join" /\ Prog[waker[s]][i].task = s
      BY <3>1 DEF JoinInv
    <3>b. Prog[t][ip[t]].op = "join" /\ Prog[t][ip[t]].task = s
      BY <3>1
    <3> HIDE DEF s
    <3>4. waker[s] = t
      BY <3>2, <3>3, <3>a, <3>b, OneJoiner
    <3> QED
      BY <3>1, <3>4, TokenHeld
  <2>1. /\ UNCHANGED <<queue, tickets, gsTickets, obj>> /\ pc[c] # "wake" /\ pc'[c] # "wake"
        /\ waker' = [waker EXCEPT ![s] = t] /\ s \in Tasks
    BY <1>2, <1>a, TheCallType DEF JoinPending, AtOp, AtCall, Call
  <2> HIDE DEF s
  <2>2. \A u \in Tasks : CallTokens(u)' = CallTokens(u)
    BY <1>b, <2>1, CallFrame
  <2>3. \A u \in Tasks \ {t} : JoinTokens(u)' = JoinTokens(u)
    <3>1. \A u \in Tasks \ {t} : \A k \in Tasks : waker'[k] = u <=> waker[k] = u
      BY <1>a, <2>0, <2>1, ConstantsAssumption
    <3> QED
      BY <3>1 DEF JoinTokens
  <2>4. JoinTokens(t)' = JoinTokens(t) \cup {<<"join", s>>}
    BY <1>a, <2>1 DEF JoinTokens
  <2>5. \A u \in Tasks \ {t} : WakeTokens(u)' = WakeTokens(u)
    BY <2>1, <2>2, <2>3, TokenFrame, TokenParts, TokenPartsNext
  <2>6. WakeTokens(t)' = {<<"join", s>>}
    BY <2>1, <2>2, <2>4, TokenFrame, TokenParts, TokenPartsNext, SMTT(30)
  <2> QED
    BY <2>5, <2>6 DEF MovesToken
<1>3. CASE TimerPending(c)
  <2>1. /\ UNCHANGED <<queue, tickets, waker, obj>> /\ pc[c] # "wake" /\ pc'[c] # "wake"
        /\ gsTickets' = [gsTickets EXCEPT ![c] = @ \cup {t}]
    BY <1>3, <1>a DEF TimerPending, AtOp, AtCall
  <2>2. \A u \in Tasks : CallTokens(u)' = CallTokens(u)
    BY <1>b, <2>1, CallFrame
  <2>3. \A u \in Tasks \ {t} : GsTokens(u)' = GsTokens(u)
    BY <1>a, <2>1 DEF GsTokens
  <2>4. GsTokens(t)' = GsTokens(t) \cup {<<"gs", c>>}
    BY <1>a, <2>1 DEF GsTokens
  <2>5. \A u \in Tasks \ {t} : WakeTokens(u)' = WakeTokens(u)
    BY <2>1, <2>2, <2>3, TokenFrame, TokenParts, TokenPartsNext
  <2>6. WakeTokens(t)' = {<<"gs", c>>}
    BY <2>1, <2>2, <2>4, TokenFrame, TokenParts, TokenPartsNext, SMTT(30)
  <2> QED
    BY <2>5, <2>6 DEF MovesToken
<1>4. CASE TicketPending(c)
  <2>1. /\ UNCHANGED <<queue, gsTickets, waker, obj>> /\ pc[c] # "wake" /\ pc'[c] # "wake"
        /\ tickets' = [tickets EXCEPT ![c] = @ \cup {t}]
    BY <1>4, <1>a DEF TicketPending, AtOp, AtCall
  <2>2. \A u \in Tasks : CallTokens(u)' = CallTokens(u)
    BY <1>b, <2>1, CallFrame
  <2>3. \A u \in Tasks \ {t} : TicketTokens(u)' = TicketTokens(u)
    BY <1>a, <2>1 DEF TicketTokens
  <2>4. TicketTokens(t)' = TicketTokens(t) \cup {<<"ticket", c>>}
    BY <1>a, <2>1 DEF TicketTokens
  <2>5. \A u \in Tasks \ {t} : WakeTokens(u)' = WakeTokens(u)
    BY <2>1, <2>2, <2>3, TokenFrame, TokenParts, TokenPartsNext
  <2>6. WakeTokens(t)' = {<<"ticket", c>>}
    BY <2>1, <2>2, <2>4, TokenFrame, TokenParts, TokenPartsNext, SMTT(30)
  <2> QED
    BY <2>5, <2>6 DEF MovesToken
<1> QED
  BY <1>1, <1>2, <1>3, <1>4

\* The finishing task takes the waker it finds and is about to use it.
LEMMA JoinerTokens ==
  ASSUME TypeInv, OneToken, NEW c \in Cores, WakesJoiner(c), NEW w \in Tasks, w = waker[cur[c]]
  PROVE  MovesToken(w) /\ WakeTokens(w) # {}
<1> USE DEF listVars, queueVars, timerVars, kickVars, coreVars, taskVars, Goto
<1>a. /\ pc \in [Cores -> Labels] /\ waker \in [Tasks -> Tasks \cup {NoTask}]
      /\ obj \in [Cores -> Tasks \cup {NoTask}] /\ cur[c] \in Tasks
  BY DEF TypeInv, TypeOK, ControlInv, InTask, WakesJoiner, FinishWaker
<1> DEFINE s == cur[c]
<1>1. /\ UNCHANGED <<queue, tickets, gsTickets>> /\ waker' = [waker EXCEPT ![s] = NoTask]
      /\ pc[c] = "finish_waker" /\ pc' = [pc EXCEPT ![c] = "wake"] /\ obj' = [obj EXCEPT ![c] = w]
  BY DEF WakesJoiner, FinishWaker
<1>2. s \in Tasks /\ waker[s] = w
  BY <1>a
<1> HIDE DEF s
<1>3. \A d \in Cores \ {c} : UNCHANGED <<pc[d], obj[d]>>
  BY <1>a, <1>1
<1>4. \A u \in Tasks : CallTokens(u)' = IF u = w THEN CallTokens(u) \cup {<<"wake", c>>} ELSE CallTokens(u)
  BY <1>a, <1>1, <1>3, CallFrame
<1>5. \A u \in Tasks : JoinTokens(u)' = JoinTokens(u) \ {<<"join", s>>}
  <2> TAKE u \in Tasks
  <2>0. u # NoTask
    BY ConstantsAssumption
  <2>1. \A x : x \in JoinTokens(u) <=> \E k \in Tasks : waker[k] = u /\ x = <<"join", k>>
    BY DEF JoinTokens
  <2>2. \A x : x \in JoinTokens(u)' <=> \E k \in Tasks : waker'[k] = u /\ x = <<"join", k>>
    BY DEF JoinTokens
  <2>3. \A k \in Tasks : waker'[k] = u <=> waker[k] = u /\ k # s
    BY <1>a, <1>1, <1>2, <2>0
  <2>4. \A k \in Tasks : <<"join", k>> = <<"join", s>> => k = s
    OBVIOUS
  <2>5. \A x : x \in JoinTokens(u)' <=> x \in JoinTokens(u) /\ x # <<"join", s>>
    BY <2>1, <2>2, <2>3, <2>4
  <2> QED
    BY <2>5
<1>6. <<"join", s>> \in WakeTokens(w) /\ <<"join", s>> # <<"wake", c>>
  BY <1>2, TokenHeld
<1>7. \A u \in Tasks \ {w} : WakeTokens(u)' = WakeTokens(u)
  <2>1. \A u \in Tasks \ {w} : <<"join", s>> \notin JoinTokens(u)
    BY <1>2 DEF JoinTokens
  <2> SUFFICES ASSUME NEW u \in Tasks \ {w}
               PROVE  WakeTokens(u)' = WakeTokens(u)
    OBVIOUS
  <2>2. CallTokens(u)' = CallTokens(u)
    BY <1>4
  <2>3. JoinTokens(u)' = JoinTokens(u) \ {<<"join", s>>} /\ <<"join", s>> \notin JoinTokens(u)
    BY <1>5, <2>1
  <2>4. JoinTokens(u)' = JoinTokens(u)
    BY <2>3
  <2> QED
    BY <1>1, <2>2, <2>4, TokenFrame, TokenParts, TokenPartsNext
<1>8. WakeTokens(w)' \subseteq WakeTokens(w) \cup {<<"wake", c>>} /\ <<"wake", c>> \in WakeTokens(w)'
  BY <1>1, <1>4, <1>5, TokenFrame, TokenParts, TokenPartsNext, SMTT(30)
<1>9. <<"join", s>> \notin WakeTokens(w)'
  <2>1. <<"join", s>> \notin QueueTokens(w) \cup TicketTokens(w) \cup GsTokens(w) \cup CallTokens(w)
    BY SMTT(30) DEF QueueTokens, TicketTokens, GsTokens, CallTokens
  <2> QED
    BY <1>1, <1>4, <1>5, <1>6, <2>1, TokenFrame, TokenPartsNext, SMTT(30)
<1>10. WakeTokens(w)' = {<<"wake", c>>}
  BY <1>6, <1>8, <1>9, SMTT(30) DEF OneToken
<1> QED
  BY <1>6, <1>7, <1>10 DEF MovesToken

\* A waker that is used becomes an entry of the queue of its task's home.
LEMMA WokenTokens ==
  ASSUME TypeInv, OneToken, NEW e \in Cores, NEW c \in Cores, NEW t \in Tasks, NEW by, PushBack(e, t, by),
         UNCHANGED <<gsTickets, waker, obj>>,
         \/ /\ pc[c] = "wake" /\ obj[c] = t /\ pc'[c] # "wake" /\ UNCHANGED tickets
            /\ \A d \in Cores \ {c} : UNCHANGED pc[d]
         \/ t \in tickets[c] /\ tickets' = [tickets EXCEPT ![c] = @ \ {t}] /\ UNCHANGED pc
  PROVE  MovesToken(t) /\ WakeTokens(t) # {} /\ \A d \in Cores : ~ InQueue(d, t)
<1> DEFINE n == Len(queue[e]) + 1
<1>1. \A u \in Tasks : QueueTokens(u)' = IF u = t THEN QueueTokens(u) \cup {<<"queue", e, n>>} ELSE QueueTokens(u)
  BY PushTokens
<1> HIDE DEF n
<1>2. CASE pc[c] = "wake" /\ obj[c] = t /\ pc'[c] # "wake" /\ UNCHANGED tickets /\ \A d \in Cores \ {c} : UNCHANGED pc[d]
  <2>1. \A u \in Tasks : CallTokens(u)' = CallTokens(u) \ {<<"wake", c>>}
    BY <1>2, CallFrame
  <2>2. <<"wake", c>> \in WakeTokens(t)
    BY <1>2, TokenHeld
  <2>3. \A d \in Cores : \A i \in 1..Len(queue[d]) : queue[d][i].task # t
    <3> SUFFICES ASSUME NEW d \in Cores, NEW i \in 1..Len(queue[d]), queue[d][i].task = t
                 PROVE  FALSE
      OBVIOUS
    <3>1. <<"queue", d, i>> \in WakeTokens(t)
      BY TokenHeld
    <3>2. <<"queue", d, i>> # <<"wake", c>>
      OBVIOUS
    <3> QED
      BY <2>2, <3>1, <3>2 DEF OneToken
  <2>0. \A u \in Tasks \ {t} : <<"wake", c>> \notin CallTokens(u)
    BY <1>2 DEF CallTokens
  <2>4. \A u \in Tasks \ {t} : WakeTokens(u)' = WakeTokens(u)
    BY <1>1, <1>2, <2>0, <2>1, TokenFrame, TokenParts, TokenPartsNext
  <2>5. WakeTokens(t)' \subseteq WakeTokens(t) \cup {<<"queue", e, n>>} /\ <<"queue", e, n>> \in WakeTokens(t)'
    BY <1>1, <1>2, <2>1, TokenFrame, TokenParts, TokenPartsNext, SMTT(30)
  <2>6. <<"wake", c>> \notin WakeTokens(t)'
    <3>1. <<"wake", c>> \notin QueueTokens(t) \cup TicketTokens(t) \cup GsTokens(t) \cup JoinTokens(t)
      BY SMTT(30) DEF QueueTokens, TicketTokens, GsTokens, JoinTokens
    <3>2. <<"wake", c>> # <<"queue", e, n>>
      OBVIOUS
    <3> QED
      BY <1>1, <1>2, <2>1, <3>1, <3>2, TokenFrame, TokenPartsNext, SMTT(30)
  <2>7. WakeTokens(t)' = {<<"queue", e, n>>}
    BY <2>2, <2>5, <2>6, SMTT(30) DEF OneToken
  <2> QED
    BY <2>2, <2>3, <2>4, <2>7 DEF MovesToken, InQueue
<1>3. CASE t \in tickets[c] /\ tickets' = [tickets EXCEPT ![c] = @ \ {t}] /\ UNCHANGED pc
  <2>a. tickets \in [Cores -> SUBSET Tasks]
    BY DEF TypeInv, TypeOK
  <2>1. \A u \in Tasks \ {t} : TicketTokens(u)' = TicketTokens(u)
    BY <2>a, <1>3 DEF TicketTokens
  <2>2. TicketTokens(t)' \subseteq TicketTokens(t) /\ <<"ticket", c>> \notin TicketTokens(t)'
    <3>1. \A d \in Cores : t \in tickets'[d] => t \in tickets[d] /\ d # c
      BY <2>a, <1>3
    <3>2. \A d \in Cores : <<"ticket", d>> = <<"ticket", c>> => d = c
      OBVIOUS
    <3> QED
      BY <3>1, <3>2 DEF TicketTokens
  <2>3. <<"ticket", c>> \in WakeTokens(t)
    BY <1>3, TokenHeld
  <2>4. \A d \in Cores : \A i \in 1..Len(queue[d]) : queue[d][i].task # t
    <3> SUFFICES ASSUME NEW d \in Cores, NEW i \in 1..Len(queue[d]), queue[d][i].task = t
                 PROVE  FALSE
      OBVIOUS
    <3>1. <<"queue", d, i>> \in WakeTokens(t)
      BY TokenHeld
    <3>2. <<"queue", d, i>> # <<"ticket", c>>
      OBVIOUS
    <3> QED
      BY <2>3, <3>1, <3>2 DEF OneToken
  <2>5. \A u \in Tasks \ {t} : WakeTokens(u)' = WakeTokens(u)
    BY <1>1, <1>3, <2>1, TokenFrame, TokenParts, TokenPartsNext
  <2>6. WakeTokens(t)' \subseteq WakeTokens(t) \cup {<<"queue", e, n>>} /\ <<"queue", e, n>> \in WakeTokens(t)'
    BY <1>1, <1>3, <2>2, TokenFrame, TokenParts, TokenPartsNext
  <2>7. <<"ticket", c>> \notin WakeTokens(t)'
    <3>1. <<"ticket", c>> \notin QueueTokens(t) \cup GsTokens(t) \cup JoinTokens(t) \cup CallTokens(t)
      BY SMTT(30) DEF QueueTokens, GsTokens, JoinTokens, CallTokens
    <3>2. <<"ticket", c>> # <<"queue", e, n>>
      OBVIOUS
    <3> QED
      BY <1>1, <1>3, <2>2, <3>1, <3>2, TokenFrame, TokenPartsNext, SMTT(30)
  <2>8. WakeTokens(t)' = {<<"queue", e, n>>}
    BY <2>3, <2>6, <2>7, SMTT(30) DEF OneToken
  <2> QED
    BY <2>3, <2>4, <2>5, <2>8 DEF MovesToken, InQueue
<1> QED
  BY <1>2, <1>3

\* A queue loses its head: the task at the head, which had no other token, has none
\* left, and the tokens of the others are renumbered.
LEMMA PopTokens ==
  ASSUME TypeInv, OneToken, NEW c \in Cores, PopSome(c), NEW t \in Tasks, t = queue[c][1].task
  PROVE  /\ WakeTokens(t)' = {} /\ OneToken'
         /\ \A u \in Tasks \ {t} : WakeTokens(u) = {} <=> WakeTokens(u)' = {}
<1> USE DEF listVars, queueVars, timerVars, kickVars, coreVars, taskVars, Goto
<1>a. \A d \in Cores : Len(queue[d]) \in Nat
  BY SMTT(30) DEF TypeInv, TypeOK
<1>b. /\ UNCHANGED <<tickets, gsTickets, waker, obj>> /\ pc[c] # "wake" /\ pc'[c] # "wake"
      /\ \A d \in Cores \ {c} : UNCHANGED pc[d]
  BY DEF PopSome, TypeInv, TypeOK
<1> DEFINE Rest(u) == TicketTokens(u) \cup GsTokens(u) \cup JoinTokens(u) \cup CallTokens(u)
<1>c. \A u \in Tasks : /\ WakeTokens(u) = QueueTokens(u) \cup Rest(u)
                       /\ WakeTokens(u)' = QueueTokens(u)' \cup Rest(u)
  <2> TAKE u \in Tasks
  <2>1. CallTokens(u)' = CallTokens(u)
    BY <1>b, CallFrame
  <2> QED
    BY <1>b, <2>1, TokenFrame, TokenParts, TokenPartsNext
<1>d. \A u \in Tasks : \A x \in Rest(u) : \A d, i : x # <<"queue", d, i>>
  BY SMTT(30) DEF TicketTokens, GsTokens, JoinTokens, CallTokens
<1> HIDE DEF Rest
<1>1. \A u \in Tasks : \A x \in WakeTokens(u)' :
        \/ x \in WakeTokens(u) /\ \A i : x # <<"queue", c, i>>
        \/ \E i \in Nat \ {0} : x = <<"queue", c, i>> /\ <<"queue", c, i + 1>> \in WakeTokens(u)
  <2> TAKE u \in Tasks
  <2> TAKE x \in WakeTokens(u)'
  <2>1. CASE x \in Rest(u)
    BY <1>c, <1>d, <2>1
  <2>2. CASE x \in QueueTokens(u)'
    <3>1. PICK d \in Cores : \E i \in 1..Len(queue'[d]) : queue'[d][i].task = u /\ x = <<"queue", d, i>>
      BY <2>2, QueueTokenIsNext, SMTT(30)
    <3>2. PICK i \in 1..Len(queue'[d]) : queue'[d][i].task = u /\ x = <<"queue", d, i>>
      BY <3>1
    <3>3. CASE d = c
      <4>1. i + 1 \in 1..Len(queue[c]) /\ queue[c][i + 1].task = u /\ i \in Nat \ {0}
        BY <1>a, <3>2, <3>3, PopTakes, SMTT(30)
      <4>2. <<"queue", c, i + 1>> \in WakeTokens(u)
        BY <4>1, TokenHeld
      <4> QED
        BY <3>2, <3>3, <4>1, <4>2
    <3>4. CASE d # c
      <4>1. i \in 1..Len(queue[d]) /\ queue[d][i].task = u
        BY <3>2, <3>4, PopTakes
      <4>2. x \in WakeTokens(u)
        BY <3>2, <4>1, TokenHeld
      <4> QED
        BY <3>2, <3>4, <4>2
    <3> QED
      BY <3>3, <3>4
  <2> QED
    BY <1>c, <2>1, <2>2
<1>2. WakeTokens(t)' = {}
  <2> SUFFICES ASSUME NEW x \in WakeTokens(t)'
               PROVE  FALSE
    OBVIOUS
  <2>1. <<"queue", c, 1>> \in WakeTokens(t)
    BY PopTakes, TokenHeld
  <2>2. CASE x \in WakeTokens(t) /\ \A i : x # <<"queue", c, i>>
    BY <2>1, <2>2 DEF OneToken
  <2>3. ASSUME NEW i \in Nat \ {0}, <<"queue", c, i + 1>> \in WakeTokens(t)
        PROVE  FALSE
    <3>1. <<"queue", c, i + 1>> = <<"queue", c, 1>>
      BY <2>1, <2>3 DEF OneToken
    <3> QED
      BY <3>1, SMTT(30)
  <2> QED
    BY <1>1, <2>2, <2>3
<1>3. OneToken'
  <2> SUFFICES ASSUME NEW u \in Tasks, NEW x \in WakeTokens(u)', NEW y \in WakeTokens(u)'
               PROVE  x = y
    BY DEF OneToken
  <2>1. CASE x \in WakeTokens(u) /\ \A i : x # <<"queue", c, i>>
    <3>1. CASE y \in WakeTokens(u)
      BY <2>1, <3>1 DEF OneToken
    <3>2. ASSUME NEW i \in Nat \ {0}, <<"queue", c, i + 1>> \in WakeTokens(u)
          PROVE  FALSE
      BY <2>1, <3>2 DEF OneToken
    <3> QED
      BY <1>1, <3>1, <3>2
  <2>2. ASSUME NEW i \in Nat \ {0}, x = <<"queue", c, i>>, <<"queue", c, i + 1>> \in WakeTokens(u)
        PROVE  x = y
    <3>1. CASE y \in WakeTokens(u) /\ \A j : y # <<"queue", c, j>>
      BY <2>2, <3>1 DEF OneToken
    <3>2. ASSUME NEW j \in Nat \ {0}, y = <<"queue", c, j>>, <<"queue", c, j + 1>> \in WakeTokens(u)
          PROVE  x = y
      <4>1. <<"queue", c, i + 1>> = <<"queue", c, j + 1>>
        BY <2>2, <3>2 DEF OneToken
      <4>2. i = j
        BY <4>1, SMTT(30)
      <4> QED
        BY <2>2, <3>2, <4>2
    <3> QED
      BY <1>1, <3>1, <3>2
  <2> QED
    BY <1>1, <2>1, <2>2
<1>4. ASSUME NEW u \in Tasks \ {t}, NEW x \in WakeTokens(u)
      PROVE  WakeTokens(u)' # {}
  <2>1. CASE x \in Rest(u)
    BY <1>c, <2>1
  <2>2. CASE x \in QueueTokens(u)
    <3>1. PICK d \in Cores : \E i \in 1..Len(queue[d]) : queue[d][i].task = u
      BY <2>2, QueueTokenIs
    <3>2. PICK i \in 1..Len(queue[d]) : queue[d][i].task = u
      BY <3>1
    <3>3. \E j \in 1..Len(queue'[d]) : queue'[d][j].task = u
      <4>1. CASE d # c
        <5>1. queue'[d] = queue[d]
          BY <4>1, PopTakes
        <5> QED
          BY <3>2, <5>1
      <4>2. CASE d = c
        <5>1. i # 1 /\ i - 1 \in 1..Len(queue'[d]) /\ (i - 1) + 1 = i
          <6>1. i # 1 /\ i \in 1..Len(queue[c]) /\ Len(queue[c]) \in Nat
            BY <1>a, <1>4, <3>2, <4>2
          <6>2. Len(queue'[d]) = Len(queue[c]) - 1
            BY <4>2, PopTakes
          <6> QED
            BY <6>1, <6>2, OneLess
        <5>2. queue'[d][i - 1] = queue[d][i]
          <6>1. \A j \in 1..Len(queue'[d]) : queue'[d][j] = queue[d][j + 1]
            BY <4>2, PopTakes
          <6> QED
            BY <5>1, <6>1
        <5> QED
          BY <3>2, <5>1, <5>2
      <4> QED
        BY <4>1, <4>2
    <3>4. QueueTokens(u)' # {}
      <4>1. PICK j \in 1..Len(queue'[d]) : queue'[d][j].task = u
        BY <3>3
      <4>2. <<"queue", d, j>> \in QueueTokens(u)'
        BY <4>1, QueueTokenIsNext
      <4> QED
        BY <4>2
    <3> QED
      BY <1>c, <3>4
  <2> QED
    BY <1>c, <2>1, <2>2
<1>5. \A u \in Tasks \ {t} : WakeTokens(u) = {} => WakeTokens(u)' = {}
  BY <1>1
<1> QED
  BY <1>2, <1>3, <1>4, <1>5

\* The task a spawn pushes gets its first token.
LEMMA SpawnTokens ==
  ASSUME TypeInv, HomeInv, NEW c \in Cores, SpawnPush(c) \/ Spawn(c), NEW t \in Tasks, t = obj[c]
  PROVE  MovesToken(t) /\ WakeTokens(t) = {}
<1> USE DEF listVars, queueVars, timerVars, kickVars, coreVars, taskVars, Goto
<1>1. PICK by \in {"kick", "bare"} : PushBack(tgt[c], t, by)
  BY DEF SpawnPush, Spawn
<1>2. tgt[c] \in Cores
  BY DEF TypeInv, ControlInv, Spawns, SpawnPush, Spawn
<1>3. WakeTokens(t) = {}
  BY SpawnIsFresh, TokenNeedsHome DEF SpawnPush, Spawn
<1>4. /\ UNCHANGED <<tickets, gsTickets, waker, obj>> /\ pc[c] # "wake" /\ pc'[c] # "wake"
      /\ \A d \in Cores \ {c} : UNCHANGED pc[d]
  BY DEF SpawnPush, Spawn, TypeInv, TypeOK
<1>5. \A u \in Tasks : CallTokens(u)' = CallTokens(u)
  BY <1>4, CallFrame
<1> DEFINE y == <<"queue", tgt[c], Len(queue[tgt[c]]) + 1>>
<1>6. \A u \in Tasks : QueueTokens(u)' = IF u = t THEN QueueTokens(u) \cup {y} ELSE QueueTokens(u)
  BY <1>1, <1>2, PushTokens
<1> HIDE DEF y
<1>7. \A u \in Tasks : WakeTokens(u)' = IF u = t THEN WakeTokens(u) \cup {y} ELSE WakeTokens(u)
  BY <1>4, <1>5, <1>6, TokenFrame, TokenParts, TokenPartsNext
<1> QED
  BY <1>3, <1>7 DEF MovesToken

\* The other steps change no token.
LEMMA QuietTokens ==
  ASSUME TypeInv, NEW u \in Tasks, Still \/ \E c \in Cores : Quiet(c) \/ PollReturns(c)
  PROVE  WakeTokens(u)' = WakeTokens(u)
<1> USE DEF listVars, queueVars, timerVars, kickVars, coreVars, taskVars, placeVars, Goto
<1>1. CASE Still
  BY <1>1, TokenFrame, TokenParts, TokenPartsNext DEF Still
<1>2. ASSUME NEW c \in Cores, Quiet(c) \/ PollReturns(c)
      PROVE  WakeTokens(u)' = WakeTokens(u)
  <2>1. /\ UNCHANGED <<queue, tickets, gsTickets, waker>> /\ pc[c] # "wake" /\ pc'[c] # "wake"
        /\ \A d \in Cores \ {c} : UNCHANGED <<pc[d], obj[d]>>
    <3>1. CASE Quiet(c)
      BY <3>1 DEF Quiet
    <3>2. CASE PollReturns(c)
      <4>1. pc[c] = "poll_returns" /\ pc' = [pc EXCEPT ![c] = "check_timers"] /\ pc \in [Cores -> Labels]
            /\ UNCHANGED <<queue, tickets, gsTickets, waker, obj>>
        BY <3>2 DEF PollReturns, TypeInv, TypeOK
      <4> QED
        BY <4>1
    <3> QED
      BY <1>2, <3>1, <3>2
  <2>2. CallTokens(u)' = CallTokens(u)
    BY <2>1, CallFrame
  <2> QED
    BY <2>1, <2>2, TokenFrame, TokenParts, TokenPartsNext
<1> QED
  BY <1>1, <1>2

-----------------------------------------------------------------------------
(* A task has one token at most: none from the moment it is popped until it   *)
(* suspends itself, and none once it has finished.                            *)

\* The poll of core c is over but for the push of its own waker, or the unlock.
Ending(c) ==
  \/ pc[c] = "wake" /\ obj[c] = cur[c]
  \/ pc[c] = "poll_returns" /\ ip[cur[c]] <= Len(Prog[cur[c]])

DoneInv == \A t \in done : home[t] # NoCore /\ WakeTokens(t) = {}

PollInv ==
  \A c \in Cores, t \in Tasks : qlock[c] = c /\ cur[c] = t =>
    t \notin done /\ ~ InQueue(c, t) /\ (WakeTokens(t) = {} \/ Ending(c))

TokenInv == OneToken /\ DoneInv /\ PollInv

LEMMA TokenInit == Init => TokenInv
<1> SUFFICES ASSUME Init
             PROVE  TokenInv
  OBVIOUS
<1>1. TypeInv /\ HomeInv
  BY TypeInit, HomeInit
<1>2. \A t \in Tasks : WakeTokens(t) = {}
  BY <1>1, TokenNeedsHome DEF Init
<1> QED
  BY <1>2, ConstantsAssumption DEF Init, TokenInv, OneToken, DoneInv, PollInv

LEMMA IpKept ==
  ASSUME TypeInv, NEW c \in Cores, Quiet(c) \/ Moves(c), NEW u \in Tasks, u # cur[c]
  PROVE  ip'[u] = ip[u]
<1> USE DEF listVars, queueVars, timerVars, kickVars, coreVars, taskVars, placeVars
<1>1. CASE Quiet(c)
  BY <1>1 DEF Quiet
<1>2. CASE Spawn(c)
  BY <1>2 DEF Spawn, AdvanceIp, TypeInv, TypeOK
<1>3. CASE Moves(c) /\ ~ Spawn(c)
  BY <1>3 DEF Moves, SpawnPush, YieldFirst, YieldNow, JoinPending, TimerPending, TicketPending, WakesJoiner,
     FinishWaker, Wake, TimerFires, PopSome, PollReturns
<1> QED
  BY <1>1, <1>2, <1>3

LEMMA HomeKept ==
  ASSUME NEW c \in Cores, Quiet(c) \/ Moves(c), ~ SpawnPush(c), ~ Spawn(c)
  PROVE  UNCHANGED home
BY DEF Quiet, placeVars, Moves, YieldFirst, YieldNow, JoinPending, TimerPending, TicketPending, WakesJoiner,
   FinishWaker, Wake, TimerFires, PopSome, PollReturns, taskVars

LEMMA OthersKept ==
  ASSUME TypeInv, HomeInv, NEW c \in Cores, Quiet(c) \/ Moves(c), NEW d \in Cores \ {c}
  PROVE  /\ UNCHANGED <<pc[d], cur[d], obj[d], tgt[d], qlock[d]>>
         /\ cur[d] \in Tasks => ip'[cur[d]] = ip[cur[d]]
<1>1. UNCHANGED <<pc[d], cur[d], obj[d], tgt[d], qlock[d]>>
  BY OthersStay, MovesAreSteps DEF Quiet, placeVars
<1>2. cur[d] \in Tasks => cur[d] # cur[c]
  BY CurUnique, ConstantsAssumption
<1> QED
  BY <1>1, <1>2, IpKept

\* What the polls of the other cores rely on.
LEMMA PollKept ==
  ASSUME TypeInv, HomeInv, PollInv, [Next]_vars, NEW c \in Cores, Quiet(c) \/ Moves(c),
         done' \subseteq done \cup {cur[c]},
         \A d \in Cores \ {c}, t \in Tasks : qlock[d] = d /\ cur[d] = t => (WakeTokens(t) = {} => WakeTokens(t)' = {}) \/ Ending(d),
         \A t \in Tasks : qlock'[c] = c /\ cur'[c] = t =>
           t \notin done' /\ ~ InQueue(c, t)' /\ (WakeTokens(t)' = {} \/ Ending(c)')
  PROVE  PollInv'
<1> SUFFICES ASSUME NEW d \in Cores \ {c}, NEW t \in Tasks, qlock'[d] = d, cur'[d] = t
             PROVE  t \notin done' /\ ~ InQueue(d, t)' /\ (WakeTokens(t)' = {} \/ Ending(d)')
  BY DEF PollInv
<1>1. UNCHANGED <<pc[d], cur[d], obj[d], qlock[d]>> /\ ip'[t] = ip[t]
  BY OthersKept
<1>2. t # cur[c]
  BY <1>1, CurUnique, ConstantsAssumption
<1>3. t \notin done /\ ~ InQueue(d, t) /\ (WakeTokens(t) = {} \/ Ending(d))
  BY <1>1 DEF PollInv
<1>4. ~ InQueue(d, t)'
  BY <1>1, <1>3, FrozenStep DEF InQueue
<1>5. Ending(d) => Ending(d)'
  BY <1>1 DEF Ending
<1> QED
  BY <1>1, <1>2, <1>3, <1>4, <1>5

\* A task gets a token, or changes the one it has.
LEMMA TokenMoved ==
  ASSUME TypeInv, HomeInv, TokenInv, [Next]_vars, NEW c \in Cores, Moves(c), NEW t \in Tasks,
         MovesToken(t), t \notin done, UNCHANGED done,
         \A u \in Tasks : home[u] # NoCore => home'[u] # NoCore,
         \A d \in Cores \ {c} : qlock[d] = d => cur[d] # t \/ Ending(d),
         qlock'[c] = c => /\ qlock[c] = c /\ cur'[c] = cur[c]
                          /\ (cur[c] # t /\ ~ Ending(c)) \/ Ending(c)'
  PROVE  TokenInv'
<1>1. OneToken'
  <2> SUFFICES ASSUME NEW u \in Tasks, NEW x \in WakeTokens(u)', NEW y \in WakeTokens(u)'
               PROVE  x = y
    BY DEF OneToken
  <2>1. CASE u = t
    <3>1. PICK z : WakeTokens(t)' = {z}
      BY DEF MovesToken
    <3> QED
      BY <2>1, <3>1
  <2>2. CASE u # t
    <3>1. WakeTokens(u)' = WakeTokens(u)
      BY <2>2 DEF MovesToken
    <3> QED
      BY <3>1 DEF TokenInv, OneToken
  <2> QED
    BY <2>1, <2>2
<1>2. DoneInv'
  <2> SUFFICES ASSUME NEW u \in done
               PROVE  home'[u] # NoCore /\ WakeTokens(u)' = {}
    BY DEF DoneInv
  <2>1. u \in Tasks /\ u # t
    BY DEF TypeInv, TypeOK
  <2> QED
    BY <2>1 DEF TokenInv, DoneInv, MovesToken
<1>3. PollInv'
  <2>1. \A d \in Cores \ {c}, u \in Tasks : qlock[d] = d /\ cur[d] = u =>
          (WakeTokens(u) = {} => WakeTokens(u)' = {}) \/ Ending(d)
    BY DEF MovesToken
  <2>2. ASSUME NEW u \in Tasks, qlock'[c] = c, cur'[c] = u
        PROVE  u \notin done' /\ ~ InQueue(c, u)' /\ (WakeTokens(u)' = {} \/ Ending(c)')
    <3>1. qlock[c] = c /\ cur[c] = u /\ queue'[c] = queue[c]
      BY <2>2, FrozenStep
    <3>2. u \notin done /\ ~ InQueue(c, u) /\ (WakeTokens(u) = {} \/ Ending(c))
      BY <3>1 DEF TokenInv, PollInv
    <3>3. ~ InQueue(c, u)'
      BY <3>1, <3>2 DEF InQueue
    <3>4. u # t => WakeTokens(u)' \subseteq WakeTokens(u)
      BY DEF MovesToken
    <3> QED
      BY <2>2, <3>1, <3>2, <3>3, <3>4
  <2> QED
    BY <2>1, <2>2, PollKept DEF TokenInv
<1> QED
  BY <1>1, <1>2, <1>3 DEF TokenInv

\* No one pushes to a queue whose core polls.
LEMMA NotPolled ==
  ASSUME TypeInv, HomeInv, NEW t \in Tasks, home[t] \in Cores, qlock[home[t]] = NoCore, NEW d \in Cores, qlock[d] = d
  PROVE  cur[d] # t
BY ConstantsAssumption DEF HomeInv, RunInv

LEMMA TokenSuspend ==
  ASSUME TypeInv, HomeInv, JoinInv, TokenInv, [Next]_vars, NEW c \in Cores,
         YieldFirst(c) \/ JoinPending(c) \/ TimerPending(c) \/ TicketPending(c)
  PROVE  TokenInv'
<1> USE DEF listVars, queueVars, timerVars, kickVars, coreVars, taskVars, Goto
<1> DEFINE t == cur[c]
<1>1. qlock[c] = c
  BY CalledInPoll DEF YieldFirst, YieldNow, JoinPending, TimerPending, TicketPending, SpawnOps, SpawnKicked
<1>2. t \in Tasks /\ AtCall(c)
  BY <1>1 DEF HomeInv, RunInv, YieldFirst, YieldNow, JoinPending, TimerPending, TicketPending, AtOp
<1>3. UNCHANGED <<done, home, cur, qlock>>
  BY DEF YieldFirst, YieldNow, JoinPending, TimerPending, TicketPending
<1>4. Ending(c)'
  <2>1. CASE YieldFirst(c)
    <3>1. pc' = [pc EXCEPT ![c] = "wake"] /\ obj' = [obj EXCEPT ![c] = t]
      BY <2>1 DEF YieldFirst, YieldNow
    <3>2. pc \in [Cores -> Labels] /\ obj \in [Cores -> Tasks \cup {NoTask}]
      BY DEF TypeInv, TypeOK
    <3>3. pc'[c] = "wake" /\ obj'[c] = t
      BY <3>1, <3>2
    <3> QED
      BY <1>3, <3>3 DEF Ending
  <2>2. CASE ~ YieldFirst(c)
    BY <1>2, <1>3, <2>2 DEF JoinPending, TimerPending, TicketPending, AtCall, Ending, TypeInv, TypeOK
  <2> QED
    BY <2>1, <2>2
<1>5. t \notin done /\ WakeTokens(t) = {}
  <2>1. ~ Ending(c)
    BY <1>2 DEF AtCall, Ending
  <2> QED
    BY <1>1, <1>2, <2>1 DEF TokenInv, PollInv
<1>6. \A d \in Cores \ {c} : cur[d] # t
  BY <1>2, CurUnique, ConstantsAssumption
<1>7. Moves(c)
  BY DEF Moves
<1> HIDE DEF t
<1>8. MovesToken(t)
  BY <1>2, <1>5, SuspendTokens DEF t
<1> QED
  BY <1>1, <1>2, <1>3, <1>4, <1>5, <1>6, <1>7, <1>8, TokenMoved

LEMMA TokenJoiner ==
  ASSUME TypeInv, HomeInv, TokenInv, [Next]_vars, NEW c \in Cores, WakesJoiner(c)
  PROVE  TokenInv'
<1> USE DEF listVars, queueVars, timerVars, kickVars, coreVars, taskVars, Goto
<1> DEFINE w == waker[cur[c]]
<1>1. /\ pc[c] = "finish_waker" /\ pc' = [pc EXCEPT ![c] = "wake"] /\ w # NoTask
      /\ UNCHANGED <<done, home, cur, qlock>>
  BY DEF WakesJoiner, FinishWaker
<1>2. qlock[c] = c /\ cur[c] \in Tasks /\ ~ Ending(c)
  BY <1>1 DEF HomeInv, RunInv, PollOnly, Ending
<1>3. w \in Tasks
  BY <1>1, <1>2 DEF TypeInv, TypeOK
<1> HIDE DEF w
<1>4. MovesToken(w) /\ WakeTokens(w) # {}
  BY <1>3, JoinerTokens DEF TokenInv, w
<1>5. w \notin done
  BY <1>4 DEF TokenInv, DoneInv
<1>6. \A d \in Cores : qlock[d] = d => cur[d] # w \/ Ending(d)
  BY <1>3, <1>4 DEF TokenInv, PollInv
<1>7. Moves(c)
  BY DEF Moves
<1> QED
  BY <1>1, <1>2, <1>3, <1>4, <1>5, <1>6, <1>7, TokenMoved

\* What a waker knows of its task: it waits, and its home polls nothing.
LEMMA WakerFacts ==
  ASSUME TypeInv, HomeInv, TokenInv, NEW c \in Cores, NEW t \in Tasks,
         (Wake(c) /\ t = obj[c]) \/ TimerFires(c, t)
  PROVE  /\ home[t] \in Cores /\ PushBack(home[t], t, "bare") /\ UNCHANGED <<done, home, cur, qlock>>
         /\ MovesToken(t) /\ WakeTokens(t) # {} /\ \A d \in Cores : ~ InQueue(d, t)
         /\ t \notin done /\ \A d \in Cores : qlock[d] = d => cur[d] # t
<1> USE DEF listVars, queueVars, timerVars, kickVars, coreVars, taskVars, Goto
<1>1. home[t] \in Cores /\ PushBack(home[t], t, "bare")
  <2>1. CASE Wake(c) /\ t = obj[c]
    BY <2>1 DEF Wake, HomeInv, WhereInv, TypeInv, TypeOK
  <2>2. CASE TimerFires(c, t)
    <3>1. t \in tickets[c] /\ PushBack(home[t], t, "bare")
      BY <2>2 DEF TimerFires
    <3>2. home[t] = c
      BY <3>1 DEF HomeInv, WhereInv
    <3> QED
      BY <3>1, <3>2
  <2> QED
    BY <2>1, <2>2
<1>2. UNCHANGED <<done, home, cur, qlock>>
  BY <1>1 DEF Wake, TimerFires, PushBack
<1>3. MovesToken(t) /\ WakeTokens(t) # {} /\ \A d \in Cores : ~ InQueue(d, t)
  <2>1. CASE Wake(c) /\ t = obj[c]
    <3>1. /\ pc[c] = "wake" /\ obj[c] = t /\ pc'[c] # "wake" /\ UNCHANGED <<tickets, gsTickets, waker, obj>>
          /\ \A d \in Cores \ {c} : UNCHANGED pc[d]
      BY <2>1 DEF Wake, TypeInv, TypeOK
    <3> QED
      BY <1>1, <3>1, WokenTokens DEF TokenInv
  <2>2. CASE TimerFires(c, t)
    <3>1. /\ t \in tickets[c] /\ tickets' = [tickets EXCEPT ![c] = @ \ {t}]
          /\ UNCHANGED <<pc, gsTickets, waker, obj>>
      BY <2>2 DEF TimerFires
    <3> QED
      BY <1>1, <3>1, WokenTokens DEF TokenInv
  <2> QED
    BY <2>1, <2>2
<1>4. t \notin done
  BY <1>3 DEF TokenInv, DoneInv
<1>5. \A d \in Cores : qlock[d] = d => cur[d] # t
  BY <1>1, NotPolled DEF PushBack
<1> QED
  BY <1>1, <1>2, <1>3, <1>4, <1>5

LEMMA TokenWake ==
  ASSUME TypeInv, HomeInv, TokenInv, [Next]_vars, NEW c \in Cores, NEW t \in Tasks,
         (Wake(c) /\ t = obj[c]) \/ TimerFires(c, t)
  PROVE  TokenInv'
<1> USE DEF listVars, queueVars, timerVars, kickVars, coreVars, taskVars, Goto
<1>1. Moves(c)
  BY DEF Moves
<1>2. qlock[c] = c => ~ Ending(c)
  BY WakerFacts DEF Wake, TimerFires, Ending
<1> QED
  BY <1>1, <1>2, WakerFacts, TokenMoved

LEMMA TokenSpawn ==
  ASSUME TypeInv, HomeInv, TokenInv, [Next]_vars, NEW c \in Cores, SpawnPush(c) \/ Spawn(c)
  PROVE  TokenInv'
<1> USE DEF listVars, queueVars, timerVars, kickVars, coreVars, taskVars, Goto
<1> DEFINE t == obj[c]
<1>1. pc[c] \in {"spawn", "spawn_push"} /\ UNCHANGED <<done, cur, qlock>> /\ home' = [home EXCEPT ![t] = tgt[c]]
  BY DEF SpawnPush, Spawn, PushBack
<1>2. t \in Tasks /\ home[t] = NoCore
  BY <1>1, SpawnIsFresh
<1>3. tgt[c] # NoCore
  BY <1>1, ConstantsAssumption DEF TypeInv, ControlInv, Spawns
<1> HIDE DEF t
<1>4. MovesToken(t)
  BY <1>2, SpawnTokens DEF t
<1>5. t \notin done
  BY <1>2 DEF TokenInv, DoneInv
<1>6. \A d \in Cores : qlock[d] = d => cur[d] # t
  BY <1>2, ConstantsAssumption DEF HomeInv, RunInv
<1>7. \A u \in Tasks : home[u] # NoCore => home'[u] # NoCore
  BY <1>1, <1>2, <1>3 DEF TypeInv, TypeOK
<1>8. Moves(c) /\ ~ Ending(c)
  BY <1>1 DEF Moves, Ending
<1> QED
  BY <1>1, <1>2, <1>4, <1>5, <1>6, <1>7, <1>8, TokenMoved

LEMMA TokenPop ==
  ASSUME TypeInv, HomeInv, TokenInv, [Next]_vars, NEW c \in Cores, PopSome(c)
  PROVE  TokenInv'
<1> USE DEF listVars, queueVars, timerVars, kickVars, coreVars, taskVars, Goto
<1>0. PICK t \in Tasks : t = queue[c][1].task
  BY PopTakes
<1>1. cur' = [cur EXCEPT ![c] = t] /\ 1 \in 1..Len(queue[c])
  BY <1>0, PopTakes
<1>2. UNCHANGED <<done, home>> /\ cur'[c] = t
  BY <1>1 DEF PopSome, TypeInv, TypeOK
<1>3. WakeTokens(t) # {}
  BY <1>0, <1>1, TokenHeld
<1>4. /\ WakeTokens(t)' = {} /\ OneToken'
      /\ \A u \in Tasks \ {t} : WakeTokens(u) = {} <=> WakeTokens(u)' = {}
  BY <1>0, PopTokens DEF TokenInv
<1>5. t \notin done
  BY <1>3 DEF TokenInv, DoneInv
<1>6. DoneInv'
  BY <1>2, <1>4 DEF TokenInv, DoneInv, TypeInv, TypeOK
<1>7. ~ InQueue(c, t)'
  <2> SUFFICES ASSUME NEW i \in 1..Len(queue'[c]), queue'[c][i].task = t
               PROVE  FALSE
    BY DEF InQueue
  <2>1. <<"queue", c, i>> \in QueueTokens(t)'
    BY QueueTokenIsNext
  <2> QED
    BY <1>4, <2>1, TokenPartsNext
<1>8. PollInv'
  <2>1. Moves(c)
    BY DEF Moves
  <2>2. \A d \in Cores \ {c}, u \in Tasks : qlock[d] = d /\ cur[d] = u =>
          (WakeTokens(u) = {} => WakeTokens(u)' = {}) \/ Ending(d)
    BY <1>4
  <2>3. \A u \in Tasks : qlock'[c] = c /\ cur'[c] = u =>
          u \notin done' /\ ~ InQueue(c, u)' /\ (WakeTokens(u)' = {} \/ Ending(c)')
    BY <1>2, <1>4, <1>5, <1>7
  <2> QED
    BY <1>2, <2>1, <2>2, <2>3, PollKept DEF TokenInv
<1> QED
  BY <1>4, <1>6, <1>8 DEF TokenInv

LEMMA TokenPollReturns ==
  ASSUME TypeInv, HomeInv, TokenInv, [Next]_vars, NEW c \in Cores, PollReturns(c)
  PROVE  TokenInv'
<1> USE DEF listVars, queueVars, timerVars, kickVars, coreVars, taskVars, Goto
<1>a. qlock[c] = c /\ cur[c] \in Tasks /\ home[cur[c]] = c /\ c # NoCore
  BY ConstantsAssumption DEF PollReturns, HomeInv, RunInv, PollOnly
<1>1. \A u \in Tasks : WakeTokens(u)' = WakeTokens(u)
  BY QuietTokens
<1>2. OneToken'
  BY <1>1 DEF TokenInv, OneToken
<1>3. UNCHANGED home /\ qlock'[c] # c
  BY <1>a DEF PollReturns, TypeInv, TypeOK
<1>4. cur[c] \in done' => WakeTokens(cur[c]) = {}
  <2>1. cur[c] \notin done /\ (WakeTokens(cur[c]) = {} \/ Ending(c))
    BY <1>a DEF TokenInv, PollInv
  <2>2. cur[c] \in done' => ip[cur[c]] > Len(Prog[cur[c]])
    BY <2>1 DEF PollReturns
  <2>3. ip[cur[c]] \in Nat /\ Len(Prog[cur[c]]) \in Nat
    BY <1>a, ConstantsAssumption, SMTT(30) DEF TypeInv, TypeOK
  <2>4. Ending(c) => ~ (ip[cur[c]] > Len(Prog[cur[c]]))
    BY <2>3, SMTT(30) DEF Ending, PollReturns
  <2> QED
    BY <2>1, <2>2, <2>4
<1>5. done' \subseteq done \cup {cur[c]}
  BY DEF PollReturns
<1>6. DoneInv'
  BY <1>a, <1>1, <1>3, <1>4, <1>5 DEF TokenInv, DoneInv, TypeInv, TypeOK
<1>7. PollInv'
  BY <1>1, <1>3, <1>5, PollKept DEF TokenInv, Moves
<1> QED
  BY <1>2, <1>6, <1>7 DEF TokenInv

LEMMA TokenQuiet ==
  ASSUME TypeInv, HomeInv, TokenInv, [Next]_vars, NEW c \in Cores, Quiet(c)
  PROVE  TokenInv'
<1>1. \A u \in Tasks : WakeTokens(u)' = WakeTokens(u)
  BY QuietTokens
<1>2. UNCHANGED <<done, home, qlock, queue>> /\ (qlock[c] = c => cur'[c] = cur[c] /\ ~ Ending(c))
  BY DEF Quiet, placeVars, Ending
<1>3. OneToken' /\ DoneInv'
  BY <1>1, <1>2, SMTT(30) DEF TokenInv, OneToken, DoneInv, TypeInv, TypeOK
<1>4. \A u \in Tasks : qlock'[c] = c /\ cur'[c] = u =>
        u \notin done' /\ ~ InQueue(c, u)' /\ (WakeTokens(u)' = {} \/ Ending(c)')
  BY <1>1, <1>2 DEF TokenInv, PollInv, InQueue
<1>5. PollInv'
  BY <1>1, <1>2, <1>4, PollKept DEF TokenInv
<1> QED
  BY <1>3, <1>5 DEF TokenInv

LEMMA TokenStep == TypeInv /\ HomeInv /\ JoinInv /\ TokenInv /\ [Next]_vars => TokenInv'
<1> SUFFICES ASSUME TypeInv, HomeInv, JoinInv, TokenInv, [Next]_vars
             PROVE  TokenInv'
  OBVIOUS
<1>1. CASE Still
  <2>1. \A u \in Tasks : WakeTokens(u)' = WakeTokens(u)
    BY <1>1, QuietTokens
  <2> QED
    BY <1>1, <2>1, SMTT(30) DEF Still, placeVars, TokenInv, OneToken, DoneInv, PollInv, InQueue, Ending, TypeInv, TypeOK
<1>2. ASSUME NEW c \in Cores, Quiet(c) \/ Moves(c)
      PROVE  TokenInv'
  <2>1. CASE Wake(c)
    <3>1. obj[c] \in Tasks
      BY <2>1 DEF Wake, TypeInv, ControlInv, Pushing
    <3> QED
      BY <2>1, <3>1, TokenWake
  <2> QED
    BY <1>2, <2>1, TokenQuiet, TokenSpawn, TokenSuspend, TokenJoiner, TokenWake, TokenPop, TokenPollReturns
       DEF Moves
<1> QED
  BY <1>1, <1>2, StepKinds

-----------------------------------------------------------------------------
(* No task is forgotten. *)

\* How the poll of task t can come to its end.
Returns(c, t) ==
  /\ pc[c] = "finish_waker" \/ (pc[c] = "wake" /\ obj[c] # t) => ip[t] > Len(Prog[t])
  /\ pc[c] = "poll_returns" => WakeTokens(t) # {} \/ ip[t] > Len(Prog[t]) \/ AwaitsNothing(t)

ReturnInv == \A c \in Cores, t \in Tasks : qlock[c] = c /\ cur[c] = t => Returns(c, t)

Accounted ==
  \A t \in Tasks : home[t] # NoCore /\ t \notin done =>
    WakeTokens(t) # {} \/ AwaitsNothing(t) \/ \E c \in Cores : cur[c] = t

\* A waker is dropped only with the task that is popped.
LEMMA TokensLast ==
  ASSUME TypeInv, HomeInv, JoinInv, TokenInv, NEW c \in Cores, Quiet(c) \/ Moves(c), NEW u \in Tasks,
         WakeTokens(u) # {}, PopSome(c) => u # queue[c][1].task
  PROVE  WakeTokens(u)' # {}
<1>1. CASE Quiet(c) \/ PollReturns(c)
  BY <1>1, QuietTokens
<1>2. CASE PopSome(c)
  BY <1>2, PopTakes, PopTokens DEF TokenInv
<1>3. ASSUME NEW t \in Tasks, MovesToken(t)
      PROVE  WakeTokens(u)' # {}
  BY <1>3 DEF MovesToken
<1>4. CASE SpawnPush(c) \/ Spawn(c)
  BY <1>3, <1>4, SpawnTokens, SpawnIsFresh DEF SpawnPush, Spawn
<1>5. CASE YieldFirst(c) \/ JoinPending(c) \/ TimerPending(c) \/ TicketPending(c)
  <2>1. qlock[c] = c
    BY <1>5, CalledInPoll DEF YieldFirst, YieldNow, JoinPending, TimerPending, TicketPending, SpawnOps, SpawnKicked
  <2>2. cur[c] \in Tasks /\ ~ Ending(c)
    BY <1>5, <2>1 DEF HomeInv, RunInv, YieldFirst, YieldNow, JoinPending, TimerPending, TicketPending, AtOp,
       AtCall, Ending
  <2>3. WakeTokens(cur[c]) = {}
    BY <2>1, <2>2 DEF TokenInv, PollInv
  <2> QED
    BY <1>3, <1>5, <2>2, <2>3, SuspendTokens
<1>6. CASE WakesJoiner(c)
  <2>1. waker[cur[c]] \in Tasks
    BY <1>6 DEF WakesJoiner, FinishWaker, TypeInv, TypeOK, ControlInv, InTask
  <2> QED
    BY <1>3, <1>6, <2>1, JoinerTokens DEF TokenInv
<1>7. CASE Wake(c)
  <2>1. obj[c] \in Tasks
    BY <1>7 DEF Wake, TypeInv, ControlInv, Pushing
  <2> QED
    BY <1>3, <1>7, <2>1, WakerFacts
<1>8. CASE \E t \in Tasks : TimerFires(c, t)
  BY <1>3, <1>8, WakerFacts
<1> QED
  BY <1>1, <1>2, <1>4, <1>5, <1>6, <1>7, <1>8 DEF Moves

LEMMA ReturnStep ==
  ASSUME TypeInv, HomeInv, JoinInv, TokenInv, ReturnInv, [Next]_vars
  PROVE  ReturnInv'
<1> USE DEF listVars, queueVars, timerVars, kickVars, coreVars, taskVars, Goto
<1>1. CASE Still
  <2>1. \A u \in Tasks : WakeTokens(u)' = WakeTokens(u)
    BY <1>1, QuietTokens
  <2> QED
    BY <1>1, <2>1 DEF Still, placeVars, ReturnInv, Returns, AwaitsNothing
<1>2. ASSUME NEW c \in Cores, Quiet(c) \/ Moves(c)
      PROVE  ReturnInv'
  <2> SUFFICES ASSUME NEW d \in Cores, NEW t \in Tasks, qlock'[d] = d, cur'[d] = t
               PROVE  Returns(d, t)'
    BY DEF ReturnInv
  <2>1. CASE d # c
    <3>1. UNCHANGED <<pc[d], cur[d], obj[d], qlock[d]>> /\ ip'[t] = ip[t]
      BY <2>1, <1>2, OthersKept
    <3>2. PopSome(c) => t # queue[c][1].task
      BY <2>1, <3>1, PopTakes, SMTT(30) DEF HomeInv, RunInv, WhereInv
    <3>3. WakeTokens(t) # {} => WakeTokens(t)' # {}
      BY <1>2, <3>2, TokensLast
    <3> QED
      BY <3>1, <3>3 DEF ReturnInv, Returns, AwaitsNothing
  <2>2. CASE d = c /\ Quiet(c)
    <3>1. qlock[c] = c /\ cur[c] = t
      BY <2>2 DEF Quiet, placeVars
    <3> QED
      BY <2>2, <3>1 DEF Quiet, ReturnInv, Returns, AwaitsNothing
  <2>3. CASE d = c /\ (SpawnPush(c) \/ Spawn(c) \/ PopSome(c) \/ PollReturns(c))
    BY <2>3, ConstantsAssumption, SMTT(30) DEF SpawnPush, Spawn, PopSome, PollReturns, TypeInv, TypeOK, Returns
  <2>4. CASE d = c /\ (YieldFirst(c) \/ JoinPending(c) \/ TimerPending(c) \/ TicketPending(c))
    <3>1. qlock[c] = c /\ cur[c] = t /\ AtCall(c) /\ (pc'[c] = "wake" => obj'[c] = t) /\ pc'[c] # "finish_waker"
      BY <2>4, SMTT(30) DEF YieldFirst, YieldNow, JoinPending, TimerPending, TicketPending, AtOp, TypeInv, TypeOK
    <3>2. WakeTokens(t) = {}
      BY <3>1 DEF TokenInv, PollInv, Ending, AtCall
    <3>3. WakeTokens(t)' # {}
      BY <2>4, <3>1, <3>2, SuspendTokens DEF MovesToken
    <3> QED
      BY <2>4, <3>1, <3>3 DEF Returns
  <2>5. CASE d = c /\ WakesJoiner(c)
    <3>1. pc[c] = "finish_waker" /\ pc'[c] = "wake" /\ qlock[c] = c /\ cur[c] = t /\ ip' = ip
      BY <2>5 DEF WakesJoiner, FinishWaker, TypeInv, TypeOK
    <3> QED
      BY <2>5, <3>1 DEF ReturnInv, Returns
  <2>6. CASE d = c /\ Wake(c)
    <3>1. obj[c] \in Tasks
      BY <2>6 DEF Wake, TypeInv, ControlInv, Pushing
    <3>2. pc[c] = "wake" /\ pc'[c] = "poll_returns" /\ cur[c] = t /\ ip' = ip /\ qlock[c] = c
      BY <2>6, <3>1, WakerFacts DEF Wake, TypeInv, TypeOK
    <3>3. obj[c] # t
      BY <2>6, <3>1, <3>2, WakerFacts
    <3> QED
      BY <2>6, <3>2, <3>3 DEF ReturnInv, Returns
  <2>7. CASE d = c /\ \E u \in Tasks : TimerFires(c, u)
    BY <2>7 DEF TimerFires, Returns
  <2> QED
    BY <1>2, <2>1, <2>2, <2>3, <2>4, <2>5, <2>6, <2>7 DEF Moves
<1> QED
  BY <1>1, <1>2, StepKinds

LEMMA AccountedStep ==
  ASSUME TypeInv, HomeInv, JoinInv, TokenInv, ReturnInv, Accounted, [Next]_vars
  PROVE  Accounted'
<1> USE DEF listVars, queueVars, timerVars, kickVars, coreVars, taskVars, Goto
<1>1. CASE Still
  <2>1. \A u \in Tasks : WakeTokens(u)' = WakeTokens(u)
    BY <1>1, QuietTokens
  <2> QED
    BY <1>1, <2>1 DEF Still, placeVars, Accounted, AwaitsNothing
<1>2. ASSUME NEW c \in Cores, Quiet(c) \/ Moves(c), NEW u \in Tasks, home'[u] # NoCore, u \notin done'
      PROVE  WakeTokens(u)' # {} \/ AwaitsNothing(u)' \/ \E d \in Cores : cur'[d] = u
  <2>a. home[u] # NoCore => ~ IsBoot(u)
    BY DEF HomeInv, BootInv
  <2>b. u # NoTask
    BY ConstantsAssumption
  <2>1. CASE home[u] = NoCore
    <3>1. CASE UNCHANGED home
      BY <1>2, <2>1, <3>1
    <3>2. CASE SpawnPush(c) \/ Spawn(c)
      <4>1. u = obj[c]
        BY <1>2, <2>1, <3>2 DEF SpawnPush, Spawn, TypeInv, TypeOK
      <4> QED
        BY <3>2, <4>1, SpawnTokens DEF MovesToken
    <3> QED
      BY <1>2, <3>1, <3>2, HomeKept
  <2>2. CASE home[u] # NoCore /\ \E d \in Cores : cur[d] = u
    <3>1. PICK d \in Cores : cur[d] = u
      BY <2>2
    <3>2. qlock[d] = d
      BY <2>2, <2>a, <2>b, <3>1 DEF HomeInv, RunInv
    <3>3. CASE d # c
      BY <1>2, <3>1, <3>3, OthersKept
    <3>4. CASE d = c /\ ~ PollReturns(c)
      <4>1. cur'[c] = cur[c]
        BY <1>2, <3>2, <3>4, ConstantsAssumption DEF Quiet, Moves, SpawnPush, Spawn, YieldFirst, YieldNow, JoinPending, TimerPending,
           TicketPending, WakesJoiner, FinishWaker, Wake, TimerFires, PopSome
      <4> QED
        BY <3>1, <3>4, <4>1
    <3>5. CASE d = c /\ PollReturns(c)
      <4>1. WakeTokens(u)' = WakeTokens(u) /\ UNCHANGED ip /\ pc[c] = "poll_returns"
        BY <3>5, QuietTokens DEF PollReturns
      <4>2. ~ ip[u] > Len(Prog[u])
        BY <1>2, <3>1, <3>5 DEF PollReturns
      <4>3. AwaitsNothing(u)' = AwaitsNothing(u)
        BY <4>1 DEF AwaitsNothing
      <4> QED
        BY <3>1, <3>2, <3>5, <4>1, <4>2, <4>3 DEF ReturnInv, Returns
    <3> QED
      BY <3>3, <3>4, <3>5
  <2>3. CASE WakeTokens(u) # {}
    <3>1. CASE PopSome(c) /\ u = queue[c][1].task
      <4>1. cur \in [Cores -> Tasks \cup {NoTask}] /\ cur' = [cur EXCEPT ![c] = u]
        BY <3>1, PopTakes DEF TypeInv, TypeOK
      <4>2. cur'[c] = u
        BY <4>1
      <4> QED
        BY <4>2
    <3> QED
      BY <1>2, <2>3, <3>1, TokensLast
  <2>4. CASE AwaitsNothing(u) /\ \A d \in Cores : cur[d] # u
    <3>1. ip'[u] = ip[u]
      BY <1>2, <2>4, IpKept
    <3> QED
      BY <2>4, <3>1 DEF AwaitsNothing
  <2>5. u \notin done
    BY <1>2 DEF Quiet, placeVars, Moves, SpawnPush, Spawn, YieldFirst, YieldNow, JoinPending, TimerPending,
       TicketPending, WakesJoiner, FinishWaker, Wake, TimerFires, PopSome, PollReturns
  <2> QED
    BY <2>1, <2>2, <2>3, <2>4, <2>5 DEF Accounted
<1> QED
  BY <1>1, <1>2, StepKinds DEF Accounted

\* No joiner is left behind: JoinHandle::poll stores its waker under the lock under
\* which it has found no result, and the result is stored before the waker is looked for.
Joined ==
  \A t \in Tasks : waker[t] # NoTask /\ data[t] => \E c \in Cores : pc[c] = "finish_waker" /\ cur[c] = t

LEMMA JoinedStep ==
  ASSUME TypeInv, Joined, [Next]_vars
  PROVE  Joined'
<1> USE DEF listVars, queueVars, timerVars, kickVars, coreVars, taskVars, Goto
<1>a. /\ waker \in [Tasks -> Tasks \cup {NoTask}] /\ data \in [Tasks -> BOOLEAN] /\ pc \in [Cores -> Labels]
  BY DEF TypeInv, TypeOK
<1>1. ASSUME NEW c \in Cores, Step(c)
      PROVE  Joined'
  <2>a. \A d \in Cores \ {c} : UNCHANGED <<pc[d], cur[d]>>
    BY <1>1, OthersStay
  <2>b. ASSUME NEW t \in Tasks, waker[t] # NoTask, data[t], ~ (pc[c] = "finish_waker" /\ cur[c] = t)
        PROVE  \E d \in Cores : pc'[d] = "finish_waker" /\ cur'[d] = t
    <3>1. PICK d \in Cores : pc[d] = "finish_waker" /\ cur[d] = t
      BY <2>b DEF Joined
    <3>2. d # c
      BY <2>b, <3>1
    <3> QED
      BY <2>a, <3>1, <3>2
  <2>1. CASE JoinPending(c)
    <3>1. /\ ~ data[TheCall(c).task] /\ waker' = [waker EXCEPT ![TheCall(c).task] = cur[c]]
          /\ UNCHANGED <<data, cur>> /\ pc[c] = "exec"
      BY <2>1 DEF JoinPending, AtOp, AtCall
    <3>2. \A t \in Tasks : waker'[t] # NoTask /\ data'[t] => waker[t] # NoTask /\ data[t]
      BY <1>a, <3>1
    <3>3. pc[c] # "finish_waker"
      BY <3>1
    <3> QED
      BY <2>b, <3>2, <3>3 DEF Joined
  <2>2. CASE FinishData(c)
    <3>1. /\ data' = [data EXCEPT ![cur[c]] = TRUE] /\ UNCHANGED <<waker, cur>> /\ pc[c] = "exec"
          /\ pc'[c] = "finish_waker"
      BY <1>a, <2>2 DEF FinishData
    <3>2. \A t \in Tasks : data'[t] => data[t] \/ t = cur[c]
      BY <1>a, <3>1
    <3>3. pc[c] # "finish_waker"
      BY <3>1
    <3> QED
      BY <2>b, <3>1, <3>2, <3>3 DEF Joined
  <2>3. CASE FinishWaker(c)
    <3>1. waker' = [waker EXCEPT ![cur[c]] = NoTask] /\ UNCHANGED <<data, cur>>
      BY <2>3 DEF FinishWaker
    <3>2. \A t \in Tasks : waker'[t] # NoTask => waker[t] # NoTask /\ t # cur[c]
      BY <1>a, <3>1
    <3> QED
      BY <2>b, <3>1, <3>2 DEF Joined
  <2>4. CASE JoinReady(c)
    <3>1. data' = [data EXCEPT ![TheCall(c).task] = FALSE] /\ UNCHANGED <<waker, cur, pc>>
      BY <2>4 DEF JoinReady
    <3> QED
      BY <1>a, <3>1 DEF Joined
  <2>5. CASE UNCHANGED <<waker, data>> /\ pc[c] # "finish_waker"
    BY <2>b, <2>5 DEF Joined
  <2>6. New(c) \/ BootEnd(c) \/ Spawning(c) => UNCHANGED <<waker, data>> /\ pc[c] # "finish_waker"
    BY DEF New, BootEnd, Spawning, SpawnFails, SpawnSelect, Spawn, SpawnPush, SpawnNoise, SpawnOnline, SpawnIpi,
       AtOp, AtCall
  <2>7. Polling(c) => \/ JoinPending(c) \/ FinishData(c) \/ FinishWaker(c) \/ JoinReady(c)
                      \/ UNCHANGED <<waker, data>> /\ pc[c] # "finish_waker"
    BY DEF Polling, TimerReady, TimerNew, YieldNow, TimerPending, TicketPending, PendingForever, Wake, AtOp, AtCall
  <2>8. Run(c) => UNCHANGED <<waker, data>> /\ pc[c] # "finish_waker"
    BY DEF Run, CheckTimers, PopSome, NoiseLoad, NoiseStore, PollReturns, PopNone,
       IdleCheck, IdleNoise, IdleOffline, IdleOnline
  <2> QED
    BY <1>1, <2>1, <2>2, <2>3, <2>4, <2>5, <2>6, <2>7, <2>8 DEF Step
<1>2. CASE Tick \/ Hung \/ UNCHANGED vars
  BY <1>2 DEF Tick, Hung, vars, Joined
<1>3. ASSUME NEW c \in Cores, DummyInterrupt(c) \/ OtherInterrupt(c)
      PROVE  Joined'
  <2>1. UNCHANGED <<waker, data, cur>> /\ \A d \in Cores : pc[d] = "finish_waker" => pc'[d] = "finish_waker"
    BY <1>a, <1>3 DEF DummyInterrupt, OtherInterrupt
  <2> QED
    BY <2>1 DEF Joined
<1> QED
  BY <1>1, <1>2, <1>3 DEF Next

\* What the executors keep true of the tasks.
TaskInv == TypeInv /\ HomeInv /\ JoinInv /\ TokenInv /\ ReturnInv /\ Accounted /\ Joined

LEMMA TaskInit == Init => TaskInv
<1> SUFFICES ASSUME Init
             PROVE  TaskInv
  OBVIOUS
<1>1. TypeInv /\ HomeInv /\ TokenInv
  BY TypeInit, HomeInit, TokenInit
<1>2. JoinInv /\ Accounted /\ Joined
  BY DEF Init, JoinInv, Accounted, Joined
<1>3. ReturnInv
  BY ConstantsAssumption DEF Init, ReturnInv
<1> QED
  BY <1>1, <1>2, <1>3 DEF TaskInv

LEMMA TaskStep == TaskInv /\ [Next]_vars => TaskInv'
BY TypeStep, HomeStep, JoinStep, TokenStep, ReturnStep, AccountedStep, JoinedStep DEF TaskInv

\* Nothing in create_waker keeps a task from being queued twice.  Yet no task is ever
\* queued twice, polled by two cores, or polled again after its end, whatever the
\* number of cores, the tasks and the programs they run.
THEOREM TasksPolledOnce == Spec => []PolledOnceAtATime
<1>1. TaskInv => PolledOnceAtATime
  <2> SUFFICES ASSUME TaskInv, NEW t \in Tasks
               PROVE  /\ \A x, y \in WakeTokens(t) : x = y
                      /\ \A c, d \in Cores : cur[c] = t /\ cur[d] = t => c = d
                      /\ t \in done => WakeTokens(t) = {} /\ \A c \in Cores : cur[c] # t
    BY DEF PolledOnceAtATime
  <2>1. \A x, y \in WakeTokens(t) : x = y
    BY DEF TaskInv, TokenInv, OneToken
  <2>2. \A c, d \in Cores : cur[c] = t /\ cur[d] = t => c = d
    BY CurUnique, ConstantsAssumption DEF TaskInv
  <2>3. ASSUME t \in done
        PROVE  WakeTokens(t) = {} /\ \A c \in Cores : cur[c] # t
    <3>1. WakeTokens(t) = {} /\ home[t] # NoCore
      BY <2>3 DEF TaskInv, TokenInv, DoneInv
    <3>2. ~ IsBoot(t)
      BY <3>1 DEF TaskInv, HomeInv, BootInv
    <3> QED
      BY <2>3, <3>1, <3>2, ConstantsAssumption DEF TaskInv, TokenInv, PollInv, HomeInv, RunInv
  <2> QED
    BY <2>1, <2>2, <2>3
<1> QED
  BY <1>1, TaskInit, TaskStep, PTL DEF Spec

\* Every suspended task has left its waker with the future it awaits, and no JoinInner
\* with a result still holds the waker of a joiner nobody will wake.
THEOREM TasksNotStranded == Spec => []NoStrandedTask
<1>1. TaskInv => NoStrandedTask
  BY DEF TaskInv, Accounted, Joined, NoStrandedTask
<1> QED
  BY <1>1, TaskInit, TaskStep, PTL DEF Spec

-----------------------------------------------------------------------------
(* TimerFuture: a task that waits for one is known to the GS block alone. *)

\* Task t is at a TimerFuture that has been polled.
AtTimer(t) == ip[t] <= Len(Prog[t]) /\ Prog[t][ip[t]].op = "timer" /\ left[t] # -1

InGs(t) == \E c \in Cores : t \in gsTickets[c]

TimerInvAt(t) ==
  /\ left[t] # -1 => ip[t] <= Len(Prog[t]) /\ Prog[t][ip[t]].op \in {"timer", "ticket"}
  /\ AtTimer(t) => InGs(t) \/ \E c \in Cores : cur[c] = t /\ pc[c] = "exec"

TimerInv == \A t \in Tasks : TimerInvAt(t)

LEMMA GsGrows ==
  ASSUME TypeInv, [Next]_vars, NEW t \in Tasks, InGs(t)
  PROVE  InGs(t)'
<1> USE DEF listVars, queueVars, timerVars, kickVars, coreVars, taskVars
<1>1. CASE UNCHANGED gsTickets
  BY <1>1 DEF InGs
<1>2. ASSUME NEW c \in Cores, TimerPending(c)
      PROVE  InGs(t)'
  BY <1>2 DEF TimerPending, InGs, TypeInv, TypeOK
<1>3. ASSUME NEW c \in Cores, Step(c)
      PROVE  UNCHANGED gsTickets \/ TimerPending(c)
  <2>1. CASE New(c) \/ BootEnd(c) \/ Spawning(c)
    BY <2>1 DEF New, BootEnd, Spawning, SpawnFails, SpawnSelect, Spawn, SpawnPush, SpawnNoise, SpawnOnline, SpawnIpi
  <2>2. CASE Polling(c)
    BY <2>2 DEF Polling, JoinReady, TimerReady, TimerNew, YieldNow, JoinPending,
       TicketPending, PendingForever, FinishData, FinishWaker, Wake
  <2>3. CASE Run(c)
    BY <2>3 DEF Run, CheckTimers, PopSome, NoiseLoad, NoiseStore, PollReturns, PopNone,
       IdleCheck, IdleNoise, IdleOffline, IdleOnline
  <2> QED
    BY <1>3, <2>1, <2>2, <2>3 DEF Step
<1> QED
  BY <1>1, <1>2, <1>3 DEF Next, Tick, Hung, DummyInterrupt, OtherInterrupt, vars

\* A core moves on the program and the timer of the task it runs only.
LEMMA ProgramIsLocal ==
  ASSUME TypeInv, NEW c \in Cores, Step(c), NEW t \in Tasks, t # cur[c]
  PROVE  ip'[t] = ip[t] /\ left'[t] = left[t]
<1> USE DEF listVars, queueVars, timerVars, kickVars, coreVars, taskVars, AdvanceIp
<1>a. ip \in [Tasks -> Nat \ {0}] /\ left \in [Tasks -> Nat \cup {-1}]
  BY DEF TypeInv, TypeOK
<1>1. CASE New(c) \/ BootEnd(c) \/ Spawning(c)
  BY <1>a, <1>1 DEF New, BootEnd, Spawning, SpawnFails, SpawnSelect, Spawn, SpawnPush, SpawnNoise, SpawnOnline, SpawnIpi
<1>2. CASE Polling(c)
  BY <1>a, <1>2 DEF Polling, JoinReady, TimerReady, TimerNew, YieldNow, JoinPending, TimerPending,
     TicketPending, PendingForever, FinishData, FinishWaker, Wake
<1>3. CASE Run(c)
  BY <1>3 DEF Run, CheckTimers, PopSome, NoiseLoad, NoiseStore, PollReturns, PopNone,
     IdleCheck, IdleNoise, IdleOffline, IdleOnline
<1> QED
  BY <1>1, <1>2, <1>3 DEF Step

\* What a step makes of the timer of the task it runs.
LEMMA TimerOfCur ==
  ASSUME TypeInv, HomeInv, TimerInv, [Next]_vars, NEW c \in Cores, Step(c), NEW t \in Tasks, t = cur[c]
  PROVE  TimerInvAt(t)'
<1> USE DEF listVars, queueVars, timerVars, kickVars, coreVars, taskVars, AdvanceIp, Goto
<1>a. /\ ip \in [Tasks -> Nat \ {0}] /\ left \in [Tasks -> Nat \cup {-1}] /\ pc \in [Cores -> Labels]
      /\ gsTickets \in [Cores -> SUBSET Tasks] /\ Len(Prog[t]) \in Nat
  BY ConstantsAssumption, SMTT(30) DEF TypeInv, TypeOK
<1>b. TimerInvAt(t)
  BY DEF TimerInv
<1>1. CASE left'[t] = -1
  BY <1>1 DEF TimerInvAt, AtTimer
<1>2. CASE ip'[t] = ip[t] /\ left'[t] = left[t] /\ pc[c] # "exec"
  <2>1. AtTimer(t) => InGs(t)
    <3>1. \A d \in Cores : cur[d] = t => d = c
      BY CurUnique, ConstantsAssumption
    <3> QED
      BY <1>b, <1>2, <3>1 DEF TimerInvAt
  <2>2. AtTimer(t)' => AtTimer(t)
    BY <1>2 DEF AtTimer
  <2> QED
    BY <1>b, <1>2, <2>1, <2>2, GsGrows DEF TimerInvAt
<1>3. CASE pc[c] = "exec" /\ ~ AtCall(c)
  <2>1. left[t] = -1
    BY <1>a, <1>b, <1>3 DEF TimerInvAt, AtCall
  <2>2. left' = left
    BY <1>3 DEF Step, New, BootEnd, Spawning, SpawnFails, SpawnSelect, Spawn, SpawnPush, SpawnNoise, SpawnOnline, SpawnIpi,
       Polling, JoinReady, TimerReady, TimerNew, YieldNow, JoinPending, TimerPending,
       TicketPending, PendingForever, FinishData, FinishWaker, Wake, AtOp,
       Run, CheckTimers, PopSome, NoiseLoad, NoiseStore, PollReturns, PopNone,
       IdleCheck, IdleNoise, IdleOffline, IdleOnline
  <2> QED
    BY <1>1, <2>1, <2>2
<1>4. CASE UNCHANGED left /\ ip[t] <= Len(Prog[t]) /\ Prog[t][ip[t]].op \notin {"timer", "ticket"}
  BY <1>1, <1>4, <1>b DEF TimerInvAt
<1>5. CASE New(c) \/ BootEnd(c) \/ Run(c) \/ FinishData(c) \/ FinishWaker(c) \/ Wake(c)
  <2>1. UNCHANGED <<ip, left>> /\ (pc[c] # "exec" \/ ~ AtCall(c))
    BY <1>5 DEF New, BootEnd, FinishData, FinishWaker, Wake, Run, CheckTimers, PopSome, NoiseLoad, NoiseStore,
       PollReturns, PopNone, IdleCheck, IdleNoise, IdleOffline, IdleOnline
  <2> QED
    BY <1>2, <1>3, <2>1
<1>6. CASE Spawning(c)
  <2>1. UNCHANGED left
    BY <1>6 DEF Spawning, SpawnFails, SpawnSelect, Spawn, SpawnPush, SpawnNoise, SpawnOnline, SpawnIpi
  <2>2. AtOp(c, SpawnOps) \/ pc[c] \in Spawns
    BY <1>6 DEF Spawning, SpawnFails, SpawnSelect, Spawn, SpawnPush, SpawnNoise, SpawnOnline, SpawnIpi, Spawns,
       SpawnOps, AtOp
  <2>3. ip[t] <= Len(Prog[t]) /\ Prog[t][ip[t]].op \in SpawnOps
    BY <2>2 DEF AtOp, AtCall, TheCall, HomeInv, CallInv
  <2> QED
    BY <1>4, <2>1, <2>3 DEF SpawnOps, SpawnKicked
<1>7. CASE JoinReady(c) \/ YieldNow(c) \/ JoinPending(c) \/ PendingForever(c)
  BY <1>4, <1>7 DEF JoinReady, YieldNow, JoinPending, PendingForever, AtOp, AtCall, TheCall
<1>8. CASE TimerReady(c)
  BY <1>a, <1>1, <1>8 DEF TimerReady
<1>9. CASE TimerNew(c)
  BY <1>9 DEF TimerNew, TimerInvAt, AtOp, AtCall, TheCall
<1>10. CASE TimerPending(c)
  <2>1. UNCHANGED <<ip, left>> /\ t \in gsTickets'[c]
    BY <1>a, <1>10 DEF TimerPending
  <2> QED
    BY <1>b, <2>1 DEF TimerInvAt, InGs
<1>11. CASE TicketPending(c)
  <2>1. UNCHANGED <<ip, left>> /\ Prog[t][ip[t]].op = "ticket"
    BY <1>11 DEF TicketPending, AtOp, TheCall
  <2> QED
    BY <1>b, <2>1 DEF TimerInvAt, AtTimer
<1> QED
  BY <1>5, <1>6, <1>7, <1>8, <1>9, <1>10, <1>11 DEF Step, Polling

LEMMA TimerStep == TypeInv /\ HomeInv /\ TimerInv /\ [Next]_vars => TimerInv'
<1> SUFFICES ASSUME TypeInv, HomeInv, TimerInv, [Next]_vars, NEW t \in Tasks
             PROVE  TimerInvAt(t)'
  BY DEF TimerInv
<1> USE DEF listVars, queueVars, timerVars, kickVars, coreVars, taskVars, Goto
<1>a. TimerInvAt(t) /\ left \in [Tasks -> Nat \cup {-1}] /\ pc \in [Cores -> Labels]
  BY DEF TimerInv, TypeInv, TypeOK
<1>1. ASSUME NEW c \in Cores, Step(c)
      PROVE  TimerInvAt(t)'
  <2>1. CASE t # cur[c]
    <3>1. ip'[t] = ip[t] /\ left'[t] = left[t]
      BY <1>1, <2>1, ProgramIsLocal
    <3>2. AtTimer(t)' => AtTimer(t)
      BY <3>1 DEF AtTimer
    <3>3. \A d \in Cores : cur[d] = t /\ pc[d] = "exec" => cur'[d] = t /\ pc'[d] = "exec"
      BY <1>1, <2>1, OthersStay
    <3> QED
      BY <1>a, <3>1, <3>2, <3>3, GsGrows DEF TimerInvAt
  <2> QED
    BY <1>1, <2>1, TimerOfCur
<1>2. ASSUME UNCHANGED <<ip, cur>>, left'[t] # -1 <=> left[t] # -1, \A d \in Cores : pc[d] = "exec" => pc'[d] = "exec"
      PROVE  TimerInvAt(t)'
  <2>1. AtTimer(t)' <=> AtTimer(t)
    BY <1>2 DEF AtTimer
  <2> QED
    BY <1>a, <1>2, <2>1, GsGrows DEF TimerInvAt
<1>3. CASE Tick
  <2>1. left'[t] # -1 <=> left[t] # -1
    BY <1>a, <1>3, SMTT(30) DEF Tick
  <2> QED
    BY <1>2, <1>3, <2>1 DEF Tick
<1>4. CASE Hung \/ UNCHANGED vars
  BY <1>2, <1>4 DEF Hung, vars
<1>5. ASSUME NEW c \in Cores, DummyInterrupt(c) \/ OtherInterrupt(c)
      PROVE  TimerInvAt(t)'
  BY <1>a, <1>2, <1>5 DEF DummyInterrupt, OtherInterrupt
<1> QED
  BY <1>1, <1>3, <1>4, <1>5 DEF Next

\* A task that awaits a TimerFuture which was not ready at once is never polled again:
\* its only waker is a ticket in the GS block, and check_timers reads another map.
THEOREM TimerTasksSleepOn == Spec => TimerNeverWakes
<1>1. Init => TimerInv
  <2> SUFFICES ASSUME Init, NEW t \in Tasks PROVE TimerInvAt(t)
    BY DEF TimerInv
  <2>1. left[t] = -1
    BY DEF Init
  <2> QED
    BY <2>1 DEF TimerInvAt, AtTimer
<1>2. TaskInv /\ TimerInv /\ [Next]_vars => TimerInv'
  BY TimerStep DEF TaskInv
<1>3. TaskInv /\ TimerInv /\ [Next]_vars => [\A t \in Tasks : AwaitsTimer(t) => AwaitsTimer(t)']_vars
  <2> SUFFICES ASSUME TaskInv, TimerInv, [Next]_vars, NEW t \in Tasks, AwaitsTimer(t)
               PROVE  AwaitsTimer(t)'
    OBVIOUS
  <2> USE DEF listVars, queueVars, timerVars, kickVars, coreVars, taskVars
  <2>1. TimerInvAt(t)' /\ TypeInv /\ HomeInv /\ TokenInv
    BY TimerStep DEF TaskInv, TimerInv
  <2>2. ip'[t] = ip[t] /\ left'[t] # -1
    <3>1. ASSUME NEW c \in Cores, Step(c)
          PROVE  ip'[t] = ip[t] /\ left'[t] # -1
      <4>1. t # cur[c] /\ left[t] # -1
        BY DEF AwaitsTimer
      <4> QED
        BY <2>1, <3>1, <4>1, ProgramIsLocal
    <3>2. CASE Tick
      <4>1. ip' = ip /\ left'[t] = (IF left[t] > 0 THEN left[t] - 1 ELSE left[t])
        BY <3>2 DEF Tick
      <4>2. left[t] # -1
        BY DEF AwaitsTimer
      <4>3. left[t] \in Nat \cup {-1}
        BY <2>1 DEF TypeInv, TypeOK
      <4> QED
        BY <4>1, <4>2, <4>3, SMTT(30)
    <3> QED
      BY <3>1, <3>2 DEF Next, Hung, DummyInterrupt, OtherInterrupt, AwaitsTimer, vars
  <2>3. PICK g \in Cores : t \in gsTickets[g]
    BY DEF AwaitsTimer, TimerInv, TimerInvAt, AtTimer, InGs
  <2>4. \A d \in Cores : \A i \in 1..Len(queue[d]) : queue[d][i].task # t
    <3> SUFFICES ASSUME NEW d \in Cores, NEW i \in 1..Len(queue[d]), queue[d][i].task = t
                 PROVE  FALSE
      OBVIOUS
    <3>1. <<"queue", d, i>> \in WakeTokens(t) /\ <<"gs", g>> \in WakeTokens(t)
      BY <2>3, TokenHeld
    <3>2. <<"queue", d, i>> # <<"gs", g>>
      OBVIOUS
    <3> QED
      BY <2>1, <3>1, <3>2 DEF TokenInv, OneToken
  <2>5. ASSUME NEW d \in Cores
        PROVE  cur'[d] # t
    <3>0. cur[d] # t /\ t # NoTask
      BY ConstantsAssumption DEF AwaitsTimer
    <3>1. CASE Still
      BY <3>0, <3>1 DEF Still
    <3>2. ASSUME NEW c \in Cores, Quiet(c) \/ Moves(c)
          PROVE  cur'[d] # t
      <4>1. CASE d # c
        BY <2>1, <3>0, <3>2, <4>1, OthersKept
      <4>2. CASE d = c /\ Quiet(c)
        <5>1. cur'[c] = cur[c] \/ cur'[c] = NoTask
          BY <4>2 DEF Quiet
        <5> QED
          BY <3>0, <4>2, <5>1
      <4>3. CASE d = c /\ PopSome(c)
        <5>1. cur'[c] = queue[c][1].task /\ 1 \in 1..Len(queue[c])
          BY <2>1, <4>3, PopTakes DEF TypeInv, TypeOK
        <5> QED
          BY <2>4, <4>3, <5>1
      <4>4. CASE d = c /\ PollReturns(c)
        BY <2>1, <3>0, <4>4 DEF PollReturns, TypeInv, TypeOK
      <4>5. CASE d = c /\ Moves(c) /\ ~ PopSome(c) /\ ~ PollReturns(c)
        BY <3>0, <4>5 DEF Moves, SpawnPush, Spawn, YieldFirst, YieldNow, JoinPending, TimerPending,
           TicketPending, WakesJoiner, FinishWaker, Wake, TimerFires
      <4> QED
        BY <3>2, <4>1, <4>2, <4>3, <4>4, <4>5
    <3> QED
      BY <2>1, <3>1, <3>2, StepKinds
  <2> QED
    BY <2>2, <2>5 DEF AwaitsTimer
<1> QED
  BY <1>1, <1>2, <1>3, TaskInit, TaskStep, PTL DEF Spec, TimerNeverWakes

-----------------------------------------------------------------------------
(* The executors implement TaskSched. *)

LEMMA SchedInit == Init => Sched!Init
<1> SUFFICES ASSUME Init
             PROVE  Sched!Init
  OBVIOUS
<1>1. ReadyTasks = [c \in Cores |-> <<>>]
  BY TasksInEmpty DEF Init, ReadyTasks
<1>2. RunningTasks = [c \in Cores |-> NoTask]
  BY ConstantsAssumption DEF Init, RunningTasks, PolledBy
<1>3. WaitingTasks = {}
  BY DEF Init, WaitingTasks
<1> QED
  BY <1>1, <1>2, <1>3 DEF Sched!Init, Init

\* The queue to which a task is pushed, as TaskSched sees it.
LEMMA ReadyPush ==
  ASSUME TypeInv, NEW e \in Cores, NEW t \in Tasks, NEW by \in {"kick", "bare"}, PushBack(e, t, by)
  PROVE  /\ ReadyTasks' = [ReadyTasks EXCEPT ![e] = Append(@, t)]
         /\ \A d \in Cores : \A u \in Tasks : InQueue(d, u)' <=> InQueue(d, u) \/ (d = e /\ u = t)
<1>a. queue \in [Cores -> Seq(Entry)] /\ queue[e] \in Seq(Entry) /\ Len(queue[e]) \in Nat
  BY SMTT(30) DEF TypeInv, TypeOK
<1> DEFINE entry == [task |-> t, by |-> by]
<1>1. entry \in Entry /\ entry.task = t
  BY DEF Entry
<1>2. queue' = [queue EXCEPT ![e] = Append(queue[e], entry)]
  BY DEF PushBack
<1> HIDE DEF entry
<1>3. TasksIn(Append(queue[e], entry)) = Append(TasksIn(queue[e]), t)
  BY <1>a, <1>1, TasksInAppend
<1>4. ReadyTasks' = [ReadyTasks EXCEPT ![e] = Append(@, t)]
  BY <1>a, <1>2, <1>3 DEF ReadyTasks
<1>5. ASSUME NEW d \in Cores, NEW u \in Tasks
      PROVE  InQueue(d, u)' <=> InQueue(d, u) \/ (d = e /\ u = t)
  <2>1. CASE d # e
    BY <2>1, PushAdds DEF InQueue
  <2>2. CASE d = e
    <3> DEFINE n == Len(queue[e]) + 1
    <3>1. 1..Len(queue'[e]) = 1..Len(queue[e]) \cup {n}
      BY <1>a, PushAdds, OneMore
    <3>2. queue'[e][n].task = t /\ \A i \in 1..Len(queue[e]) : queue'[e][i] = queue[e][i]
      BY PushAdds
    <3> HIDE DEF n
    <3> QED
      BY <2>2, <3>1, <3>2 DEF InQueue
  <2> QED
    BY <2>1, <2>2
<1> QED
  BY <1>4, <1>5

\* The queue whose head is polled, as TaskSched sees it.
LEMMA ReadyPop ==
  ASSUME TypeInv, HomeInv, TokenInv, NEW c \in Cores, PopSome(c), NEW t \in Tasks, t = queue[c][1].task
  PROVE  /\ ReadyTasks' = [ReadyTasks EXCEPT ![c] = Tail(@)] /\ ReadyTasks[c] # <<>> /\ Head(ReadyTasks[c]) = t
         /\ InQueue(c, t)
         /\ \A d \in Cores : \A u \in Tasks : InQueue(d, u)' <=> InQueue(d, u) /\ u # t
<1>a. queue \in [Cores -> Seq(Entry)] /\ queue[c] \in Seq(Entry) /\ queue[c] # <<>>
  BY DEF TypeInv, TypeOK, PopSome
<1>1. queue' = [queue EXCEPT ![c] = Tail(queue[c])]
  BY DEF PopSome
<1>2. ReadyTasks' = [ReadyTasks EXCEPT ![c] = Tail(@)] /\ ReadyTasks[c] # <<>> /\ Head(ReadyTasks[c]) = t
  BY <1>a, <1>1, TasksInTail DEF ReadyTasks
<1>3. InQueue(c, t)
  BY PopTakes DEF InQueue
<1>4. ASSUME NEW d \in Cores, NEW u \in Tasks
      PROVE  InQueue(d, u)' <=> InQueue(d, u) /\ u # t
  <2>1. ASSUME NEW i \in 1..Len(queue'[d]), queue'[d][i].task = u
        PROVE  InQueue(d, u)
    <3>1. CASE d # c
      <4>1. queue'[d] = queue[d]
        BY <3>1, PopTakes
      <4> QED
        BY <2>1, <4>1 DEF InQueue
    <3>2. CASE d = c
      <4>1. i + 1 \in 1..Len(queue[d]) /\ queue'[d][i] = queue[d][i + 1]
        BY <3>2, PopTakes
      <4> QED
        BY <2>1, <4>1 DEF InQueue
    <3> QED
      BY <3>1, <3>2
  <2>2. ASSUME NEW i \in 1..Len(queue'[d]), queue'[d][i].task = t
        PROVE  FALSE
    <3>1. <<"queue", d, i>> \in QueueTokens(t)'
      BY <2>2, QueueTokenIsNext
    <3>2. <<"queue", d, i>> \in WakeTokens(t)'
      BY <3>1, TokenPartsNext
    <3>3. WakeTokens(t)' = {}
      BY PopTokens DEF TokenInv
    <3> QED
      BY <3>2, <3>3
  <2>3. ASSUME NEW i \in 1..Len(queue[d]), queue[d][i].task = u, u # t
        PROVE  InQueue(d, u)'
    <3>1. CASE d # c
      <4>1. queue'[d] = queue[d]
        BY <3>1, PopTakes
      <4> QED
        BY <2>3, <4>1 DEF InQueue
    <3>2. CASE d = c
      <4>1. Len(queue[c]) \in Nat
        BY <1>a, SMTT(30)
      <4>2. i # 1 /\ i - 1 \in 1..Len(queue'[d]) /\ (i - 1) + 1 = i
        <5>1. i # 1 /\ i \in 1..Len(queue[c])
          BY <2>3, <3>2
        <5>2. Len(queue'[d]) = Len(queue[c]) - 1
          BY <3>2, PopTakes
        <5> QED
          BY <4>1, <5>1, <5>2, OneLess
      <4>3. queue'[d][i - 1] = queue[d][i]
        <5>1. \A j \in 1..Len(queue'[d]) : queue'[d][j] = queue[d][j + 1]
          BY <3>2, PopTakes
        <5> QED
          BY <4>2, <5>1
      <4> QED
        BY <2>3, <4>2, <4>3 DEF InQueue
    <3> QED
      BY <3>1, <3>2
  <2> QED
    BY <2>1, <2>2, <2>3 DEF InQueue
<1> QED
  BY <1>2, <1>3, <1>4

\* Nobody starts or ends a poll.
LEMMA RunningKept ==
  ASSUME UNCHANGED qlock, \A d \in Cores : qlock[d] = d => cur'[d] = cur[d]
  PROVE  RunningTasks' = RunningTasks /\ \A d \in Cores : PolledBy(d)' = PolledBy(d)
<1>1. \A d \in Cores : PolledBy(d)' = PolledBy(d)
  BY DEF PolledBy
<1> QED
  BY <1>1 DEF RunningTasks

LEMMA SchedSpawn ==
  ASSUME TypeInv, HomeInv, NEW c \in Cores, SpawnPush(c) \/ Spawn(c)
  PROVE  Sched!Next
<1> USE DEF listVars, queueVars, timerVars, kickVars, coreVars, taskVars
<1>1. pc[c] \in {"spawn", "spawn_push"} /\ UNCHANGED <<done, cur, qlock>>
  BY DEF SpawnPush, Spawn, PushBack
<1>2. PICK t \in Tasks : t = obj[c] /\ home[t] = NoCore
  BY <1>1, SpawnIsFresh
<1>3. PICK e \in Cores : e = tgt[c] /\ e # NoCore
  BY <1>1, ConstantsAssumption DEF TypeInv, ControlInv, Spawns
<1>4. PICK by \in {"kick", "bare"} : PushBack(e, t, by)
  BY <1>2, <1>3 DEF SpawnPush, Spawn
<1>5. home' = [home EXCEPT ![t] = e]
  BY <1>2, <1>3 DEF SpawnPush, Spawn
<1>6. ReadyTasks' = [ReadyTasks EXCEPT ![e] = Append(@, t)]
  BY <1>4, ReadyPush
<1>7. RunningTasks' = RunningTasks /\ \A d \in Cores : PolledBy(d)' = PolledBy(d)
  BY <1>1, RunningKept
<1>8. WaitingTasks' = WaitingTasks
  <2>1. \A u \in Tasks : u \in WaitingTasks' <=> u \in WaitingTasks
    <3> TAKE u \in Tasks
    <3>1. \A d \in Cores : InQueue(d, u)' <=> InQueue(d, u) \/ (d = e /\ u = t)
      BY <1>4, ReadyPush, SMTT(30)
    <3>2. CASE u = t
      BY <1>2, <3>1, <3>2 DEF WaitingTasks
    <3>3. CASE u # t
      <4>1. home'[u] = home[u]
        BY <1>5, <3>3 DEF TypeInv, TypeOK
      <4> QED
        BY <1>1, <1>7, <3>1, <3>3, <4>1 DEF WaitingTasks
    <3> QED
      BY <3>2, <3>3
  <2> QED
    BY <2>1 DEF WaitingTasks
<1>9. Sched!Spawn(t, e)
  BY <1>1, <1>2, <1>5, <1>6, <1>7, <1>8 DEF Sched!Spawn
<1> QED
  BY <1>9 DEF Sched!Next

LEMMA SchedWake ==
  ASSUME TypeInv, HomeInv, TokenInv, NEW c \in Cores, NEW t \in Tasks, (Wake(c) /\ t = obj[c]) \/ TimerFires(c, t)
  PROVE  Sched!Next
<1>1. /\ home[t] \in Cores /\ PushBack(home[t], t, "bare") /\ UNCHANGED <<done, home, cur, qlock>>
      /\ t \notin done /\ \A d \in Cores : ~ InQueue(d, t) /\ (qlock[d] = d => cur[d] # t)
  BY WakerFacts
<1>2. ReadyTasks' = [ReadyTasks EXCEPT ![home[t]] = Append(@, t)]
  BY <1>1, ReadyPush
<1>3. RunningTasks' = RunningTasks /\ \A d \in Cores : PolledBy(d)' = PolledBy(d)
  BY <1>1, RunningKept
<1>4. t \in WaitingTasks
  BY <1>1, ConstantsAssumption DEF WaitingTasks, PolledBy
<1>5. WaitingTasks' = WaitingTasks \ {t}
  <2>1. \A u \in Tasks : u \in WaitingTasks' <=> u \in WaitingTasks /\ u # t
    <3> TAKE u \in Tasks
    <3>1. \A d \in Cores : InQueue(d, u)' <=> InQueue(d, u) \/ (d = home[t] /\ u = t)
      BY <1>1, ReadyPush
    <3> QED
      BY <1>1, <1>3, <3>1 DEF WaitingTasks
  <2> QED
    BY <2>1 DEF WaitingTasks
<1>6. Sched!Wake(t)
  BY <1>1, <1>2, <1>3, <1>4, <1>5 DEF Sched!Wake
<1> QED
  BY <1>6 DEF Sched!Next

LEMMA SchedPop ==
  ASSUME TypeInv, HomeInv, TokenInv, NEW c \in Cores, PopSome(c)
  PROVE  Sched!Next
<1> USE DEF listVars, queueVars, timerVars, kickVars, coreVars, taskVars
<1>1. PICK t \in Tasks : t = queue[c][1].task
  BY PopTakes
<1>2. /\ qlock[c] = NoCore /\ qlock' = [qlock EXCEPT ![c] = c] /\ cur' = [cur EXCEPT ![c] = t]
      /\ UNCHANGED <<home, done>>
  BY <1>1, PopTakes DEF PopSome
<1>3. /\ ReadyTasks' = [ReadyTasks EXCEPT ![c] = Tail(@)] /\ ReadyTasks[c] # <<>> /\ Head(ReadyTasks[c]) = t
      /\ InQueue(c, t)
  BY <1>1, ReadyPop
<1>4. PolledBy(c) = NoTask /\ PolledBy(c)' = t /\ \A d \in Cores \ {c} : PolledBy(d)' = PolledBy(d)
  BY <1>2, ConstantsAssumption DEF PolledBy, TypeInv, TypeOK
<1>5. RunningTasks' = [RunningTasks EXCEPT ![c] = t] /\ RunningTasks[c] = NoTask
  BY <1>4 DEF RunningTasks
<1>6. WaitingTasks' = WaitingTasks
  <2>1. \A u \in Tasks : u \in WaitingTasks' <=> u \in WaitingTasks
    <3> TAKE u \in Tasks
    <3>1. \A d \in Cores : InQueue(d, u)' <=> InQueue(d, u) /\ u # t
      BY <1>1, ReadyPop
    <3>2. u # NoTask
      BY ConstantsAssumption
    <3>3. CASE u = t
      BY <1>3, <1>4, <3>3 DEF WaitingTasks
    <3>4. CASE u # t
      BY <1>2, <1>4, <3>1, <3>2, <3>4 DEF WaitingTasks
    <3> QED
      BY <3>3, <3>4
  <2> QED
    BY <2>1 DEF WaitingTasks
<1>7. Sched!Dispatch(c)
  BY <1>2, <1>3, <1>5, <1>6 DEF Sched!Dispatch
<1> QED
  BY <1>7 DEF Sched!Next

LEMMA SchedPollReturns ==
  ASSUME TypeInv, HomeInv, TokenInv, NEW c \in Cores, PollReturns(c)
  PROVE  Sched!Next
<1> USE DEF listVars, queueVars, timerVars, kickVars, coreVars, taskVars
<1>1. PICK t \in Tasks : t = cur[c] /\ qlock[c] = c /\ home[t] = c /\ c # NoCore
  BY ConstantsAssumption DEF PollReturns, HomeInv, RunInv, PollOnly
<1>2. /\ qlock' = [qlock EXCEPT ![c] = NoCore] /\ cur' = [cur EXCEPT ![c] = NoTask]
      /\ UNCHANGED <<home, queue>>
      /\ done' = IF ip[t] > Len(Prog[t]) THEN done \cup {t} ELSE done
  BY <1>1 DEF PollReturns
<1>3. PolledBy(c) = t /\ PolledBy(c)' = NoTask /\ \A d \in Cores \ {c} : PolledBy(d)' = PolledBy(d)
  BY <1>1, <1>2 DEF PolledBy, TypeInv, TypeOK
<1>4. RunningTasks' = [RunningTasks EXCEPT ![c] = NoTask] /\ RunningTasks[c] = t /\ t # NoTask
  <2>1. t # NoTask
    BY ConstantsAssumption
  <2>2. RunningTasks' = [RunningTasks EXCEPT ![c] = NoTask] /\ RunningTasks[c] = t
    BY <1>3 DEF RunningTasks
  <2> QED
    BY <2>1, <2>2
<1>5. ReadyTasks' = ReadyTasks /\ \A d \in Cores : \A u \in Tasks : InQueue(d, u)' <=> InQueue(d, u)
  BY <1>2 DEF ReadyTasks, InQueue
<1>6. t \notin done /\ (\A d \in Cores : ~ InQueue(d, t)) /\ \A d \in Cores \ {c} : PolledBy(d) # t
  <2>1. t \notin done /\ ~ InQueue(c, t)
    BY <1>1 DEF TokenInv, PollInv
  <2>2. \A d \in Cores \ {c} : ~ InQueue(d, t)
    BY <1>1, SMTT(30) DEF InQueue, HomeInv, WhereInv
  <2>3. \A d \in Cores \ {c} : PolledBy(d) # t
    BY <1>1, <1>4, CurUnique DEF PolledBy
  <2> QED
    BY <2>1, <2>2, <2>3
<1>7. \A u \in Tasks \ {t} : u \in WaitingTasks' <=> u \in WaitingTasks
  <2> TAKE u \in Tasks \ {t}
  <2>1. (\A d \in Cores : PolledBy(d)' # u) <=> (\A d \in Cores : PolledBy(d) # u)
    BY <1>3, ConstantsAssumption
  <2>2. u \in done' <=> u \in done
    BY <1>2
  <2> QED
    BY <1>2, <1>5, <2>1, <2>2 DEF WaitingTasks
<1>8. t \notin WaitingTasks
  BY <1>3 DEF WaitingTasks
<1>9. CASE ip[t] > Len(Prog[t])
  <2>1. done' = done \cup {t}
    BY <1>2, <1>9
  <2>2. t \notin WaitingTasks'
    BY <2>1 DEF WaitingTasks
  <2>3. WaitingTasks' = WaitingTasks
    BY <1>7, <1>8, <2>2, SMTT(30) DEF WaitingTasks
  <2>4. Sched!Finish(c)
    BY <1>2, <1>4, <1>5, <2>1, <2>3 DEF Sched!Finish
  <2> QED
    BY <2>4 DEF Sched!Next
<1>10. CASE ~ ip[t] > Len(Prog[t])
  <2>1. done' = done
    BY <1>2, <1>10
  <2>2. t \in WaitingTasks'
    <3>1. \A d \in Cores : PolledBy(d)' # t
      BY <1>3, <1>4, <1>6
    <3> QED
      BY <1>1, <1>2, <1>5, <1>6, <2>1, <3>1 DEF WaitingTasks
  <2>3. WaitingTasks' = WaitingTasks \cup {t}
    BY <1>7, <2>2 DEF WaitingTasks
  <2>4. Sched!Suspend(c)
    BY <1>2, <1>4, <1>5, <2>1, <2>3 DEF Sched!Suspend
  <2> QED
    BY <2>4 DEF Sched!Next
<1> QED
  BY <1>9, <1>10

\* The other steps are stuttering steps of TaskSched.
LEMMA SchedStutters ==
  ASSUME UNCHANGED <<queue, qlock, home, done>>, \A d \in Cores : qlock[d] = d => cur'[d] = cur[d]
  PROVE  UNCHANGED Sched!vars
<1>1. RunningTasks' = RunningTasks /\ \A d \in Cores : PolledBy(d)' = PolledBy(d)
  BY RunningKept
<1>2. ReadyTasks' = ReadyTasks /\ \A d \in Cores : \A u \in Tasks : InQueue(d, u)' <=> InQueue(d, u)
  BY DEF ReadyTasks, InQueue
<1>3. WaitingTasks' = WaitingTasks
  BY <1>1, <1>2 DEF WaitingTasks
<1> QED
  BY <1>1, <1>2, <1>3 DEF Sched!vars

LEMMA SchedStep == TaskInv /\ [Next]_vars => [Sched!Next]_(Sched!vars)
<1> SUFFICES ASSUME TypeInv, HomeInv, TokenInv, [Next]_vars
             PROVE  Sched!Next \/ UNCHANGED Sched!vars
  BY DEF TaskInv
<1> USE DEF listVars, queueVars, timerVars, kickVars, coreVars, taskVars
<1>1. CASE Still
  BY <1>1, SchedStutters DEF Still, placeVars
<1>2. ASSUME NEW c \in Cores, Quiet(c)
      PROVE  UNCHANGED Sched!vars
  BY <1>2, SchedStutters DEF Quiet, placeVars
<1>3. ASSUME NEW c \in Cores, Moves(c)
      PROVE  Sched!Next \/ UNCHANGED Sched!vars
  <2>1. CASE YieldFirst(c) \/ JoinPending(c) \/ TimerPending(c) \/ TicketPending(c) \/ WakesJoiner(c)
    <3>1. UNCHANGED <<queue, qlock, home, done, cur>>
      BY <2>1 DEF YieldFirst, YieldNow, JoinPending, TimerPending, TicketPending, WakesJoiner, FinishWaker
    <3> QED
      BY <3>1, SchedStutters
  <2>2. CASE Wake(c)
    <3>1. obj[c] \in Tasks
      BY <2>2 DEF Wake, TypeInv, ControlInv, Pushing
    <3> QED
      BY <2>2, <3>1, SchedWake
  <2> QED
    BY <1>3, <2>1, <2>2, SchedSpawn, SchedWake, SchedPop, SchedPollReturns DEF Moves
<1> QED
  BY <1>1, <1>2, <1>3, StepKinds

\* Every behaviour of the executors, with their locks, flags, wakers and interrupts, is
\* a behaviour of TaskSched: FIFO dispatch on the home core, one poll at a time, one
\* poll per wake-up, and none after the end.
THEOREM ExecutorsImplementTaskSched == Spec => ImplementsTaskSched
BY SchedInit, SchedStep, TaskInit, TaskStep, PTL DEF Spec, ImplementsTaskSched, Sched!Spec
=============================================================================
