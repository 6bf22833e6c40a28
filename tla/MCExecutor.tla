----------------------------- MODULE MCExecutor -----------------------------
(* The programs the tasks of Executor run: five scenarios, one of which the *)
(* cores boot into.  The tasks of the others are never spawned.              *)
EXTENDS Executor

Do(op, t, a) == [op |-> op, task |-> t, arg |-> a]
BootsOf == {[c \in Cores |-> IF c = 0 THEN b[1] ELSE b[2]] :
              b \in {<<"kick0", "kick1">>, <<"idle", "join1">>, <<"idle", "lone1">>, <<"timer0", "idle">>, <<"hang0", "hang1">>}}

TasksOf ==
  {"idle", "kick0", "kick1", "main", "t1", "t2", "t3"} \cup {"join1", "j", "child", "k1", "k0"}
    \cup {"lone1", "l", "m", "k"}
    \cup {"timer0", "tick", "tock", "sleep"}
    \cup {"hang0", "hang1", "a", "b", "a1", "b1"}

ProgOf ==
  [t \in TasksOf |->
     \* Every kind of spawn_*; the tasks of core 0 spawn to core 1 and not the other way.
     CASE t = "kick0" -> <<Do("spawn", "main", 0), Do("spawn_global", "t3", 0)>>
       [] t = "kick1" -> <<Do("spawn_selected_async_index", "t2", 1)>>
       [] t = "main" -> <<Do("spawn_selected_lapic_id", "t1", 1), Do("pending", t, 0)>>
     \* Task j joins child on another core; the kicks that follow make core 1 find
     \* child and core 0 find j again.
       [] t = "join1" -> <<Do("spawn_selected_lapic_id", "j", 0)>>
       [] t = "j" -> <<Do("spawn", "child", 1), Do("spawn_selected_lapic_id", "k1", 1),
                       Do("join", "child", 0)>>
       [] t = "k1" -> <<Do("spawn_selected_lapic_id", "k0", 0)>>
     \* The same without the second kick: core 0 may sleep over l.
       [] t = "lone1" -> <<Do("spawn_selected_lapic_id", "l", 0)>>
       [] t = "l" -> <<Do("spawn", "m", 1), Do("spawn_selected_lapic_id", "k", 1), Do("join", "m", 0)>>
     \* Timers, on a core of their own: two tasks through the executor's tickets,
     \* one through TimerFuture.
       [] t = "timer0" -> <<Do("spawn", "tick", 0), Do("spawn", "tock", 0), Do("spawn", "sleep", 0)>>
       [] t = "tick" -> <<Do("ticket", t, 2)>>
       [] t = "tock" -> <<Do("ticket", t, 1), Do("ticket", t, 1)>>
       [] t = "sleep" -> <<Do("timer", t, 1)>>
     \* Tasks that need a queue their own poll has locked: a and b spawn to each
     \* other's core, and a yields if it gets past that.
       [] t = "hang0" -> <<Do("spawn", "a", 0)>>
       [] t = "hang1" -> <<Do("spawn", "b", 1)>>
       [] t = "a" -> <<Do("spawn_selected_lapic_id", "b1", 1), Do("yield_now", t, 0)>>
       [] t = "b" -> <<Do("spawn_selected_lapic_id", "a1", 0)>>
       [] OTHER -> <<>>]
=============================================================================
