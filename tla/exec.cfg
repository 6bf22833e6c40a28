SPECIFICATION FairSpec
CONSTANTS
  Cores = {0, 1}
  Tasks <- TasksOf
  Boots <- BootsOf
  Prog <- ProgOf
  NoCore = NoCore
  NoTask = NoTask
INVARIANTS NoLostKick PolledOnceAtATime NoStrandedTask
PROPERTIES ImplementsTaskSched TasksFinish TimerNeverWakes YieldHangsCore
