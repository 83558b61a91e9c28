\* Two workers, five tasks, one spurious wake-up.  The shutdown can block for
\* ever (see MCThreadPoolJoin.cfg), so deadlock is not an error here.
SPECIFICATION FairSpec
CONSTANTS
    comments = comments
    forum = forum
    q3 = q3
    q4a = q4a
    q4b = q4b
    Tasks <- AllTasks
    MainTasks <- FromMain
    Children <- Spawned
    Prio <- Priority
    Workers = {w1, w2}
    NoTask = NoTask
    NoThread = NoThread
    MaxSpurious = 1
INVARIANTS RunsOnce NoWakeupLost QuietOnlyWhenDone IInv
PROPERTIES PoolSpec EveryTaskRuns ShutdownCompletes
CHECK_DEADLOCK FALSE
