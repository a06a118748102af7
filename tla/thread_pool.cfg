\* Three workers, three tasks in batches of up to two.
SPECIFICATION FairSpec
CONSTANTS
    w1 = w1
    w2 = w2
    w3 = w3
    t1 = t1
    t2 = t2
    t3 = t3
    NoTask = NoTask
    Workers <- ThreeWorkers
    Tasks <- ThreeTasks
    MaxBatch = 2
INVARIANTS TypeOK Fifo RunOnce NoLostWakeup JoinDrains
PROPERTIES ImplementsWorkQueue EveryTaskRuns StopTerminates EveryTaskStarts
\* The destructor has returned and every thread has ended.
CHECK_DEADLOCK FALSE
