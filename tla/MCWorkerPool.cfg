\* Two submitters, three workers, a queue of two.
CONSTANTS
    s1 = s1
    s2 = s2
    w1 = w1
    w2 = w2
    w3 = w3
    t1 = t1
    t2 = t2
    NoTask = NoTask
    Submitters <- TwoSubmitters
    Threads <- ThreeWorkers
    Tasks <- TwoTasks
    QueueCapacity = 2
SPECIFICATION FairPool
CHECK_DEADLOCK FALSE
INVARIANTS PoolSound
PROPERTIES PromiseSpec ShutdownReturns
