CONSTANTS
    w1 = w1  w2 = w2  s1 = s1  s2 = s2  a1 = a1  c1 = c1
    t1 = t1  t2 = t2  t3 = t3
    Workers <- TwoWorkers
    Submitters <- TwoSubmitters
    Waiters <- OneWaiter
    Closers <- OneCloser
    Task <- ThreeTasks
    Spurious <- Everybody
    Limits <- LimitsUpTo2
    MaxTaskNum = 2
    NoThread = NoThread
    NoTask = NoTask
SPECIFICATION FairSpec
CHECK_DEADLOCK FALSE
INVARIANTS TypeOK PopsATask QueueBounded
PROPERTIES SerialInOrder WaitMeansDone EveryTaskRuns WaitReturns CloseReturns
