SPECIFICATION FairSpec
CONSTANTS
    t1 = t1
    t2 = t2
    t3 = t3
    p1 = p1
    p2 = p2
    Idle = Idle
    Null = Null
    Thread <- ThreeThreads
    Proc <- TwoProcs
    Privilege <- MixedPrivilege
    BootQueue <- MixedBoot
    BootProc <- BootProcs
    Irq = {0, 1}
    SleepTimes = {2, 3}
    Frequency = 2
    MSEC = 4
    WORD = 8
INVARIANTS
    TypeOK
    RunQueuesSound
    NoThreadLost
    WaitersSound
    SleepersSorted
PROPERTIES
    NoOverdueSleeper
    SwitchToHighest
    EveryThreadRuns
    ReachableSleeperWakes
