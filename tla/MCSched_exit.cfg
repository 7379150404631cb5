SPECIFICATION Spec
CONSTANTS
    t1 = t1
    t2 = t2
    t3 = t3
    p1 = p1
    p2 = p2
    Idle = Idle
    Null = Null
    Thread <- ThreeThreads
    Proc <- TwoProcs
    Privilege <- DriverPrivilege
    BootQueue <- DriverBoot
    BootProc <- BootProcs
    Irq = {0, 1}
    SleepTimes = {0, 1, 3}
    Frequency = 2
    MSEC = 3
    WORD = 8
INVARIANT
    NoDanglingThread
