SPECIFICATION FairSpec
CONSTANTS
    t1 = t1
    t2 = t2
    t3 = t3
    lock1 = lock1
    cond1 = cond1
    Threads = {t1, t2, t3}
    Main = t1
    NoThread = NoThread
    Locks = {lock1}
    NoLock = NoLock
    Conds = {cond1}
    Sems = {}
    initialValue <- MCInitialValue
    MaxValue = 1
    CarefulLocks = {lock1}
    lockFor <- MCLockFor
PROPERTIES
    AskersEnter
    BroadcastWakesAll
CHECK_DEADLOCK FALSE
