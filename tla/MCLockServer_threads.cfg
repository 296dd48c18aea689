SPECIFICATION Spec
CONSTANTS
    c1 = c1
    c2 = c2
    c3 = c3
    m1 = m1
    Threads = {c1, c2}
    Machines = {m1}
    machineOf <- MCOneMachine
    NoMachine = NoMachine
    LockNames = {"lock1"}
    CondNames = {"cond1"}
    NoName = "none"
    MAX_LOCK_COUNT = 2
    MAX_COND_COUNT = 2
    Ops <- MonitorOps
    Careful = TRUE
    lockFor <- MCLockFor
    MaxStale = 0
    MaxWaiters = 3
INVARIANT
    MutualExclusion
CHECK_DEADLOCK FALSE
