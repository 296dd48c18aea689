SPECIFICATION Spec
CONSTANTS
    c1 = c1
    c2 = c2
    c3 = c3
    m1 = m1
    Threads = {c1, c2}
    Machines = {c1, c2}
    machineOf <- MCMachineOf
    NoMachine = NoMachine
    LockNames = {"lock1"}
    CondNames = {"cond1"}
    NoName = "none"
    MAX_LOCK_COUNT = 1
    MAX_COND_COUNT = 1
    Ops <- AllOps
    Careful = FALSE
    lockFor <- MCLockFor
    MaxStale = 0
    MaxWaiters = 1
SYMMETRY MCSymmetry
INVARIANTS
    OwnershipConsistent
PROPERTIES
    HandOffInOrder
CHECK_DEADLOCK FALSE
