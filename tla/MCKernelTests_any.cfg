SPECIFICATION TestsSpec
CONSTANTS
    t1 = t1
    t2 = t2
    t3 = t3
    t4 = t4
    Threads = {t1, t2, t3, t4}
    Main = t1
    NoThread = NoThread
    Locks = {"l1", "l2"}
    NoLock = NoLock
    Conds = {"c1", "c2"}
    Sems = {"s1", "s2", "s3", "done"}
    initialValue <- MCInitialValue
    MaxValue = 4
    CarefulLocks = {"l2"}
    lockFor <- MCLockFor
    Crew <- MCCrew
    Tests = {"1", "2", "3", "4", "5", "yield", "list", "echo", "lines", "files", "any use"}
    AnyValue = 2
    Typed <- MCTyped
    Newline = "nl"
    Quit = "q"
    NoChar = NoChar
    TableSize = 4
    NoFile = NoFile
    Unwritten = Unwritten
INVARIANTS
    EachThreadInOnePlace
    LocksConsistent
    NoLostV
    EndsAsAnnounced
    DataInOrder
    DescriptorsRight
PROPERTY
    ImplementsMonitor
CHECK_DEADLOCK FALSE
