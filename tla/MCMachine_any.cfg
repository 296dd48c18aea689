\* Words of four bits, all programs of three instructions from MCMachine's list beside a fixed one.
CONSTANTS
    t1 = t1
    t2 = t2
    W = 4
    R31 = 3
    Threads = {t1, t2}
    Main = t1
    Programs <- MCPrograms
    ResultReg = 1
    Results = {0, 7}
    InitialMemory <- MCMemory
    UserTick = 1
    SystemTick = 2
    TimerDelays = {1, 3}
    DeviceDelay = 3
    HostTurns = 9
SPECIFICATION Spec
INVARIANTS
    ArithmeticExact
    SimulatorsAgree
PROPERTIES
    ImplementsPrograms
    DeviceAnswers
CHECK_DEADLOCK FALSE
