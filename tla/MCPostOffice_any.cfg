SPECIFICATION FairSpec
CONSTANTS
    a1 = a1
    a2 = a2
    b1 = b1
    m1 = m1
    m2 = m2
    Threads = {a1, a2, b1}
    Machines = {m1, m2}
    machineOf <- MCMachineOf
    Boxes = {0}
    NoThread = NoThread
    NoPacket = NoPacket
    Reliable = {m1}
    MayHalt = {m2}
    MaxLetters = 1
INVARIANTS
    DeviceInStep
PROPERTIES
    ImplementsMail
    PostingEnds
CHECK_DEADLOCK FALSE
