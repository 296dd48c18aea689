\* Two customers with 600 each, one clerk of each kind, one mess-up.
CONSTANTS
    c1 = c1
    c2 = c2
    nobody = nobody
    Clerks <- MCClerks
    clerkTypes <- MCTypes
    Customers = {c1, c2}
    Purses = {600}
    Nobody = nobody
    MaxMessUps = 1
SPECIFICATION Spec
SYMMETRY MCSymmetry
VIEW MCView
INVARIANTS
    SleepsOnBreak
    LineCountsRight
    StopsWithOneAtMost
\* The last customer waits for ever, and so does whoever a lost rendezvous leaves.
CHECK_DEADLOCK FALSE
