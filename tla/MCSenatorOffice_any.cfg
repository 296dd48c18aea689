\* One customer with 600 and two senators, four or five clerks, one mess-up.
CONSTANTS
    c1 = c1
    s1 = s1
    s2 = s2
    nobody = nobody
    Customers = {c1}
    Senators = {s1, s2}
    Offices <- MCOffices
    randomYield = FALSE
    customer0 = c1
    Purse = 600
    Nobody = nobody
    MaxMessUps = 1
SPECIFICATION Spec
SYMMETRY MCSymmetry
INVARIANTS
    NobodyPassedOver
    SenatorAlone
    StopsDone
\* Clerks wait for ever when everybody has gone.
CHECK_DEADLOCK FALSE
