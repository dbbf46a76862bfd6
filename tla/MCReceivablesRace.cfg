SPECIFICATION Spec
CONSTANTS
    Proc = {"q1", "q2"}
    Payment = {"p1", "p2"}
    Invoice = {1, 2}
    Stamped = {2}
    MaxCredit = 1
    MaxBuried = 2
    MaxEdits = 0
    Amount <- MCAmount
    Total <- MCTotal
INVARIANT NoOverAllocation
CHECK_DEADLOCK FALSE
