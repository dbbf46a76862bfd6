SPECIFICATION Spec
CONSTANTS
    Proc = {"q1"}
    Payment = {"p1", "p2"}
    Invoice = {1, 2}
    Stamped = {2}
    MaxCredit = 1
    MaxBuried = 2
    MaxEdits = 1
    Amount <- MCAmount
    Total <- MCTotal
CONSTRAINT CrashOrEdit
INVARIANTS TypeOK NoOverAllocation PaidIffCovered LiveIsCredited
CHECK_DEADLOCK FALSE
