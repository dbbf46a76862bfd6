SPECIFICATION Spec
CONSTANTS
    Proc = {"q1"}
    Payment = {"p1"}
    Invoice = {1, 2}
    Stamped = {2}
    MaxCredit = 1
    MaxBuried = 2
    MaxEdits = 2
    Amount <- MCOneAmount
    Total <- MCTotal
INVARIANT PaymentCoversAllocations
CHECK_DEADLOCK FALSE
