SPECIFICATION Spec
CONSTANTS
    Proc = {p, q}
    MaxRunners = 1
    MaxTx = 2
    MaxFaults = 1
    MaxAttempts = 1
    Watched <- RefundThenFail
    Invoice <- OneInvoice
    Total <- SameTotal
SYMMETRY Symmetry
INVARIANTS TypeOK CreditedOnce PaidIffSettled ChargeBudget
CHECK_DEADLOCK FALSE
