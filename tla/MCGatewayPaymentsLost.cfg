SPECIFICATION FairSpec
CONSTANTS
    Proc = {p}
    MaxRunners = 1
    MaxTx = 1
    MaxFaults = 1
    MaxAttempts = 1
    Watched <- OnePaid
    Invoice <- OneInvoice
    Total <- SameTotal
PROPERTY ErrorIsRetried
CHECK_DEADLOCK FALSE
