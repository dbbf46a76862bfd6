SPECIFICATION FairSpec
CONSTANTS
    Task = {"a1", "a2", "b"}
    Name <- MCName
    Slot = {1, 2}
    Worker = {1, 2}
    MaxPending = 3
    Ttl = 2
INVARIANTS TypeOK OneRunAtATime QueuedOnce
PROPERTIES LockFrees QueueMoves
CHECK_DEADLOCK FALSE
