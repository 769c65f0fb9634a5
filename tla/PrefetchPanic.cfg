CONSTANTS
    Workers = {w1, w2}
    num_batches = 5
    prefetch_arg = 3
    Failing = {}
    Panicking = {1, 3}
SPECIFICATION FairSpec
INVARIANTS
    NothingLost
    DeliveredInOrder
PROPERTY WindsDown
CHECK_DEADLOCK FALSE
