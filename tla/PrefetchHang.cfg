CONSTANTS
    Workers = {w1, w2}
    num_batches = 4
    prefetch_arg = 0
    Failing = {}
    Panicking = {1}
SPECIFICATION FairSpec
PROPERTY NextReturns
CHECK_DEADLOCK FALSE
