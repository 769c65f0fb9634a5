CONSTANTS
    Workers = {w1, w2}
    num_batches = 6
    prefetch_arg = 0
    Failing = {1}
    Panicking = {}
SPECIFICATION FairSpec
INVARIANTS
    TypeOK
    PermitsConserved
    Backpressure
PROPERTY
    ImplementsLiveDelivery
