CONSTANTS
    Services = {"metrics", "stream", "breaker", "cloud", "sizer", "ensemble",
                "coordinator", "feedback", "decisions", "anomaly", "quality",
                "model", "predictive", "load"}
    Threads = {t1, t2}
    Names = {load, decode}
    Menus <- AllOrReset
    MaxRecords = 2
    max_size = 5
    batch_size = 2
    Topic <- Seven
    failure_threshold = 2
    success_threshold = 2
    MaxLog = 7
    Files = {f1, f2, f3}
    parallel_downloads = 2
    PartsTotal = {1, 2}
    MaxParts = 3
    min_batch_size = 6
    max_batch_size = 24
    Models = {"m1", "m2"}
    Types = {"latency"}
    Predictions <- ModelVotes
    Outcomes <- ModelOutcomes
    Floor = 100
    MaxPredictions = 3
    MaxOutcomes = 1
    Nodes = {"n1", "n2"}
    Regions = {"eu", "us"}
    Profiles <- NodeProfiles
    Ballots <- NodeVotes
    quorum_size = 2
    MaxConsensus = 1
    MetricNames = {"fps"}
    Values = {100, 103}
    ModelIds = {"m1"}
    Feedbacks <- FedBack
    Thresholds = {2}
    Ages = {1}
    max_history = 3
    Recent = 2
    MaxCalls = 5
    MaxClock = 2
    BatchInputs <- SizeChanges
    CacheInputs <- HitRates
    PrefetchInputs <- Localities
    QualityInputs <- Ratios
    MaxDecisions = 3
    FrameIds = {1}
    Contents <- FrameContents
    Gaps <- FrameGaps
    Listings <- Numbers
    Jitter = 5
    MaxFrames = 4
    Datasets = {"robot"}
    Measures <- DatasetMeasures
    MaxAssessments = 6
    Samples <- TwoSamples
    max_training_samples = 4
    RetrainEvery = 2
    LeastSamples = 2
    MaxSamples = 9
    Frames = {"f1", "f2", "f3"}
    window_size = 4
    HistoryWindows = 1
    MaxAccesses = 7
    Callers = {c1, c2}
    max_retries = 2
    initial_backoff_ms = 100
    max_backoff_ms = 150
    jitter_percent = 10
    fault_threshold = 2
    max_concurrent = 2
SPECIFICATION FairSpec
INVARIANTS
    ReportsConsistent
    StreamInOrder
    FaultsContained
    ActiveCounted
    SizeWithinBounds
    ConsensusSound
    LearnsFromNewest
    UrgentFirst
    AlarmsJustified
PROPERTIES
    CallsReturnWithoutAll
CHECK_DEADLOCK FALSE
