CONSTANTS
    Parts = {"epoch"}
    Datasets <- OneDataset
    Windows <- SmallWindows
    Ticks = 4
    Tolerance = 1
    rows = 7
    batch_size = 2
    Setups <- BothLoaders
    Runs <- FourEpisodes
    chunk_size = 2
    shuffle_buffer = 3
    WeightUnit = 3
    MaxDraws = 3
    Episodes <- ThreeEpisodes
    FeatureData <- StateAndReward
    Stats <- StateStats
    NoStats = nostats
    PictureSize <- Sizes
    Jobs <- FourJobs
    Arguments <- Requests
    Installed = {"torch", "jax"}
    Logs <- Recordings
    TopicOrder <- TopicNames
    MaxAttempts = 2
    Plans <- Dealt
    Downloads = {d1, d2}
    Lists <- Overlapping
    InBucket = {"f1", "f2", "meta"}
    MetaFiles = {"meta"}
    MaxCrashes = 1
    Tags = {"v2", "v3"}
    MaxAppends = 3
SPECIFICATION MCSpec
INVARIANT TrainedExactlyOnce
