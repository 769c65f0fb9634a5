CONSTANTS
    MaxFailures = 1
    Pts <- ShownAt
    Sync = {0, 3}
    Refers <- References
    NativeBatches <- Requests
    Times <- FrameTimes
    Keyframes = {0, 3}
    Asked = {0, 1, 6, 9, 12}
    FfmpegBatches <- Queries
    Cameras = {top}
    capacity_frames = 1
    Videos <- OneFile
    Codec <- Codecs
    Timestamps = {0, 3}
    MaxBatch = 2
    Builds = {TRUE, FALSE}
    Parts = {"native"}
SPECIFICATION Spec
INVARIANT PictureOfTargetAlways
