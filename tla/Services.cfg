SPECIFICATION Spec
CONSTANTS
    Datasets = {1}
    Artifacts = {3}
    Uploads = {5, 6}
    Remote = {3}
    Runs = {1}
    RunOf <- RunOne
    Passes = {p1, p2}
    BatchSize = 1
    MaxPassFaults = 1
    Schedulers = {s1, s2}
    Nobody = nobody
    Triggers = {1, 2, 3}
    Pipelines = {1, 2}
    PipelineOf <- TwoAndOne
    Limit = 2
    MaxTime = 3
    MaxToggles = 3
    MaxClaimFaults = 2
CHECK_DEADLOCK FALSE
INVARIANTS RetentionInvariant ScheduleInvariant
PROPERTIES ExpiredIsCollected DueIsClaimed
