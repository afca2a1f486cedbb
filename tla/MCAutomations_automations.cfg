SPECIFICATION Spec
CONSTANTS
    MaxJobs = 3
    Concurrency = 1
    Redis = TRUE
    Attempts = 2
    LastAttempt = 2
    MaxStalled = 1
    MaxCrashes = 1
CHECK_DEADLOCK FALSE
INVARIANTS TriggersCompleteOnce RunsAreSettled
PROPERTY JobsEnd
