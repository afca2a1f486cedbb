SPECIFICATION FairSpec
CONSTANTS
    g1 = g1  g2 = g2  g3 = g3
    h1 = h1  h2 = h2
    Generations = {g1, g2, g3}
    Handlers = {h1, h2}
    Earlier = {g3}
    Limit = 1
    Redis = TRUE
    Concurrency = 1
    Attempts = 2
    MaxStalled = 1
    MaxCrashes = 1
    DbFails = TRUE
CHECK_DEADLOCK FALSE
INVARIANTS OvershootBounded
PROPERTY QueuedEnds
