SPECIFICATION AllSpec
CONSTANTS
    r1 = r1  r2 = r2  u1 = u1
    Requests = {r1, r2}
    Users = {u1}
    CacheLife = 1
    MaxRating = 1
    MaxChanges = 3
    Comments = {i1}
    MaxFaults = 3
INVARIANTS ListingsFollowChanges RatingsAreExact
PROPERTIES ListingsConverge PagesCatchUp
CHECK_DEADLOCK FALSE
