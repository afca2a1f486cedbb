SPECIFICATION FairSpec
CONSTANTS
    k1 = k1  k2 = k2
    f1 = f1  f2 = f2
    Keys = {k1, k2}
    Flushes = {f1}
    MaxWrites = 2
    Direct = TRUE
INVARIANTS NoKeyLost
 
