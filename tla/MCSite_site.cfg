SPECIFICATION AllSpec
CONSTANTS
    r1 = r1  r2 = r2  u1 = u1  u2 = u2
    i1 = i1  i2 = i2  k1 = k1
    Requests = {r1, r2}
    Fans = {u1, u2}
    Points <- OneEach
    HelperVotes = 2
    TopTemplates = 2
    MaxPoints = 2
    MaxTemplates = 2
    Items = {i1, i2}
    PaymentIds = {p1}
    NoKey = NoKey  NoOrder = NoOrder  NoPayment = NoPayment
    Builds = {1, 2}
    Models <- OneModel
    Starter = TRUE
    Baskets = {b1, b2}
    MaxBills = 2
    Storage = "local"
    Workbooks = {1}
    MaxUploads = 2
    letter = letter  words = words
    Filters = {1, 2}
    Blank = Blank
SYMMETRY Interchangeable
CHECK_DEADLOCK FALSE
INVARIANTS StandingIsEarned LikeCountSettles    ShownIsWanted 
