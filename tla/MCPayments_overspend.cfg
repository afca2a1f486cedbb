SPECIFICATION AllSpec
CONSTANTS
    u1 = u1  i1 = i1  i2 = i2  k1 = k1
    Users = {u1}
    Items = {i1}
    PaymentIds = {p1, p2}
    Requests = {r1, r2}
    NoKey = NoKey  NoOrder = NoOrder  NoPayment = NoPayment
    Orders <- WalletOrders
    Sandbox = FALSE
    Configured = {"BANFFPAY"}
    OrangeViaBanffpay = TRUE
    Opening <- Saved
    MaxLedger = 3
    Parts = 2
    Start = 58
    MaxTime = 7
    MaxEdits = 2
    Flows = {1, 2}
    MaxSteps = 1
    People = {u1, u2}
    Founder = u1
    MaxChanges = 2
    Crons <- CronSet
    Roles = {"ADMIN", "USER"}
CHECK_DEADLOCK FALSE
SYMMETRY Interchangeable
INVARIANT SpentWithinFunds
