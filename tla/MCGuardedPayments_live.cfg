SPECIFICATION FairServing
CONSTANTS
    u1 = u1  i1 = i1 
    Users = {u1}
    Items = {i1}
    PaymentIds = {p1}
    Requests = {r1, r2}
    NoKey = NoKey  NoOrder = NoOrder  NoPayment = NoPayment
    Orders <- LiveOrders
    Sandbox = FALSE
    Configured = {"ORANGE", "BANFFPAY"}
    OrangeViaBanffpay = FALSE
    Opening <- Broke
    MaxLedger = 1
    Threshold = 2
    MaxOutage = 3


PROPERTIES SettledIsDelivered ApprovedIsSettled
