SPECIFICATION AllSpec
CONSTANTS
    q1 = q1  q2 = q2  p1 = p1  p2 = p2
    Requests = {q1, q2}
    People = {p1, p2}
    Nobody = Nobody
    AccessLife = 0
    MaxSeconds = 1
    MaxRows = 2
    MaxLinks = 1
    MaxPasswords = 1
    MaxSessions = 2
    MaxSaves = 2
    MaxEdits = 1
    Names = {"Finance"}
    Packs = {"starter"}
    Days = 3
    MaxTold = 2
SYMMETRY Interchangeable
CHECK_DEADLOCK FALSE
INVARIANTS  UsesBounded BrowserKeepsSession CatalogIsWhole StreaksAreDays MailIsWanted
