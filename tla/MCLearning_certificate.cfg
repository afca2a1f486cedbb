SPECIFICATION AllSpec
CONSTANTS
    NoOne = NoOne  Nothing = Nothing  None = None
    r1 = r1  r2 = r2
    Learners = {u1}
    Lessons = {l1, l2}
    Opening = {l1}
    Requests = {r1, r2}
    Editing = TRUE
    Creators = {"owner", "other"}
    Prices = {0, 1000}
    Promos = {50}
    Stars = {1, 5}
    Lists = {None, Nothing}
INVARIANTS CertificateWasEarned SeatsWereOffered EditsSettle NotesKeepTheirLesson OutlineIsStored
 
CHECK_DEADLOCK FALSE
