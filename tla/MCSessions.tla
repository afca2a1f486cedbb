----------------------------- MODULE MCSessions -----------------------------
(***************************************************************************)
(* Instances of Sessions, WebSession, Settings, Streaks and Outreach for   *)
(* TLC: who is signed in, what they set, and what brings them back.  A     *)
(* behaviour is one of these: part says which, and the variables of the    *)
(* others stay as they start.                                              *)
(***************************************************************************)
EXTENDS Sessions, TLC

CONSTANTS q1, q2, p1, p2, People, Nobody, MaxSessions, MaxSaves, MaxEdits,
    Names, Packs, Days, MaxTold

\* No package has the name of what stands for no catalog.
ASSUME PacksAssumption == Packs \cap {"none", "no row", "text"} = {}

\* There is a first day.
ASSUME DaysAssumption == Days \in Nat \ {0}

VARIABLES part, token, cookie, user, booted, sessions, outbox, call, leftover, broken,
    setting, version, saved, page, asked,
    today, login, learning, beats, visits, lessons, overlaid,
    optIn, reminded, told, runs, twice, firm, spurned

browser == <<token, cookie, user, booted, sessions, outbox, call, leftover, broken>>
settings == <<setting, version, saved, page, asked>>
streakVars == <<today, login, learning, beats, visits, lessons, overlaid>>
reachVars == <<optIn, reminded, told, runs, twice, firm, spurned>>
allVars == <<vars, browser, settings, streakVars, reachVars, part>>

Web == INSTANCE WebSession WITH Calls <- Requests
Set == INSTANCE Settings WITH Editors <- People,
           Calls <- Requests, call <- asked
Streak == INSTANCE Streaks WITH Slots <- Requests
Reach == INSTANCE Outreach WITH Users <- People, Runs <- Requests

AllInit ==
    /\ part \in {"server", "browser", "settings", "streaks", "reach"}
    /\ Init /\ Web!Init /\ Set!Init /\ Streak!Init /\ Reach!Init

AllNext ==
    /\ part' = part
    /\ \/ part = "server" /\ Next /\ UNCHANGED <<browser, settings, streakVars, reachVars>>
       \/ part = "browser" /\ Web!Next /\ UNCHANGED <<vars, settings, streakVars, reachVars>>
       \/ part = "settings" /\ Set!Next /\ UNCHANGED <<vars, browser, streakVars, reachVars>>
       \/ part = "streaks" /\ Streak!Next /\ UNCHANGED <<vars, browser, settings, reachVars>>
       \/ part = "reach" /\ Reach!Next /\ UNCHANGED <<vars, browser, settings, streakVars>>

AllSpec == AllInit /\ [][AllNext]_allVars

Interchangeable == Permutations(Requests)

\* WebSession!SessionKept: calls refused together do not sign the user out.
SessionKept == Web!SessionKept

\* WebSession!TokenFollowsUser: the stored token is that of the user shown.
TokenFollowsUser == Web!TokenFollowsUser

\* Both: the browser keeps its session, and its token is of the user it shows.
BrowserKeepsSession == SessionKept /\ TokenFollowsUser

\* Settings!CatalogIsWhole: the catalog served is one that one page saved, or the default.
CatalogIsWhole == Set!CatalogIsWhole

\* Streaks!StreaksAreDays: a streak shown counts days in a row, and all of them.
StreaksAreDays == Streak!StreaksAreDays

\* Outreach!MailIsWanted: one reminder of a course, and no digest that was declined.
MailIsWanted == Reach!MailIsWanted
=============================================================================
