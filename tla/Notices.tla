------------------------------- MODULE Notices ------------------------------
(***************************************************************************)
(* How a page hears of what happened: notify of                            *)
(* services/notificationService.ts, the rooms of server/src/realtime.ts,   *)
(* addComment of services/communityService.ts, the hook useRealtime of     *)
(* client/src/lib/realtime.ts, and two that use it: NotificationBell, and  *)
(* CommentsSection, here of the template's creator.  One is watched.       *)
(*                                                                         *)
(* The socket is opened with the page and never again; beside it a timer   *)
(* asks every 20 seconds, where a token was stored when the view appeared. *)
(* Nothing joins the room of a template.                                   *)
(***************************************************************************)
EXTENDS Naturals, FiniteSets

CONSTANTS
    Comments,   \* comments that are made (a bound)
    Loads,      \* requests of the view in flight at once (a bound)
    MaxFaults   \* bound on the requests that fail and the times the site is loaded

VARIABLES
    view,       \* the view that is watched
    stored,     \* the comments, and the notifications of them: none, new or read
    work,       \* how far each addComment has come
    timer,      \* the view's interval of 20 seconds is set
    socket,     \* the rooms its socket is in; none when it is closed
    inbox,      \* messages on their way to it
    shown,      \* what it shows
    load,       \* its requests in flight
    marking,    \* notifications whose reading is on its way to the server
    faults      \* failures, and loads of the site, so far

server     == <<stored, work>>
answers    == <<shown, load, marking>>
noticeVars == <<view, server, timer, socket, inbox, answers, faults>>

Views == {"bell", "board"}
None  == [i \in Comments |-> "none"]

\* The user's own room, and a common one; the template's is never asked for.
Joined == {"user", "community"}

Idle  == [pc |-> "idle", items |-> None, first |-> FALSE]
First == [Idle EXCEPT !.pc = "sent", !.first = TRUE]

Init ==
    /\ view \in Views
    /\ stored = [v \in Views |-> None]
    /\ work = [i \in Comments |-> "none"]
    /\ timer = FALSE
    /\ socket = {}
    /\ inbox = {}
    /\ shown = None
    /\ load = [l \in Loads |-> Idle]
    /\ marking = {}
    /\ faults = 0

Fault == faults < MaxFaults /\ faults' = faults + 1

-----------------------------------------------------------------------------
(* The server *)

Goto(i, pc) == work' = [work EXCEPT ![i] = pc]

Insert(v, i) == stored' = [stored EXCEPT ![v][i] = "new"]

publish(room, type) ==
    inbox' = IF room \in socket THEN inbox \cup {type} ELSE inbox

addComment(i) ==
    /\ work[i] = "none"
    /\ Insert("board", i) /\ Goto(i, "notify")
    /\ UNCHANGED <<view, timer, socket, inbox, answers, faults>>

notify(i) ==
    /\ work[i] = "notify"
    /\ Insert("bell", i) /\ Goto(i, "user")
    /\ UNCHANGED <<view, timer, socket, inbox, answers, faults>>

publishToUser(i) ==
    /\ work[i] = "user"
    /\ publish("user", "notification") /\ Goto(i, "room")
    /\ UNCHANGED <<view, stored, timer, socket, answers, faults>>

PublishComment(i) ==
    /\ work[i] = "room"
    /\ publish("template", "comment") /\ Goto(i, "done")
    /\ UNCHANGED <<view, stored, timer, socket, answers, faults>>

\* The request fails between two of its steps.
Fail(i) ==
    /\ work[i] \notin {"none", "done"}
    /\ Goto(i, "done")
    /\ UNCHANGED <<view, stored, timer, socket, inbox, answers, faults>>

-----------------------------------------------------------------------------
(* useRealtime *)

\* The site is loaded anew: by a visitor who is signed in, who gets a timer and a first
\* load, or by one who is not, for whom the effect returns before it does anything.
Mount(signed) ==
    /\ Fault
    /\ timer' = signed
    /\ shown' = None
    /\ socket' = {} /\ inbox' = {} /\ marking' = {}
    /\ \E l \in Loads :
           load' = [[m \in Loads |-> Idle] EXCEPT ![l] = IF signed THEN First ELSE Idle]
    /\ UNCHANGED <<view, server>>

\* A visitor logs in.  The bell is there since the site was loaded, and its effect has
\* run: it loads once.  Comments are shown on a later page.
SignIn ==
    /\ ~timer /\ \A l \in Loads : load[l] = Idle
    /\ Fault
    /\ timer' = (view # "bell")
    /\ \E l \in Loads : load' = [load EXCEPT ![l] = First]
    /\ UNCHANGED <<view, server, socket, inbox, shown, marking>>

\* The socket is accepted and in its rooms, with a hello on the way.
Connect ==
    /\ timer /\ socket = {} /\ \E l \in Loads : load[l].first
    /\ socket' = Joined
    /\ inbox' = {"hello"}
    /\ UNCHANGED <<view, server, timer, answers, faults>>

\* A network change or a restart of the server; it is not opened again.
Close ==
    /\ socket # {}
    /\ socket' = {} /\ inbox' = {}
    /\ UNCHANGED <<view, server, timer, answers, faults>>

\* Mutant: the bell waits for its own messages.
Heeds_Messages ==
    IF view = "bell" THEN {"notification", "hello"} ELSE {"comment", "poll"}

\* What the view asks again for.
Heeds ==
    IF view = "bell" THEN {"notification", "poll", "hello"} ELSE {"comment", "poll"}

\* A further load, in a free slot.
Ask ==
    \E l \in Loads :
        /\ load[l] = Idle
        /\ load' = [load EXCEPT ![l].pc = "sent"]

\* A message that finds no free slot is passed over (a bound).
onmessage(type) ==
    /\ type \in inbox
    /\ inbox' = inbox \ {type}
    /\ \/ type \in Heeds /\ Ask
       \/ /\ type \notin Heeds \/ \A l \in Loads : load[l] # Idle
          /\ UNCHANGED load
    /\ UNCHANGED <<view, server, timer, socket, shown, marking, faults>>

Poll ==
    /\ timer /\ "poll" \in Heeds
    /\ Ask
    /\ UNCHANGED <<view, server, timer, socket, inbox, shown, marking, faults>>

-----------------------------------------------------------------------------
(* The requests of the view *)

\* listNotifications, or listComments.
List(l) ==
    /\ load[l].pc = "sent"
    /\ load' = [load EXCEPT ![l].pc = "answered", ![l].items = stored[view]]
    /\ UNCHANGED <<view, server, timer, socket, inbox, shown, marking, faults>>

\* Whatever has been shown or read since.
setItems(l) ==
    /\ load[l].pc = "answered"
    /\ shown' = load[l].items
    /\ load' = [load EXCEPT ![l] = Idle]
    /\ UNCHANGED <<view, server, timer, socket, inbox, marking, faults>>

\* A first load that fails shows nothing, another leaves what there is.
Lost(l) ==
    /\ load[l] # Idle
    /\ Fault
    /\ shown' = IF load[l].first THEN None ELSE shown
    /\ load' = [load EXCEPT ![l] = Idle]
    /\ UNCHANGED <<view, server, timer, socket, inbox, marking>>

\* A notification is clicked: read in the bell at once, whether the server hears or not.
Click(i) ==
    /\ view = "bell" /\ shown[i] = "new"
    /\ shown' = [shown EXCEPT ![i] = "read"]
    /\ marking' = marking \cup {i}
    /\ UNCHANGED <<view, server, timer, socket, inbox, load, faults>>

markNotificationRead(i) ==
    /\ i \in marking
    /\ marking' = marking \ {i}
    /\ stored' \in {stored, [stored EXCEPT !["bell"][i] = "read"]}
    /\ UNCHANGED <<view, work, timer, socket, inbox, shown, load, faults>>

Next ==
    \/ SignIn \/ Connect \/ Close \/ Poll
    \/ \E signed \in BOOLEAN : Mount(signed)
    \/ \E i \in Comments :
           \/ addComment(i) \/ notify(i) \/ publishToUser(i) \/ PublishComment(i)
           \/ Fail(i) \/ Click(i) \/ markNotificationRead(i)
    \/ \E type \in {"hello", "notification", "comment"} : onmessage(type)
    \/ \E l \in Loads : List(l) \/ setItems(l) \/ Lost(l)

Spec == Init /\ [][Next]_noticeVars

\* The timer runs on, and a request is answered, and its answer shown, unless it fails.
Fairness ==
    /\ WF_noticeVars(Poll)
    /\ \A l \in Loads : WF_noticeVars(List(l)) /\ WF_noticeVars(setItems(l))

-----------------------------------------------------------------------------
(* What the code promises *)

\* A view whose timer runs comes to show what is stored, again and again, though the
\* socket is gone, no message ever comes for a comment, the reading of a notification is
\* lost, and answers overtake each other.  (The bell of a visitor who logged in has no
\* timer until the site is loaded anew.)
PagesCatchUp == []<>(~timer \/ shown = stored[view])
=============================================================================
