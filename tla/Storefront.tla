----------------------------- MODULE Storefront -----------------------------
(***************************************************************************)
(* The pages on which a visitor looks for templates and courses, and takes *)
(* one: pages/TemplatesPage.tsx and components/CourseCatalog.tsx, lists    *)
(* that are searched; pages/TemplateDetailPage.tsx and                     *)
(* CourseDetailPage.tsx, one item under an address.                        *)
(*                                                                         *)
(* Whatever the page's state says is wanted, an effect asks for when it    *)
(* changes, and nothing withdraws what was asked before: the answers come  *)
(* in any order and each one is shown.  The words in the search box, the   *)
(* filters and the page number are one query; the recommendations are      *)
(* asked for by the words alone, once there are two letters.               *)
(***************************************************************************)
EXTENDS Integers

CONSTANTS
    Slots,      \* requests in flight at once for one thing (a bound)
    Words,      \* what the search box may hold
    LongWords,  \* ... with two letters or more
    Filters,    \* the other filters together; the level of a course
    Pages,      \* the pages of matches of some words
    Wares,      \* templates or courses, by their addresses
    Gratis,     \* courses that cost nothing
    Blank       \* nothing

VARIABLES
    face,       \* the page that is looked at
    word, filter, page, at,   \* the query of a list, the address of an item
    have,       \* what the list, the recommendations and the item shown answer
    pages,      \* Math.ceil(total / pageSize) of the list shown
    seat,       \* enrollment, as shown
    fetches,    \* requests in flight
    enrolled, tills,   \* courses the visitor has a seat in, or pays for at the till
    picked,     \* templates bought, put in the cart, downloaded or asked about
    beheld,     \* history: the items shown, and the courses of earlier visits
    missed      \* history: what is shown comes of a late answer or a failure

query == <<word, filter, page>>
vars == <<face, word, filter, page, at, have, pages, seat, fetches, enrolled, tills, picked, beheld, missed>>

Things == {"list", "recs", "item"}
Kinds  == Things \cup {"enroll"}
Lists == {"templates", "courses"}

Still == [pc |-> "idle", of |-> Blank, old |-> FALSE, seat |-> FALSE]

\* Whether words ask for recommendations: the courses have none.
Recommends(w) == face = "templates" /\ w \in LongWords

\* What the page should show.
Want == [list |-> IF face \in Lists THEN query ELSE Blank,
         recs |-> IF Recommends(word) THEN word ELSE Blank,
         item |-> at]

Busy(kind, c) == fetches[kind][c].pc # "idle"

\* The requests of a kind, when all of them are about something given up.
Outdated(kind) ==
    [c \in Slots |-> IF Busy(kind, c) THEN [fetches[kind][c] EXCEPT !.old = TRUE] ELSE Still]

\* ... and when a new one is sent.
Asked(kind, c, value) == [Outdated(kind) EXCEPT ![c] = [Still EXCEPT !.pc = "sent", !.of = value]]

Ended(kind, c) == [fetches EXCEPT ![kind][c] = Still]

\* What is asked for when a page opens: an item only by its address, in Visit.
First(kind, c) ==
    [d \in Slots |->
        IF d = c /\ kind \in {"list", "recs"} /\ Want[kind] # Blank
        THEN [Still EXCEPT !.pc = "sent", !.of = Want[kind]] ELSE Still]

Init ==
    /\ face \in Lists \cup {"template", "course"}
    /\ word \in Words /\ filter \in Filters
    /\ face = "courses" => word \notin LongWords
    /\ page = 1
    /\ at = Blank
    /\ have = [kind \in Things |-> Blank]
    /\ pages = 1
    /\ seat = FALSE
    /\ \E c \in Slots : fetches = [kind \in Kinds |-> First(kind, c)]
    /\ enrolled \in SUBSET (IF face = "course" THEN Wares ELSE {})
    /\ tills = {} /\ picked = {}
    /\ beheld = enrolled
    /\ missed = [kind \in Things |-> FALSE]

-----------------------------------------------------------------------------
(* Searching *)

\* The effect of a changed query.
AskList(c, q) ==
    /\ ~Busy("list", c)
    /\ fetches' = [fetches EXCEPT !["list"] = Asked("list", c, q)]

\* Each letter asks for a list, of the page that was open; fewer than two letters
\* clear the recommendations.
Type(w, c, d) ==
    /\ face \in Lists
    /\ w # word
    /\ word' = w
    /\ ~Busy("list", c)
    /\ IF Recommends(w)
         THEN /\ ~Busy("recs", d)
              /\ fetches' = [fetches EXCEPT !["list"] = Asked("list", c, <<w, filter, page>>),
                                            !["recs"] = Asked("recs", d, w)]
              /\ UNCHANGED <<have, missed>>
         ELSE /\ fetches' = [fetches EXCEPT !["list"] = Asked("list", c, <<w, filter, page>>),
                                            !["recs"] = Outdated("recs")]
              /\ have' = [have EXCEPT !["recs"] = Blank]
              /\ missed' = [missed EXCEPT !["recs"] = FALSE]
    /\ UNCHANGED <<face, filter, page, at, pages, seat, enrolled, tills, picked, beheld>>

\* Mutant: the effect does not depend on the filters.
Choose_NotAsked(f, c) ==
    /\ face \in Lists
    /\ f # filter
    /\ filter' = f /\ page' = 1
    /\ UNCHANGED <<face, word, at, have, pages, seat, fetches, enrolled, tills, picked, beheld, missed>>

\* TemplateFilter, or a level of the courses.
Choose(f, c) ==
    /\ face \in Lists
    /\ f # filter
    /\ filter' = f /\ page' = 1
    /\ AskList(c, <<word, f, 1>>)
    /\ UNCHANGED <<face, word, at, have, pages, seat, enrolled, tills, picked, beheld, missed>>

\* Previous and Next, as many as the list shown has; the courses are not paged.
Turn(n, c) ==
    /\ face = "templates"
    /\ \/ n = page - 1 /\ page > 1
       \/ n = page + 1 /\ page < pages
    /\ page' = n
    /\ AskList(c, <<word, filter, n>>)
    /\ UNCHANGED <<face, word, filter, at, have, pages, seat, enrolled, tills, picked, beheld, missed>>

\* onSearch: what was typed is asked for already, and only its first page is new.
Search(c) ==
    /\ face = "templates"
    /\ page # 1
    /\ page' = 1
    /\ AskList(c, <<word, filter, 1>>)
    /\ UNCHANGED <<face, word, filter, at, have, pages, seat, enrolled, tills, picked, beheld, missed>>

\* An answer of any age is shown.
Answer(kind, c) ==
    /\ kind \in {"list", "recs"}
    /\ Busy(kind, c)
    /\ have' = [have EXCEPT ![kind] = fetches[kind][c].of]
    /\ pages' = IF kind = "list" THEN Pages[fetches[kind][c].of[1]] ELSE pages
    /\ missed' = [missed EXCEPT ![kind] = fetches[kind][c].old]
    /\ fetches' = Ended(kind, c)
    /\ UNCHANGED <<face, word, filter, page, at, seat, enrolled, tills, picked, beheld>>

\* A failure empties the list.
NoAnswer(kind, c) ==
    /\ kind \in {"list", "recs"}
    /\ Busy(kind, c)
    /\ have' = [have EXCEPT ![kind] = Blank]
    /\ pages' = IF kind = "list" THEN 1 ELSE pages
    /\ missed' = [missed EXCEPT ![kind] = TRUE]
    /\ fetches' = Ended(kind, c)
    /\ UNCHANGED <<face, word, filter, page, at, seat, enrolled, tills, picked, beheld>>

-----------------------------------------------------------------------------
(* One template or course *)

\* The address leads here, from elsewhere or from another item: the item that is
\* shown stays until the answer.
Visit(i, c) ==
    /\ face \notin Lists
    /\ i # at
    /\ at' = i
    /\ ~Busy("item", c)
    /\ fetches' = [fetches EXCEPT !["item"] = Asked("item", c, i)]
    /\ UNCHANGED <<face, word, filter, page, have, pages, seat, enrolled, tills, picked, beheld, missed>>

\* The server reads the course and the seat.
Look(c) ==
    /\ fetches["item"][c].pc = "sent"
    /\ fetches' = [fetches EXCEPT !["item"][c].pc = "read",
                                  !["item"][c].seat = fetches["item"][c].of \in enrolled]
    /\ UNCHANGED <<face, word, filter, page, at, have, pages, seat, enrolled, tills, picked, beheld, missed>>

Show(c) ==
    /\ fetches["item"][c].pc = "read"
    /\ have' = [have EXCEPT !["item"] = fetches["item"][c].of]
    /\ seat' = fetches["item"][c].seat
    /\ beheld' = beheld \cup {fetches["item"][c].of}
    /\ missed' = [missed EXCEPT !["item"] = fetches["item"][c].old]
    /\ fetches' = Ended("item", c)
    /\ UNCHANGED <<face, word, filter, page, at, pages, enrolled, tills, picked>>

\* A failure leaves the item and says so.
NoShow(c) ==
    /\ Busy("item", c)
    /\ missed' = [missed EXCEPT !["item"] = missed["item"] \/ ~fetches["item"][c].old]
    /\ fetches' = Ended("item", c)
    /\ UNCHANGED <<face, word, filter, page, at, have, pages, seat, enrolled, tills, picked, beheld>>

\* The page is closed: its answers come to nothing, but for those of enroll.
Closed ==
    /\ at' = Blank
    /\ have' = [have EXCEPT !["item"] = Blank]
    /\ seat' = FALSE
    /\ missed' = [missed EXCEPT !["item"] = FALSE]

Leave ==
    /\ at # Blank
    /\ Closed
    /\ fetches' = [fetches EXCEPT !["item"] = [c \in Slots |-> Still]]
    /\ UNCHANGED <<face, word, filter, page, pages, enrolled, tills, picked, beheld>>

\* download, add and ask, for the template that is shown.  ask never loads the page
\* again: the form it resets first is gone from the event by then.
Pick ==
    /\ face = "template"
    /\ have["item"] # Blank
    /\ picked' = picked \cup {have["item"]}
    /\ UNCHANGED <<face, word, filter, page, at, have, pages, seat, fetches, enrolled, tills, beheld, missed>>

\* buy goes to the till with it.
Buy ==
    /\ face = "template"
    /\ have["item"] # Blank
    /\ picked' = picked \cup {have["item"]}
    /\ Closed
    /\ fetches' = [fetches EXCEPT !["item"] = [c \in Slots |-> Still]]
    /\ UNCHANGED <<face, word, filter, page, pages, enrolled, tills, beheld>>

\* The buttons under a course: lessons to open with a seat, enrollment without.
Opens == seat
MayEnroll == face = "course" /\ have["item"] # Blank /\ ~seat

\* Mutant: the address names the course.
Enroll_ByAddress(c) ==
    /\ MayEnroll
    /\ ~Busy("enroll", c)
    /\ fetches' = [fetches EXCEPT !["enroll"][c] = [Still EXCEPT !.pc = "sent", !.of = at]]
    /\ UNCHANGED <<face, word, filter, page, at, have, pages, seat, enrolled, tills, picked, beheld, missed>>

\* enroll, for the course that is shown.
Enroll(c) ==
    /\ MayEnroll
    /\ ~Busy("enroll", c)
    /\ fetches' = [fetches EXCEPT !["enroll"][c] = [Still EXCEPT !.pc = "sent", !.of = have["item"]]]
    /\ UNCHANGED <<face, word, filter, page, at, have, pages, seat, enrolled, tills, picked, beheld, missed>>

\* The server refuses a second seat, and sells those that cost something.
Admit(c) ==
    /\ fetches["enroll"][c].pc = "sent"
    /\ LET i == fetches["enroll"][c].of IN
       /\ enrolled' = IF i \in Gratis THEN enrolled \cup {i} ELSE enrolled
       /\ fetches' = [fetches EXCEPT !["enroll"][c].pc = IF i \in enrolled THEN "refused" ELSE "read"]
    /\ UNCHANGED <<face, word, filter, page, at, have, pages, seat, tills, picked, beheld, missed>>

\* The answer leads to the lessons or to the till, wherever the page is by now.
Depart(c) ==
    /\ fetches["enroll"][c].pc = "read"
    /\ LET i == fetches["enroll"][c].of IN tills' = IF i \in Gratis THEN tills ELSE tills \cup {i}
    /\ Closed
    /\ fetches' = [fetches EXCEPT !["item"] = [d \in Slots |-> Still], !["enroll"][c] = Still]
    /\ UNCHANGED <<face, word, filter, page, pages, enrolled, picked, beheld>>

\* Refused, or lost before or after the server read it.
NoSeat(c) ==
    /\ Busy("enroll", c)
    /\ fetches' = Ended("enroll", c)
    /\ UNCHANGED <<face, word, filter, page, at, have, pages, seat, enrolled, tills, picked, beheld, missed>>

\* enrollFromPayment, once the till is paid.
Paid(i) ==
    /\ i \in tills
    /\ tills' = tills \ {i}
    /\ enrolled' = enrolled \cup {i}
    /\ UNCHANGED <<face, word, filter, page, at, have, pages, seat, fetches, picked, beheld, missed>>

-----------------------------------------------------------------------------
Next ==
    \/ \E c \in Slots :
           \/ \E w \in Words, d \in Slots : Type(w, c, d)
           \/ \E f \in Filters : Choose(f, c)
           \/ \E n \in {page - 1, page + 1} : Turn(n, c)
           \/ Search(c)
           \/ \E kind \in {"list", "recs"} : Answer(kind, c) \/ NoAnswer(kind, c)
           \/ \E i \in Wares : Visit(i, c)
           \/ Look(c) \/ Show(c) \/ NoShow(c)
           \/ Enroll(c) \/ Admit(c) \/ Depart(c) \/ NoSeat(c)
    \/ Leave \/ Pick \/ Buy
    \/ \E i \in Wares : Paid(i)

Spec == Init /\ [][Next]_vars

-----------------------------------------------------------------------------
(* What the code keeps true *)

Shows(kind) ==
    \/ have[kind] = Want[kind] \/ missed[kind]
    \/ \E c \in Slots : Busy(kind, c) /\ ~fetches[kind][c].old /\ fetches[kind][c].of = Want[kind]

\* What a page shows is what its words, filters, page number or address ask for,
\* but while the request for just that is in flight, after an answer that came
\* late, and after a failure: no change of what is wanted goes unasked.
ShownIsWanted == \A kind \in Things : Shows(kind)

\* Whatever is bought, put in the cart, downloaded, asked about or enrolled in was
\* on the page when its button was pressed, although the address may have named
\* another item by then; and lessons are offered to open only with a seat.
TakenWasSeen ==
    /\ picked \cup tills \cup enrolled \subseteq beheld
    /\ Opens => have["item"] \in enrolled

-----------------------------------------------------------------------------
(* The inductive invariant of SiteProofs *)

Wanted == (Words \X Filters \X Int) \cup Words \cup Wares \cup {Blank}

Fetch == [pc : {"idle", "sent", "read", "refused"}, of : Wanted, old : BOOLEAN, seat : BOOLEAN]

TypeOK ==
    /\ word \in Words /\ filter \in Filters /\ page \in Int /\ at \in Wares \cup {Blank}
    /\ have \in [Things -> Wanted] /\ missed \in [Things -> BOOLEAN]
    /\ seat \in BOOLEAN
    /\ fetches \in [Kinds -> [Slots -> Fetch]]

\* The newest request is for what is wanted; items are shown with seats that are
\* there, and enrollments are for items that were shown.
FetchIsSound(kind, q) ==
    /\ kind # "enroll" /\ q.pc # "idle" /\ ~q.old => q.of = Want[kind]
    /\ kind = "item" /\ q.seat => q.of \in enrolled
    /\ kind = "enroll" /\ q.pc # "idle" => q.of \in beheld

StoreInv ==
    /\ TypeOK
    /\ \A kind \in Kinds, c \in Slots : FetchIsSound(kind, fetches[kind][c])
    /\ ShownIsWanted
    /\ have["item"] # Blank => have["item"] \in beheld
    /\ TakenWasSeen
=============================================================================
