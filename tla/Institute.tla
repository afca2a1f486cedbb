----------------------------- MODULE Institute -----------------------------
(***************************************************************************)
(* One course of the institute: how it is created, priced, reviewed,       *)
(* edited, enrolled in and rated.  services/courseService.ts behind the    *)
(* handlers of courseController.ts and the guards of courseRoutes.ts.      *)
(*                                                                         *)
(* A request is a process: it reads the course, and what it writes in its  *)
(* next statements rests on what it read.  Learning has the progress       *)
(* through the lessons; here one lesson stands for those that are edited.  *)
(***************************************************************************)
EXTENDS Integers, FiniteSets, FiniteSetsExt

CONSTANTS
    Learners, Creators, Requests,
    Prices,      \* prices in cents
    Promos,      \* percentages taken off
    Stars,       \* ratings
    Lists,       \* lists of resources a lesson may be saved with
    EmptyList

VARIABLES
    course,      \* status, price, promo, author, featured, and the rating shown
    seats,       \* course_enrollments: who sits in the course
    stars,       \* course_ratings: learner |-> stars, 0 for none
    resources,   \* lesson_resources of the lesson: list |-> copies of it
    req,         \* the requests
    offered,     \* history: learners to whom the published course was free, or who paid
    welcomed,    \* history: enrolment notices sent to a learner
    last,        \* history: the list of the save that ended last
    mixed,       \* history: saves overlapped, or one failed after its delete
    overtaken    \* history: a rating was counted and another stored before it was shown

tables == <<course, seats, stars, resources>>
ghosts == <<offered, welcomed, last, mixed, overtaken>>
instVars == <<tables, req, ghosts>>

NoCourse == [status |-> "none", price |-> 0, promo |-> 0, author |-> "none",
             featured |-> FALSE, sum |-> 0, count |-> 0]
Idle == [pc |-> "idle", op |-> "none", who |-> "none", x |-> [n |-> 0, m |-> 0, name |-> "none"]]
Empty == [l \in Lists |-> 0]

Init ==
    /\ course = NoCourse
    /\ seats = {}
    /\ stars = [u \in Learners |-> 0]
    /\ resources = Empty
    /\ req = [r \in Requests |-> Idle]
    /\ offered = {}
    /\ welcomed = [u \in Learners |-> 0]
    /\ last = "none"
    /\ mixed = FALSE
    /\ overtaken = FALSE

Exists == course.status \notin {"none", "gone"}

At(r, pc, op) == req[r].pc = pc /\ req[r].op = op
Goto(r, pc)   == req' = [req EXCEPT ![r].pc = pc]
End(r)        == req' = [req EXCEPT ![r] = Idle]

-----------------------------------------------------------------------------
(* What may be asked *)

Teaching   == {"create", "update", "promo", "lesson", "submit", "delete"}
Operations == Teaching \cup {"review", "feature", "enrol", "rate"}
People     == Learners \cup Creators \cup {"admin"}

\* requireRoles and requireStaff.
Allowed(op, who) ==
    CASE op \in Teaching              -> who \in Creators \cup {"admin"}
      [] op \in {"review", "feature"} -> who = "admin"
      [] op \in {"enrol", "rate"}     -> who \in Learners

\* A body has two numbers and a name at most.
Body(n, m, name) == [n |-> n, m |-> m, name |-> name]

Bodies(op) ==
    CASE op = "create" -> {Body(p, 0, "none") : p \in Prices}
      [] op = "update" -> {Body(p, m, "none") : p \in Prices, m \in Promos}
      [] op = "promo"  -> {Body(0, m, "none") : m \in Promos}
      [] op = "lesson" -> {Body(0, 0, l) : l \in Lists}
      [] op = "review" -> {Body(0, 0, s) : s \in {"PUBLISHED", "REJECTED"}}
      [] op = "rate"   -> {Body(n, 1, "none") : n \in Stars}
      [] op = "enrol"  -> {Body(0, 0, "free"), Body(0, 0, "paid")}  \* a fulfilled payment calls, too
      [] OTHER         -> {Body(0, 0, "none")}

\* A handler is called with the user of the token and the validated body; nothing
\* comes of a call for a course that is gone.
Handle(r, op, who, x) ==
    /\ req[r].pc = "idle"
    /\ Allowed(op, who)
    /\ IF op = "create" THEN course.status = "none" ELSE Exists
    /\ req' = [req EXCEPT ![r] = [pc |-> "find", op |-> op, who |-> who, x |-> x]]
    /\ offered' = IF op = "enrol" /\ x.name = "paid" THEN offered \cup {who} ELSE offered
    /\ UNCHANGED <<tables, welcomed, last, mixed, overtaken>>

CanManage(who) == who = "admin" \/ who = course.author

effectivePrice == (course.price * (100 - course.promo) + 50) \div 100

-----------------------------------------------------------------------------
(* Instructors *)

createCourse(r) ==
    /\ At(r, "find", "create")
    /\ course.status = "none"
    /\ course' = [NoCourse EXCEPT !.price = req[r].x.n, !.author = req[r].who,
                     !.status = IF req[r].who = "admin" THEN "PUBLISHED" ELSE "DRAFT"]
    /\ End(r)
    /\ UNCHANGED <<seats, stars, resources, ghosts>>

\* The course is found and managed by the caller, or the request ends here.
FindManaged(r) ==
    /\ req[r].pc = "find"
    /\ req[r].op \in Teaching \ {"create"}
    /\ IF Exists /\ CanManage(req[r].who) THEN Goto(r, "write") ELSE End(r)
    /\ UNCHANGED <<tables, ghosts>>

Write(r, op, new) ==
    /\ At(r, "write", op)
    /\ Exists
    /\ course' = new
    /\ End(r)
    /\ UNCHANGED <<seats, stars, resources, ghosts>>

updateCourse(r) ==
    LET x == req[r].x
    IN  Write(r, "update", [course EXCEPT !.price = x.n, !.promo = x.m])

createPromotion(r) == Write(r, "promo", [course EXCEPT !.promo = req[r].x.m])

submitForReview(r) == Write(r, "submit", [course EXCEPT !.status = "PENDING_REVIEW"])

\* The rows that name the course go with it.
deleteCourse(r) ==
    /\ At(r, "write", "delete")
    /\ Exists
    /\ course' = [course EXCEPT !.status = "gone"]
    /\ seats' = {}
    /\ stars' = [u \in Learners |-> 0]
    /\ resources' = Empty
    /\ End(r)
    /\ UNCHANGED ghosts

\* The status is set whatever it was; notices follow.
reviewCourse(r) ==
    /\ At(r, "find", "review")
    /\ Exists
    /\ course' = [course EXCEPT !.status = req[r].x.name]
    /\ End(r)
    /\ UNCHANGED <<seats, stars, resources, ghosts>>

setFeatured(r) ==
    /\ At(r, "find", "feature")
    /\ Exists
    /\ \E b \in BOOLEAN : course' = [course EXCEPT !.featured = b]
    /\ End(r)
    /\ UNCHANGED <<seats, stars, resources, ghosts>>

-----------------------------------------------------------------------------
(* upsertLesson, once the lesson is stored *)

Saving(r) == At(r, "fill", "lesson")

\* Mutant: the resources of the save before are left where they are.
ClearResources_Keep(r) ==
    /\ At(r, "write", "lesson")
    /\ Exists
    /\ Goto(r, "fill")
    /\ mixed' = \E q \in Requests \ {r} : Saving(q)
    /\ UNCHANGED <<tables, offered, welcomed, last, overtaken>>

\* The resources of the lesson are deleted ...
ClearResources(r) ==
    /\ At(r, "write", "lesson")
    /\ Exists
    /\ resources' = Empty
    /\ Goto(r, "fill")
    /\ mixed' = \E q \in Requests \ {r} : Saving(q)
    /\ UNCHANGED <<course, seats, stars, offered, welcomed, last, overtaken>>

\* ... and those of the list created, unless it is empty.
FillResources(r) ==
    LET list == req[r].x.name IN
    /\ At(r, "fill", "lesson")
    /\ Exists
    /\ resources' = IF list = EmptyList THEN resources ELSE [resources EXCEPT ![list] = @ + 1]
    /\ last' = list
    /\ End(r)
    /\ UNCHANGED <<course, seats, stars, offered, welcomed, mixed, overtaken>>

-----------------------------------------------------------------------------
(* enroll and enrollFromPayment *)

\* Mutant: a price is asked only of a course that never had a promotion.
FindOffer_Promo(r) ==
    LET who == req[r].who IN
    /\ At(r, "find", "enrol")
    /\ IF course.status = "PUBLISHED" /\ who \notin seats
          /\ (req[r].x.name = "paid" \/ effectivePrice = 0 \/ course.promo > 0)
       THEN Goto(r, "seat") ELSE End(r)
    /\ offered' = IF course.status = "PUBLISHED" /\ effectivePrice = 0
                  THEN offered \cup {who} ELSE offered
    /\ UNCHANGED <<tables, welcomed, last, mixed, overtaken>>

\* The course is read, then the row of the learner: unpublished, already there or
\* not paid for, the request ends.
FindOffer(r) ==
    LET who == req[r].who IN
    /\ At(r, "find", "enrol")
    /\ IF course.status = "PUBLISHED" /\ who \notin seats /\ (req[r].x.name = "paid" \/ effectivePrice = 0)
       THEN Goto(r, "seat") ELSE End(r)
    /\ offered' = IF course.status = "PUBLISHED" /\ effectivePrice = 0
                  THEN offered \cup {who} ELSE offered
    /\ UNCHANGED <<tables, welcomed, last, mixed, overtaken>>

\* The unique row makes a second insert fail.
TakeSeat(r) ==
    LET who == req[r].who IN
    /\ At(r, "seat", "enrol")
    /\ Exists
    /\ who \notin seats
    /\ seats' = seats \cup {who}
    /\ Goto(r, "welcome")
    /\ UNCHANGED <<course, stars, resources, ghosts>>

Welcome(r) ==
    /\ At(r, "welcome", "enrol")
    /\ welcomed' = [welcomed EXCEPT ![req[r].who] = @ + 1]
    /\ End(r)
    /\ UNCHANGED <<tables, offered, last, mixed, overtaken>>

-----------------------------------------------------------------------------
(* rateCourse *)

\* requireEnrollment.
FindSeat(r) ==
    /\ At(r, "find", "rate")
    /\ IF req[r].who \in seats THEN Goto(r, "store") ELSE End(r)
    /\ UNCHANGED <<tables, ghosts>>

\* The rating is stored: an aggregate read before is overtaken.
StoreStars(r) ==
    /\ At(r, "store", "rate")
    /\ Exists
    /\ stars' = [stars EXCEPT ![req[r].who] = req[r].x.n]
    /\ req' = [q \in Requests |->
                  IF q = r THEN [req[r] EXCEPT !.pc = "average"]
                  ELSE IF At(q, "show", "rate") THEN [req[q] EXCEPT !.who = "late"] ELSE req[q]]
    /\ UNCHANGED <<course, seats, resources, ghosts>>

Raters == {u \in Learners : stars[u] > 0}
Total(given) == MapThenSumSet(LAMBDA u : given[u], {u \in Learners : given[u] > 0})
Aggregate == Body(Total(stars), Cardinality(Raters), "none")

AverageStars(r) ==
    /\ At(r, "average", "rate")
    /\ req' = [req EXCEPT ![r].pc = "show", ![r].x = Aggregate]
    /\ UNCHANGED <<tables, ghosts>>

ShowAverage(r) ==
    /\ At(r, "show", "rate")
    /\ Exists
    /\ course' = [course EXCEPT !.sum = req[r].x.n, !.count = req[r].x.m]
    /\ overtaken' = (req[r].who = "late")
    /\ End(r)
    /\ UNCHANGED <<seats, stars, resources, offered, welcomed, last, mixed>>

-----------------------------------------------------------------------------
\* A statement fails, also because its row is gone or already there.
Fail(r) ==
    /\ req[r].pc # "idle"
    /\ End(r)
    /\ mixed' = (mixed \/ Saving(r))
    /\ overtaken' = (overtaken \/ (req[r].op = "rate" /\ req[r].pc \in {"average", "show"}))
    /\ UNCHANGED <<tables, offered, welcomed, last>>

Steps(r) ==
    \/ createCourse(r) \/ FindManaged(r) \/ updateCourse(r) \/ createPromotion(r)
    \/ submitForReview(r) \/ deleteCourse(r) \/ reviewCourse(r) \/ setFeatured(r)
    \/ ClearResources(r) \/ FillResources(r)
    \/ FindOffer(r) \/ TakeSeat(r) \/ Welcome(r)
    \/ FindSeat(r) \/ StoreStars(r) \/ AverageStars(r) \/ ShowAverage(r)
    \/ Fail(r)

\* Requests of some people for some of the operations.
Serve(ops, people) ==
    \E r \in Requests :
        \/ Steps(r)
        \/ \E op \in ops, who \in people : \E x \in Bodies(op) : Handle(r, op, who, x)

Next == Serve(Operations, People)

Spec == Init /\ [][Next]_instVars

-----------------------------------------------------------------------------
(* What the code keeps true *)

\* Nobody is in the course for nothing: whoever has a seat paid for it, or at one
\* moment of the request the course was published and free, however its price, its
\* promotion and its status are changed while the request is on its way.  Of several
\* requests of one learner a single one gets the seat and sends the welcome.
SeatsWereOffered ==
    /\ seats \subseteq offered
    /\ \A u \in Learners : welcomed[u] <= 1

\* With no save on its way, the lesson has the resources of the save that ended
\* last, each once, unless saves overlapped or one failed after its delete; with no
\* rating on its way, the average shown is that of the ratings, unless one of them
\* was overtaken or failed.
EditsSettle ==
    Exists =>
        /\ \/ mixed \/ \E r \in Requests : Saving(r)
           \/ resources = [l \in Lists |-> IF l = last /\ l # EmptyList THEN 1 ELSE 0]
        /\ \/ overtaken \/ \E r \in Requests : req[r].op = "rate"
           \/ Body(course.sum, course.count, "none") = Aggregate

-----------------------------------------------------------------------------
(* The inductive invariant of LearningProofs *)

Pcs      == {"idle", "find", "write", "fill", "seat", "welcome", "store", "average", "show"}
Statuses == {"none", "gone", "DRAFT", "PENDING_REVIEW", "PUBLISHED", "REJECTED"}
Totals   == {Total(given) : given \in [Learners -> Stars \cup {0}]}
Counts   == {Cardinality(us) : us \in SUBSET Learners}

TypeOK ==
    /\ course \in [status : Statuses, price : Prices \cup {0}, promo : Promos \cup {0},
                   author : Creators \cup {"admin", "none"}, featured : BOOLEAN,
                   sum : Totals \cup {0}, count : Counts \cup {0}]
    /\ seats \subseteq Learners /\ offered \subseteq Learners
    /\ stars \in [Learners -> Stars \cup {0}]
    /\ resources \in [Lists -> Nat]
    /\ req \in [Requests ->
                   [pc : Pcs, op : Operations \cup {"none"}, who : People \cup {"none", "late"},
                    x : [n : Prices \cup Stars \cup Totals \cup {0}, m : Promos \cup Counts \cup {0, 1},
                         name : Lists \cup {"none", "free", "paid", "PUBLISHED", "REJECTED"}]]]
    /\ welcomed \in [Learners -> Nat]
    /\ mixed \in BOOLEAN /\ overtaken \in BOOLEAN

\* Who asks for what, with which body.
Bodied ==
    \A r \in Requests :
        /\ req[r].op = "enrol" => req[r].who \in Learners
        /\ req[r].op = "rate" /\ req[r].pc \in {"find", "store"} =>
               req[r].who \in Learners /\ req[r].x.n \in Stars
        /\ At(r, "show", "rate") => req[r].x.n \in Totals /\ req[r].x.m \in Counts
        /\ req[r].op = "create" => req[r].who \in Creators \cup {"admin"} /\ req[r].x.n \in Prices
        /\ req[r].op = "update" => req[r].x.n \in Prices /\ req[r].x.m \in Promos
        /\ req[r].op = "promo" => req[r].x.m \in Promos
        /\ req[r].op = "review" => req[r].x.name \in {"PUBLISHED", "REJECTED"}
        /\ req[r].op = "lesson" => req[r].x.name \in Lists

\* Who is about to get a seat may have it, and is welcomed once.
Seated ==
    /\ seats \subseteq offered
    /\ \A r \in Requests :
           req[r].op = "enrol" =>
               /\ req[r].pc = "seat" \/ (req[r].pc = "find" /\ req[r].x.name = "paid") => req[r].who \in offered
               /\ req[r].pc = "welcome" => welcomed[req[r].who] = 0
    /\ \A r, q \in Requests :
           At(r, "welcome", "enrol") /\ At(q, "welcome", "enrol") /\ req[r].who = req[q].who => r = q
    /\ \A u \in Learners : welcomed[u] <= 1
    /\ \A u \in Learners :
           welcomed[u] = 1 \/ (\E r \in Requests : At(r, "welcome", "enrol") /\ req[r].who = u) =>
               u \in seats \/ course.status = "gone"

\* Before the course there is nothing of it.
Unborn ==
    course.status = "none" =>
        /\ course = NoCourse /\ resources = Empty /\ last = "none" /\ stars = [u \in Learners |-> 0]
        /\ \A r \in Requests : req[r].op \in {"none", "create"}

\* Between its delete and its creates a save has the resources for itself, or is mixed.
Stored ==
    Exists =>
        \/ mixed
        \/ /\ \A r, q \in Requests : Saving(r) /\ Saving(q) => r = q
           /\ resources = IF \E r \in Requests : Saving(r) THEN Empty
                          ELSE [l \in Lists |-> IF l = last /\ l # EmptyList THEN 1 ELSE 0]

\* An average that is not overtaken is that of the ratings.
Averaged ==
    Exists =>
        /\ \A r \in Requests : At(r, "show", "rate") /\ req[r].who # "late" => req[r].x = Aggregate
        /\ \/ overtaken \/ \E r \in Requests : req[r].op = "rate" /\ req[r].pc \in {"average", "show"}
           \/ Body(course.sum, course.count, "none") = Aggregate

InstituteInv == TypeOK /\ Bodied /\ Seated /\ Unborn /\ Stored /\ Averaged
=============================================================================
