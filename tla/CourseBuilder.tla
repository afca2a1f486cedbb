---------------------------- MODULE CourseBuilder ----------------------------
(***************************************************************************)
(* The instructor's page that arranges the lessons of a course:            *)
(* pages/CourseBuilderPage.tsx against upsertLesson, importLessons,        *)
(* deleteLesson and reorderLessons of services/courseService.ts.           *)
(*                                                                         *)
(* The page moves a lesson in its own list first and sends the new order;  *)
(* the server numbers the lessons it is sent.  Calls may be handled and    *)
(* answered in any order.                                                  *)
(***************************************************************************)
EXTENDS Integers, Sequences, FiniteSets, SequencesExt

CONSTANTS
    Items,       \* the lessons there may be (a bound)
    Slots,       \* calls in flight at once (a bound)
    Gone

VARIABLES
    number,      \* lessons.sort_order: lesson |-> number, Gone when there is no such row
    list,        \* the lessons shown
    sent,        \* the calls in flight
    astray       \* history: why the page may not show the course

builderVars == <<number, list, sent, astray>>

NoCall == [kind |-> "none", order |-> <<>>, late |-> FALSE]
Call(kind, order) == [NoCall EXCEPT !.kind = kind, !.order = order]

Rows  == {l \in Items : number[l] # Gone}
Fresh == {l \in Items : number[l] = Gone}

\* The rows in some order, each once.
Orders == {s \in [1..Cardinality(Rows) -> Rows] : \A i, j \in DOMAIN s : s[i] = s[j] => i = j}

\* orderBy sortOrder: rows of one number come in any order.
Listings == {s \in Orders : \A i, j \in DOMAIN s : i < j => number[s[i]] <= number[s[j]]}

Init ==
    /\ number = [l \in Items |-> Gone]
    /\ list = <<>>
    /\ sent = [c \in Slots |-> NoCall]
    /\ astray = FALSE

Send(c, kind, order) ==
    /\ sent[c] = NoCall
    /\ sent' = [sent EXCEPT ![c] = Call(kind, order)]

\* The rows change: a listing read before is out of date.
Changed(c, next) ==
    sent' = [d \in Slots |->
                IF d = c THEN next
                ELSE IF sent[d].kind = "listing" THEN [sent[d] EXCEPT !.late = TRUE] ELSE sent[d]]

-----------------------------------------------------------------------------
(* The instructor *)

\* Mutant: the order from before the move is sent.
drop_Old(c, i, j) ==
    /\ i # j
    /\ list' = InsertAt(RemoveAt(list, i), j, list[i])
    /\ astray' = (astray \/ \E d \in Slots : sent[d] # NoCall)
    /\ Send(c, "reorder", list)
    /\ UNCHANGED number

drop(c, i, j) ==
    LET moved == InsertAt(RemoveAt(list, i), j, list[i]) IN
    /\ i # j
    /\ list' = moved
    /\ astray' = (astray \/ \E d \in Slots : sent[d] # NoCall)
    /\ Send(c, "reorder", moved)
    /\ UNCHANGED number

\* The form, a module's starter lessons or the JSON of an import; the starters go
\* with copies of the lessons shown.
add(c, kind) ==
    /\ Send(c, kind, list)
    /\ UNCHANGED <<number, list, astray>>

remove(c, l) ==
    /\ l \in ToSet(list)
    /\ Send(c, "delete", <<l>>)
    /\ UNCHANGED <<number, list, astray>>

-----------------------------------------------------------------------------
(* The server *)

\* A new lesson comes after those the page showed.
upsertLesson(c) ==
    /\ sent[c].kind = "topic"
    /\ \E l \in Fresh : number' = [number EXCEPT ![l] = Len(sent[c].order)]
    /\ Changed(c, Call("reset", <<>>))
    /\ UNCHANGED <<list, astray>>

\* Each row of an import is created on its own and numbered from 0 on, whatever the
\* course has already; the model imports one.
importLessons(c) ==
    /\ sent[c].kind = "import"
    /\ \E l \in Fresh : number' = [number EXCEPT ![l] = 0]
    /\ Changed(c, Call("load", <<>>))
    /\ UNCHANGED <<list, astray>>

deleteLesson(c) ==
    /\ sent[c].kind = "delete"
    /\ number[sent[c].order[1]] # Gone
    /\ number' = [number EXCEPT ![sent[c].order[1]] = Gone]
    /\ Changed(c, Call("load", <<>>))
    /\ UNCHANGED <<list, astray>>

\* One transaction over all the lessons sent: a deleted one makes it fail.
reorderLessons(c) ==
    /\ sent[c].kind = "reorder"
    /\ ToSet(sent[c].order) \subseteq Rows
    /\ number' = [l \in Items |-> IF l \in ToSet(sent[c].order)
                                  THEN (CHOOSE i \in DOMAIN sent[c].order : sent[c].order[i] = l) - 1
                                  ELSE number[l]]
    /\ Changed(c, NoCall)
    /\ UNCHANGED <<list, astray>>

getCourse(c) ==
    /\ sent[c].kind = "load"
    /\ \E s \in Listings : sent' = [sent EXCEPT ![c] = Call("listing", s)]
    /\ UNCHANGED <<number, list, astray>>

-----------------------------------------------------------------------------
(* The answers *)

load(c) ==
    /\ sent[c].kind = "listing"
    /\ list' = sent[c].order
    /\ astray' = (sent[c].late \/ \E d \in Slots \ {c} : sent[d].kind = "reorder")
    /\ sent' = [sent EXCEPT ![c] = NoCall]
    /\ UNCHANGED number

\* After the await, e.currentTarget is null: resetting the form throws, and the list is
\* not loaded.
added(c) ==
    /\ sent[c].kind = "reset"
    /\ astray' = TRUE
    /\ sent' = [sent EXCEPT ![c] = NoCall]
    /\ UNCHANGED <<number, list>>

\* A call fails or its answer is lost: nothing takes a moved lesson back.
Fail(c) ==
    /\ sent[c] # NoCall
    /\ astray' = TRUE
    /\ sent' = [sent EXCEPT ![c] = NoCall]
    /\ UNCHANGED <<number, list>>

Next ==
    \E c \in Slots :
        \/ \E i, j \in DOMAIN list : drop(c, i, j)
        \/ \E kind \in {"topic", "import"} : add(c, kind)
        \/ \E l \in Items : remove(c, l)
        \/ upsertLesson(c) \/ importLessons(c) \/ deleteLesson(c) \/ reorderLessons(c)
        \/ getCourse(c) \/ load(c) \/ added(c) \/ Fail(c)

Spec == Init /\ [][Next]_builderVars

-----------------------------------------------------------------------------
(* What the code keeps true *)

\* With no call on its way, a reload would show the lessons as the page shows them,
\* whichever lessons were moved, imported or removed, unless something was moved while
\* another call was on its way, a listing was out of date, a topic was added by the form,
\* or a call failed: and the next good listing ends that.
OutlineIsStored ==
    (\A c \in Slots : sent[c] = NoCall) => (astray \/ list \in Listings)

-----------------------------------------------------------------------------
(* The inductive invariant of LearningProofs *)

Kinds == {"none", "reorder", "topic", "import", "delete", "reset", "load", "listing"}

TypeOK ==
    /\ number \in [Items -> Nat \cup {Gone}]
    /\ list \in Seq(Items)
    /\ sent \in [Slots -> [kind : Kinds, order : Seq(Items), late : BOOLEAN]]
    /\ astray \in BOOLEAN

Coming(kinds) == \E c \in Slots : sent[c].kind \in kinds

\* A listing that is not late is right; and while nothing is astray and no answer will
\* bring another list, the page shows the rows, in their order or in the one it sent.
Shown ==
    /\ \A c \in Slots :
           /\ sent[c].kind = "none" => sent[c] = NoCall
           /\ sent[c].kind = "delete" => sent[c].order # <<>>
           /\ sent[c].kind = "listing" => sent[c].order \in Orders \/ sent[c].late
           /\ sent[c].kind = "listing" /\ ~sent[c].late => sent[c].order \in Listings
    /\ ~astray =>
           /\ \A c \in Slots : sent[c].kind = "reorder" => sent[c].order = list
           /\ \/ Coming({"reset", "load", "listing"})
              \/ list \in Orders /\ (Coming({"reorder"}) \/ list \in Listings)

BuilderInv == TypeOK /\ Shown
=============================================================================
