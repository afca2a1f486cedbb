----------------------------- MODULE MCLearning -----------------------------
(***************************************************************************)
(* Instances of the institute's modules for TLC.  A behaviour is one of    *)
(* Learning, of Institute (three groups of its operations), of             *)
(* CoursePlayer or of CourseBuilder: part says which, and the variables of *)
(* the others stay as they start.                                          *)
(***************************************************************************)
EXTENDS Learning, TLC

CONSTANTS r1, r2, None, Creators, Prices, Promos, Stars, Lists

\* What stands for no save, for no lesson and for no number is none.
ASSUME NamesAssumption == "none" \notin Lists /\ None \notin Lessons /\ Nothing \notin Nat

VARIABLES part,
    offer, seats, stars, resources, req, offered, welcomed, last, mixed, overtaken,
    open, shown, note, rows, call, notes, completed, blurred, overlapped,
    number, list, sent, astray

institute == <<offer, seats, stars, resources, req, offered, welcomed, last, mixed, overtaken>>
player    == <<open, shown, note, rows, call, notes, completed, blurred, overlapped>>
builder   == <<number, list, sent, astray>>
allVars   == <<vars, institute, player, builder, part>>

Course == INSTANCE Institute WITH course <- offer, EmptyList <- None

Player == INSTANCE CoursePlayer WITH Topics <- Lessons, Calls <- Requests

Builder == INSTANCE CourseBuilder WITH Items <- Lessons, Slots <- Requests, Gone <- Nothing

\* The bound on what is asked for in one behaviour of Institute.
Owned  == Course!People \ {"other"}
IsFree == \A r \in Requests : req'[r].op = "create" => req'[r].x.n = 0

Offers  == Course!Serve({"create", "update", "submit", "review", "enrol"}, Owned)
Edits   == Course!Serve({"create", "feature", "promo", "lesson", "delete"}, Course!People) /\ IsFree
Ratings == Course!Serve({"create", "enrol", "rate", "delete"}, Owned) /\ IsFree

AllInit ==
    /\ part \in {"learning", "offers", "edits", "ratings", "player", "builder"}
    /\ Init /\ Course!Init /\ Player!Init /\ Builder!Init

Only(vs) == UNCHANGED <<vs, part>>

AllNext ==
    \/ part = "learning" /\ Next /\ Only(<<institute, player, builder>>)
    \/ part = "offers" /\ Offers /\ Only(<<vars, player, builder>>)
    \/ part = "edits" /\ Edits /\ Only(<<vars, player, builder>>)
    \/ part = "ratings" /\ Ratings /\ Only(<<vars, player, builder>>)
    \/ part = "player" /\ Player!Next /\ Only(<<vars, institute, builder>>)
    \/ part = "builder" /\ Builder!Next /\ Only(<<vars, institute, player>>)

AllSpec ==
    /\ AllInit /\ [][AllNext]_allVars
    /\ \A r \in Requests : WF_vars(Resume(r))

\* Institute!SeatsWereOffered: a seat was paid for, or offered for nothing at one moment.
SeatsWereOffered == Course!SeatsWereOffered

\* Institute!EditsSettle: what is shown when nothing is on its way is what was stored last.
EditsSettle == Course!EditsSettle

\* CoursePlayer!NotesKeepTheirLesson: a note is stored for the lesson it was written for.
NotesKeepTheirLesson == Player!NotesKeepTheirLesson

\* CourseBuilder!OutlineIsStored: the lessons are stored in the order the page shows.
OutlineIsStored == Builder!OutlineIsStored
=============================================================================
