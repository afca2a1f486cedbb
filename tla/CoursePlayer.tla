---------------------------- MODULE CoursePlayer ----------------------------
(***************************************************************************)
(* The page a learner studies on: pages/CoursePlayerPage.tsx, against the  *)
(* handlers it calls in services/courseService.ts.                         *)
(*                                                                         *)
(* The address names a lesson, the page shows the one whose answer came    *)
(* last, and the note box belongs to the lesson shown.  Answers come late, *)
(* in any order, or not at all.                                            *)
(***************************************************************************)
EXTENDS Integers, FiniteSets

CONSTANTS
    Topics,      \* lessons of the course
    Calls,       \* calls in flight at once (a bound)
    None

VARIABLES
    open,        \* useParams().lessonId
    shown,       \* ctx.lesson
    note,        \* the text in the box, named after the lesson it was written for
    rows,        \* lessons ticked in the list
    call,        \* the calls in flight
    notes,       \* lesson_notes of the learner: lesson |-> text
    completed,   \* lesson_progress of the learner
    blurred,     \* history: lessons whose note was saved while another was shown
    overlapped   \* history: the list shown came from a load that others overtook

page       == <<open, shown, note, rows>>
playerVars == <<page, call, notes, completed, blurred, overlapped>>

NoCall == [kind |-> "none", lesson |-> None, at |-> "sent", text |-> None, done |-> {}, late |-> FALSE]
Ask(kind, l, text) == [NoCall EXCEPT !.kind = kind, !.lesson = l, !.text = text]

Init ==
    /\ open = None
    /\ shown = None
    /\ note = None
    /\ rows = {}
    /\ call = [c \in Calls |-> NoCall]
    /\ notes = [l \in Topics |-> None]
    /\ completed = {}
    /\ blurred = {}
    /\ overlapped = FALSE

Send(c, kind, l, text) ==
    /\ call[c] = NoCall
    /\ call' = [call EXCEPT ![c] = Ask(kind, l, text)]

Done(c) == call' = [call EXCEPT ![c] = NoCall]

-----------------------------------------------------------------------------
(* The learner *)

\* The page is opened and asks for the progress.
Mount(c) ==
    /\ open = None
    /\ \A d \in Calls : call[d] = NoCall
    /\ Send(c, "progress", None, None)
    /\ UNCHANGED <<page, notes, completed, blurred, overlapped>>

Visit(c, l) ==
    /\ open \notin {None, l}
    /\ open' = l
    /\ Send(c, "lesson", l, None)
    /\ UNCHANGED <<shown, note, rows, notes, completed, blurred, overlapped>>

Write ==
    /\ shown # None
    /\ note' = shown
    /\ UNCHANGED <<open, shown, rows, call, notes, completed, blurred, overlapped>>

\* The note goes to the lesson of the address.
saveNote(c) ==
    /\ shown # None
    /\ Send(c, "note", open, note)
    /\ blurred' = IF open = shown THEN blurred ELSE blurred \cup {open}
    /\ UNCHANGED <<page, notes, completed, overlapped>>

complete(c) ==
    /\ shown # None
    /\ Send(c, "complete", open, None)
    /\ UNCHANGED <<page, notes, completed, blurred, overlapped>>

\* A quiz or a project is submitted for the lesson shown, and passes.
submit(c) ==
    /\ shown # None
    /\ Send(c, "complete", shown, None)
    /\ UNCHANGED <<page, notes, completed, blurred, overlapped>>

-----------------------------------------------------------------------------
(* The server *)

At(c, kind) == call[c].kind = kind /\ call[c].at = "sent"
Answered(c, new) == call' = [call EXCEPT ![c] = new]

lessonContext(c) ==
    /\ At(c, "lesson")
    /\ Answered(c, [call[c] EXCEPT !.at = "back", !.text = notes[call[c].lesson]])
    /\ UNCHANGED <<page, notes, completed, blurred, overlapped>>

getProgress(c) ==
    /\ At(c, "progress")
    /\ Answered(c, [call[c] EXCEPT !.at = "back", !.done = completed])
    /\ UNCHANGED <<page, notes, completed, blurred, overlapped>>

storeNote(c) ==
    /\ At(c, "note")
    /\ notes' = [notes EXCEPT ![call[c].lesson] = call[c].text]
    /\ Done(c)
    /\ UNCHANGED <<page, completed, blurred, overlapped>>

\* A list of the progress read before is out of date.
storeProgress(c) ==
    /\ At(c, "complete")
    /\ completed' = completed \cup {call[c].lesson}
    /\ call' = [d \in Calls |->
                   IF d = c THEN [call[c] EXCEPT !.at = "back"]
                   ELSE IF call[d].kind = "progress" /\ call[d].at = "back"
                   THEN [call[d] EXCEPT !.late = TRUE] ELSE call[d]]
    /\ UNCHANGED <<page, notes, blurred, overlapped>>

-----------------------------------------------------------------------------
(* The answers *)

\* Mutant: a lesson without a note leaves the box as it is.
ShowLesson_KeepNote(c) ==
    /\ call[c].kind = "lesson" /\ call[c].at = "back"
    /\ shown' = call[c].lesson
    /\ note' = IF call[c].text = None THEN note ELSE call[c].text
    /\ Done(c)
    /\ UNCHANGED <<open, rows, notes, completed, blurred, overlapped>>

\* Whichever lesson it is, and whichever the address names by now.
ShowLesson(c) ==
    /\ call[c].kind = "lesson" /\ call[c].at = "back"
    /\ shown' = call[c].lesson
    /\ note' = call[c].text
    /\ Done(c)
    /\ UNCHANGED <<open, rows, notes, completed, blurred, overlapped>>

\* The first progress leads to a lesson.
ShowProgress(c) ==
    /\ call[c].kind = "progress" /\ call[c].at = "back"
    /\ rows' = call[c].done
    /\ overlapped' = call[c].late
    /\ IF open = None
       THEN \E l \in Topics : open' = l /\ Answered(c, Ask("lesson", l, None))
       ELSE UNCHANGED open /\ Done(c)
    /\ UNCHANGED <<shown, note, notes, completed, blurred>>

Completed(c) ==
    /\ call[c].kind = "complete" /\ call[c].at = "back"
    /\ Answered(c, Ask("progress", None, None))
    /\ UNCHANGED <<page, notes, completed, blurred, overlapped>>

\* A call or its answer is lost: a lesson that cannot be read is not shown, and
\* without its first progress the page is left.
Lost(c) ==
    /\ call[c] # NoCall
    /\ shown' = IF call[c].kind = "lesson" THEN None ELSE shown
    /\ overlapped' = (overlapped \/ call[c].kind \in {"progress", "complete"})
    /\ Done(c)
    /\ UNCHANGED <<open, note, rows, notes, completed, blurred>>

Next ==
    \/ Write
    \/ \E c \in Calls :
           \/ Mount(c) \/ saveNote(c) \/ complete(c) \/ submit(c)
           \/ lessonContext(c) \/ getProgress(c) \/ storeNote(c) \/ storeProgress(c)
           \/ ShowLesson(c) \/ ShowProgress(c) \/ Completed(c) \/ Lost(c)
           \/ \E l \in Topics : Visit(c, l)

Spec == Init /\ [][Next]_playerVars

-----------------------------------------------------------------------------
(* What the code keeps true *)

Waiting(kind) == \E c \in Calls : call[c].kind = kind

\* A note stored for a lesson was written with that lesson on the screen, however the
\* learner moves between lessons and in whatever order the answers come, unless it
\* was saved while the page still showed another lesson than the address.  And with
\* nothing on its way the ticks are the completed lessons, unless the list shown was
\* overtaken or an answer was lost.
NotesKeepTheirLesson ==
    /\ \A l \in Topics : notes[l] \in {None, l} \/ l \in blurred
    /\ open # None => (rows = completed \/ overlapped \/ Waiting("progress") \/ Waiting("complete"))

-----------------------------------------------------------------------------
(* The inductive invariant of LearningProofs *)

Some == Topics \cup {None}

TypeOK ==
    /\ open \in Some /\ shown \in Some /\ note \in Some
    /\ rows \subseteq Topics /\ completed \subseteq Topics /\ blurred \subseteq Topics
    /\ call \in [Calls -> [kind : {"none", "progress", "lesson", "note", "complete"}, lesson : Some,
                           at : {"sent", "back"}, text : Some, done : SUBSET Topics, late : BOOLEAN]]
    /\ notes \in [Topics -> Some]
    /\ overlapped \in BOOLEAN

\* A text is the lesson's own, or was saved where another was shown.
Fits(text, l) == text \in {None, l} \/ l \in blurred

\* Texts stay with their lessons on the way to the page, on it and on the way back;
\* a list of the progress that is not late is right.
Kept ==
    /\ shown # None => open # None /\ Fits(note, shown)
    /\ \A l \in Topics : Fits(notes[l], l)
    /\ \A c \in Calls :
           /\ call[c].kind = "none" => call[c] = NoCall
           /\ call[c].kind \in {"lesson", "note", "complete"} =>
                  open # None /\ call[c].lesson # None /\ Fits(call[c].text, call[c].lesson)
           /\ call[c].kind = "progress" /\ call[c].at = "back" /\ ~call[c].late => call[c].done = completed

PlayerInv == TypeOK /\ Kept /\ NotesKeepTheirLesson
=============================================================================
