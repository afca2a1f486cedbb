------------------------------ MODULE Learning ------------------------------
(***************************************************************************)
(* A learner's way through one course: saveProgress, submitQuiz,           *)
(* submitProject, refreshEnrollmentProgress and issueCertificate of        *)
(* services/courseService.ts, and the instructor who edits the lessons     *)
(* meanwhile.                                                              *)
(*                                                                         *)
(* Saving a lesson takes a chain of awaited statements: the lesson is      *)
(* written, then the whole course is read again, then the percentage is    *)
(* stored, then the certificate is looked for, checked again and created.  *)
(* A request is a process whose pc[r] names its next statement, and two    *)
(* tabs of one learner are two requests.                                   *)
(***************************************************************************)
EXTENDS Integers, FiniteSets

CONSTANTS
    Learners,
    Lessons,     \* lessons the course may have
    Opening,     \* the lessons the course starts with
    Requests,    \* requests in flight (a bound)
    NoOne, Nothing,
    Editing      \* whether the instructor edits the published course

ASSUME CourseAssumption ==
    /\ Opening \subseteq Lessons
    /\ IsFiniteSet(Lessons)
    /\ Editing \in BOOLEAN

VARIABLES
    lessons,     \* lessons of the course
    enrolled,    \* learners with a course_enrollments row
    done,        \* lesson_progress.completed: <<learner, lesson>>
    progress,    \* course_enrollments.progress
    finished,    \* course_enrollments.completed_at is not null
    certs,       \* learners with a certificate
    everDone,    \* history: lessons a learner had completed at some time
    shapes,      \* history: the sets of lessons the course has had
    crashed,     \* history: the server process has died
    pc, job

course  == <<lessons, shapes, enrolled>>
tracks  == <<done, everDone>>
results == <<progress, finished, certs>>
vars    == <<course, tracks, results, crashed, pc, job>>

-----------------------------------------------------------------------------
(* courses/progress.ts *)

\* Math.round of a non-negative quotient.
Rounded(n, d) == (2 * n + d) \div (2 * d)

PercentComplete(n, total) ==
    IF total = 0 THEN 0
    ELSE IF Rounded(100 * n, total) > 100 THEN 100 ELSE Rounded(100 * n, total)

\* Mutant: the rows of other lessons count too, and nothing limits the quotient.
Percent_AllRows(u, read) ==
    IF read = {} THEN 0
    ELSE Rounded(100 * Cardinality({l \in Lessons : <<u, l>> \in done}), Cardinality(read))

\* What getProgress computes from the lessons it read and, later, their rows.
Percent(u, read) ==
    PercentComplete(Cardinality({l \in read : <<u, l>> \in done}), Cardinality(read))

-----------------------------------------------------------------------------
\* What a request makes of the lesson: completed, not completed, or as it was
\* (a position in a video).
Marks == {"completed", "open", "unchanged"}

\* A request keeps the local variables it still needs.
NewJob(u, l, mark) == [user |-> u, lesson |-> l, mark |-> mark, read |-> {}, pct |-> 0]
NoJob == NewJob(NoOne, Nothing, "unchanged")
Measured(u, pct) ==
    [user |-> u, lesson |-> Nothing, mark |-> "unchanged", read |-> {}, pct |-> pct]

Labels == {"idle", "save", "list", "count", "store", "look", "relist", "recount", "issue"}

Init ==
    /\ lessons = Opening
    /\ shapes = {Opening}
    /\ enrolled = {}
    /\ done = {}
    /\ progress = [u \in Learners |-> 0]
    /\ finished = {}
    /\ certs = {}
    /\ everDone = {}
    /\ crashed = FALSE
    /\ pc = [r \in Requests |-> "idle"]
    /\ job = [r \in Requests |-> NoJob]

Begin(r, label, j) ==
    /\ pc[r] = "idle"
    /\ pc' = [pc EXCEPT ![r] = label]
    /\ job' = [job EXCEPT ![r] = j]

Goto(r, label) ==
    /\ pc' = [pc EXCEPT ![r] = label]
    /\ job' = [job EXCEPT ![r] = NewJob(@.user, Nothing, "unchanged")]

Finish(r) ==
    /\ pc' = [pc EXCEPT ![r] = "idle"]
    /\ job' = [job EXCEPT ![r] = NoJob]

\* The insert of an enrolment; the unique row makes a second one fail.
Enrol(u) ==
    /\ u \notin enrolled
    /\ enrolled' = enrolled \cup {u}
    /\ UNCHANGED <<lessons, shapes, tracks, results, crashed, pc, job>>

-----------------------------------------------------------------------------
(* saveProgress, submitQuiz and submitProject *)

\* The lesson exists and the learner is enrolled.  A quiz may be passed or failed,
\* other lessons are marked either way, and a project is completed.
StartSave(r, u, l, mark) ==
    /\ l \in lessons
    /\ u \in enrolled
    /\ Begin(r, "save", NewJob(u, l, mark))
    /\ UNCHANGED <<course, tracks, results, crashed>>

\* lessonProgress.upsert; it fails when the lesson was deleted meanwhile.
Save(r) ==
    LET row == <<job[r].user, job[r].lesson>> IN
    /\ pc[r] = "save"
    /\ job[r].lesson \in lessons
    /\ done' = CASE job[r].mark = "completed" -> done \cup {row}
                 [] job[r].mark = "open"      -> done \ {row}
                 [] OTHER                     -> done
    /\ everDone' = everDone \cup done'
    /\ Goto(r, "list")
    /\ UNCHANGED <<course, results, crashed>>

SaveError(r) ==
    /\ pc[r] = "save"
    /\ job[r].lesson \notin lessons
    /\ Finish(r)
    /\ UNCHANGED <<course, tracks, results, crashed>>

-----------------------------------------------------------------------------
(* getProgress reads the lessons, and then the rows of those lessons *)

List(r) ==
    /\ pc[r] \in {"list", "relist"}
    /\ job' = [job EXCEPT ![r].read = lessons]
    /\ pc' = [pc EXCEPT ![r] = IF @ = "list" THEN "count" ELSE "recount"]
    /\ UNCHANGED <<course, tracks, results, crashed>>

\* refreshEnrollmentProgress measures ...
Count(r) ==
    /\ pc[r] = "count"
    /\ job' = [job EXCEPT ![r] = Measured(@.user, Percent(job[r].user, job[r].read))]
    /\ pc' = [pc EXCEPT ![r] = "store"]
    /\ UNCHANGED <<course, tracks, results, crashed>>

\* Mutant: a full percentage is stored, and no certificate follows.
Store_NoCertificate(r) ==
    LET u == job[r].user IN
    /\ pc[r] = "store"
    /\ progress' = [progress EXCEPT ![u] = job[r].pct]
    /\ finished' = IF job[r].pct >= 100 THEN finished \cup {u} ELSE finished \ {u}
    /\ Finish(r)
    /\ UNCHANGED <<course, tracks, certs, crashed>>

\* ... stores what it measured ...
Store(r) ==
    LET u == job[r].user IN
    /\ pc[r] = "store"
    /\ progress' = [progress EXCEPT ![u] = job[r].pct]
    /\ IF job[r].pct >= 100
       THEN finished' = finished \cup {u} /\ Goto(r, "look")
       ELSE finished' = finished \ {u} /\ Finish(r)
    /\ UNCHANGED <<course, tracks, certs, crashed>>

-----------------------------------------------------------------------------
(* issueCertificate, after a refresh or on the learner's request *)

AskCertificate(r, u) ==
    /\ Begin(r, "look", NewJob(u, Nothing, "unchanged"))
    /\ UNCHANGED <<course, tracks, results, crashed>>

Look(r) ==
    /\ pc[r] = "look"
    /\ IF job[r].user \in certs THEN Finish(r) ELSE Goto(r, "relist")
    /\ UNCHANGED <<course, tracks, results, crashed>>

\* Mutant: whoever has completed something is given the certificate.
Recount_Started(r) ==
    LET u == job[r].user IN
    /\ pc[r] = "recount"
    /\ IF u \in enrolled /\ Percent(u, job[r].read) > 0
       THEN Goto(r, "issue") ELSE Finish(r)
    /\ UNCHANGED <<course, tracks, results, crashed>>

\* Not enrolled, or a percentage below 100, throws.
Recount(r) ==
    LET u == job[r].user IN
    /\ pc[r] = "recount"
    /\ IF u \in enrolled /\ Percent(u, job[r].read) >= 100
       THEN Goto(r, "issue") ELSE Finish(r)
    /\ UNCHANGED <<course, tracks, results, crashed>>

\* certificate.create; the unique row makes a second one fail.
Issue(r) ==
    /\ pc[r] = "issue"
    /\ certs' = certs \cup {job[r].user}
    /\ Finish(r)
    /\ UNCHANGED <<course, tracks, progress, finished, crashed>>

-----------------------------------------------------------------------------
(* The instructor, and the process *)

\* A new lesson has a fresh id.
AddLesson(l) ==
    /\ Editing
    /\ l \notin UNION shapes
    /\ lessons' = lessons \cup {l}
    /\ shapes' = shapes \cup {lessons'}
    /\ UNCHANGED <<enrolled, tracks, results, crashed, pc, job>>

\* Deleting a lesson deletes the progress rows that name it.
DeleteLesson(l) ==
    /\ Editing
    /\ l \in lessons
    /\ lessons' = lessons \ {l}
    /\ shapes' = shapes \cup {lessons'}
    /\ done' = {d \in done : d[2] # l}
    /\ UNCHANGED <<enrolled, everDone, results, crashed, pc, job>>

Crash ==
    /\ crashed' = TRUE
    /\ pc' = [r \in Requests |-> "idle"]
    /\ job' = [r \in Requests |-> NoJob]
    /\ UNCHANGED <<course, tracks, results>>

-----------------------------------------------------------------------------
Resume(r) ==
    \/ Save(r) \/ SaveError(r) \/ List(r) \/ Count(r) \/ Store(r)
    \/ Look(r) \/ Recount(r) \/ Issue(r)

Serve ==
    \/ \E u \in Learners : Enrol(u)
    \/ \E r \in Requests :
          \/ Resume(r)
          \/ \E u \in Learners :
                \/ AskCertificate(r, u)
                \/ \E l \in Lessons, mark \in Marks : StartSave(r, u, l, mark)
    \/ \E l \in Lessons : AddLesson(l) \/ DeleteLesson(l)

Next == Serve \/ Crash

Spec == Init /\ [][Next]_vars

\* The event loop resumes every request.
FairSpec == Spec /\ \A r \in Requests : WF_vars(Resume(r))

-----------------------------------------------------------------------------
(* What the code keeps true *)

Job == [user : Learners \cup {NoOne}, lesson : Lessons \cup {Nothing}, mark : Marks,
        read : SUBSET Lessons, pct : 0..100]

\* Tables and requests hold values of their types, percentages included.
TypeOK ==
    /\ lessons \in SUBSET Lessons
    /\ shapes \in SUBSET SUBSET Lessons
    /\ enrolled \in SUBSET Learners
    /\ done \in SUBSET (Learners \X Lessons)
    /\ everDone \in SUBSET (Learners \X Lessons)
    /\ progress \in [Learners -> 0..100]
    /\ finished \in SUBSET Learners
    /\ certs \in SUBSET Learners
    /\ crashed \in BOOLEAN
    /\ pc \in [Requests -> Labels]
    /\ job \in [Requests -> Job]

EverDone(u) == {l \in Lessons : <<u, l>> \in everDone}

\* A certificate is given to an enrolled learner who has completed every lesson
\* of the course as it stood at one time, however many requests of that learner
\* and edits of the instructor come between the two reads of the lessons, the
\* two reads of the progress and the insert.
CertificateWasEarned ==
    \A u \in certs :
        /\ u \in enrolled
        /\ \E L \in shapes \ {{}} : L \subseteq EverDone(u)

(* The inductive invariant of LearningProofs *)

Earned(u) == u \in enrolled /\ \E L \in shapes \ {{}} : L \subseteq EverDone(u)

\* A request that counts has read a course that was, and one that issues has
\* found everything completed.
LearnInv ==
    /\ TypeOK
    /\ lessons \in shapes
    /\ done \subseteq everDone
    /\ \A r \in Requests :
           /\ pc[r] # "idle" => job[r].user \in Learners
           /\ pc[r] = "recount" => job[r].read \in shapes
           /\ pc[r] = "issue" => Earned(job[r].user)
    /\ CertificateWasEarned

AllDone(u) == u \in enrolled /\ lessons # {} /\ {u} \X lessons \subseteq done

Deleted == UNION shapes \ lessons

\* Two requests that complete the last two lessons do not both miss the other
\* one: whoever has everything completed gets the certificate without asking for
\* it, unless a lesson is undone, added or deleted, or the server dies.
CompletionIsCertified ==
    \A u \in Learners :
        AllDone(u) /\ Deleted = {} /\ ~crashed
            ~> (u \in certs \/ ~AllDone(u) \/ Deleted # {} \/ crashed)
=============================================================================
