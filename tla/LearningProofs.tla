--------------------------- MODULE LearningProofs ---------------------------
(***************************************************************************)
(* What the institute keeps true, for any number of learners, lessons and  *)
(* requests: the types of Learning, that a certificate was earned in a     *)
(* course of fewer than 200 lessons, and the invariants of Institute,      *)
(* CoursePlayer and CourseBuilder.                                         *)
(***************************************************************************)
EXTENDS MCLearning, Sequences, FiniteSetTheorems, SequenceTheorems, TLAPS

USE CourseAssumption

(***************************************************************************)
(* Percentages                                                             *)
(***************************************************************************)

\* A quotient of naturals is a natural, and no more than exact.
LEMMA Quotient ==
  ASSUME NEW a \in Nat, NEW b \in Nat \ {0}
  PROVE  a \div b \in Nat /\ b * (a \div b) <= a
  OBVIOUS

\* A percentage is one.
LEMMA PercentType ==
  ASSUME NEW n \in Nat, NEW total \in Nat
  PROVE  PercentComplete(n, total) \in 0..100
  <1>1. CASE total = 0
    BY <1>1 DEF PercentComplete
  <1>2. CASE total # 0
    <2>1. 2 * (100 * n) + total \in Nat /\ 2 * total \in Nat \ {0}
      BY <1>2
    <2>2. Rounded(100 * n, total) \in Nat
      BY <2>1, Quotient DEF Rounded
    <2>3. QED
      BY <1>2, <2>2 DEF PercentComplete
  <1>3. QED
    BY <1>1, <1>2

\* Below 200 lessons only a complete count rounds to 100 percent.
LEMMA FullPercent ==
  ASSUME NEW n \in Nat, NEW total \in Nat, n <= total, total < 200,
         PercentComplete(n, total) >= 100
  PROVE  total # 0 /\ n = total
  <1>1. total # 0
    BY DEF PercentComplete
  <1>2. 2 * (100 * n) + total \in Nat /\ 2 * total \in Nat \ {0}
    BY <1>1
  <1> DEFINE q == (2 * (100 * n) + total) \div (2 * total)
  <1>3. q \in Nat /\ (2 * total) * q <= 2 * (100 * n) + total
    BY <1>2, Quotient
  <1>4. q >= 100
    BY <1>1, <1>3 DEF PercentComplete, Rounded
  <1> HIDE DEF q
  <1>5. (2 * total) * 100 <= (2 * total) * q
    BY <1>2, <1>3, <1>4
  <1>6. QED
    BY <1>1, <1>3, <1>5
\* The rows that getProgress counts are some of the lessons it has read.
LEMMA Counted ==
  ASSUME NEW u, NEW read \in SUBSET Lessons
  PROVE  LET n == Cardinality({l \in read : <<u, l>> \in done}) IN
         /\ n \in Nat /\ Cardinality(read) \in Nat /\ n <= Cardinality(read)
         /\ Cardinality(read) <= Cardinality(Lessons) /\ Cardinality(Lessons) \in Nat
         /\ n = Cardinality(read) => read = {l \in read : <<u, l>> \in done}
  <1> DEFINE some == {l \in read : <<u, l>> \in done}
  <1>1. IsFiniteSet(read) /\ Cardinality(read) <= Cardinality(Lessons)
    BY FS_Subset
  <1>2. some \in SUBSET read
    OBVIOUS
  <1>3. IsFiniteSet(some) /\ Cardinality(some) <= Cardinality(read)
        /\ (Cardinality(read) = Cardinality(some) => read = some)
    BY <1>1, <1>2, FS_Subset
  <1>4. QED
    BY <1>1, <1>3, FS_CardinalityType

\* The measured percentage is one ...
LEMMA MeasuredType ==
  ASSUME NEW u, NEW read \in SUBSET Lessons
  PROVE  Percent(u, read) \in 0..100
  BY Counted, PercentType DEF Percent

\* ... and a full one was measured of lessons that are all completed.
LEMMA FullIsComplete ==
  ASSUME Cardinality(Lessons) < 200, NEW u, NEW read \in SUBSET Lessons,
         Percent(u, read) >= 100
  PROVE  read # {} /\ \A l \in read : <<u, l>> \in done
  <1> DEFINE n == Cardinality({l \in read : <<u, l>> \in done})
  <1>1. /\ n \in Nat /\ Cardinality(read) \in Nat /\ n <= Cardinality(read)
        /\ Cardinality(read) <= Cardinality(Lessons) /\ Cardinality(Lessons) \in Nat
        /\ n = Cardinality(read) => read = {l \in read : <<u, l>> \in done}
    BY Counted
  <1>2. PercentComplete(n, Cardinality(read)) >= 100
    BY DEF Percent
  <1> HIDE DEF n
  <1>3. Cardinality(read) # 0 /\ n = Cardinality(read)
    <2>1. Cardinality(read) < 200
      BY <1>1
    <2>2. QED
      BY <1>1, <1>2, <2>1, FullPercent
  <1>4. QED
    BY <1>1, <1>3, FS_EmptySet

(***************************************************************************)
(* Types                                                                   *)
(***************************************************************************)

\* The steps of a request leave the types as they are.
LEMMA RequestTypes ==
  ASSUME TypeOK, NEW r \in Requests, pc[r] # "idle" => job[r].user \in Learners, Resume(r)
  PROVE  TypeOK'
  <1> USE DEF TypeOK, Job, Marks, Labels, NewJob, NoJob, Goto, Finish, course, tracks, results
  <1>1. CASE Save(r)
    <2>1. job[r].lesson \in Lessons /\ job[r].user \in Learners
      BY <1>1 DEF Save
    <2> DEFINE row == <<job[r].user, job[r].lesson>>
    <2>2. row \in Learners \X Lessons
      BY <2>1
    <2>3. done' = done \cup {row} \/ done' = done \ {row} \/ done' = done
      BY <1>1 DEF Save
    <2>4. done' \in SUBSET (Learners \X Lessons) /\ everDone' \in SUBSET (Learners \X Lessons)
      BY <2>2, <2>3, <1>1 DEF Save
    <2>5. QED
      BY <2>1, <2>4, <1>1 DEF Save
  <1>2. CASE SaveError(r)
    BY <1>2 DEF SaveError
  <1>3. CASE List(r)
    BY <1>3 DEF List
  <1>4. CASE Count(r)
    <2>1. Percent(job[r].user, job[r].read) \in 0..100
      BY MeasuredType
    <2> DEFINE j == Measured(job[r].user, Percent(job[r].user, job[r].read))
    <2>2. j \in Job
      BY <2>1 DEF Measured
    <2>3. job' = [job EXCEPT ![r] = j]
      BY <1>4 DEF Count
    <2> HIDE DEF j
    <2>4. job' \in [Requests -> Job]
      BY <2>2, <2>3
    <2>5. QED
      BY <2>4, <1>4 DEF Count
  <1>5. CASE Store(r)
    BY <1>5 DEF Store
  <1>6. CASE Look(r)
    BY <1>6 DEF Look
  <1>7. CASE Recount(r)
    BY <1>7 DEF Recount
  <1>8. CASE Issue(r)
    BY <1>8 DEF Issue
  <1>9. QED
    BY <1>1, <1>2, <1>3, <1>4, <1>5, <1>6, <1>7, <1>8 DEF Resume

\* So do the other steps.
LEMMA OtherTypes ==
  ASSUME TypeOK,
         \/ \E u \in Learners : Enrol(u)
         \/ \E r \in Requests, u \in Learners : AskCertificate(r, u)
         \/ \E r \in Requests, u \in Learners, l \in Lessons, mark \in Marks : StartSave(r, u, l, mark)
         \/ \E l \in Lessons : AddLesson(l) \/ DeleteLesson(l)
         \/ Crash
         \/ UNCHANGED vars
  PROVE  TypeOK'
  <1> USE DEF TypeOK, Job, NewJob, NoJob, Begin, course, tracks, results
  <1>1. ASSUME NEW u \in Learners, Enrol(u) PROVE TypeOK'
    BY <1>1 DEF Enrol
  <1>2. ASSUME NEW r \in Requests, NEW u \in Learners, AskCertificate(r, u) PROVE TypeOK'
    BY <1>2 DEF AskCertificate, Marks, Labels
  <1>3. ASSUME NEW r \in Requests, NEW u \in Learners, NEW l \in Lessons, NEW mark \in Marks,
               StartSave(r, u, l, mark)
        PROVE  TypeOK'
    BY <1>3 DEF StartSave, Labels
  <1>4. ASSUME NEW l \in Lessons, AddLesson(l) PROVE TypeOK'
    BY <1>4 DEF AddLesson
  <1>5. ASSUME NEW l \in Lessons, DeleteLesson(l) PROVE TypeOK'
    BY <1>5 DEF DeleteLesson
  <1>6. CASE Crash
    BY <1>6 DEF Crash, Marks, Labels
  <1>7. CASE UNCHANGED vars
    BY <1>7 DEF vars
  <1>8. QED
    BY <1>1, <1>2, <1>3, <1>4, <1>5, <1>6, <1>7

\* Every step keeps the types, and gives a request at work a learner.
TypedRequests == TypeOK /\ \A r \in Requests : pc[r] # "idle" => job[r].user \in Learners

LEMMA TypeStep ==
  ASSUME TypedRequests, [Next]_vars
  PROVE  TypedRequests'
  <1> USE DEF TypedRequests
  <1>1. ASSUME NEW r \in Requests, Resume(r)
        PROVE  TypedRequests'
    <2>1. TypeOK'
      BY <1>1, RequestTypes DEF Resume, Save, SaveError, List, Count, Store, Look, Recount, Issue
    <2>2. pc[r] # "idle"
      BY <1>1 DEF Resume, Save, SaveError, List, Count, Store, Look, Recount, Issue
    <2>3. \A o \in Requests \ {r} : pc'[o] = pc[o] /\ job'[o] = job[o]
      BY <1>1 DEF TypeOK, Resume, Save, SaveError, List, Count, Store, Look, Recount, Issue,
         Goto, Finish
    <2>4. pc'[r] = "idle" \/ job'[r].user = job[r].user
      <3> USE DEF TypeOK, Job, NewJob, Goto, Finish
      <3>1. CASE Save(r) \/ SaveError(r)
        BY <3>1 DEF Save, SaveError
      <3>2. CASE List(r) \/ Count(r)
        BY <3>2 DEF List, Count, Measured
      <3>3. CASE Store(r)
        BY <3>3 DEF Store
      <3>4. CASE Look(r) \/ Recount(r) \/ Issue(r)
        BY <3>4 DEF Look, Recount, Issue
      <3>5. QED
        BY <1>1, <3>1, <3>2, <3>3, <3>4 DEF Resume
    <2>5. QED
      BY <2>1, <2>2, <2>3, <2>4
  <1>2. CASE ~\E r \in Requests : Resume(r)
    <2>1. TypeOK'
      BY <1>2, OtherTypes DEF Next, Serve
    <2>2. \A r \in Requests : pc'[r] # "idle" => job'[r].user \in Learners
      BY <1>2 DEF Next, Serve, Enrol, AskCertificate, StartSave, AddLesson, DeleteLesson, Crash,
         Begin, NewJob, TypeOK, vars
    <2>3. QED
      BY <2>1, <2>2
  <1>3. QED
    BY <1>1, <1>2

LEMMA TypeInit == Init => TypedRequests
  <1>1. SUFFICES ASSUME Init PROVE TypedRequests
    OBVIOUS
  <1>2. /\ lessons \in SUBSET Lessons /\ shapes \in SUBSET SUBSET Lessons
        /\ progress \in [Learners -> 0..100]
    BY <1>1 DEF Init
  <1>3. NoJob \in Job
    BY DEF NoJob, NewJob, Job, Marks
  <1>4. pc \in [Requests -> Labels] /\ job \in [Requests -> Job]
    BY <1>1, <1>3 DEF Init, Labels
  <1>5. QED
    BY <1>1, <1>2, <1>4 DEF Init, TypedRequests, TypeOK

\* What the tables and the requests hold; every percentage is between 0 and 100.
THEOREM LearningTypes == Spec => []TypeOK
  <1>1. TypedRequests => TypeOK
    BY DEF TypedRequests
  <1>2. QED
    BY <1>1, TypeInit, TypeStep, PTL DEF Spec

(***************************************************************************)
(* Certificates                                                            *)
(***************************************************************************)

\* What a learner has earned is never lost again.
LEMMA EarnedStays ==
  ASSUME NEW u, Earned(u), enrolled \subseteq enrolled', shapes \subseteq shapes',
         everDone \subseteq everDone'
  PROVE  Earned(u)'
  BY DEF Earned, EverDone

\* The histories and the enrolments only grow.
LEMMA HistoriesGrow ==
  ASSUME [Next]_vars
  PROVE  enrolled \subseteq enrolled' /\ shapes \subseteq shapes' /\ everDone \subseteq everDone'
  BY DEF Next, Serve, Resume, Enrol, Save, SaveError, List, Count, Store, Look, Recount, Issue,
     AskCertificate, StartSave, AddLesson, DeleteLesson, Crash, vars, course, tracks, results

\* The lessons are always one of the shapes, and what is done was done.
LEMMA ShapesStep ==
  ASSUME LearnInv, [Next]_vars
  PROVE  lessons' \in shapes' /\ done' \subseteq everDone'
  <1> USE DEF LearnInv, course, tracks, results
  <1>1. ASSUME NEW r \in Requests, Resume(r)
        PROVE  lessons' \in shapes' /\ done' \subseteq everDone'
    BY <1>1 DEF Resume, Save, SaveError, List, Count, Store, Look, Recount, Issue
  <1>2. ASSUME NEW l \in Lessons, AddLesson(l) \/ DeleteLesson(l)
        PROVE  lessons' \in shapes' /\ done' \subseteq everDone'
    BY <1>2 DEF AddLesson, DeleteLesson
  <1>3. QED
    BY <1>1, <1>2 DEF Next, Serve, Enrol, AskCertificate, StartSave, Crash, vars

\* Whoever is to be issued a certificate has earned it, in a course of fewer than
\* 200 lessons.
LEMMA LearnStep ==
  ASSUME Cardinality(Lessons) < 200, LearnInv, [Next]_vars
  PROVE  LearnInv'
  <1>1. TypedRequests'
    BY TypeStep DEF LearnInv, TypedRequests
  <1>2. lessons' \in shapes' /\ done' \subseteq everDone'
    BY ShapesStep
  <1>3. enrolled \subseteq enrolled' /\ shapes \subseteq shapes' /\ everDone \subseteq everDone'
    BY HistoriesGrow
  <1>4. ASSUME NEW r \in Requests, Recount(r), pc'[r] = "issue"
        PROVE  Earned(job[r].user)
    <2> DEFINE u == job[r].user
    <2>1. u \in enrolled /\ Percent(u, job[r].read) >= 100 /\ job[r].read \in shapes
      BY <1>4 DEF Recount, LearnInv, TypeOK, Finish
    <2>2. job[r].read \in SUBSET Lessons
      BY DEF LearnInv, TypeOK, Job
    <2>3. job[r].read # {} /\ \A l \in job[r].read : <<u, l>> \in done
      BY <2>1, <2>2, FullIsComplete
    <2>4. job[r].read \subseteq EverDone(u)
      BY <2>2, <2>3 DEF EverDone, LearnInv
    <2>5. QED
      BY <2>1, <2>3, <2>4 DEF Earned
  <1>5. ASSUME NEW r \in Requests, pc'[r] = "issue", NEW u, u = job'[r].user
        PROVE  Earned(u)'
    <2>1. CASE Recount(r)
      <3>1. job'[r].user = job[r].user
        BY <1>5, <2>1 DEF Recount, Goto, Finish, NewJob, LearnInv, TypeOK
      <3>2. Earned(u)
        BY <1>5, <2>1, <3>1, <1>4
      <3>3. QED
        BY <3>2, <1>3, EarnedStays
    <2>2. CASE ~Recount(r)
      <3>1. pc[r] = "issue" /\ job'[r].user = job[r].user
        BY <1>5, <2>2 DEF Next, Serve, Resume, Enrol, Save, SaveError, List, Count, Store, Look,
           Recount, Issue, AskCertificate, StartSave, AddLesson, DeleteLesson, Crash, vars,
           Begin, Goto, Finish, LearnInv, TypeOK
      <3>2. Earned(u)
        BY <1>5, <3>1 DEF LearnInv
      <3>3. QED
        BY <3>2, <1>3, EarnedStays
    <2>3. QED
      BY <2>1, <2>2
  <1>6. ASSUME NEW r \in Requests
        PROVE  pc'[r] = "recount" => job'[r].read \in shapes'
    BY <1>3 DEF Next, Serve, Resume, Enrol, Save, SaveError, List, Count, Store, Look, Recount,
       Issue, AskCertificate, StartSave, AddLesson, DeleteLesson, Crash, vars, course,
       Begin, Goto, Finish, LearnInv, TypeOK, Job
  <1>7. CertificateWasEarned'
    <2>1. \A u \in certs : Earned(u)
      BY DEF LearnInv, CertificateWasEarned, Earned
    <2>2. \A u \in certs' : u \in certs \/ Earned(u)
      BY DEF Next, Serve, Resume, Enrol, Save, SaveError, List, Count, Store, Look, Recount,
         Issue, AskCertificate, StartSave, AddLesson, DeleteLesson, Crash, vars, results, LearnInv
    <2>3. \A u \in certs' : Earned(u)'
      BY <2>1, <2>2, <1>3, EarnedStays
    <2>4. QED
      BY <2>3 DEF CertificateWasEarned, Earned
  <1>8. \A r \in Requests : pc'[r] = "issue" => Earned(job[r].user)'
    BY <1>5 DEF Earned, EverDone
  <1>9. QED
    BY <1>1, <1>2, <1>6, <1>7, <1>8 DEF LearnInv, TypedRequests

\* In a course of fewer than 200 lessons, a certificate goes only to an enrolled
\* learner who has completed every lesson of the course as it stood at one time.
\* From 200 lessons on, 99.5 percent rounds to 100 and the claim is false.
THEOREM CertificatesAreEarned ==
  ASSUME Cardinality(Lessons) < 200
  PROVE  Spec => []CertificateWasEarned
  <1>1. Init => LearnInv
    BY TypeInit DEF Init, LearnInv, TypedRequests, CertificateWasEarned
  <1>2. LearnInv /\ [Next]_vars => LearnInv'
    BY LearnStep
  <1>3. LearnInv => CertificateWasEarned
    BY DEF LearnInv
  <1>4. QED
    BY <1>1, <1>2, <1>3, PTL DEF Spec

(***************************************************************************)
(* The course itself                                                       *)
(***************************************************************************)

CBody == [n : Prices \cup Stars \cup Course!Totals \cup {0}, m : Promos \cup Course!Counts \cup {0, 1},
          name : Lists \cup {"none", "free", "paid", "PUBLISHED", "REJECTED"}]
CReq == [pc : Course!Pcs, op : Course!Operations \cup {"none"}, who : Course!People \cup {"none", "late"}, x : CBody]
COffer == [status : Course!Statuses, price : Prices \cup {0}, promo : Promos \cup {0},
           author : Creators \cup {"admin", "none"}, featured : BOOLEAN,
           sum : Course!Totals \cup {0}, count : Course!Counts \cup {0}]

\* What holds of a request by itself.
Fit(y) ==
  /\ y.op = "enrol" => y.who \in Learners
  /\ y.op = "rate" /\ y.pc \in {"find", "store"} => y.who \in Learners /\ y.x.n \in Stars
  /\ y.pc = "show" /\ y.op = "rate" => y.x.n \in Course!Totals /\ y.x.m \in Course!Counts
  /\ y.op = "create" => y.who \in Creators \cup {"admin"} /\ y.x.n \in Prices
  /\ y.op = "update" => y.x.n \in Prices /\ y.x.m \in Promos
  /\ y.op = "promo" => y.x.m \in Promos
  /\ y.op = "review" => y.x.name \in {"PUBLISHED", "REJECTED"}
  /\ y.op = "lesson" => y.x.name \in Lists

Saves(y)    == y.pc = "fill" /\ y.op = "lesson"
Welcomes(y) == y.pc = "welcome" /\ y.op = "enrol"
Shows(y)    == y.pc = "show" /\ y.op = "rate"
Rates(y)    == y.pc \in {"average", "show"} /\ y.op = "rate"
Waits(y)    == y.op = "enrol" /\ (y.pc = "seat" \/ (y.pc = "find" /\ y.x.name = "paid"))

\* A request that is none.
LEMMA IdleIs ==
  /\ Course!Idle \in CReq /\ Course!Idle.pc = "idle" /\ Course!Idle.op = "none" /\ Fit(Course!Idle)
  /\ ~Saves(Course!Idle) /\ ~Welcomes(Course!Idle) /\ ~Rates(Course!Idle) /\ ~Shows(Course!Idle) /\ ~Waits(Course!Idle)
  <1>1. /\ Course!Idle \in CReq /\ Course!Idle.pc = "idle" /\ Course!Idle.op = "none"
    BY DEF Course!Idle, CReq, CBody, Course!Pcs
  <1>2. QED
    BY <1>1 DEF Fit, Saves, Welcomes, Rates, Shows, Waits

\* A request that only gets further.
LEMMA ReqGoes ==
  ASSUME NEW y \in CReq, NEW at \in Course!Pcs
  PROVE  LET z == [y EXCEPT !.pc = at]
         IN  z \in CReq /\ z.pc = at /\ z.op = y.op /\ z.who = y.who /\ z.x = y.x
  BY DEF CReq

LEMMA CoursePcs ==
  Course!Pcs = {"idle", "find", "write", "fill", "seat", "welcome", "store", "average", "show"}
  BY DEF Course!Pcs

\* The parts of the invariant, as the steps are about them.
IsOpen == offer.status \notin {"none", "gone"}

CTyped ==
  /\ offer \in COffer /\ seats \subseteq Learners /\ offered \subseteq Learners
  /\ stars \in [Learners -> Stars \cup {0}] /\ resources \in [Lists -> Nat]
  /\ req \in [Requests -> CReq] /\ \A r \in Requests : Fit(req[r])
  /\ welcomed \in [Learners -> Nat] /\ mixed \in BOOLEAN /\ overtaken \in BOOLEAN

CSeated ==
  /\ seats \subseteq offered
  /\ \A r \in Requests : Waits(req[r]) => req[r].who \in offered
  /\ \A r \in Requests : Welcomes(req[r]) => welcomed[req[r].who] = 0
  /\ \A r, q \in Requests : Welcomes(req[r]) /\ Welcomes(req[q]) /\ req[r].who = req[q].who => r = q
  /\ \A u \in Learners : welcomed[u] <= 1
  /\ \A u \in Learners : welcomed[u] = 1 => u \in seats \/ offer.status = "gone"
  /\ \A r \in Requests : Welcomes(req[r]) => req[r].who \in seats \/ offer.status = "gone"

CUnborn ==
  offer.status = "none" =>
      /\ offer = Course!NoCourse /\ resources = Course!Empty /\ last = "none"
      /\ stars = [u \in Learners |-> 0] /\ \A r \in Requests : req[r].op \in {"none", "create"}

LastSaved == [l \in Lists |-> IF l = last /\ l # None THEN 1 ELSE 0]

CStored ==
  IsOpen =>
      \/ mixed
      \/ /\ \A r, q \in Requests : Saves(req[r]) /\ Saves(req[q]) => r = q
         /\ (\E r \in Requests : Saves(req[r])) => resources = Course!Empty
         /\ (\A r \in Requests : ~Saves(req[r])) => resources = LastSaved

CAveraged ==
  IsOpen =>
      /\ \A r \in Requests : Shows(req[r]) /\ req[r].who # "late" => req[r].x = Course!Aggregate
      /\ \/ overtaken \/ \E r \in Requests : Rates(req[r])
         \/ Course!Body(offer.sum, offer.count, "none") = Course!Aggregate

LEMMA CourseIs == Course!InstituteInv <=> CTyped /\ CSeated /\ CUnborn /\ CStored /\ CAveraged
  <1>1. Course!TypeOK /\ Course!Bodied <=> CTyped
    <2>1. Course!Bodied <=> \A r \in Requests : Fit(req[r])
      BY DEF Course!Bodied, Fit, Course!At
    <2>2. QED
      BY <2>1, Zenon DEF Course!TypeOK, CTyped, COffer, CReq, CBody
  <1>2. CTyped => (Course!Seated <=> CSeated)
    BY DEF Course!Seated, CSeated, Course!At, Waits, Welcomes, CTyped, Fit
  <1>3. Course!Unborn <=> CUnborn
    BY DEF Course!Unborn, CUnborn
  <1>4. Course!Stored <=> CStored
    BY DEF Course!Stored, CStored, Course!Saving, Course!At, Saves, Course!Exists, IsOpen, LastSaved
  <1>5. Course!Averaged <=> CAveraged
    BY DEF Course!Averaged, CAveraged, Course!At, Shows, Rates, Course!Exists, IsOpen
  <1>6. QED
    BY <1>1, <1>2, <1>3, <1>4, <1>5 DEF Course!InstituteInv

\* The same of the state a step leads to.
LEMMA CourseThen == Course!InstituteInv' <=> CTyped' /\ CSeated' /\ CUnborn' /\ CStored' /\ CAveraged'
  BY CourseIs, PTL

\* What is counted depends on the ratings alone.
LEMMA SameAggregate ==
  ASSUME stars' = stars
  PROVE  Course!Aggregate' = Course!Aggregate
  BY DEF Course!Aggregate, Course!Raters
\* Nothing is counted when nobody has rated.
LEMMA NoneRated ==
  ASSUME stars = [u \in Learners |-> 0]
  PROVE  Course!Aggregate = Course!Body(0, 0, "none")
  <1>1. {u \in Learners : stars[u] > 0} = {}
    OBVIOUS
  <1>2. Course!Total(stars) = 0
    BY <1>1 DEF Course!Total, Course!MapThenSumSet, Course!MapThenFoldSet
  <1>3. Course!Cardinality(Course!Raters) = 0
    <2>1. Course!Cardinality({}) = Cardinality({})
      BY Zenon DEF Course!Cardinality, Cardinality, Course!IsFiniteSet, IsFiniteSet
    <2>2. QED
      BY <1>1, <2>1, FS_EmptySet DEF Course!Raters
  <1>4. QED
    BY <1>2, <1>3 DEF Course!Aggregate

\* A request that changes nothing of the course, its seats, lists and ratings.
LEMMA CourseQuiet ==
  ASSUME Course!InstituteInv, NEW r \in Requests, NEW y \in CReq, Fit(y), req' = [req EXCEPT ![r] = y],
         offer' = offer, seats' = seats, stars' = stars, resources' = resources, welcomed' = welcomed, last' = last,
         offered' \subseteq Learners, offered \subseteq offered',
         mixed' \in BOOLEAN, mixed => mixed', overtaken' \in BOOLEAN, overtaken => overtaken',
         Waits(y) => y.who \in offered', ~Welcomes(y), ~Saves(y),
         Saves(req[r]) => mixed',
         Rates(req[r]) => Rates(y) \/ overtaken',
         Shows(y) => y.x = Course!Aggregate,
         offer.status = "none" => y.op \in {"none", "create"}
  PROVE  Course!InstituteInv'
  <1>1. CTyped /\ CSeated /\ CUnborn /\ CStored /\ CAveraged
    BY CourseIs
  <1>2. /\ req \in [Requests -> CReq] /\ req' \in [Requests -> CReq]
        /\ req'[r] = y /\ \A q \in Requests \ {r} : req'[q] = req[q]
    BY <1>1 DEF CTyped
  <1>3. CTyped'
    BY <1>1, <1>2 DEF CTyped
  <1>4. CSeated'
    BY <1>1, <1>2 DEF CSeated
  <1>5. CUnborn'
    BY <1>1, <1>2 DEF CUnborn, Course!Empty
  <1>6. CStored'
    <2>1. CASE mixed'
      BY <2>1 DEF CStored
    <2>2. CASE ~mixed'
      <3>1. \A q \in Requests : Saves(req'[q]) <=> Saves(req[q])
        BY <1>2, <2>2
      <3>2. ~mixed /\ (Course!Empty)' = Course!Empty /\ LastSaved' = LastSaved
        BY <2>2 DEF Course!Empty, LastSaved
      <3>3. QED
        BY <1>1, <3>1, <3>2 DEF CStored, IsOpen
    <2>3. QED
      BY <2>1, <2>2
  <1>7. CAveraged'
    <2>1. Course!Aggregate' = Course!Aggregate
      BY SameAggregate
    <2>2. \A q \in Requests : Shows(req'[q]) /\ req'[q].who # "late" => q = r \/ (Shows(req[q]) /\ req'[q] = req[q])
      BY <1>2
    <2>3. (\E q \in Requests : Rates(req[q])) => overtaken' \/ \E q \in Requests : Rates(req'[q])
      BY <1>2
    <2>4. QED
      BY <1>1, <1>2, <2>1, <2>2, <2>3 DEF CAveraged, IsOpen, Course!Body
  <1>8. QED
    BY <1>3, <1>4, <1>5, <1>6, <1>7, CourseThen

\* The request is over, and the course is another, open as before.
LEMMA CourseWritten ==
  ASSUME Course!InstituteInv, NEW r \in Requests, Course!End(r), ~Saves(req[r]), ~Rates(req[r]),
         offer' \in COffer, offer'.status \notin {"none", "gone"},
         \/ IsOpen /\ offer'.sum = offer.sum /\ offer'.count = offer.count
         \/ offer.status = "none" /\ offer'.sum = 0 /\ offer'.count = 0,
         seats' = seats, stars' = stars, resources' = resources, offered' = offered, welcomed' = welcomed,
         last' = last, mixed' = mixed, overtaken' = overtaken
  PROVE  Course!InstituteInv'
  <1>1. CTyped /\ CSeated /\ CUnborn /\ CStored /\ CAveraged
    BY CourseIs
  <1>2. /\ req \in [Requests -> CReq] /\ req' \in [Requests -> CReq]
        /\ req'[r] = Course!Idle /\ \A q \in Requests \ {r} : req'[q] = req[q]
    BY <1>1, IdleIs DEF CTyped, Course!End
  <1>3. CTyped'
    BY <1>1, <1>2, IdleIs DEF CTyped
  <1>4. CSeated'
    <2>1. offer.status # "gone" /\ offer'.status # "gone"
      BY DEF IsOpen
    <2>2. QED
      BY <1>1, <1>2, <2>1, IdleIs DEF CSeated
  <1>5. CUnborn'
    BY DEF CUnborn
  <1>6. /\ \A q \in Requests : Saves(req'[q]) <=> Saves(req[q])
        /\ \A q \in Requests : Rates(req'[q]) <=> Rates(req[q])
        /\ \A q \in Requests : Shows(req'[q]) => Shows(req[q]) /\ req'[q] = req[q]
    BY <1>2, IdleIs DEF Shows, Rates
  <1>7. Course!Aggregate' = Course!Aggregate /\ (Course!Empty)' = Course!Empty /\ LastSaved' = LastSaved
    BY SameAggregate DEF Course!Empty, LastSaved
  <1>8. CASE IsOpen /\ offer'.sum = offer.sum /\ offer'.count = offer.count
    <2>1. CStored'
      BY <1>1, <1>6, <1>7, <1>8 DEF CStored
    <2>2. CAveraged'
      BY <1>1, <1>6, <1>7, <1>8 DEF CAveraged, Course!Body
    <2>3. QED
      BY <1>3, <1>4, <1>5, <2>1, <2>2, CourseThen
  <1>9. CASE offer.status = "none" /\ offer'.sum = 0 /\ offer'.count = 0
    <2>1. /\ resources = Course!Empty /\ last = "none" /\ stars = [u \in Learners |-> 0]
          /\ \A q \in Requests : req[q].op \in {"none", "create"}
      BY <1>1, <1>9 DEF CUnborn
    <2>2. \A q \in Requests : ~Saves(req'[q]) /\ ~Shows(req'[q])
      BY <1>2, <2>1, IdleIs DEF Saves, Shows
    <2>3. LastSaved = Course!Empty
      BY <2>1, NamesAssumption DEF LastSaved, Course!Empty
    <2>4. CStored'
      BY <1>7, <2>1, <2>2, <2>3 DEF CStored
    <2>5. CAveraged'
      BY <1>7, <1>9, <2>1, <2>2, NoneRated DEF CAveraged, Course!Body
    <2>6. QED
      BY <1>3, <1>4, <1>5, <2>4, <2>5, CourseThen
  <1>10. QED
    BY <1>8, <1>9

\* The course goes, and the rows that name it.
LEMMA DeleteKept ==
  ASSUME Course!InstituteInv, NEW r \in Requests, Course!deleteCourse(r)
  PROVE  Course!InstituteInv'
  <1>1. CTyped /\ CSeated
    BY CourseIs
  <1>2. /\ offer' = [offer EXCEPT !.status = "gone"] /\ seats' = {} /\ stars' = [u \in Learners |-> 0]
        /\ resources' = Course!Empty /\ Course!End(r)
        /\ offered' = offered /\ welcomed' = welcomed /\ last' = last /\ mixed' = mixed /\ overtaken' = overtaken
    BY DEF Course!deleteCourse, Course!ghosts
  <1>3. /\ req \in [Requests -> CReq] /\ req' \in [Requests -> CReq]
        /\ req'[r] = Course!Idle /\ \A q \in Requests \ {r} : req'[q] = req[q]
    BY <1>1, <1>2, IdleIs DEF CTyped, Course!End
  <1>4. offer' \in COffer /\ offer'.status = "gone"
    BY <1>1, <1>2 DEF CTyped, COffer, Course!Statuses
  <1>5. CTyped'
    BY <1>1, <1>2, <1>3, <1>4, IdleIs DEF CTyped, Course!Empty
  <1>6. CSeated'
    BY <1>1, <1>2, <1>3, <1>4, IdleIs DEF CSeated
  <1>7. CUnborn' /\ CStored' /\ CAveraged'
    BY <1>4 DEF CUnborn, CStored, CAveraged, IsOpen
  <1>8. QED
    BY <1>5, <1>6, <1>7, CourseThen

\* The course is created, edited, submitted, reviewed or featured.
LEMMA WritesKept ==
  ASSUME Course!InstituteInv, NEW r \in Requests,
         \/ Course!createCourse(r) \/ Course!updateCourse(r) \/ Course!createPromotion(r)
         \/ Course!submitForReview(r) \/ Course!reviewCourse(r) \/ Course!setFeatured(r)
  PROVE  Course!InstituteInv'
  <1>1. CTyped /\ CUnborn
    BY CourseIs
  <1>2. offer \in COffer /\ req[r] \in CReq /\ Fit(req[r])
    BY <1>1 DEF CTyped
  <1>3. /\ seats' = seats /\ stars' = stars /\ resources' = resources /\ offered' = offered /\ welcomed' = welcomed
        /\ last' = last /\ mixed' = mixed /\ overtaken' = overtaken /\ Course!End(r)
        /\ req[r].op \in {"create", "update", "promo", "submit", "review", "feature"}
    BY DEF Course!createCourse, Course!updateCourse, Course!createPromotion, Course!submitForReview,
        Course!reviewCourse, Course!setFeatured, Course!Write, Course!At, Course!ghosts
  <1>4. ~Saves(req[r]) /\ ~Rates(req[r])
    BY <1>3 DEF Saves, Rates
  <1>5. CASE Course!createCourse(r)
    <2>1. PICK st \in {"PUBLISHED", "DRAFT"} :
              offer' = [Course!NoCourse EXCEPT !.price = req[r].x.n, !.author = req[r].who, !.status = st]
      BY <1>5 DEF Course!createCourse
    <2>2. Course!NoCourse \in COffer /\ Course!NoCourse.sum = 0 /\ Course!NoCourse.count = 0
      BY DEF COffer, Course!NoCourse, Course!Statuses
    <2>3. req[r].x.n \in Prices /\ req[r].who \in Creators \cup {"admin"} /\ offer.status = "none"
      BY <1>2, <1>5 DEF Fit, Course!createCourse, Course!At
    <2>4. offer' \in COffer /\ offer'.status = st /\ offer'.sum = 0 /\ offer'.count = 0
      BY <2>1, <2>2, <2>3 DEF COffer, Course!Statuses
    <2>5. QED
      BY <1>3, <1>4, <2>3, <2>4, CourseWritten
  <1>6. CASE Course!updateCourse(r) \/ Course!createPromotion(r) \/ Course!submitForReview(r)
             \/ Course!reviewCourse(r) \/ Course!setFeatured(r)
    <2>1. IsOpen
      BY <1>6 DEF Course!updateCourse, Course!createPromotion, Course!submitForReview, Course!reviewCourse,
          Course!setFeatured, Course!Write, Course!Exists, IsOpen
    <2>2. \/ offer' = [offer EXCEPT !.price = req[r].x.n, !.promo = req[r].x.m] /\ req[r].op = "update"
          \/ offer' = [offer EXCEPT !.promo = req[r].x.m] /\ req[r].op = "promo"
          \/ offer' = [offer EXCEPT !.status = "PENDING_REVIEW"]
          \/ offer' = [offer EXCEPT !.status = req[r].x.name] /\ req[r].op = "review"
          \/ \E b \in BOOLEAN : offer' = [offer EXCEPT !.featured = b]
      BY <1>6 DEF Course!updateCourse, Course!createPromotion, Course!submitForReview, Course!reviewCourse,
          Course!setFeatured, Course!Write, Course!At
    <2>3. offer' \in COffer /\ offer'.status \notin {"none", "gone"} /\ offer'.sum = offer.sum /\ offer'.count = offer.count
      BY <1>2, <2>1, <2>2 DEF COffer, Course!Statuses, Fit, IsOpen
    <2>4. QED
      BY <1>3, <1>4, <2>1, <2>3, CourseWritten
  <1>7. QED
    BY <1>5, <1>6

\* A request is made, finds what it needs or not, computes an average, or fails.
LEMMA FindsKept ==
  ASSUME Course!InstituteInv, NEW r \in Requests,
         \/ Course!FindManaged(r) \/ Course!FindOffer(r) \/ Course!FindSeat(r) \/ Course!AverageStars(r) \/ Course!Fail(r)
         \/ \E op \in Course!Operations, who \in Course!People : \E x \in Course!Bodies(op) : Course!Handle(r, op, who, x)
  PROVE  Course!InstituteInv'
  <1>1. CTyped /\ CSeated /\ CUnborn
    BY CourseIs
  <1>2. req[r] \in CReq /\ Fit(req[r]) /\ offered \subseteq Learners /\ mixed \in BOOLEAN /\ overtaken \in BOOLEAN
        /\ (Waits(req[r]) => req[r].who \in offered) /\ stars \in [Learners -> Stars \cup {0}]
    BY <1>1 DEF CTyped, CSeated
  <1>3. /\ offer' = offer /\ seats' = seats /\ stars' = stars /\ resources' = resources /\ welcomed' = welcomed
        /\ last' = last
    BY DEF Course!FindManaged, Course!FindOffer, Course!FindSeat, Course!AverageStars, Course!Fail, Course!Handle,
        Course!tables, Course!ghosts
  <1>4. offer.status = "none" => req[r].op \in {"none", "create"}
    BY <1>1 DEF CUnborn
  <1>5. CASE Course!FindManaged(r)
    <2>1. /\ offered' = offered /\ mixed' = mixed /\ overtaken' = overtaken
          /\ req[r].pc = "find" /\ req[r].op \in Course!Teaching \ {"create"}
          /\ Course!Goto(r, "write") \/ Course!End(r)
      BY <1>5 DEF Course!FindManaged, Course!ghosts
    <2>2. ~Saves(req[r]) /\ ~Rates(req[r]) /\ req[r].op \notin {"enrol", "rate"}
      BY <2>1 DEF Saves, Rates, Course!Teaching
    <2>3. CASE Course!End(r)
      BY <1>2, <1>3, <2>1, <2>2, <2>3, IdleIs, CourseQuiet DEF Course!End
    <2>4. CASE Course!Goto(r, "write")
      <3> DEFINE y == [req[r] EXCEPT !.pc = "write"]
      <3>1. req' = [req EXCEPT ![r] = y]
        BY <2>4 DEF Course!Goto
      <3>2. y \in CReq /\ y.pc = "write" /\ y.op = req[r].op /\ y.who = req[r].who /\ y.x = req[r].x
        <4>1. "write" \in Course!Pcs
          BY CoursePcs
        <4>2. QED
          BY <1>2, <4>1, ReqGoes
      <3> HIDE DEF y
      <3>3. Fit(y) /\ ~Waits(y) /\ ~Welcomes(y) /\ ~Saves(y) /\ ~Shows(y)
        BY <1>2, <2>2, <3>2 DEF Fit, Waits, Welcomes, Saves, Shows
      <3>4. QED
        BY <1>2, <1>3, <1>4, <2>1, <2>2, <3>1, <3>2, <3>3, CourseQuiet
    <2>5. QED
      BY <2>1, <2>3, <2>4
  <1>6. CASE Course!FindOffer(r)
    <2>1. /\ mixed' = mixed /\ overtaken' = overtaken /\ req[r].pc = "find" /\ req[r].op = "enrol"
          /\ offered' = IF offer.status = "PUBLISHED" /\ Course!effectivePrice = 0 THEN offered \cup {req[r].who} ELSE offered
          /\ \/ Course!End(r)
             \/ /\ Course!Goto(r, "seat") /\ offer.status = "PUBLISHED"
                /\ req[r].x.name = "paid" \/ Course!effectivePrice = 0
      BY <1>6 DEF Course!FindOffer, Course!At
    <2>2. ~Saves(req[r]) /\ ~Rates(req[r]) /\ req[r].who \in Learners
      BY <1>2, <2>1 DEF Saves, Rates, Fit
    <2>3. offered' \subseteq Learners /\ offered \subseteq offered'
      BY <1>2, <2>1, <2>2
    <2>4. CASE Course!End(r)
      BY <1>2, <1>3, <2>1, <2>2, <2>3, <2>4, IdleIs, CourseQuiet DEF Course!End
    <2>5. CASE /\ Course!Goto(r, "seat") /\ offer.status = "PUBLISHED"
               /\ req[r].x.name = "paid" \/ Course!effectivePrice = 0
      <3> DEFINE y == [req[r] EXCEPT !.pc = "seat"]
      <3>1. req' = [req EXCEPT ![r] = y]
        BY <2>5 DEF Course!Goto
      <3>2. y \in CReq /\ y.pc = "seat" /\ y.op = "enrol" /\ y.who = req[r].who /\ y.x = req[r].x
        <4>1. "seat" \in Course!Pcs
          BY CoursePcs
        <4>2. QED
          BY <1>2, <2>1, <4>1, ReqGoes
      <3> HIDE DEF y
      <3>3. Fit(y) /\ ~Welcomes(y) /\ ~Saves(y) /\ ~Shows(y)
        BY <1>2, <2>2, <3>2 DEF Fit, Welcomes, Saves, Shows
      <3>4. y.who \in offered'
        BY <1>2, <2>1, <2>3, <2>5, <3>2 DEF Waits
      <3>5. QED
        BY <1>2, <1>3, <2>1, <2>2, <2>3, <2>5, <3>1, <3>2, <3>3, <3>4, CourseQuiet
    <2>6. QED
      BY <2>1, <2>4, <2>5
  <1>7. CASE Course!FindSeat(r)
    <2>1. /\ offered' = offered /\ mixed' = mixed /\ overtaken' = overtaken
          /\ req[r].pc = "find" /\ req[r].op = "rate"
          /\ Course!Goto(r, "store") \/ Course!End(r)
      BY <1>7 DEF Course!FindSeat, Course!At, Course!ghosts
    <2>2. ~Saves(req[r]) /\ ~Rates(req[r])
      BY <2>1 DEF Saves, Rates
    <2>3. CASE Course!End(r)
      BY <1>2, <1>3, <2>1, <2>2, <2>3, IdleIs, CourseQuiet DEF Course!End
    <2>4. CASE Course!Goto(r, "store")
      <3> DEFINE y == [req[r] EXCEPT !.pc = "store"]
      <3>1. req' = [req EXCEPT ![r] = y]
        BY <2>4 DEF Course!Goto
      <3>2. y \in CReq /\ y.pc = "store" /\ y.op = "rate" /\ y.who = req[r].who /\ y.x = req[r].x
        <4>1. "store" \in Course!Pcs
          BY CoursePcs
        <4>2. QED
          BY <1>2, <2>1, <4>1, ReqGoes
      <3> HIDE DEF y
      <3>3. Fit(y) /\ ~Waits(y) /\ ~Welcomes(y) /\ ~Saves(y) /\ ~Shows(y)
        BY <1>2, <2>1, <3>2 DEF Fit, Waits, Welcomes, Saves, Shows
      <3>4. QED
        BY <1>2, <1>3, <1>4, <2>1, <2>2, <3>1, <3>2, <3>3, CourseQuiet
    <2>5. QED
      BY <2>1, <2>3, <2>4
  <1>8. CASE Course!AverageStars(r)
    <2> DEFINE y == [req[r] EXCEPT !.pc = "show", !.x = Course!Aggregate]
    <2>1. /\ offered' = offered /\ mixed' = mixed /\ overtaken' = overtaken
          /\ req[r].pc = "average" /\ req[r].op = "rate" /\ req' = [req EXCEPT ![r] = y]
      BY <1>8 DEF Course!AverageStars, Course!At, Course!ghosts
    <2>2. Course!Aggregate \in CBody /\ Course!Aggregate.n \in Course!Totals /\ Course!Aggregate.m \in Course!Counts
      <3>1. Course!Total(stars) \in Course!Totals
        BY <1>2 DEF Course!Totals
      <3>2. Course!Cardinality(Course!Raters) \in Course!Counts
        BY DEF Course!Counts, Course!Raters
      <3>3. QED
        BY <3>1, <3>2 DEF Course!Aggregate, Course!Body, CBody
    <2>3. "show" \in Course!Pcs
      BY CoursePcs
    <2>4. y \in CReq /\ y.pc = "show" /\ y.op = "rate" /\ y.who = req[r].who /\ y.x = Course!Aggregate
      BY <1>2, <2>1, <2>2, <2>3 DEF CReq
    <2> HIDE DEF y
    <2>5. Fit(y) /\ ~Waits(y) /\ ~Welcomes(y) /\ ~Saves(y) /\ Rates(y) /\ ~Saves(req[r])
      BY <2>1, <2>2, <2>4 DEF Fit, Waits, Welcomes, Saves, Rates
    <2>6. QED
      BY <1>2, <1>3, <1>4, <2>1, <2>4, <2>5, CourseQuiet
  <1>9. CASE Course!Fail(r)
    <2>1. /\ offered' = offered /\ mixed' = (mixed \/ Course!Saving(r))
          /\ overtaken' = (overtaken \/ (req[r].op = "rate" /\ req[r].pc \in {"average", "show"}))
          /\ Course!End(r)
      BY <1>9 DEF Course!Fail
    <2>2. (Saves(req[r]) => mixed') /\ (Rates(req[r]) => overtaken')
      BY <2>1 DEF Saves, Rates, Course!Saving, Course!At
    <2>3. mixed' \in BOOLEAN /\ overtaken' \in BOOLEAN /\ (mixed => mixed') /\ (overtaken => overtaken')
      BY <1>2, <2>1 DEF Course!Saving, Course!At
    <2>4. QED
      BY <1>2, <1>3, <2>1, <2>2, <2>3, IdleIs, CourseQuiet DEF Course!End
  <1>10. CASE \E op \in Course!Operations, who \in Course!People : \E x \in Course!Bodies(op) : Course!Handle(r, op, who, x)
    <2>1. PICK op \in Course!Operations, who \in Course!People : \E x \in Course!Bodies(op) : Course!Handle(r, op, who, x)
      BY <1>10
    <2>2. PICK x \in Course!Bodies(op) : Course!Handle(r, op, who, x)
      BY <2>1
    <2> DEFINE y == [pc |-> "find", op |-> op, who |-> who, x |-> x]
    <2>3. /\ req[r].pc = "idle" /\ Course!Allowed(op, who) /\ req' = [req EXCEPT ![r] = y]
          /\ op # "create" => IsOpen
          /\ offered' = IF op = "enrol" /\ x.name = "paid" THEN offered \cup {who} ELSE offered
          /\ mixed' = mixed /\ overtaken' = overtaken
      BY <2>2 DEF Course!Handle, Course!Exists, IsOpen
    <2>4. /\ x \in CBody
          /\ op \in {"create", "update"} => x.n \in Prices
          /\ op \in {"update", "promo"} => x.m \in Promos
          /\ op = "review" => x.name \in {"PUBLISHED", "REJECTED"}
          /\ op = "lesson" => x.name \in Lists
          /\ op = "rate" => x.n \in Stars
      BY <2>2 DEF Course!Bodies, Course!Body, CBody
    <2>5. /\ op \in {"enrol", "rate"} => who \in Learners
          /\ op = "create" => who \in Creators \cup {"admin"}
      BY <2>3 DEF Course!Allowed, Course!Teaching
    <2>6. y \in CReq /\ y.pc = "find" /\ y.op = op /\ y.who = who /\ y.x = x
      <3>1. "find" \in Course!Pcs
        BY CoursePcs
      <3>2. QED
        BY <2>4, <3>1 DEF CReq
    <2> HIDE DEF y
    <2>7. Fit(y) /\ ~Welcomes(y) /\ ~Saves(y) /\ ~Shows(y) /\ (Waits(y) => op = "enrol" /\ x.name = "paid")
      BY <2>4, <2>5, <2>6 DEF Fit, Welcomes, Saves, Shows, Waits
    <2>8. ~Saves(req[r]) /\ ~Rates(req[r])
      BY <2>3 DEF Saves, Rates
    <2>9. offered' \subseteq Learners /\ offered \subseteq offered' /\ (Waits(y) => y.who \in offered')
      BY <1>2, <2>3, <2>5, <2>6, <2>7
    <2>10. offer.status = "none" => y.op \in {"none", "create"}
      BY <2>3, <2>6 DEF IsOpen
    <2>11. QED
      BY <1>2, <1>3, <2>3, <2>6, <2>7, <2>8, <2>9, <2>10, CourseQuiet
  <1>11. QED
    BY <1>5, <1>6, <1>7, <1>8, <1>9, <1>10

\* A seat is taken; its welcome is still to be sent.
LEMMA TakeSeatKept ==
  ASSUME Course!InstituteInv, NEW r \in Requests, Course!TakeSeat(r)
  PROVE  Course!InstituteInv'
  <1>1. CTyped /\ CSeated /\ CUnborn /\ CStored /\ CAveraged
    BY CourseIs
  <1> DEFINE y == [req[r] EXCEPT !.pc = "welcome"]
             who == req[r].who
  <1>2. /\ req[r].pc = "seat" /\ req[r].op = "enrol" /\ IsOpen /\ who \notin seats
        /\ seats' = seats \cup {who} /\ req' = [req EXCEPT ![r] = y]
        /\ offer' = offer /\ stars' = stars /\ resources' = resources /\ offered' = offered /\ welcomed' = welcomed
        /\ last' = last /\ mixed' = mixed /\ overtaken' = overtaken
    BY DEF Course!TakeSeat, Course!At, Course!Goto, Course!Exists, IsOpen, Course!ghosts
  <1>3. /\ req \in [Requests -> CReq] /\ req[r] \in CReq /\ Fit(req[r]) /\ who \in Learners /\ who \in offered
    BY <1>1, <1>2 DEF CTyped, CSeated, Fit, Waits
  <1>4. y \in CReq /\ y.pc = "welcome" /\ y.op = "enrol" /\ y.who = who /\ y.x = req[r].x
    <2>1. "welcome" \in Course!Pcs
      BY CoursePcs
    <2>2. QED
      BY <1>2, <1>3, <2>1, ReqGoes
  <1> HIDE DEF y
  <1>5. req' \in [Requests -> CReq] /\ req'[r] = y /\ \A q \in Requests \ {r} : req'[q] = req[q]
    BY <1>2, <1>3, <1>4
  <1>6. Fit(y) /\ ~Waits(y) /\ ~Saves(y) /\ ~Shows(y) /\ ~Rates(y) /\ ~Saves(req[r]) /\ ~Rates(req[r]) /\ ~Shows(req[r])
    BY <1>2, <1>3, <1>4 DEF Fit, Waits, Saves, Shows, Rates
  <1>7. CTyped'
    BY <1>1, <1>2, <1>3, <1>5, <1>6 DEF CTyped
  <1>8. welcomed[who] = 0 /\ (\A q \in Requests : Welcomes(req[q]) => req[q].who # who)
    <2>1. offer.status # "gone" /\ welcomed[who] \in Nat /\ welcomed[who] <= 1
      BY <1>1, <1>2, <1>3 DEF IsOpen, CTyped, CSeated
    <2>2. welcomed[who] # 1
      BY <1>1, <1>2, <1>3, <2>1 DEF CSeated
    <2>3. QED
      BY <1>1, <1>2, <2>1, <2>2 DEF CSeated
  <1>9. CSeated'
    <2>1. \A q \in Requests : q # r => (Welcomes(req'[q]) <=> Welcomes(req[q])) /\ (Waits(req'[q]) <=> Waits(req[q]))
                                 /\ req'[q].who = req[q].who
      BY <1>5
    <2>2. Waits(req'[r]) = FALSE /\ req'[r].who = who
      BY <1>4, <1>5, <1>6 DEF Waits
    <2>3. seats' \subseteq offered'
      BY <1>1, <1>2, <1>3 DEF CSeated
    <2>4. \A q \in Requests : Waits(req'[q]) => req'[q].who \in offered'
      BY <1>1, <1>2, <2>1, <2>2 DEF CSeated
    <2>5. \A q \in Requests : Welcomes(req'[q]) => welcomed'[req'[q].who] = 0
      BY <1>1, <1>2, <1>8, <2>1, <2>2 DEF CSeated
    <2>6. \A p, q \in Requests : Welcomes(req'[p]) /\ Welcomes(req'[q]) /\ req'[p].who = req'[q].who => p = q
      BY <1>1, <1>8, <2>1, <2>2 DEF CSeated
    <2>7. \A u \in Learners : welcomed'[u] <= 1 /\ (welcomed'[u] = 1 => u \in seats' \/ offer'.status = "gone")
      BY <1>1, <1>2 DEF CSeated
    <2>8. \A q \in Requests : Welcomes(req'[q]) => req'[q].who \in seats' \/ offer'.status = "gone"
      BY <1>1, <1>2, <2>1, <2>2 DEF CSeated
    <2>9. QED
      BY <2>3, <2>4, <2>5, <2>6, <2>7, <2>8 DEF CSeated
  <1>10. CUnborn'
    BY <1>2 DEF CUnborn, IsOpen
  <1>11. CStored'
    <2>1. \A q \in Requests : Saves(req'[q]) <=> Saves(req[q])
      BY <1>5, <1>6
    <2>2. (Course!Empty)' = Course!Empty /\ LastSaved' = LastSaved
      BY <1>2 DEF Course!Empty, LastSaved
    <2>3. QED
      BY <1>1, <1>2, <2>1, <2>2 DEF CStored, IsOpen
  <1>12. CAveraged'
    <2>1. Course!Aggregate' = Course!Aggregate
      BY <1>2, SameAggregate
    <2>2. \A q \in Requests : (Rates(req'[q]) <=> Rates(req[q])) /\ (Shows(req'[q]) => Shows(req[q]) /\ req'[q] = req[q])
      BY <1>5, <1>6
    <2>3. QED
      BY <1>1, <1>2, <2>1, <2>2 DEF CAveraged, IsOpen, Course!Body
  <1>13. QED
    BY <1>7, <1>9, <1>10, <1>11, <1>12, CourseThen

\* The welcome is sent, for the first time.
LEMMA WelcomeKept ==
  ASSUME Course!InstituteInv, NEW r \in Requests, Course!Welcome(r)
  PROVE  Course!InstituteInv'
  <1>1. CTyped /\ CSeated /\ CUnborn /\ CStored /\ CAveraged
    BY CourseIs
  <1> DEFINE who == req[r].who
  <1>2. /\ Welcomes(req[r]) /\ req' = [req EXCEPT ![r] = Course!Idle]
        /\ welcomed' = [welcomed EXCEPT ![who] = @ + 1]
        /\ offer' = offer /\ seats' = seats /\ stars' = stars /\ resources' = resources /\ offered' = offered
        /\ last' = last /\ mixed' = mixed /\ overtaken' = overtaken
    BY DEF Course!Welcome, Course!At, Welcomes, Course!End, Course!tables
  <1>3. /\ req \in [Requests -> CReq] /\ who \in Learners /\ welcomed[who] = 0 /\ welcomed \in [Learners -> Nat]
    BY <1>1, <1>2 DEF CTyped, CSeated, Fit, Welcomes
  <1>4. req' \in [Requests -> CReq] /\ req'[r] = Course!Idle /\ \A q \in Requests \ {r} : req'[q] = req[q]
    BY <1>2, <1>3, IdleIs
  <1>5. /\ welcomed' \in [Learners -> Nat] /\ welcomed'[who] = 1
        /\ \A u \in Learners : u # who => welcomed'[u] = welcomed[u]
    BY <1>2, <1>3
  <1>6. CTyped'
    BY <1>1, <1>2, <1>4, <1>5, IdleIs DEF CTyped
  <1>7. ~Saves(req[r]) /\ ~Rates(req[r]) /\ ~Shows(req[r]) /\ req[r].op = "enrol"
    BY <1>2 DEF Welcomes, Saves, Rates, Shows
  <1>8. CSeated'
    <2>1. \A q \in Requests : Welcomes(req'[q]) => q # r /\ Welcomes(req[q]) /\ req'[q] = req[q] /\ req[q].who # who
      BY <1>1, <1>2, <1>4, IdleIs DEF CSeated
    <2>2. \A q \in Requests : Waits(req'[q]) => Waits(req[q]) /\ req'[q] = req[q]
      BY <1>4, IdleIs
    <2>3. \A q \in Requests : Welcomes(req[q]) => req[q].who \in Learners
      BY <1>1 DEF CTyped, Fit, Welcomes
    <2>4. \A q \in Requests : Welcomes(req'[q]) => welcomed'[req'[q].who] = 0
      BY <1>1, <1>5, <2>1, <2>3 DEF CSeated
    <2>5. \A u \in Learners : welcomed'[u] <= 1 /\ (welcomed'[u] = 1 => u \in seats' \/ offer'.status = "gone")
      BY <1>1, <1>2, <1>5 DEF CSeated
    <2>6. QED
      BY <1>1, <1>2, <2>1, <2>2, <2>4, <2>5 DEF CSeated
  <1>9. CUnborn'
    <2>1. offer.status # "none"
      BY <1>1, <1>7 DEF CUnborn
    <2>2. QED
      BY <1>2, <2>1 DEF CUnborn
  <1>10. CStored'
    <2>1. \A q \in Requests : Saves(req'[q]) <=> Saves(req[q])
      BY <1>4, <1>7, IdleIs
    <2>2. (Course!Empty)' = Course!Empty /\ LastSaved' = LastSaved
      BY <1>2 DEF Course!Empty, LastSaved
    <2>3. QED
      BY <1>1, <1>2, <2>1, <2>2 DEF CStored, IsOpen
  <1>11. CAveraged'
    <2>1. Course!Aggregate' = Course!Aggregate
      BY <1>2, SameAggregate
    <2>2. \A q \in Requests : (Rates(req'[q]) <=> Rates(req[q])) /\ (Shows(req'[q]) => Shows(req[q]) /\ req'[q] = req[q])
      BY <1>4, <1>7, IdleIs
    <2>3. QED
      BY <1>1, <1>2, <2>1, <2>2 DEF CAveraged, IsOpen, Course!Body
  <1>12. QED
    BY <1>6, <1>8, <1>9, <1>10, <1>11, CourseThen

\* The resources go before those of the new list come.
LEMMA ClearKept ==
  ASSUME Course!InstituteInv, NEW r \in Requests, Course!ClearResources(r)
  PROVE  Course!InstituteInv'
  <1>1. CTyped /\ CSeated /\ CUnborn /\ CStored /\ CAveraged
    BY CourseIs
  <1> DEFINE y == [req[r] EXCEPT !.pc = "fill"]
  <1>2. /\ req[r].pc = "write" /\ req[r].op = "lesson" /\ IsOpen
        /\ resources' = Course!Empty /\ req' = [req EXCEPT ![r] = y]
        /\ mixed' = \E q \in Requests \ {r} : Saves(req[q])
        /\ offer' = offer /\ stars' = stars /\ seats' = seats /\ offered' = offered /\ welcomed' = welcomed
        /\ last' = last /\ overtaken' = overtaken
    BY DEF Course!ClearResources, Course!At, Course!Goto, Course!Exists, IsOpen, Course!Saving, Saves
  <1>3. /\ req \in [Requests -> CReq] /\ req[r] \in CReq /\ Fit(req[r])
    BY <1>1 DEF CTyped
  <1>4. y \in CReq /\ y.pc = "fill" /\ y.op = "lesson" /\ y.who = req[r].who /\ y.x = req[r].x
    <2>1. "fill" \in Course!Pcs
      BY CoursePcs
    <2>2. QED
      BY <1>2, <1>3, <2>1, ReqGoes
  <1> HIDE DEF y
  <1>5. req' \in [Requests -> CReq] /\ req'[r] = y /\ \A q \in Requests \ {r} : req'[q] = req[q]
    BY <1>2, <1>3, <1>4
  <1>6. /\ Fit(y) /\ ~Waits(y) /\ Saves(y) /\ ~Shows(y) /\ ~Rates(y) /\ ~Welcomes(y)
        /\ ~Rates(req[r]) /\ ~Shows(req[r])
    BY <1>2, <1>3, <1>4 DEF Fit, Waits, Saves, Shows, Rates, Welcomes
  <1>7. resources' \in [Lists -> Nat] /\ mixed' \in BOOLEAN
    BY <1>2 DEF Course!Empty
  <1>8. CTyped'
    BY <1>1, <1>2, <1>5, <1>6, <1>7 DEF CTyped
  <1>9. CSeated'
    <2>1. \A q \in Requests : Welcomes(req'[q]) => Welcomes(req[q]) /\ req'[q] = req[q]
      BY <1>5, <1>6
    <2>2. \A q \in Requests : Waits(req'[q]) => Waits(req[q]) /\ req'[q] = req[q]
      BY <1>5, <1>6
    <2>3. QED
      BY <1>1, <1>2, <2>1, <2>2 DEF CSeated
  <1>10. CUnborn'
    BY <1>2 DEF CUnborn, IsOpen
  <1>11. CStored'
    <2>1. CASE ~mixed'
      <3>1. \A q \in Requests : Saves(req'[q]) <=> q = r
        BY <1>2, <1>5, <1>6, <2>1
      <3>2. (Course!Empty)' = Course!Empty
        BY DEF Course!Empty
      <3>3. QED
        BY <1>2, <3>1, <3>2 DEF CStored
    <2>2. QED
      BY <2>1 DEF CStored
  <1>12. CAveraged'
    <2>1. Course!Aggregate' = Course!Aggregate
      BY <1>2, SameAggregate
    <2>2. \A q \in Requests : (Rates(req'[q]) <=> Rates(req[q])) /\ (Shows(req'[q]) => Shows(req[q]) /\ req'[q] = req[q])
      BY <1>5, <1>6
    <2>3. QED
      BY <1>1, <1>2, <2>1, <2>2 DEF CAveraged, IsOpen, Course!Body
  <1>13. QED
    BY <1>8, <1>9, <1>10, <1>11, <1>12, CourseThen

\* The resources of a list that is filled alone are there once.
LEMMA FillKept ==
  ASSUME Course!InstituteInv, NEW r \in Requests, Course!FillResources(r)
  PROVE  Course!InstituteInv'
  <1>1. CTyped /\ CSeated /\ CUnborn /\ CStored /\ CAveraged
    BY CourseIs
  <1> DEFINE new == req[r].x.name
  <1>2. /\ Saves(req[r]) /\ IsOpen /\ req' = [req EXCEPT ![r] = Course!Idle]
        /\ resources' = IF new = None THEN resources ELSE [resources EXCEPT ![new] = @ + 1]
        /\ last' = new
        /\ offer' = offer /\ stars' = stars /\ seats' = seats /\ offered' = offered /\ welcomed' = welcomed
        /\ mixed' = mixed /\ overtaken' = overtaken
    BY DEF Course!FillResources, Course!At, Course!End, Course!Exists, IsOpen, Saves
  <1>3. /\ req \in [Requests -> CReq] /\ new \in Lists /\ resources \in [Lists -> Nat]
    BY <1>1, <1>2 DEF CTyped, Fit, Saves
  <1>4. req' \in [Requests -> CReq] /\ req'[r] = Course!Idle /\ \A q \in Requests \ {r} : req'[q] = req[q]
    BY <1>2, <1>3, IdleIs
  <1>5. ~Rates(req[r]) /\ ~Shows(req[r])
    BY <1>2 DEF Saves, Rates, Shows
  <1>6. resources' \in [Lists -> Nat]
    BY <1>2, <1>3
  <1>7. CTyped'
    BY <1>1, <1>2, <1>4, <1>6, IdleIs DEF CTyped
  <1>8. CSeated'
    <2>1. \A q \in Requests : Welcomes(req'[q]) => Welcomes(req[q]) /\ req'[q] = req[q]
      BY <1>4, IdleIs
    <2>2. \A q \in Requests : Waits(req'[q]) => Waits(req[q]) /\ req'[q] = req[q]
      BY <1>4, IdleIs
    <2>3. QED
      BY <1>1, <1>2, <2>1, <2>2 DEF CSeated
  <1>9. CUnborn'
    BY <1>2 DEF CUnborn, IsOpen
  <1>10. CStored'
    <2>1. CASE ~mixed
      <3>1. resources = Course!Empty /\ \A q \in Requests : Saves(req[q]) => q = r
        BY <1>1, <1>2, <2>1 DEF CStored
      <3>2. \A q \in Requests : ~Saves(req'[q])
        BY <1>4, <3>1, IdleIs
      <3>3. resources' = LastSaved'
        BY <1>2, <1>3, <3>1 DEF LastSaved, Course!Empty
      <3>4. QED
        BY <3>2, <3>3 DEF CStored
    <2>2. QED
      BY <1>2, <2>1 DEF CStored
  <1>11. CAveraged'
    <2>1. Course!Aggregate' = Course!Aggregate
      BY <1>2, SameAggregate
    <2>2. \A q \in Requests : (Rates(req'[q]) <=> Rates(req[q])) /\ (Shows(req'[q]) => Shows(req[q]) /\ req'[q] = req[q])
      BY <1>4, <1>5, IdleIs
    <2>3. QED
      BY <1>1, <1>2, <2>1, <2>2 DEF CAveraged, IsOpen, Course!Body
  <1>12. QED
    BY <1>7, <1>8, <1>9, <1>10, <1>11, CourseThen

\* Ratings are stored: the averages on their way are late.
LEMMA StoreKept ==
  ASSUME Course!InstituteInv, NEW r \in Requests, Course!StoreStars(r)
  PROVE  Course!InstituteInv'
  <1>1. CTyped /\ CSeated /\ CUnborn /\ CStored /\ CAveraged
    BY CourseIs
  <1> DEFINE y == [req[r] EXCEPT !.pc = "average"]
             Late(q) == [req[q] EXCEPT !.who = "late"]
  <1>2. /\ req[r].pc = "store" /\ req[r].op = "rate" /\ IsOpen
        /\ stars' = [stars EXCEPT ![req[r].who] = req[r].x.n]
        /\ req' = [q \in Requests |-> IF q = r THEN y ELSE IF Shows(req[q]) THEN Late(q) ELSE req[q]]
        /\ offer' = offer /\ seats' = seats /\ resources' = resources /\ offered' = offered /\ welcomed' = welcomed
        /\ last' = last /\ mixed' = mixed /\ overtaken' = overtaken
    BY DEF Course!StoreStars, Course!At, Course!Exists, IsOpen, Course!ghosts, Shows
  <1>3. /\ req \in [Requests -> CReq] /\ req[r] \in CReq /\ Fit(req[r]) /\ \A q \in Requests : req[q] \in CReq /\ Fit(req[q])
    BY <1>1 DEF CTyped
  <1>4. y \in CReq /\ y.pc = "average" /\ y.op = "rate" /\ y.who = req[r].who /\ y.x = req[r].x
    <2>1. "average" \in Course!Pcs
      BY CoursePcs
    <2>2. QED
      BY <1>2, <1>3, <2>1, ReqGoes
  <1>5. \A q \in Requests : /\ Late(q) \in CReq /\ Late(q).pc = req[q].pc /\ Late(q).op = req[q].op
                            /\ Late(q).who = "late" /\ Late(q).x = req[q].x
    BY <1>3 DEF CReq
  <1> HIDE DEF y, Late
  <1>6. /\ req' \in [Requests -> CReq] /\ req'[r] = y
        /\ \A q \in Requests \ {r} : IF Shows(req[q]) THEN req'[q] = Late(q) ELSE req'[q] = req[q]
    BY <1>2, <1>3, <1>4, <1>5
  <1>7. \A q \in Requests : Shows(req[q]) => /\ Fit(Late(q)) /\ ~Waits(Late(q)) /\ ~Saves(Late(q)) /\ ~Welcomes(Late(q))
                                             /\ Rates(Late(q)) /\ Rates(req[q]) /\ ~Saves(req[q])
    BY <1>3, <1>5 DEF Fit, Waits, Saves, Shows, Rates, Welcomes
  <1>8. Fit(y) /\ ~Waits(y) /\ ~Saves(y) /\ ~Shows(y) /\ Rates(y) /\ ~Welcomes(y) /\ ~Saves(req[r])
    BY <1>2, <1>3, <1>4 DEF Fit, Waits, Saves, Shows, Rates, Welcomes
  <1>9. stars' \in [Learners -> Stars \cup {0}]
    BY <1>1, <1>2, <1>3 DEF CTyped, Fit
  <1>10. CTyped'
    <2>1. \A q \in Requests : Fit(req'[q])
      BY <1>3, <1>6, <1>7, <1>8
    <2>2. QED
      BY <1>1, <1>2, <1>6, <1>9, <2>1 DEF CTyped
  <1>11. CSeated'
    <2>1. \A q \in Requests : Welcomes(req'[q]) => Welcomes(req[q]) /\ req'[q] = req[q]
      BY <1>6, <1>7, <1>8
    <2>2. \A q \in Requests : Waits(req'[q]) => Waits(req[q]) /\ req'[q] = req[q]
      BY <1>6, <1>7, <1>8
    <2>3. QED
      BY <1>1, <1>2, <2>1, <2>2 DEF CSeated
  <1>12. CUnborn'
    BY <1>2 DEF CUnborn, IsOpen
  <1>13. CStored'
    <2>1. \A q \in Requests : Saves(req'[q]) <=> Saves(req[q])
      BY <1>6, <1>7, <1>8
    <2>2. (Course!Empty)' = Course!Empty /\ LastSaved' = LastSaved
      BY <1>2 DEF Course!Empty, LastSaved
    <2>3. QED
      BY <1>1, <1>2, <2>1, <2>2 DEF CStored, IsOpen
  <1>14. CAveraged'
    <2>1. \A q \in Requests : Shows(req'[q]) => req'[q].who = "late"
      BY <1>5, <1>6, <1>8
    <2>2. Rates(req'[r])
      BY <1>6, <1>8
    <2>3. QED
      BY <2>1, <2>2 DEF CAveraged
  <1>15. QED
    BY <1>10, <1>11, <1>12, <1>13, <1>14, CourseThen

\* An average is shown; it is that of the ratings, or it was overtaken.
LEMMA ShowKept ==
  ASSUME Course!InstituteInv, NEW r \in Requests, Course!ShowAverage(r)
  PROVE  Course!InstituteInv'
  <1>1. CTyped /\ CSeated /\ CUnborn /\ CStored /\ CAveraged
    BY CourseIs
  <1>2. /\ Shows(req[r]) /\ IsOpen /\ req' = [req EXCEPT ![r] = Course!Idle]
        /\ offer' = [offer EXCEPT !.sum = req[r].x.n, !.count = req[r].x.m]
        /\ overtaken' = (req[r].who = "late")
        /\ stars' = stars /\ seats' = seats /\ resources' = resources /\ offered' = offered /\ welcomed' = welcomed
        /\ last' = last /\ mixed' = mixed
    BY DEF Course!ShowAverage, Course!At, Course!End, Course!Exists, IsOpen, Shows
  <1>3. /\ req \in [Requests -> CReq] /\ offer \in COffer
    BY <1>1 DEF CTyped
  <1>4. req' \in [Requests -> CReq] /\ req'[r] = Course!Idle /\ \A q \in Requests \ {r} : req'[q] = req[q]
    BY <1>2, <1>3, IdleIs
  <1>5. ~Saves(req[r]) /\ Rates(req[r])
    BY <1>2 DEF Saves, Rates, Shows
  <1>6. req[r].x.n \in Course!Totals /\ req[r].x.m \in Course!Counts
    BY <1>1, <1>2 DEF CTyped, Fit, Shows
  <1>7. /\ offer' \in COffer /\ offer'.status = offer.status /\ offer'.sum = req[r].x.n /\ offer'.count = req[r].x.m
        /\ overtaken' \in BOOLEAN
    BY <1>2, <1>3, <1>6 DEF COffer
  <1>8. CTyped'
    BY <1>1, <1>2, <1>4, <1>7, IdleIs DEF CTyped
  <1>9. CSeated'
    <2>1. \A q \in Requests : Welcomes(req'[q]) => Welcomes(req[q]) /\ req'[q] = req[q]
      BY <1>4, IdleIs
    <2>2. \A q \in Requests : Waits(req'[q]) => Waits(req[q]) /\ req'[q] = req[q]
      BY <1>4, IdleIs
    <2>3. QED
      BY <1>1, <1>2, <1>7, <2>1, <2>2 DEF CSeated
  <1>10. CUnborn'
    BY <1>2, <1>7 DEF CUnborn, IsOpen
  <1>11. CStored'
    <2>1. \A q \in Requests : Saves(req'[q]) <=> Saves(req[q])
      BY <1>4, <1>5, IdleIs
    <2>2. (Course!Empty)' = Course!Empty /\ LastSaved' = LastSaved
      BY <1>2 DEF Course!Empty, LastSaved
    <2>3. QED
      BY <1>1, <1>2, <1>7, <2>1, <2>2 DEF CStored, IsOpen
  <1>12. CAveraged'
    <2>1. Course!Aggregate' = Course!Aggregate
      BY <1>2, SameAggregate
    <2>2. \A q \in Requests : Shows(req'[q]) => Shows(req[q]) /\ req'[q] = req[q]
      BY <1>4, IdleIs
    <2>3. req[r].who # "late" => Course!Body(offer'.sum, offer'.count, "none") = Course!Aggregate
      <3>1. SUFFICES ASSUME req[r].who # "late" PROVE Course!Body(offer'.sum, offer'.count, "none") = Course!Aggregate
        OBVIOUS
      <3>2. req[r].x = Course!Aggregate
        BY <1>1, <1>2, <3>1 DEF CAveraged
      <3>3. QED
        BY <1>7, <3>2 DEF Course!Aggregate, Course!Body
    <2>4. QED
      BY <1>1, <1>2, <2>1, <2>2, <2>3 DEF CAveraged, IsOpen, Course!Body
  <1>13. QED
    BY <1>8, <1>9, <1>10, <1>11, <1>12, CourseThen

\* Every step keeps the invariant of the institute.
LEMMA CourseStep ==
  ASSUME Course!InstituteInv, Course!Next \/ UNCHANGED institute
  PROVE  Course!InstituteInv'
  <1>1. CASE UNCHANGED institute
    <2>1. /\ offer' = offer /\ seats' = seats /\ stars' = stars /\ resources' = resources /\ req' = req
          /\ offered' = offered /\ welcomed' = welcomed /\ last' = last /\ mixed' = mixed /\ overtaken' = overtaken
      BY <1>1 DEF institute
    <2>2. CTyped /\ CSeated /\ CUnborn /\ CStored /\ CAveraged
      BY CourseIs
    <2>3. CTyped' /\ CSeated'
      BY <2>1, <2>2 DEF CTyped, CSeated
    <2>4. CUnborn'
      BY <2>1, <2>2 DEF CUnborn, Course!Empty
    <2>5. CStored'
      BY <2>1, <2>2 DEF CStored, IsOpen, Course!Empty, LastSaved
    <2>6. CAveraged'
      BY <2>1, <2>2, SameAggregate DEF CAveraged, IsOpen, Course!Body
    <2>7. QED
      BY <2>3, <2>4, <2>5, <2>6, CourseThen
  <1>2. CASE Course!Next
    <2>1. PICK r \in Requests :
              \/ Course!Steps(r)
              \/ \E op \in Course!Operations, who \in Course!People : \E x \in Course!Bodies(op) : Course!Handle(r, op, who, x)
      BY <1>2 DEF Course!Next, Course!Serve
    <2>2. CASE Course!deleteCourse(r)
      BY <2>2, DeleteKept
    <2>3. CASE Course!TakeSeat(r)
      BY <2>3, TakeSeatKept
    <2>4. CASE Course!Welcome(r)
      BY <2>4, WelcomeKept
    <2>5. CASE Course!ClearResources(r)
      BY <2>5, ClearKept
    <2>6. CASE Course!FillResources(r)
      BY <2>6, FillKept
    <2>7. CASE Course!StoreStars(r)
      BY <2>7, StoreKept
    <2>8. CASE Course!ShowAverage(r)
      BY <2>8, ShowKept
    <2>9. CASE \/ Course!createCourse(r) \/ Course!updateCourse(r) \/ Course!createPromotion(r)
               \/ Course!submitForReview(r) \/ Course!reviewCourse(r) \/ Course!setFeatured(r)
      BY <2>9, WritesKept
    <2>10. CASE \/ Course!FindManaged(r) \/ Course!FindOffer(r) \/ Course!FindSeat(r) \/ Course!AverageStars(r) \/ Course!Fail(r)
                \/ \E op \in Course!Operations, who \in Course!People : \E x \in Course!Bodies(op) : Course!Handle(r, op, who, x)
      BY <2>10, FindsKept
    <2>11. QED
      BY <2>1, <2>2, <2>3, <2>4, <2>5, <2>6, <2>7, <2>8, <2>9, <2>10 DEF Course!Steps
  <1>3. QED
    BY <1>1, <1>2

\* It holds where there is no course yet.
LEMMA CourseAtFirst ==
  ASSUME Course!Init
  PROVE  Course!InstituteInv
  <1>1. /\ offer = Course!NoCourse /\ seats = {} /\ stars = [u \in Learners |-> 0] /\ resources = Course!Empty
        /\ req = [r \in Requests |-> Course!Idle] /\ offered = {} /\ welcomed = [u \in Learners |-> 0]
        /\ last = "none" /\ mixed = FALSE /\ overtaken = FALSE
    BY DEF Course!Init
  <1>2. Course!NoCourse \in COffer /\ Course!NoCourse.status = "none"
    BY DEF COffer, Course!NoCourse, Course!Statuses
  <1>3. req \in [Requests -> CReq] /\ \A r \in Requests : req[r] = Course!Idle
    BY <1>1, IdleIs
  <1>4. CTyped
    BY <1>1, <1>2, <1>3, IdleIs DEF CTyped, Course!Empty
  <1>5. CSeated
    BY <1>1, <1>3, IdleIs DEF CSeated
  <1>6. CUnborn
    BY <1>1, <1>3, IdleIs DEF CUnborn
  <1>7. CStored /\ CAveraged
    BY <1>1, <1>2 DEF CStored, CAveraged, IsOpen
  <1>8. QED
    BY <1>4, <1>5, <1>6, <1>7, CourseIs

\* Each step of the three groups is one of the institute.
LEMMA GroupsServe ==
  ASSUME Offers \/ Edits \/ Ratings
  PROVE  Course!Next
  <1>1. /\ {"create", "update", "submit", "review", "enrol"} \subseteq Course!Operations
        /\ {"create", "feature", "promo", "lesson", "delete"} \subseteq Course!Operations
        /\ {"create", "enrol", "rate", "delete"} \subseteq Course!Operations
    BY DEF Course!Operations, Course!Teaching
  <1>2. Owned \subseteq Course!People
    BY DEF Owned
  <1>3. QED
    BY <1>1, <1>2, Zenon DEF Offers, Edits, Ratings, Course!Next, Course!Serve

\* What the institute promises.
LEMMA CoursePromises ==
  ASSUME Course!InstituteInv
  PROVE  SeatsWereOffered /\ EditsSettle
  <1>1. CTyped /\ CSeated /\ CUnborn /\ CStored /\ CAveraged
    BY CourseIs
  <1>2. SeatsWereOffered
    BY <1>1 DEF SeatsWereOffered, Course!SeatsWereOffered, CSeated
  <1>3. EditsSettle
    BY <1>1 DEF EditsSettle, Course!EditsSettle, CStored, CAveraged, IsOpen, Course!Exists, Saves, Rates,
        Course!Saving, Course!At, LastSaved
  <1>4. QED
    BY <1>2, <1>3

(***************************************************************************)
(* The page a learner studies on                                           *)
(***************************************************************************)

PSome  == Lessons \cup {None}
PCalls == [kind : {"none", "progress", "lesson", "note", "complete"}, lesson : PSome, at : {"sent", "back"},
           text : PSome, done : SUBSET Lessons, late : BOOLEAN]

PFits(text, l, b) == text \in {None, l} \/ l \in b

\* What holds of a call by itself.
PFine(z, o, b, co) ==
  /\ z.kind = "none" => z = Player!NoCall
  /\ z.kind \in {"lesson", "note", "complete"} => o # None /\ z.lesson # None /\ PFits(z.text, z.lesson, b)
  /\ z.kind = "progress" /\ z.at = "back" /\ ~z.late => z.done = co

PCounts(z) == z.kind \in {"progress", "complete"}

PTyped ==
  /\ open \in PSome /\ shown \in PSome /\ note \in PSome
  /\ rows \subseteq Lessons /\ completed \subseteq Lessons /\ blurred \subseteq Lessons
  /\ call \in [Requests -> PCalls] /\ notes \in [Lessons -> PSome] /\ overlapped \in BOOLEAN

PKept ==
  /\ shown # None => open # None /\ PFits(note, shown, blurred)
  /\ \A l \in Lessons : PFits(notes[l], l, blurred)
  /\ \A c \in Requests : PFine(call[c], open, blurred, completed)
  /\ open # None => rows = completed \/ overlapped \/ \E c \in Requests : PCounts(call[c])

LEMMA PlayerIs == Player!PlayerInv <=> PTyped /\ PKept
  <1>1. Player!TypeOK <=> PTyped
    BY Zenon DEF Player!TypeOK, PTyped, Player!Some, PSome, PCalls
  <1>2. Player!Kept /\ Player!NotesKeepTheirLesson <=> PKept
    BY DEF Player!Kept, Player!NotesKeepTheirLesson, PKept, Player!Fits, PFits, PFine, PCounts, Player!Waiting
  <1>3. QED
    BY <1>1, <1>2 DEF Player!PlayerInv

\* The same of the state a step leads to.
LEMMA PlayerThen == Player!PlayerInv' <=> PTyped' /\ PKept'
  BY PlayerIs, PTL

\* What a call is when there is none, and when it is sent.
LEMMA NoCallIs ==
  Player!NoCall \in PCalls /\ Player!NoCall.kind = "none"
  BY DEF Player!NoCall, PCalls, PSome

LEMMA AskIs ==
  ASSUME NEW kind \in {"progress", "lesson", "note", "complete"}, NEW l \in PSome, NEW text \in PSome
  PROVE  LET z == Player!Ask(kind, l, text)
         IN  z \in PCalls /\ z.kind = kind /\ z.lesson = l /\ z.at = "sent" /\ z.text = text
  <1>1. Player!NoCall \in PCalls /\ Player!NoCall.at = "sent"
    BY DEF Player!NoCall, PCalls, PSome
  <1>2. QED
    BY <1>1 DEF Player!Ask, PCalls

\* One call changes, and what the page and the table of the notes have still fits.
LEMMA PlayerMoves ==
  ASSUME Player!PlayerInv, NEW c \in Requests, NEW z \in PCalls, call' = [call EXCEPT ![c] = z],
         completed' = completed, overlapped' \in BOOLEAN, rows' \subseteq Lessons,
         open' \in PSome, open # None => open' # None,
         blurred \subseteq blurred', blurred' \subseteq Lessons,
         PFine(z, open', blurred', completed),
         shown' \in PSome, note' \in PSome, shown' # None => open' # None /\ PFits(note', shown', blurred'),
         notes' \in [Lessons -> PSome], \A l \in Lessons : PFits(notes'[l], l, blurred'),
         open' # None => \/ rows' = completed \/ overlapped' \/ PCounts(z)
                         \/ open # None /\ rows' = rows /\ (overlapped => overlapped') /\ ~PCounts(call[c])
  PROVE  Player!PlayerInv'
  <1>1. PTyped /\ PKept
    BY PlayerIs
  <1>2. call \in [Requests -> PCalls] /\ call' \in [Requests -> PCalls] /\ call'[c] = z
        /\ \A d \in Requests \ {c} : call'[d] = call[d]
    BY <1>1 DEF PTyped
  <1>3. PTyped'
    BY <1>1, <1>2 DEF PTyped
  <1>4. \A d \in Requests : PFine(call'[d], open', blurred', completed')
    BY <1>1, <1>2 DEF PKept, PFine, PFits
  <1>5. open' # None => rows' = completed' \/ overlapped' \/ \E d \in Requests : PCounts(call'[d])
    BY <1>1, <1>2 DEF PKept
  <1>6. PKept'
    BY <1>4, <1>5 DEF PKept
  <1>7. QED
    BY <1>3, <1>6, PlayerThen

\* A call is sent.
LEMMA PlayerSends ==
  ASSUME Player!PlayerInv, NEW c \in Requests,
         Player!Mount(c) \/ Player!saveNote(c) \/ Player!complete(c) \/ Player!submit(c)
         \/ \E l \in Lessons : Player!Visit(c, l)
  PROVE  Player!PlayerInv'
  <1>1. PTyped /\ PKept
    BY PlayerIs
  <1>2. call[c] = Player!NoCall /\ ~PCounts(call[c])
    BY NoCallIs DEF Player!Mount, Player!saveNote, Player!complete, Player!submit, Player!Visit, Player!Send, PCounts
  <1>3. /\ open \in PSome /\ shown \in PSome /\ note \in PSome /\ rows \subseteq Lessons
        /\ blurred \subseteq Lessons /\ notes \in [Lessons -> PSome] /\ overlapped \in BOOLEAN
        /\ shown # None => open # None /\ PFits(note, shown, blurred)
        /\ \A l \in Lessons : PFits(notes[l], l, blurred)
        /\ None \in PSome /\ None \notin Lessons
    BY <1>1, NamesAssumption DEF PTyped, PKept, PSome
  <1>4. /\ notes' = notes /\ completed' = completed /\ overlapped' = overlapped /\ rows' = rows
        /\ shown' = shown /\ note' = note
    BY DEF Player!Mount, Player!saveNote, Player!complete, Player!submit, Player!Visit, Player!page
  <1>5. CASE Player!Mount(c)
    <2> DEFINE z == Player!Ask("progress", None, None)
    <2>1. open = None /\ open' = open /\ blurred' = blurred /\ call' = [call EXCEPT ![c] = z]
      BY <1>5 DEF Player!Mount, Player!page, Player!Send
    <2>2. z \in PCalls /\ z.kind = "progress" /\ z.at = "sent"
      BY <1>3, AskIs
    <2> HIDE DEF z
    <2>3. PFine(z, open', blurred', completed)
      BY <2>2 DEF PFine
    <2>4. QED
      BY <1>2, <1>3, <1>4, <2>1, <2>2, <2>3, PlayerMoves
  <1>6. CASE Player!saveNote(c)
    <2> DEFINE z == Player!Ask("note", open, note)
    <2>1. /\ shown # None /\ open' = open /\ call' = [call EXCEPT ![c] = z]
          /\ blurred' = IF open = shown THEN blurred ELSE blurred \cup {open}
      BY <1>6 DEF Player!saveNote, Player!page, Player!Send
    <2>2. z \in PCalls /\ z.kind = "note" /\ z.lesson = open /\ z.text = note
      BY <1>3, AskIs
    <2> HIDE DEF z
    <2>3. open # None /\ open \in Lessons
      BY <1>3, <2>1 DEF PSome
    <2>4. blurred \subseteq blurred' /\ blurred' \subseteq Lessons
      BY <1>3, <2>1, <2>3
    <2>5. PFine(z, open', blurred', completed)
      BY <1>3, <2>1, <2>2, <2>3 DEF PFine, PFits
    <2>6. PFits(note', shown', blurred') /\ \A l \in Lessons : PFits(notes'[l], l, blurred')
      BY <1>3, <1>4, <2>1, <2>4 DEF PFits
    <2>7. QED
      BY <1>2, <1>3, <1>4, <2>1, <2>2, <2>3, <2>4, <2>5, <2>6, PlayerMoves
  <1>7. CASE Player!complete(c) \/ Player!submit(c)
    <2>1. PICK l \in {open, shown} : shown # None /\ call' = [call EXCEPT ![c] = Player!Ask("complete", l, None)]
      BY <1>7 DEF Player!complete, Player!submit, Player!Send
    <2> DEFINE z == Player!Ask("complete", l, None)
    <2>2. open' = open /\ blurred' = blurred
      BY <1>7 DEF Player!complete, Player!submit, Player!page
    <2>3. z \in PCalls /\ z.kind = "complete" /\ z.lesson = l /\ z.text = None
      BY <1>3, AskIs
    <2> HIDE DEF z
    <2>4. call' = [call EXCEPT ![c] = z]
      BY <2>1 DEF z
    <2>5. PFine(z, open', blurred', completed) /\ PCounts(z)
      BY <1>3, <2>1, <2>2, <2>3 DEF PFine, PFits, PCounts
    <2>6. QED
      BY <1>2, <1>3, <1>4, <2>2, <2>3, <2>4, <2>5, PlayerMoves
  <1>8. CASE \E l \in Lessons : Player!Visit(c, l)
    <2>1. PICK l \in Lessons : Player!Visit(c, l)
      BY <1>8
    <2> DEFINE z == Player!Ask("lesson", l, None)
    <2>2. open # None /\ open' = l /\ blurred' = blurred /\ call' = [call EXCEPT ![c] = z]
      BY <2>1 DEF Player!Visit, Player!Send
    <2>3. l \in PSome /\ l # None
      BY <1>3 DEF PSome
    <2>4. z \in PCalls /\ z.kind = "lesson" /\ z.lesson = l /\ z.text = None
      BY <1>3, <2>3, AskIs
    <2> HIDE DEF z
    <2>5. PFine(z, open', blurred', completed)
      BY <2>2, <2>3, <2>4 DEF PFine, PFits
    <2>6. QED
      BY <1>2, <1>3, <1>4, <2>2, <2>3, <2>4, <2>5, PlayerMoves
  <1>9. QED
    BY <1>5, <1>6, <1>7, <1>8

\* A call is answered by a read or a stored note.
LEMMA PlayerAnswers ==
  ASSUME Player!PlayerInv, NEW c \in Requests,
         Player!lessonContext(c) \/ Player!getProgress(c) \/ Player!storeNote(c)
  PROVE  Player!PlayerInv'
  <1>1. PTyped /\ PKept
    BY PlayerIs
  <1>2. /\ open \in PSome /\ shown \in PSome /\ note \in PSome /\ rows \subseteq Lessons /\ completed \subseteq Lessons
        /\ blurred \subseteq Lessons /\ notes \in [Lessons -> PSome] /\ overlapped \in BOOLEAN
        /\ shown # None => open # None /\ PFits(note, shown, blurred)
        /\ \A l \in Lessons : PFits(notes[l], l, blurred)
        /\ call[c] \in PCalls /\ PFine(call[c], open, blurred, completed)
    BY <1>1 DEF PTyped, PKept
  <1>3. /\ open' = open /\ shown' = shown /\ note' = note /\ rows' = rows
        /\ completed' = completed /\ blurred' = blurred /\ overlapped' = overlapped
    BY DEF Player!lessonContext, Player!getProgress, Player!storeNote, Player!page
  <1>4. CASE Player!lessonContext(c)
    <2> DEFINE z == [call[c] EXCEPT !.at = "back", !.text = notes[call[c].lesson]]
    <2>1. call[c].kind = "lesson" /\ call' = [call EXCEPT ![c] = z] /\ notes' = notes
      BY <1>4 DEF Player!lessonContext, Player!At, Player!Answered
    <2>2. open # None /\ call[c].lesson \in Lessons
      BY <1>2, <2>1 DEF PFine, PCalls, PSome
    <2>3. notes[call[c].lesson] \in PSome
      BY <1>2, <2>2
    <2>4. z \in PCalls /\ z.kind = "lesson" /\ z.lesson = call[c].lesson /\ z.text = notes[call[c].lesson]
      BY <1>2, <2>1, <2>3 DEF PCalls
    <2> HIDE DEF z
    <2>5. PFine(z, open', blurred', completed) /\ ~PCounts(call[c])
      BY <1>2, <1>3, <2>1, <2>2, <2>4 DEF PFine, PCounts
    <2>6. QED
      BY <1>2, <1>3, <2>1, <2>4, <2>5, PlayerMoves
  <1>5. CASE Player!getProgress(c)
    <2> DEFINE z == [call[c] EXCEPT !.at = "back", !.done = completed]
    <2>1. call[c].kind = "progress" /\ call' = [call EXCEPT ![c] = z] /\ notes' = notes
      BY <1>5 DEF Player!getProgress, Player!At, Player!Answered
    <2>2. z \in PCalls /\ z.kind = "progress" /\ z.done = completed
      BY <1>2, <2>1 DEF PCalls
    <2> HIDE DEF z
    <2>3. PFine(z, open', blurred', completed) /\ PCounts(z)
      BY <2>2 DEF PFine, PCounts
    <2>4. QED
      BY <1>2, <1>3, <2>1, <2>2, <2>3, PlayerMoves
  <1>6. CASE Player!storeNote(c)
    <2>1. call[c].kind = "note" /\ call' = [call EXCEPT ![c] = Player!NoCall]
          /\ notes' = [notes EXCEPT ![call[c].lesson] = call[c].text]
      BY <1>6 DEF Player!storeNote, Player!At, Player!Done
    <2>2. /\ call[c].lesson \in Lessons /\ call[c].text \in PSome /\ PFits(call[c].text, call[c].lesson, blurred)
      BY <1>2, <2>1 DEF PFine, PCalls, PSome
    <2>3. notes' \in [Lessons -> PSome] /\ \A l \in Lessons : PFits(notes'[l], l, blurred')
      BY <1>2, <1>3, <2>1, <2>2
    <2>4. PFine(Player!NoCall, open', blurred', completed) /\ ~PCounts(call[c])
      BY <2>1, NoCallIs DEF PFine, PCounts
    <2>5. QED
      BY <1>2, <1>3, <2>1, <2>3, <2>4, NoCallIs, PlayerMoves
  <1>7. QED
    BY <1>4, <1>5, <1>6

\* A lesson is completed: lists read before are late.
LEMMA PlayerCompletes ==
  ASSUME Player!PlayerInv, NEW c \in Requests, Player!storeProgress(c)
  PROVE  Player!PlayerInv'
  <1>1. PTyped /\ PKept
    BY PlayerIs
  <1> DEFINE z == [call[c] EXCEPT !.at = "back"]
             Late(d) == [call[d] EXCEPT !.late = TRUE]
             Read(d) == call[d].kind = "progress" /\ call[d].at = "back"
  <1>2. /\ call[c].kind = "complete" /\ completed' = completed \cup {call[c].lesson}
        /\ call' = [d \in Requests |-> IF d = c THEN z ELSE IF Read(d) THEN Late(d) ELSE call[d]]
        /\ open' = open /\ shown' = shown /\ note' = note /\ rows' = rows
        /\ notes' = notes /\ blurred' = blurred /\ overlapped' = overlapped
    BY DEF Player!storeProgress, Player!At, Player!page
  <1>3. \A d \in Requests : call[d] \in PCalls /\ PFine(call[d], open, blurred, completed)
    BY <1>1 DEF PTyped, PKept
  <1>4. /\ z \in PCalls /\ z.kind = "complete" /\ z.lesson = call[c].lesson /\ z.text = call[c].text
    BY <1>2, <1>3 DEF PCalls
  <1>5. \A d \in Requests : Late(d) \in PCalls /\ Late(d).kind = call[d].kind /\ Late(d).late = TRUE
    BY <1>3 DEF PCalls
  <1>6. call[c].lesson \in Lessons
    BY <1>2, <1>3 DEF PFine, PCalls, PSome
  <1> HIDE DEF z, Late
  <1>7. /\ call' \in [Requests -> PCalls] /\ call'[c] = z
        /\ \A d \in Requests \ {c} : call'[d] = IF Read(d) THEN Late(d) ELSE call[d]
    BY <1>2, <1>3, <1>4, <1>5
  <1>8. PTyped'
    BY <1>1, <1>2, <1>6, <1>7 DEF PTyped
  <1>9. \A d \in Requests : PFine(call'[d], open', blurred', completed')
    <2>1. PFine(z, open', blurred', completed')
      BY <1>2, <1>3, <1>4 DEF PFine
    <2>2. ASSUME NEW d \in Requests \ {c} PROVE PFine(call'[d], open', blurred', completed')
      BY <1>2, <1>3, <1>5, <1>7 DEF PFine
    <2>3. QED
      BY <1>7, <2>1, <2>2
  <1>10. PCounts(call'[c])
    BY <1>4, <1>7 DEF PCounts
  <1>11. PKept'
    BY <1>1, <1>2, <1>9, <1>10 DEF PKept
  <1>12. QED
    BY <1>8, <1>11, PlayerThen

\* An answer comes, or none.
LEMMA PlayerHears ==
  ASSUME Player!PlayerInv, NEW c \in Requests,
         Player!ShowLesson(c) \/ Player!ShowProgress(c) \/ Player!Completed(c) \/ Player!Lost(c)
  PROVE  Player!PlayerInv'
  <1>1. PTyped /\ PKept
    BY PlayerIs
  <1>2. /\ open \in PSome /\ shown \in PSome /\ note \in PSome /\ rows \subseteq Lessons /\ completed \subseteq Lessons
        /\ blurred \subseteq Lessons /\ notes \in [Lessons -> PSome] /\ overlapped \in BOOLEAN
        /\ shown # None => open # None /\ PFits(note, shown, blurred)
        /\ \A l \in Lessons : PFits(notes[l], l, blurred)
        /\ call[c] \in PCalls /\ PFine(call[c], open, blurred, completed)
        /\ None \in PSome /\ None \notin Lessons
    BY <1>1, NamesAssumption DEF PTyped, PKept, PSome
  <1>3. /\ notes' = notes /\ completed' = completed /\ blurred' = blurred
    BY DEF Player!ShowLesson, Player!ShowProgress, Player!Completed, Player!Lost
  <1>4. PFine(Player!NoCall, open, blurred, completed)
    BY NoCallIs DEF PFine
  <1>5. CASE Player!ShowLesson(c)
    <2>1. /\ call[c].kind = "lesson" /\ call' = [call EXCEPT ![c] = Player!NoCall] /\ open' = open /\ rows' = rows
          /\ overlapped' = overlapped /\ shown' = call[c].lesson /\ note' = call[c].text
      BY <1>5 DEF Player!ShowLesson, Player!Done
    <2>2. /\ shown' \in PSome /\ note' \in PSome /\ open # None /\ PFits(note', shown', blurred') /\ ~PCounts(call[c])
      BY <1>2, <1>3, <2>1 DEF PFine, PCalls, PCounts
    <2>3. QED
      BY <1>2, <1>3, <1>4, <2>1, <2>2, NoCallIs, PlayerMoves
  <1>6. CASE Player!ShowProgress(c)
    <2>1. /\ call[c].kind = "progress" /\ call[c].at = "back" /\ rows' = call[c].done /\ overlapped' = call[c].late
          /\ shown' = shown /\ note' = note
      BY <1>6 DEF Player!ShowProgress
    <2>2. /\ rows' \subseteq Lessons /\ overlapped' \in BOOLEAN /\ (rows' = completed \/ overlapped')
      BY <1>2, <2>1 DEF PFine, PCalls
    <2>3. CASE open = None
      <3>1. PICK l \in Lessons : open' = l /\ call' = [call EXCEPT ![c] = Player!Ask("lesson", l, None)]
        BY <1>6, <2>3 DEF Player!ShowProgress, Player!Answered
      <3> DEFINE z == Player!Ask("lesson", l, None)
      <3>2. l \in PSome /\ l # None
        BY <1>2 DEF PSome
      <3>3. z \in PCalls /\ z.kind = "lesson" /\ z.lesson = l /\ z.text = None
        BY <1>2, <3>2, AskIs
      <3> HIDE DEF z
      <3>4. PFine(z, open', blurred', completed)
        BY <3>1, <3>2, <3>3 DEF PFine, PFits
      <3>5. call' = [call EXCEPT ![c] = z]
        BY <3>1 DEF z
      <3>6. QED
        BY <1>2, <1>3, <2>1, <2>2, <2>3, <3>1, <3>2, <3>3, <3>4, <3>5, PlayerMoves
    <2>4. CASE open # None
      <3>1. open' = open /\ call' = [call EXCEPT ![c] = Player!NoCall]
        BY <1>6, <2>4 DEF Player!ShowProgress, Player!Done
      <3>2. QED
        BY <1>2, <1>3, <1>4, <2>1, <2>2, <3>1, NoCallIs, PlayerMoves
    <2>5. QED
      BY <2>3, <2>4
  <1>7. CASE Player!Completed(c)
    <2> DEFINE z == Player!Ask("progress", None, None)
    <2>1. /\ call' = [call EXCEPT ![c] = z] /\ open' = open /\ shown' = shown /\ note' = note /\ rows' = rows
          /\ overlapped' = overlapped
      BY <1>7 DEF Player!Completed, Player!Answered, Player!page
    <2>2. z \in PCalls /\ z.kind = "progress" /\ z.at = "sent"
      BY <1>2, AskIs
    <2> HIDE DEF z
    <2>3. PFine(z, open', blurred', completed) /\ PCounts(z)
      BY <2>2 DEF PFine, PCounts
    <2>4. QED
      BY <1>2, <1>3, <2>1, <2>2, <2>3, PlayerMoves
  <1>8. CASE Player!Lost(c)
    <2>1. /\ shown' = IF call[c].kind = "lesson" THEN None ELSE shown
          /\ overlapped' = (overlapped \/ call[c].kind \in {"progress", "complete"})
          /\ call' = [call EXCEPT ![c] = Player!NoCall] /\ open' = open /\ note' = note /\ rows' = rows
      BY <1>8 DEF Player!Lost, Player!Done
    <2>2. overlapped' \in BOOLEAN /\ (overlapped => overlapped') /\ (PCounts(call[c]) => overlapped')
      BY <1>2, <2>1 DEF PCounts
    <2>3. shown' \in PSome /\ (shown' # None => shown' = shown)
      BY <1>2, <2>1
    <2>4. shown' # None => open' # None /\ PFits(note', shown', blurred')
      BY <1>2, <1>3, <2>1, <2>3
    <2>5. QED
      BY <1>2, <1>3, <1>4, <2>1, <2>2, <2>3, <2>4, NoCallIs, PlayerMoves
  <1>9. QED
    BY <1>5, <1>6, <1>7, <1>8

\* Every step keeps the invariant of the page.
LEMMA PlayerStep ==
  ASSUME Player!PlayerInv, Player!Next \/ UNCHANGED player
  PROVE  Player!PlayerInv'
  <1>1. CASE UNCHANGED player \/ Player!Write
    <2>1. PTyped /\ PKept
      BY PlayerIs
    <2>2. /\ open' = open /\ shown' = shown /\ rows' = rows /\ call' = call
          /\ notes' = notes /\ completed' = completed /\ blurred' = blurred /\ overlapped' = overlapped
          /\ note' = note \/ note' = shown
      BY <1>1 DEF player, Player!Write
    <2>3. PTyped'
      BY <2>1, <2>2 DEF PTyped
    <2>4. PKept'
      BY <2>1, <2>2 DEF PKept, PFits
    <2>5. QED
      BY <2>3, <2>4, PlayerThen
  <1>2. CASE \E c \in Requests :
                 \/ Player!Mount(c) \/ Player!saveNote(c) \/ Player!complete(c) \/ Player!submit(c)
                 \/ Player!lessonContext(c) \/ Player!getProgress(c) \/ Player!storeNote(c) \/ Player!storeProgress(c)
                 \/ Player!ShowLesson(c) \/ Player!ShowProgress(c) \/ Player!Completed(c) \/ Player!Lost(c)
                 \/ \E l \in Lessons : Player!Visit(c, l)
    BY <1>2, PlayerSends, PlayerAnswers, PlayerCompletes, PlayerHears
  <1>3. QED
    BY <1>1, <1>2 DEF Player!Next

\* It holds of a page that is not open yet.
LEMMA PlayerAtFirst ==
  ASSUME Player!Init
  PROVE  Player!PlayerInv
  <1>1. /\ open = None /\ shown = None /\ note = None /\ rows = {} /\ call = [c \in Requests |-> Player!NoCall]
        /\ notes = [l \in Lessons |-> None] /\ completed = {} /\ blurred = {} /\ overlapped = FALSE
    BY DEF Player!Init
  <1>2. None \in PSome
    BY DEF PSome
  <1>3. PTyped
    BY <1>1, <1>2, NoCallIs DEF PTyped
  <1>4. PKept
    BY <1>1, NoCallIs DEF PKept, PFine, PFits
  <1>5. QED
    BY <1>3, <1>4, PlayerIs

(***************************************************************************)
(* The page that arranges the lessons                                      *)
(***************************************************************************)

BCalls == [kind : Builder!Kinds, order : Seq(Lessons), late : BOOLEAN]

BTyped ==
  /\ number \in [Lessons -> Nat \cup {Nothing}] /\ list \in Seq(Lessons)
  /\ sent \in [Requests -> BCalls] /\ astray \in BOOLEAN

\* What holds of a call by itself.
BFine(z, orders, listings) ==
  /\ z.kind = "none" => z = Builder!NoCall
  /\ z.kind = "delete" => z.order # <<>>
  /\ z.kind = "listing" => z.order \in orders \/ z.late
  /\ z.kind = "listing" /\ ~z.late => z.order \in listings

BAnswers(z) == z.kind \in {"reset", "load", "listing"}

BShown ==
  ~astray =>
      /\ \A c \in Requests : sent[c].kind = "reorder" => sent[c].order = list
      /\ \/ \E c \in Requests : BAnswers(sent[c])
         \/ list \in Builder!Orders /\ ((\E c \in Requests : sent[c].kind = "reorder") \/ list \in Builder!Listings)

BFines == \A c \in Requests : BFine(sent[c], Builder!Orders, Builder!Listings)

LEMMA BuilderIs == Builder!BuilderInv <=> BTyped /\ BFines /\ BShown
  <1>1. Builder!TypeOK <=> BTyped
    BY Zenon DEF Builder!TypeOK, BTyped, BCalls
  <1>2. Builder!Shown <=> BFines /\ BShown
    BY DEF Builder!Shown, BFines, BFine, BShown, BAnswers, Builder!Coming
  <1>3. QED
    BY <1>1, <1>2 DEF Builder!BuilderInv

\* The same of the state a step leads to.
LEMMA BuilderThen == Builder!BuilderInv' <=> BTyped' /\ BFines' /\ BShown'
  BY BuilderIs, PTL

\* What a call is when there is none, and when it is sent.
LEMMA NoneSent ==
  Builder!NoCall \in BCalls /\ Builder!NoCall.kind = "none" /\ Builder!NoCall.late = FALSE
  BY DEF Builder!NoCall, BCalls, Builder!Kinds

LEMMA CallIs ==
  ASSUME NEW kind \in Builder!Kinds, NEW order \in Seq(Lessons)
  PROVE  LET z == Builder!Call(kind, order)
         IN  z \in BCalls /\ z.kind = kind /\ z.order = order /\ z.late = FALSE
  BY NoneSent DEF Builder!Call, BCalls

\* The rows can be counted.
LEMMA RowsCounted ==
  Builder!Cardinality(Builder!Rows) \in Nat
  <1>1. \A S : Builder!Cardinality(S) = Cardinality(S)
    BY Zenon DEF Builder!Cardinality, Cardinality, Builder!IsFiniteSet, IsFiniteSet
  <1>2. IsFiniteSet(Builder!Rows)
    BY CourseAssumption, FS_Subset DEF Builder!Rows
  <1>3. QED
    BY <1>1, <1>2, FS_CardinalityType

\* An order of the rows is a sequence of lessons.
LEMMA OrdersAre ==
  ASSUME NEW s \in Builder!Orders
  PROVE  /\ s \in Seq(Lessons) /\ DOMAIN s = 1..Len(s) /\ Len(s) = Builder!Cardinality(Builder!Rows)
         /\ \A i, j \in DOMAIN s : s[i] = s[j] => i = j
         /\ \A i \in DOMAIN s : s[i] \in Builder!Rows
  <1> DEFINE n == Builder!Cardinality(Builder!Rows)
  <1>1. n \in Nat
    BY RowsCounted
  <1>2. s \in [1..n -> Builder!Rows] /\ \A i, j \in DOMAIN s : s[i] = s[j] => i = j
    BY DEF Builder!Orders
  <1> HIDE DEF n
  <1>3. Builder!Rows \subseteq Lessons
    BY DEF Builder!Rows
  <1>4. s \in Seq(Lessons) /\ Len(s) = n
    BY <1>1, <1>2, <1>3
  <1>5. QED
    BY <1>1, <1>2, <1>4 DEF n

\* Where the lesson at k was, before the one at i was put at j.
From(k, i, j) ==
  IF k = j THEN i
  ELSE IF k < j THEN (IF k < i THEN k ELSE k + 1)
  ELSE IF k - 1 < i THEN k - 1 ELSE k

\* A lesson is taken from one place of a list and put at another: the list has the
\* same lessons, each where one of them was.
LEMMA MovedIs ==
  ASSUME NEW S, NEW s \in Seq(S), NEW i \in 1..Len(s), NEW j \in 1..Len(s)
  PROVE  LET m == Builder!InsertAt(Builder!RemoveAt(s, i), j, s[i])
         IN  /\ m \in Seq(S) /\ Len(m) = Len(s)
             /\ \A k \in 1..Len(s) : From(k, i, j) \in 1..Len(s) /\ m[k] = s[From(k, i, j)]
             /\ \A k, l \in 1..Len(s) : From(k, i, j) = From(l, i, j) => k = l
  <1> DEFINE n == Len(s)
             t == Builder!RemoveAt(s, i)
             m == Builder!InsertAt(t, j, s[i])
  <1>1. n \in Nat /\ i \in 1..n /\ j \in 1..n /\ s[i] \in S
    OBVIOUS
  <1>2. \A k \in 1..n : s[k] \in S
    BY <1>1
  <1> DEFINE a == SubSeq(s, 1, i - 1)
             b == SubSeq(s, i + 1, n)
  <1>3. a \in Seq(S) /\ Len(a) = i - 1 /\ \A k \in 1..(i - 1) : a[k] = s[k]
    <2>1. 1 \in Int /\ i - 1 \in Int /\ \A k \in 1..(i - 1) : s[k] \in S
      BY <1>1, <1>2
    <2>2. /\ a \in Seq(S) /\ Len(a) = IF 1 <= i - 1 THEN i - 1 - 1 + 1 ELSE 0
          /\ \A k \in 1..(i - 1 - 1 + 1) : a[k] = s[1 + k - 1]
      BY <2>1, SubSeqProperties
    <2>3. QED
      BY <1>1, <2>2
  <1>4. b \in Seq(S) /\ Len(b) = n - i /\ \A k \in 1..(n - i) : b[k] = s[i + k]
    <2>1. i + 1 \in Int /\ n \in Int /\ \A k \in (i + 1)..n : s[k] \in S
      BY <1>1, <1>2
    <2>2. /\ b \in Seq(S) /\ Len(b) = IF i + 1 <= n THEN n - (i + 1) + 1 ELSE 0
          /\ \A k \in 1..(n - (i + 1) + 1) : b[k] = s[i + 1 + k - 1]
      BY <2>1, SubSeqProperties
    <2>3. QED
      BY <1>1, <2>2
  <1>5. t = a \o b
    BY DEF Builder!RemoveAt
  <1> HIDE DEF a, b, t
  <1>6. t \in Seq(S) /\ Len(t) = n - 1 /\ \A k \in 1..(n - 1) : t[k] = IF k < i THEN s[k] ELSE s[k + 1]
    <2>1. /\ t \in Seq(S) /\ Len(t) = Len(a) + Len(b)
          /\ \A k \in 1..(Len(a) + Len(b)) : t[k] = IF k <= Len(a) THEN a[k] ELSE b[k - Len(a)]
      BY <1>3, <1>4, <1>5, ConcatProperties
    <2>2. QED
      BY <1>1, <1>3, <1>4, <2>1
  <1> DEFINE c == SubSeq(t, 1, j - 1)
             d == SubSeq(t, j, Len(t))
  <1>7. c \in Seq(S) /\ Len(c) = j - 1 /\ \A k \in 1..(j - 1) : c[k] = t[k]
    <2>1. 1 \in Int /\ j - 1 \in Int /\ \A k \in 1..(j - 1) : t[k] \in S
      BY <1>1, <1>6
    <2>2. /\ c \in Seq(S) /\ Len(c) = IF 1 <= j - 1 THEN j - 1 - 1 + 1 ELSE 0
          /\ \A k \in 1..(j - 1 - 1 + 1) : c[k] = t[1 + k - 1]
      BY <2>1, SubSeqProperties
    <2>3. QED
      BY <1>1, <2>2
  <1>8. d \in Seq(S) /\ Len(d) = n - j /\ \A k \in 1..(n - j) : d[k] = t[j + k - 1]
    <2>1. j \in Int /\ Len(t) \in Int /\ \A k \in j..Len(t) : t[k] \in S
      BY <1>1, <1>6
    <2>2. /\ d \in Seq(S) /\ Len(d) = IF j <= Len(t) THEN Len(t) - j + 1 ELSE 0
          /\ \A k \in 1..(Len(t) - j + 1) : d[k] = t[j + k - 1]
      BY <2>1, SubSeqProperties
    <2>3. QED
      BY <1>1, <1>6, <2>2
  <1>9. m = c \o <<s[i]>> \o d
    BY DEF Builder!InsertAt
  <1> HIDE DEF c, d, m
  <1>10. m \in Seq(S) /\ Len(m) = n /\ \A k \in 1..n : m[k] = IF k < j THEN t[k] ELSE IF k = j THEN s[i] ELSE t[k - 1]
    <2> DEFINE e == c \o <<s[i]>>
    <2>1. <<s[i]>> \in Seq(S) /\ Len(<<s[i]>>) = 1 /\ <<s[i]>>[1] = s[i]
      BY <1>1
    <2>2. /\ e \in Seq(S) /\ Len(e) = Len(c) + 1
          /\ \A k \in 1..(Len(c) + 1) : e[k] = IF k <= Len(c) THEN c[k] ELSE <<s[i]>>[k - Len(c)]
      BY <1>7, <2>1, ConcatProperties
    <2>3. m = e \o d
      BY <1>9
    <2> HIDE DEF e
    <2>4. /\ m \in Seq(S) /\ Len(m) = Len(e) + Len(d)
          /\ \A k \in 1..(Len(e) + Len(d)) : m[k] = IF k <= Len(e) THEN e[k] ELSE d[k - Len(e)]
      BY <1>8, <2>2, <2>3, ConcatProperties
    <2>5. Len(e) = j /\ (\A k \in 1..(j - 1) : e[k] = t[k]) /\ e[j] = s[i]
      <3>1. Len(c) = j - 1 /\ Len(e) = j
        BY <1>1, <1>7, <2>2
      <3>2. \A k \in 1..j : e[k] = IF k <= j - 1 THEN c[k] ELSE <<s[i]>>[k - (j - 1)]
        BY <1>1, <2>2, <3>1
      <3>3. e[j] = <<s[i]>>[1]
        <4>1. j \in 1..j /\ ~(j <= j - 1) /\ j - (j - 1) = 1
          BY <1>1
        <4>2. QED
          BY <3>2, <4>1
      <3>4. QED
        BY <1>1, <1>7, <2>1, <3>1, <3>2, <3>3
    <2>6. QED
      BY <1>1, <1>8, <2>4, <2>5
  <1>11. ASSUME NEW k \in 1..n PROVE From(k, i, j) \in 1..n /\ m[k] = s[From(k, i, j)]
    <2>1. CASE k = j
      BY <1>1, <1>10, <2>1 DEF From
    <2>2. CASE k < j
      <3>1. k \in 1..(n - 1)
        BY <1>1, <1>11, <2>2
      <3>2. QED
        BY <1>1, <1>6, <1>10, <2>2, <3>1 DEF From
    <2>3. CASE k > j
      <3>1. k - 1 \in 1..(n - 1)
        BY <1>1, <1>11, <2>3
      <3>2. QED
        BY <1>1, <1>6, <1>10, <2>3, <3>1 DEF From
    <2>4. QED
      BY <1>1, <2>1, <2>2, <2>3
  <1>12. \A k, l \in 1..n : From(k, i, j) = From(l, i, j) => k = l
    BY <1>1 DEF From
  <1>13. QED
    BY <1>10, <1>11, <1>12 DEF m, t

\* An order of the rows stays one.
LEMMA MovedOrder ==
  ASSUME NEW s \in Builder!Orders, NEW i \in DOMAIN s, NEW j \in DOMAIN s
  PROVE  Builder!InsertAt(Builder!RemoveAt(s, i), j, s[i]) \in Builder!Orders
  <1> DEFINE n == Builder!Cardinality(Builder!Rows)
             m == Builder!InsertAt(Builder!RemoveAt(s, i), j, s[i])
  <1>1. n \in Nat
    BY RowsCounted
  <1>2. /\ s \in Seq(Lessons) /\ DOMAIN s = 1..n /\ Len(s) = n
        /\ \A k, l \in 1..n : s[k] = s[l] => k = l
        /\ \A k \in 1..n : s[k] \in Builder!Rows
    BY OrdersAre
  <1>3. i \in 1..Len(s) /\ j \in 1..Len(s)
    BY <1>2
  <1>4. /\ m \in Seq(Lessons) /\ Len(m) = Len(s)
        /\ \A k \in 1..Len(s) : From(k, i, j) \in 1..Len(s) /\ m[k] = s[From(k, i, j)]
        /\ \A k, l \in 1..Len(s) : From(k, i, j) = From(l, i, j) => k = l
    BY <1>2, <1>3, MovedIs
  <1> HIDE DEF n, m
  <1>5. /\ m \in Seq(Lessons) /\ Len(m) = n
        /\ \A k \in 1..n : From(k, i, j) \in 1..n /\ m[k] = s[From(k, i, j)]
        /\ \A k, l \in 1..n : From(k, i, j) = From(l, i, j) => k = l
    BY <1>2, <1>4
  <1>6. DOMAIN m = 1..n /\ \A k \in 1..n : m[k] \in Builder!Rows
    BY <1>1, <1>2, <1>5
  <1>7. m \in [1..n -> Builder!Rows]
    BY <1>5, <1>6
  <1>8. \A k, l \in 1..n : m[k] = m[l] => k = l
    BY <1>2, <1>5
  <1>9. QED
    BY <1>6, <1>7, <1>8 DEF Builder!Orders, n, m

\* One call changes and no row does.
LEMMA BuilderMoves ==
  ASSUME Builder!BuilderInv, NEW c \in Requests, NEW z \in BCalls, sent' = [sent EXCEPT ![c] = z],
         number' = number, list' \in Seq(Lessons), astray' \in BOOLEAN,
         BFine(z, Builder!Orders, Builder!Listings), BShown'
  PROVE  Builder!BuilderInv'
  <1>1. BTyped /\ BFines
    BY BuilderIs
  <1>2. sent \in [Requests -> BCalls] /\ sent' \in [Requests -> BCalls] /\ sent'[c] = z
        /\ \A d \in Requests \ {c} : sent'[d] = sent[d]
    BY <1>1 DEF BTyped
  <1>3. BTyped'
    BY <1>1, <1>2 DEF BTyped
  <1>4. (Builder!Orders)' = Builder!Orders /\ (Builder!Listings)' = Builder!Listings
    BY DEF Builder!Orders, Builder!Listings, Builder!Rows
  <1>5. BFines'
    BY <1>1, <1>2, <1>4 DEF BFines
  <1>6. QED
    BY <1>3, <1>5, BuilderThen

\* What is shown while no row changes.
LEMMA StillShown ==
  ASSUME number' = number
  PROVE  BShown' <=> (~astray' =>
             /\ \A c \in Requests : sent'[c].kind = "reorder" => sent'[c].order = list'
             /\ \/ \E c \in Requests : BAnswers(sent'[c])
                \/ /\ list' \in Builder!Orders
                   /\ (\E c \in Requests : sent'[c].kind = "reorder") \/ list' \in Builder!Listings)
  <1>1. (Builder!Orders)' = Builder!Orders /\ (Builder!Listings)' = Builder!Listings
    BY DEF Builder!Orders, Builder!Listings, Builder!Rows
  <1>2. QED
    BY <1>1 DEF BShown

\* The instructor moves a lesson, or asks for one more or one less.
LEMMA BuilderAsks ==
  ASSUME Builder!BuilderInv, NEW c \in Requests,
         \/ \E i, j \in DOMAIN list : Builder!drop(c, i, j)
         \/ \E kind \in {"topic", "import"} : Builder!add(c, kind)
         \/ \E l \in Lessons : Builder!remove(c, l)
  PROVE  Builder!BuilderInv'
  <1>1. BTyped /\ BFines /\ BShown
    BY BuilderIs
  <1>2. list \in Seq(Lessons) /\ DOMAIN list = 1..Len(list) /\ sent \in [Requests -> BCalls] /\ astray \in BOOLEAN
    BY <1>1 DEF BTyped
  <1>3. sent[c] = Builder!NoCall /\ number' = number
    BY DEF Builder!drop, Builder!add, Builder!remove, Builder!Send
  <1>4. \A kind \in {"reorder", "topic", "import", "delete"} : kind \in Builder!Kinds
    BY DEF Builder!Kinds
  <1>5. CASE \E i, j \in DOMAIN list : Builder!drop(c, i, j)
    <2>1. PICK i \in DOMAIN list, j \in DOMAIN list : Builder!drop(c, i, j)
      BY <1>5
    <2> DEFINE m == Builder!InsertAt(Builder!RemoveAt(list, i), j, list[i])
               z == Builder!Call("reorder", m)
    <2>2. /\ list' = m /\ sent' = [sent EXCEPT ![c] = z]
          /\ astray' = (astray \/ \E d \in Requests : sent[d] # Builder!NoCall)
      BY <2>1 DEF Builder!drop, Builder!Send
    <2>3. i \in 1..Len(list) /\ j \in 1..Len(list)
      BY <1>2
    <2>4. m \in Seq(Lessons)
      BY <1>2, <2>3, MovedIs
    <2>5. list \in Builder!Orders => m \in Builder!Orders
      BY MovedOrder
    <2> HIDE DEF m
    <2>6. z \in BCalls /\ z.kind = "reorder" /\ z.order = m
      BY <1>4, <2>4, CallIs
    <2> HIDE DEF z
    <2>7. astray' \in BOOLEAN /\ BFine(z, Builder!Orders, Builder!Listings)
      BY <1>2, <2>2, <2>6 DEF BFine
    <2>8. ASSUME ~astray' PROVE /\ \A d \in Requests : sent'[d].kind = "reorder" => sent'[d].order = list'
                                /\ list' \in Builder!Orders /\ \E d \in Requests : sent'[d].kind = "reorder"
      <3>1. ~astray /\ \A d \in Requests : sent[d] = Builder!NoCall
        BY <1>2, <2>2, <2>8
      <3>2. \A d \in Requests : ~BAnswers(sent[d])
        BY <3>1, NoneSent DEF BAnswers
      <3>3. list \in Builder!Orders
        BY <1>1, <3>1, <3>2 DEF BShown
      <3>4. \A d \in Requests : sent'[d] = IF d = c THEN z ELSE Builder!NoCall
        BY <1>2, <2>2, <3>1
      <3>5. QED
        BY <2>2, <2>5, <2>6, <3>3, <3>4, NoneSent
    <2>9. BShown'
      BY <1>3, <2>8, StillShown
    <2>10. QED
      BY <1>3, <2>2, <2>4, <2>6, <2>7, <2>9, BuilderMoves
  <1>6. ASSUME NEW z \in BCalls, z.kind \in {"topic", "import", "delete"}, z.kind = "delete" => z.order # <<>>,
               sent' = [sent EXCEPT ![c] = z], list' = list, astray' = astray
        PROVE  Builder!BuilderInv'
    <2>1. BFine(z, Builder!Orders, Builder!Listings)
      BY <1>6 DEF BFine
    <2>2. \A d \in Requests : sent'[d] = IF d = c THEN z ELSE sent[d]
      BY <1>2, <1>6
    <2>3. \A d \in Requests : /\ sent'[d].kind = "reorder" <=> sent[d].kind = "reorder"
                              /\ sent'[d].kind = "reorder" => sent'[d] = sent[d]
                              /\ BAnswers(sent'[d]) <=> BAnswers(sent[d])
      BY <1>3, <1>6, <2>2, NoneSent DEF BAnswers
    <2>4. BShown'
      BY <1>1, <1>3, <1>6, <2>3, StillShown DEF BShown
    <2>5. QED
      BY <1>2, <1>3, <1>6, <2>1, <2>4, BuilderMoves
  <1>7. CASE \E kind \in {"topic", "import"} : Builder!add(c, kind)
    <2>1. PICK kind \in {"topic", "import"} : Builder!add(c, kind)
      BY <1>7
    <2>2. sent' = [sent EXCEPT ![c] = Builder!Call(kind, list)] /\ list' = list /\ astray' = astray
      BY <2>1 DEF Builder!add, Builder!Send
    <2>3. Builder!Call(kind, list) \in BCalls /\ Builder!Call(kind, list).kind = kind
      BY <1>2, <1>4, CallIs
    <2>4. QED
      BY <1>6, <2>2, <2>3
  <1>8. CASE \E l \in Lessons : Builder!remove(c, l)
    <2>1. PICK l \in Lessons : Builder!remove(c, l)
      BY <1>8
    <2>2. sent' = [sent EXCEPT ![c] = Builder!Call("delete", <<l>>)] /\ list' = list /\ astray' = astray
      BY <2>1 DEF Builder!remove, Builder!Send
    <2>3. <<l>> \in Seq(Lessons) /\ <<l>> # <<>>
      OBVIOUS
    <2>4. LET z == Builder!Call("delete", <<l>>) IN z \in BCalls /\ z.kind = "delete" /\ z.order = <<l>>
      BY <1>4, <2>3, CallIs
    <2>5. QED
      BY <1>6, <2>2, <2>3, <2>4
  <1>9. QED
    BY <1>5, <1>7, <1>8

\* Rows change: what was listed before is late.
LEMMA BuilderChanges ==
  ASSUME Builder!BuilderInv, NEW c \in Requests, NEW z \in BCalls, Builder!Changed(c, z),
         sent[c].kind # "listing", z.kind \in {"reset", "load", "none"}, z.kind = "none" => z = Builder!NoCall,
         number' \in [Lessons -> Nat \cup {Nothing}], list' = list, astray' = astray, BShown'
  PROVE  Builder!BuilderInv'
  <1>1. BTyped /\ BFines
    BY BuilderIs
  <1> DEFINE Late(d) == [sent[d] EXCEPT !.late = TRUE]
  <1>2. \A d \in Requests : sent[d] \in BCalls /\ BFine(sent[d], Builder!Orders, Builder!Listings)
    BY <1>1 DEF BTyped, BFines
  <1>3. \A d \in Requests : /\ Late(d) \in BCalls /\ Late(d).kind = sent[d].kind /\ Late(d).late = TRUE
    BY <1>2 DEF BCalls
  <1>4. sent' = [d \in Requests |-> IF d = c THEN z ELSE IF sent[d].kind = "listing" THEN Late(d) ELSE sent[d]]
    BY DEF Builder!Changed
  <1> HIDE DEF Late
  <1>5. sent' \in [Requests -> BCalls] /\ \A d \in Requests :
            sent'[d] = IF d = c THEN z ELSE IF sent[d].kind = "listing" THEN Late(d) ELSE sent[d]
    BY <1>2, <1>3, <1>4
  <1>6. BTyped'
    BY <1>1, <1>5 DEF BTyped
  <1>7. ASSUME NEW d \in Requests PROVE BFine(sent'[d], (Builder!Orders)', (Builder!Listings)')
    <2>1. CASE d = c
      BY <1>5, <2>1 DEF BFine
    <2>2. CASE d # c /\ sent[d].kind = "listing"
      BY <1>3, <1>5, <2>2 DEF BFine
    <2>3. CASE d # c /\ sent[d].kind # "listing"
      BY <1>2, <1>5, <2>3 DEF BFine
    <2>4. QED
      BY <2>1, <2>2, <2>3
  <1>8. BFines'
    BY <1>7 DEF BFines
  <1>9. QED
    BY <1>6, <1>8, BuilderThen

\* What other calls are when rows change.
LEMMA ChangedKinds ==
  ASSUME Builder!BuilderInv, NEW c \in Requests, NEW z \in BCalls, Builder!Changed(c, z)
  PROVE  /\ sent'[c] = z
         /\ \A d \in Requests \ {c} : /\ sent'[d].kind = sent[d].kind /\ sent'[d].order = sent[d].order
  <1>1. BTyped
    BY BuilderIs
  <1>2. \A d \in Requests : sent[d] \in BCalls
    BY <1>1 DEF BTyped
  <1>3. \A d \in Requests : LET y == [sent[d] EXCEPT !.late = TRUE] IN y.kind = sent[d].kind /\ y.order = sent[d].order
    BY <1>2 DEF BCalls
  <1>4. QED
    BY <1>3 DEF Builder!Changed

\* A lesson is added or deleted.
LEMMA BuilderRows ==
  ASSUME Builder!BuilderInv, NEW c \in Requests,
         Builder!upsertLesson(c) \/ Builder!importLessons(c) \/ Builder!deleteLesson(c)
  PROVE  Builder!BuilderInv'
  <1>1. BTyped /\ BFines /\ BShown
    BY BuilderIs
  <1>2. sent[c] \in BCalls /\ BFine(sent[c], Builder!Orders, Builder!Listings) /\ number \in [Lessons -> Nat \cup {Nothing}]
    BY <1>1 DEF BTyped, BFines
  <1>3. PICK kind \in {"reset", "load"} : Builder!Changed(c, Builder!Call(kind, <<>>))
    BY DEF Builder!upsertLesson, Builder!importLessons, Builder!deleteLesson
  <1>4. list' = list /\ astray' = astray /\ sent[c].kind \in {"topic", "import", "delete"}
    BY DEF Builder!upsertLesson, Builder!importLessons, Builder!deleteLesson
  <1> DEFINE z == Builder!Call(kind, <<>>)
  <1>5. z \in BCalls /\ z.kind = kind
    <2>1. kind \in Builder!Kinds /\ <<>> \in Seq(Lessons)
      BY DEF Builder!Kinds
    <2>2. QED
      BY <2>1, CallIs
  <1>6. Builder!Changed(c, z)
    BY <1>3
  <1> HIDE DEF z
  <1>7. number' \in [Lessons -> Nat \cup {Nothing}]
    <2>1. CASE Builder!upsertLesson(c)
      <3>1. PICK l \in Builder!Fresh : number' = [number EXCEPT ![l] = Len(sent[c].order)]
        BY <2>1 DEF Builder!upsertLesson
      <3>2. Len(sent[c].order) \in Nat
        BY <1>2 DEF BCalls
      <3>3. QED
        BY <1>2, <3>1, <3>2
    <2>2. CASE Builder!importLessons(c)
      <3>1. PICK l \in Builder!Fresh : number' = [number EXCEPT ![l] = 0]
        BY <2>2 DEF Builder!importLessons
      <3>2. 0 \in Nat
        OBVIOUS
      <3>3. QED
        BY <1>2, <3>1, <3>2
    <2>3. CASE Builder!deleteLesson(c)
      BY <1>2, <2>3 DEF Builder!deleteLesson
    <2>4. QED
      BY <2>1, <2>2, <2>3
  <1>8. /\ sent'[c] = z
        /\ \A d \in Requests \ {c} : /\ sent'[d].kind = sent[d].kind /\ sent'[d].order = sent[d].order
    BY <1>5, <1>6, ChangedKinds
  <1>9. BAnswers(sent'[c]) /\ \A d \in Requests : sent'[d].kind = "reorder" => d # c /\ sent[d].kind = "reorder"
    BY <1>5, <1>8 DEF BAnswers
  <1>10. BShown'
    BY <1>1, <1>4, <1>8, <1>9 DEF BShown
  <1>11. QED
    BY <1>4, <1>5, <1>6, <1>7, <1>10, BuilderChanges

\* The lessons sent are numbered in their order.
LEMMA BuilderReorders ==
  ASSUME Builder!BuilderInv, NEW c \in Requests, Builder!reorderLessons(c)
  PROVE  Builder!BuilderInv'
  <1>1. BTyped /\ BFines /\ BShown
    BY BuilderIs
  <1> DEFINE order == sent[c].order
             Place(l) == CHOOSE i \in DOMAIN order : order[i] = l
  <1>2. /\ order \in Seq(Lessons) /\ DOMAIN order = 1..Len(order) /\ Len(order) \in Nat
        /\ sent[c] \in BCalls /\ number \in [Lessons -> Nat \cup {Nothing}]
    <2>1. sent[c] \in BCalls /\ number \in [Lessons -> Nat \cup {Nothing}]
      BY <1>1 DEF BTyped
    <2>2. order \in Seq(Lessons)
      BY <2>1 DEF BCalls
    <2>3. QED
      BY <2>1, <2>2
  <1>3. /\ sent[c].kind = "reorder" /\ Builder!ToSet(order) \subseteq Builder!Rows
        /\ number' = [l \in Lessons |-> IF l \in Builder!ToSet(order) THEN Place(l) - 1 ELSE number[l]]
        /\ Builder!Changed(c, Builder!NoCall) /\ list' = list /\ astray' = astray
    BY DEF Builder!reorderLessons
  <1>4. Builder!ToSet(order) = {order[i] : i \in DOMAIN order}
    BY DEF Builder!ToSet
  <1>5. \A l \in Builder!ToSet(order) : Place(l) \in 1..Len(order) /\ order[Place(l)] = l
    BY <1>2, <1>4
  <1> HIDE DEF order, Place
  <1>6. \A l \in Builder!ToSet(order) : Place(l) - 1 \in Nat
    BY <1>2, <1>5
  <1>7. number' \in [Lessons -> Nat \cup {Nothing}]
    BY <1>2, <1>3, <1>6
  <1>8. (Builder!Rows)' = Builder!Rows
    <2>1. \A l \in Lessons : number'[l] # Nothing <=> number[l] # Nothing
      <3>1. \A l \in Builder!ToSet(order) : number[l] # Nothing /\ number'[l] # Nothing
        BY <1>3, <1>6, NamesAssumption DEF Builder!Rows
      <3>2. \A l \in Lessons \ Builder!ToSet(order) : number'[l] = number[l]
        BY <1>3
      <3>3. QED
        BY <3>1, <3>2
    <2>2. QED
      BY <2>1 DEF Builder!Rows
  <1>9. (Builder!Orders)' = Builder!Orders
    BY <1>8 DEF Builder!Orders
  <1>10. ASSUME order \in Builder!Orders PROVE order \in (Builder!Listings)'
    <2>1. /\ \A i, j \in 1..Len(order) : order[i] = order[j] => i = j
          /\ \A i \in 1..Len(order) : order[i] \in Lessons
      BY <1>2, <1>10, OrdersAre
    <2>2. \A i \in 1..Len(order) : number'[order[i]] = i - 1
      <3>1. \A i \in 1..Len(order) : order[i] \in Builder!ToSet(order)
        BY <1>2, <1>4
      <3>2. \A i \in 1..Len(order) : Place(order[i]) = i
        BY <1>5, <2>1, <3>1
      <3>3. QED
        BY <1>3, <2>1, <3>1, <3>2
    <2>3. \A i, j \in 1..Len(order) : i < j => number'[order[i]] <= number'[order[j]]
      BY <1>2, <2>2
    <2>4. QED
      BY <1>2, <1>9, <1>10, <2>3 DEF Builder!Listings
  <1>11. /\ sent'[c] = Builder!NoCall
         /\ \A d \in Requests \ {c} : /\ sent'[d].kind = sent[d].kind /\ sent'[d].order = sent[d].order
    BY <1>3, NoneSent, ChangedKinds
  <1>12. BShown'
    <2>1. SUFFICES ASSUME ~astray PROVE BShown'
      BY <1>3 DEF BShown
    <2>2. \A d \in Requests : sent'[d].kind = "reorder" => sent'[d].order = list'
      BY <1>1, <1>3, <1>11, <2>1, NoneSent DEF BShown
    <2>3. CASE \E d \in Requests : BAnswers(sent[d])
      BY <1>3, <1>11, <2>2, <2>3 DEF BShown, BAnswers
    <2>4. CASE \A d \in Requests : ~BAnswers(sent[d])
      <3>1. list \in Builder!Orders /\ list = order
        BY <1>1, <1>3, <2>1, <2>4 DEF BShown, order
      <3>2. list' \in (Builder!Orders)' /\ list' \in (Builder!Listings)'
        BY <1>3, <1>9, <1>10, <3>1
      <3>3. QED
        BY <2>2, <3>2 DEF BShown
    <2>5. QED
      BY <2>3, <2>4
  <1>13. QED
    BY <1>3, <1>7, <1>12, NoneSent, BuilderChanges

\* The course is read, its answer comes, or a call fails.
LEMMA BuilderHears ==
  ASSUME Builder!BuilderInv, NEW c \in Requests,
         Builder!getCourse(c) \/ Builder!load(c) \/ Builder!added(c) \/ Builder!Fail(c)
  PROVE  Builder!BuilderInv'
  <1>1. BTyped /\ BFines /\ BShown
    BY BuilderIs
  <1>2. /\ list \in Seq(Lessons) /\ sent \in [Requests -> BCalls] /\ sent[c] \in BCalls /\ astray \in BOOLEAN
        /\ BFine(sent[c], Builder!Orders, Builder!Listings)
    BY <1>1 DEF BTyped, BFines
  <1>3. number' = number
    BY DEF Builder!getCourse, Builder!load, Builder!added, Builder!Fail
  <1>4. BFine(Builder!NoCall, Builder!Orders, Builder!Listings)
    BY NoneSent DEF BFine
  <1>5. CASE Builder!getCourse(c)
    <2>1. PICK s \in Builder!Listings : sent' = [sent EXCEPT ![c] = Builder!Call("listing", s)]
      BY <1>5 DEF Builder!getCourse
    <2>2. list' = list /\ astray' = astray /\ sent[c].kind = "load"
      BY <1>5 DEF Builder!getCourse
    <2> DEFINE z == Builder!Call("listing", s)
    <2>3. s \in Builder!Orders /\ s \in Seq(Lessons)
      <3>1. s \in Builder!Orders
        BY DEF Builder!Listings
      <3>2. QED
        BY <3>1, OrdersAre
    <2>4. "listing" \in Builder!Kinds
      BY DEF Builder!Kinds
    <2>5. z \in BCalls /\ z.kind = "listing" /\ z.order = s
      BY <2>3, <2>4, CallIs
    <2> HIDE DEF z
    <2>6. sent' = [sent EXCEPT ![c] = z]
      BY <2>1 DEF z
    <2>7. BFine(z, Builder!Orders, Builder!Listings)
      BY <2>3, <2>5 DEF BFine
    <2>8. \A d \in Requests : sent'[d] = IF d = c THEN z ELSE sent[d]
      BY <1>2, <2>6
    <2>9. BAnswers(sent'[c])
      BY <2>5, <2>8 DEF BAnswers
    <2>10. BShown'
      BY <1>1, <2>2, <2>5, <2>8, <2>9 DEF BShown
    <2>11. QED
      BY <1>2, <1>3, <2>2, <2>5, <2>6, <2>7, <2>10, BuilderMoves
  <1>6. CASE Builder!load(c)
    <2>1. /\ sent[c].kind = "listing" /\ list' = sent[c].order /\ sent' = [sent EXCEPT ![c] = Builder!NoCall]
          /\ astray' = (sent[c].late \/ \E d \in Requests \ {c} : sent[d].kind = "reorder")
      BY <1>6 DEF Builder!load
    <2>2. list' \in Seq(Lessons) /\ astray' \in BOOLEAN
      BY <1>2, <2>1 DEF BCalls
    <2>3. ASSUME ~astray' PROVE /\ \A d \in Requests : sent'[d].kind # "reorder"
                                /\ list' \in Builder!Orders /\ list' \in Builder!Listings
      <3>1. \A d \in Requests : sent'[d] = IF d = c THEN Builder!NoCall ELSE sent[d]
        BY <1>2, <2>1
      <3>2. list' \in Builder!Listings
        BY <1>2, <2>1, <2>3 DEF BFine
      <3>3. QED
        BY <2>1, <2>3, <3>1, <3>2, NoneSent DEF Builder!Listings
    <2>4. BShown'
      BY <1>3, <2>3, StillShown
    <2>5. QED
      BY <1>3, <1>4, <2>1, <2>2, <2>4, NoneSent, BuilderMoves
  <1>7. CASE Builder!added(c) \/ Builder!Fail(c)
    <2>1. list' = list /\ astray' = TRUE /\ sent' = [sent EXCEPT ![c] = Builder!NoCall]
      BY <1>7 DEF Builder!added, Builder!Fail
    <2>2. BShown'
      BY <2>1 DEF BShown
    <2>3. QED
      BY <1>2, <1>3, <1>4, <2>1, <2>2, NoneSent, BuilderMoves
  <1>8. QED
    BY <1>5, <1>6, <1>7

\* Every step keeps the invariant of the builder.
LEMMA BuilderStep ==
  ASSUME Builder!BuilderInv, Builder!Next \/ UNCHANGED builder
  PROVE  Builder!BuilderInv'
  <1>1. CASE UNCHANGED builder
    <2>1. number' = number /\ list' = list /\ sent' = sent /\ astray' = astray
      BY <1>1 DEF builder
    <2>2. BTyped /\ BFines /\ BShown
      BY BuilderIs
    <2>3. (Builder!Orders)' = Builder!Orders /\ (Builder!Listings)' = Builder!Listings
      BY <2>1 DEF Builder!Orders, Builder!Listings, Builder!Rows
    <2>4. BTyped' /\ BFines' /\ BShown'
      BY <2>1, <2>2, <2>3 DEF BTyped, BFines, BShown
    <2>5. QED
      BY <2>4, BuilderThen
  <1>2. CASE Builder!Next
    BY <1>2, BuilderAsks, BuilderRows, BuilderReorders, BuilderHears DEF Builder!Next
  <1>3. QED
    BY <1>1, <1>2

\* It holds of a course without lessons.
LEMMA BuilderAtFirst ==
  ASSUME Builder!Init
  PROVE  Builder!BuilderInv
  <1>1. /\ number = [l \in Lessons |-> Nothing] /\ list = <<>> /\ sent = [c \in Requests |-> Builder!NoCall]
        /\ astray = FALSE
    BY DEF Builder!Init
  <1>2. BTyped /\ BFines
    <2>1. <<>> \in Seq(Lessons) /\ sent \in [Requests -> BCalls] /\ number \in [Lessons -> Nat \cup {Nothing}]
      BY <1>1, NoneSent
    <2>2. BTyped
      BY <1>1, <2>1 DEF BTyped
    <2>3. QED
      BY <1>1, <2>2, NoneSent DEF BFines, BFine
  <1>3. Builder!Rows = {}
    BY <1>1 DEF Builder!Rows
  <1>4. Builder!Cardinality(Builder!Rows) = 0
    <2>1. Builder!Cardinality({}) = Cardinality({})
      BY Zenon DEF Builder!Cardinality, Cardinality, Builder!IsFiniteSet, IsFiniteSet
    <2>2. QED
      BY <1>3, <2>1, FS_EmptySet
  <1>5. list \in Builder!Listings /\ list \in Builder!Orders
    <2>1. list \in [1..0 -> Builder!Rows] /\ DOMAIN list = {}
      BY <1>1
    <2>2. QED
      BY <1>4, <2>1 DEF Builder!Listings, Builder!Orders
  <1>6. BShown
    BY <1>1, <1>5, NoneSent DEF BShown
  <1>7. QED
    BY <1>2, <1>6, BuilderIs

\* With no call on its way the lessons are shown as they are stored.
LEMMA BuilderPromise ==
  ASSUME Builder!BuilderInv
  PROVE  OutlineIsStored
  BY BuilderIs, NoneSent DEF OutlineIsStored, Builder!OutlineIsStored, BShown, BAnswers

(***************************************************************************)
(* What the institute, the page of a lesson and the builder keep true      *)
(***************************************************************************)

\* Nobody is in the course for nothing: a seat was paid for, or the course was at one
\* moment of the request published and free; and a learner is welcomed once.  It holds
\* of the institute with requests of any people for any of the operations, and of the
\* instance with three groups of them.
THEOREM SeatsAreOffered ==
  (Course!Spec => []SeatsWereOffered) /\ (AllSpec => []SeatsWereOffered)
  <1>1. Course!Init \/ AllInit => Course!InstituteInv
    BY CourseAtFirst DEF AllInit
  <1>2. Course!InstituteInv /\ [Course!Next]_(Course!instVars) => Course!InstituteInv'
    BY CourseStep DEF Course!instVars, Course!tables, Course!ghosts, institute
  <1>3. Course!InstituteInv /\ [AllNext]_allVars => Course!InstituteInv'
    <2>1. AllNext => Course!Next \/ UNCHANGED institute
      BY GroupsServe DEF AllNext, Only
    <2>2. UNCHANGED allVars => UNCHANGED institute
      BY DEF allVars
    <2>3. QED
      BY <2>1, <2>2, CourseStep
  <1>4. Course!InstituteInv => SeatsWereOffered
    BY CoursePromises
  <1>5. QED
    BY <1>1, <1>2, <1>3, <1>4, PTL DEF AllSpec, Course!Spec

\* When nothing is on its way, a lesson has the resources it was saved with last and
\* the average shown is that of the ratings, but for saves that overlapped or broke
\* off and ratings that were overtaken.
THEOREM EditsAreSettled ==
  AllSpec => []EditsSettle
  <1>1. AllInit => Course!InstituteInv
    BY CourseAtFirst DEF AllInit
  <1>2. Course!InstituteInv /\ [AllNext]_allVars => Course!InstituteInv'
    <2>1. AllNext => Course!Next \/ UNCHANGED institute
      BY GroupsServe DEF AllNext, Only
    <2>2. UNCHANGED allVars => UNCHANGED institute
      BY DEF allVars
    <2>3. QED
      BY <2>1, <2>2, CourseStep
  <1>3. Course!InstituteInv => EditsSettle
    BY CoursePromises
  <1>4. QED
    BY <1>1, <1>2, <1>3, PTL DEF AllSpec

\* A note is stored for the lesson it was written for, in whatever order the learner
\* moves and the answers come, and the ticks end as the completed lessons.
THEOREM NotesAreKept ==
  AllSpec => []NotesKeepTheirLesson
  <1>1. AllInit => Player!PlayerInv
    BY PlayerAtFirst DEF AllInit
  <1>2. Player!PlayerInv /\ [AllNext]_allVars => Player!PlayerInv'
    BY PlayerStep DEF AllNext, Only, allVars
  <1>3. Player!PlayerInv => NotesKeepTheirLesson
    BY DEF Player!PlayerInv, NotesKeepTheirLesson
  <1>4. QED
    BY <1>1, <1>2, <1>3, PTL DEF AllSpec

\* With no call on its way the lessons are stored in the order the builder shows,
\* however they were moved, imported and removed, until something goes astray.
THEOREM OutlinesAreStored ==
  AllSpec => []OutlineIsStored
  <1>1. AllInit => Builder!BuilderInv
    BY BuilderAtFirst DEF AllInit
  <1>2. Builder!BuilderInv /\ [AllNext]_allVars => Builder!BuilderInv'
    BY BuilderStep DEF AllNext, Only, allVars
  <1>3. Builder!BuilderInv => OutlineIsStored
    BY BuilderPromise
  <1>4. QED
    BY <1>1, <1>2, <1>3, PTL DEF AllSpec
=============================================================================
