------------------------- MODULE AutomationsProofs -------------------------
(***************************************************************************)
(* For any number of jobs, attempts, stalls and crashes, with Redis or     *)
(* without: a trigger completes its workflow once, no run is left          *)
(* unsettled, and no job is tried more often than it may be.               *)
(***************************************************************************)
EXTENDS Automations, TLAPS

USE AutomationsAssumption

(***************************************************************************)
(* What becomes of a job                                                   *)
(***************************************************************************)

\* What the invariant says of a job, but for the workflow.
Fits(r) == r \in Job /\ (r.phase = "active" <=> r.pc # "none") /\ Ordered(r) /\ Counted(r)

LEMMA LimitIs ==
  ASSUME NEW kind
  PROVE  Limit(kind) \in Nat \ {0}
  BY DEF Limit

\* Nothing is known of a job that is not enqueued, and little of one that is.
LEMMA BlankIs ==
  /\ Blank \in Job /\ Blank.phase = "none" /\ Blank.pc = "none" /\ Blank.tries = 0 /\ Blank.stalls = 0
  /\ Blank.runs = <<>> /\ Blank.attempt = 1
  <1>1. /\ "none" \in {"none", "run", "webhook"} /\ "none" \in {"none", "waiting", "active", "ended"}
        /\ "none" \in Pcs /\ 0 \in Nat /\ 1 \in Nat /\ <<>> \in Seq(Run)
    BY DEF Pcs
  <1>b. FALSE \in BOOLEAN
    BY Zenon
  <1>2. Blank \in Job
    BY <1>1, <1>b, Zenon DEF Blank, Job
  <1>3. QED
    BY <1>2 DEF Blank

LEMMA EnqueuedFits ==
  ASSUME NEW kind \in {"run", "webhook"}, NEW attempt \in 1..LastAttempt + 1, NEW root \in Nat
  PROVE  LET r == [Blank EXCEPT !.kind = kind, !.phase = "waiting", !.attempt = attempt, !.root = root]
         IN  Fits(r) /\ r.pc = "none" /\ r.runs = <<>>
  <1> DEFINE r == [Blank EXCEPT !.kind = kind, !.phase = "waiting", !.attempt = attempt, !.root = root]
  <1>0. attempt \in Nat
    OBVIOUS
  <1>1. /\ r \in Job /\ r.phase = "waiting" /\ r.pc = "none" /\ r.tries = 0 /\ r.stalls = 0
        /\ r.runs = <<>> /\ r.attempt = attempt /\ r.kind = kind
    BY <1>0, BlankIs DEF Job
  <1> HIDE DEF r
  <1>2. Ordered(r)
    BY <1>1 DEF Ordered, OfRun
  <1>3. Counted(r)
    BY <1>1, LimitIs DEF Counted
  <1>4. QED
    BY <1>1, <1>2, <1>3 DEF Fits, r

\* A job that ends.
LEMMA FinishedFits ==
  ASSUME NEW r \in Job, r.attempt \in 1..LastAttempt + 1, r.kind # "run" => r.runs = <<>>,
         \A n \in DOMAIN r.runs : Settled(r.runs[n]) /\ (n # Len(r.runs) => Failed(r, n))
  PROVE  Fits(Finished(r)) /\ Finished(r).pc = "none" /\ Finished(r).runs = r.runs
  <1> DEFINE f == Finished(r)
  <1>1. /\ f \in Job /\ f.phase = "ended" /\ f.pc = "none" /\ f.tries = 0 /\ f.stalls = 0
        /\ f.runs = r.runs /\ f.attempt = r.attempt /\ f.kind = r.kind
    BY DEF Finished, Job, Pcs
  <1> HIDE DEF f
  <1>2. Ordered(f)
    BY <1>1 DEF Ordered, OfRun, Failed
  <1>3. Counted(f)
    BY <1>1, LimitIs DEF Counted
  <1>4. QED
    BY <1>1, <1>2, <1>3 DEF Fits, f

\* A run that has failed is settled.
LEMMA FailedIsSettled ==
  ASSUME NEW r, NEW n, Failed(r, n)
  PROVE  Settled(r.runs[n])
  BY DEF Failed, Settled

\* A processor that throws, with no run at work.
LEMMA RejectedFits ==
  ASSUME NEW r \in Job, Counted(r), r.kind # "run" => r.runs = <<>>,
         \A n \in DOMAIN r.runs : Failed(r, n)
  PROVE  Fits(Rejected(r)) /\ Rejected(r).pc = "none" /\ Rejected(r).runs = r.runs
  <1>1. CASE Redis /\ r.tries < Limit(r.kind)
    <2> DEFINE f == [r EXCEPT !.phase = "waiting", !.pc = "none"]
    <2>1. /\ f \in Job /\ f.phase = "waiting" /\ f.pc = "none" /\ f.tries = r.tries /\ f.stalls = r.stalls
          /\ f.runs = r.runs /\ f.attempt = r.attempt /\ f.kind = r.kind
      BY DEF Job, Pcs
    <2>2. Rejected(r) = f
      BY <1>1 DEF Rejected
    <2> HIDE DEF f
    <2>3. Ordered(f)
      BY <2>1, FailedIsSettled DEF Ordered, OfRun, Failed
    <2>4. r.tries \in Nat /\ r.stalls \in Nat /\ Limit(r.kind) \in Nat
      BY LimitIs DEF Job
    <2>5. Counted(f)
      <3>1. r.tries < Limit(r.kind) + r.stalls
        BY <1>1, <2>4
      <3>2. f.tries < Limit(f.kind) + f.stalls /\ f.tries <= Limit(f.kind) + f.stalls
        BY <2>1, <2>4, <3>1
      <3>3. QED
        BY <2>1, <3>2 DEF Counted
    <2>6. QED
      BY <2>1, <2>2, <2>3, <2>5 DEF Fits
  <1>2. CASE ~(Redis /\ r.tries < Limit(r.kind))
    <2>1. Rejected(r) = Finished(r)
      BY <1>2 DEF Rejected
    <2>2. QED
      BY <2>1, FinishedFits, FailedIsSettled DEF Counted
  <1>3. QED
    BY <1>1, <1>2

\* A job that a crash interrupts, with no run at work.
LEMMA StalledFits ==
  ASSUME NEW r \in Job, Counted(r), r.kind # "run" => r.runs = <<>>,
         \A n \in DOMAIN r.runs : Failed(r, n)
  PROVE  Fits(Stalled(r)) /\ Stalled(r).pc = "none" /\ Stalled(r).runs = r.runs
  <1>1. CASE Redis /\ r.stalls < MaxStalled
    <2> DEFINE s == r.stalls + 1
               f == [r EXCEPT !.phase = "waiting", !.pc = "none", !.stalls = s]
    <2>1. r.tries \in Nat /\ r.stalls \in Nat /\ Limit(r.kind) \in Nat
      BY LimitIs DEF Job
    <2>2. s \in Nat /\ s = r.stalls + 1
      BY <2>1
    <2>3. Stalled(r) = f
      BY <1>1 DEF Stalled
    <2> HIDE DEF s
    <2>4. /\ f \in Job /\ f.phase = "waiting" /\ f.pc = "none" /\ f.tries = r.tries /\ f.stalls = s
          /\ f.runs = r.runs /\ f.attempt = r.attempt /\ f.kind = r.kind
      BY <2>2 DEF Job, Pcs
    <2> HIDE DEF f
    <2>5. Ordered(f)
      BY <2>4, FailedIsSettled DEF Ordered, OfRun, Failed
    <2>6. Counted(f)
      <3>0. MaxStalled \in Nat /\ r.stalls < MaxStalled
        BY <1>1
      <3>t. r.tries <= Limit(r.kind) + r.stalls
        BY DEF Counted
      <3>s. s <= MaxStalled
        BY <2>1, <2>2, <3>0
      <3>1. r.tries <= Limit(r.kind) + r.stalls /\ s <= MaxStalled
        BY <3>t, <3>s
      <3>2. r.tries < Limit(r.kind) + s
        BY <2>1, <2>2, <3>1
      <3>3. f.tries < Limit(f.kind) + f.stalls /\ f.tries <= Limit(f.kind) + f.stalls
        BY <2>1, <2>2, <2>4, <3>2
      <3>4. QED
        BY <2>4, <3>1, <3>3 DEF Counted
    <2>7. QED
      BY <2>3, <2>4, <2>5, <2>6 DEF Fits
  <1>2. CASE ~(Redis /\ r.stalls < MaxStalled)
    <2>1. Stalled(r) = Finished(r)
      BY <1>2 DEF Stalled
    <2>2. QED
      BY <2>1, FinishedFits, FailedIsSettled DEF Counted
  <1>3. QED
    BY <1>1, <1>2

\* All runs but the one at work have failed.
LEMMA FrontIs ==
  ASSUME NEW s \in Seq(Run), s # <<>>
  PROVE  /\ Front(s) \in Seq(Run)
         /\ \A n \in DOMAIN Front(s) : n \in DOMAIN s /\ n # Len(s) /\ Front(s)[n] = s[n]
  BY DEF Front

LEMMA ForgetFits ==
  ASSUME NEW r, Fits(r), r.phase = "active"
  PROVE  /\ Forget(r) \in Job /\ Counted(Forget(r))
         /\ Forget(r).kind # "run" => Forget(r).runs = <<>>
         /\ \A n \in DOMAIN Forget(r).runs : Failed(Forget(r), n)
  <1>1. CASE r.runs = <<>> \/ r.pc \in {"find", "create"}
    <2>1. Forget(r) = r
      BY <1>1 DEF Forget
    <2>2. \A n \in DOMAIN r.runs : Failed(r, n)
      <3>1. CASE r.runs = <<>>
        BY <3>1
      <3>2. CASE r.pc \in {"find", "create"}
        BY <3>2 DEF Fits, Ordered, OfRun
      <3>3. QED
        BY <1>1, <3>1, <3>2
    <2>3. QED
      BY <2>1, <2>2 DEF Fits, Ordered
  <1>2. CASE ~(r.runs = <<>> \/ r.pc \in {"find", "create"})
    <2> DEFINE f == [r EXCEPT !.runs = Front(r.runs)]
    <2>1. Forget(r) = f /\ r \in Job /\ r.runs \in Seq(Run) /\ r.runs # <<>>
      BY <1>2 DEF Forget, Fits, Job
    <2>2. /\ f \in Job /\ f.phase = r.phase /\ f.pc = r.pc /\ f.tries = r.tries /\ f.stalls = r.stalls
          /\ f.runs = Front(r.runs) /\ f.attempt = r.attempt /\ f.kind = r.kind
      BY <2>1, FrontIs DEF Job
    <2> HIDE DEF f
    <2>3. Counted(f)
      BY <2>2 DEF Fits, Counted
    <2>4. ASSUME NEW n \in DOMAIN f.runs PROVE Failed(f, n)
      <3>1. n \in DOMAIN r.runs /\ n # Len(r.runs) /\ f.runs[n] = r.runs[n]
        BY <2>1, <2>2, <2>4, FrontIs
      <3>2. QED
        BY <3>1 DEF Fits, Ordered, Failed
    <2>5. r.kind = "run"
      BY <2>1 DEF Fits, Ordered
    <2>6. QED
      BY <2>1, <2>2, <2>3, <2>4, <2>5
  <1>3. QED
    BY <1>1, <1>2

(***************************************************************************)
(* Steps of one job                                                        *)
(***************************************************************************)

LEMMA Parts ==
  AutomationsInv <=>
      /\ workflow \in States /\ hook \in States /\ crashes \in 0..MaxCrashes
      /\ job \in [Jobs -> Job] /\ \A j \in Jobs : Fits(job[j])
      /\ \A j \in Jobs : workflow # "gone" /\ job[j].pc \in OfRun => job[j].runs # <<>>
  BY DEF AutomationsInv, Fits

\* One job changes to another that fits.
LEMMA JobChanges ==
  ASSUME AutomationsInv, NEW j \in Jobs, NEW r, Fits(r), job' = [job EXCEPT ![j] = r],
         workflow # "gone" /\ r.pc \in OfRun => r.runs # <<>>,
         UNCHANGED <<workflow, hook, crashes>>
  PROVE  AutomationsInv'
  <1>1. r \in Job /\ job \in [Jobs -> Job]
    BY Parts DEF Fits
  <1>2. job' \in [Jobs -> Job] /\ \A i \in Jobs : job'[i] = IF i = j THEN r ELSE job[i]
    BY <1>1
  <1>3. \A i \in Jobs : Fits(job'[i]) /\ (workflow # "gone" /\ job'[i].pc \in OfRun => job'[i].runs # <<>>)
    BY <1>2, Parts
  <1>4. QED
    BY <1>2, <1>3, Parts DEF AutomationsInv, Fits

\* And another job is enqueued as well.
LEMMA JobAndNext ==
  ASSUME AutomationsInv, NEW j \in Jobs, NEW r, Fits(r),
         workflow # "gone" /\ r.pc \in OfRun => r.runs # <<>>,
         NEW k \in Jobs, NEW kind \in {"run", "webhook"}, NEW attempt \in 1..LastAttempt + 1,
         NEW root \in Nat, job' = Enqueued([job EXCEPT ![j] = r], k, kind, attempt, root),
         UNCHANGED <<workflow, hook, crashes>>
  PROVE  AutomationsInv'
  <1> DEFINE q == [Blank EXCEPT !.kind = kind, !.phase = "waiting", !.attempt = attempt, !.root = root]
  <1>1. Fits(q) /\ q.pc = "none"
    BY EnqueuedFits
  <1>2. job' = [[job EXCEPT ![j] = r] EXCEPT ![k] = q]
    BY DEF Enqueued
  <1> HIDE DEF q
  <1>3. r \in Job /\ q \in Job /\ job \in [Jobs -> Job]
    BY <1>1, Parts DEF Fits
  <1>4. job' \in [Jobs -> Job]
        /\ \A i \in Jobs : job'[i] = IF i = k THEN q ELSE IF i = j THEN r ELSE job[i]
    BY <1>2, <1>3
  <1>5. q.pc \notin OfRun
    BY <1>1 DEF OfRun
  <1>6. \A i \in Jobs : Fits(job'[i]) /\ (workflow # "gone" /\ job'[i].pc \in OfRun => job'[i].runs # <<>>)
    BY <1>1, <1>4, <1>5, Parts
  <1>7. QED
    BY <1>4, <1>6, Parts DEF AutomationsInv, Fits

\* A job goes on at another statement, no run begun or ended by that.
LEMMA GoesFurther ==
  ASSUME NEW r, Fits(r), r.phase = "active", NEW pc \in Pcs, pc # "none",
         pc \in {"again", "again error"} => r.attempt < LastAttempt,
         pc \in OfRun <=> r.pc \in OfRun, pc \notin {"announce", "failed"},
         NEW q, q \in Job, q.phase = r.phase, q.pc = pc, q.tries = r.tries, q.stalls = r.stalls,
         q.runs = r.runs, q.attempt = r.attempt, q.kind = r.kind
  PROVE  Fits(q)
  <1>1. Ordered(q)
    BY DEF Fits, Ordered, Failed
  <1>2. Counted(q)
    BY DEF Fits, Counted
  <1>3. QED
    BY <1>1, <1>2 DEF Fits

LEMMA Enqueues ==
  ASSUME AutomationsInv, NEW k \in Jobs, NEW kind \in {"run", "webhook"}, NEW attempt \in 1..LastAttempt + 1,
         NEW root \in Nat, job' = Enqueued(job, k, kind, attempt, root),
         UNCHANGED <<workflow, hook, crashes>>
  PROVE  AutomationsInv'
  <1> DEFINE q == [Blank EXCEPT !.kind = kind, !.phase = "waiting", !.attempt = attempt, !.root = root]
  <1>1. Fits(q) /\ q.pc = "none"
    BY EnqueuedFits
  <1>2. job' = [job EXCEPT ![k] = q]
    BY DEF Enqueued
  <1> HIDE DEF q
  <1>3. q.pc \notin OfRun
    BY <1>1 DEF OfRun
  <1>4. QED
    BY <1>1, <1>2, <1>3, JobChanges

\* What the invariant says of a job at work.
LEMMA AtWork ==
  ASSUME AutomationsInv, NEW j \in Jobs
  PROVE  /\ Fits(job[j]) /\ job[j] \in Job /\ job \in [Jobs -> Job] /\ j \in Nat
         /\ workflow # "gone" /\ job[j].pc \in OfRun => job[j].runs # <<>>
         /\ job[j].attempt \in 1..LastAttempt + 1 /\ Counted(job[j])
         /\ job[j].phase = "active" <=> job[j].pc # "none"
         /\ job[j].kind # "run" => job[j].runs = <<>>
         /\ job[j].pc \notin OfRun => \A n \in DOMAIN job[j].runs : Settled(job[j].runs[n])
         /\ job[j].pc \notin OfRun /\ job[j].phase # "ended" =>
                \A n \in DOMAIN job[j].runs : Failed(job[j], n)
         /\ \A n \in DOMAIN job[j].runs : n # Len(job[j].runs) => Failed(job[j], n)
  <1>1. Fits(job[j]) /\ job \in [Jobs -> Job]
        /\ (workflow # "gone" /\ job[j].pc \in OfRun => job[j].runs # <<>>)
    BY Parts
  <1>2. j \in Nat
    BY DEF Jobs
  <1>3. QED
    BY <1>1, <1>2 DEF Fits, Ordered, Counted

\* A job that is at no run ends.
LEMMA Ends ==
  ASSUME AutomationsInv, NEW j \in Jobs, job' = Ended(j), job[j].pc \notin OfRun,
         UNCHANGED <<workflow, hook, crashes>>
  PROVE  AutomationsInv'
  <1>1. Fits(Finished(job[j])) /\ Finished(job[j]).pc = "none"
    BY AtWork, FinishedFits
  <1>2. job' = [job EXCEPT ![j] = Finished(job[j])] /\ "none" \notin OfRun
    BY AtWork DEF Ended, OfRun
  <1>3. QED
    BY <1>1, <1>2, JobChanges

LEMMA TakeKeeps ==
  ASSUME AutomationsInv, NEW j \in Jobs, Take(j)
  PROVE  AutomationsInv'
  <1> DEFINE r == job[j]
             t == r.tries + 1
             q == [r EXCEPT !.phase = "active", !.pc = "find", !.tries = t]
  <1>1. r.phase = "waiting" /\ r.pc = "none" /\ UNCHANGED <<workflow, hook, crashes>>
    BY AtWork DEF Take
  <1>2. r \in Job /\ r.tries \in Nat /\ r.stalls \in Nat /\ Limit(r.kind) \in Nat
    BY AtWork, LimitIs DEF Job
  <1>3. t \in Nat /\ t = r.tries + 1
    BY <1>2
  <1>4. job' = [job EXCEPT ![j] = q]
    BY AtWork DEF Take, Job
  <1> HIDE DEF t
  <1>5. /\ q \in Job /\ q.phase = "active" /\ q.pc = "find" /\ q.tries = t /\ q.stalls = r.stalls
        /\ q.runs = r.runs /\ q.attempt = r.attempt /\ q.kind = r.kind
    BY <1>2, <1>3 DEF Job, Pcs
  <1> HIDE DEF q
  <1>6. Ordered(q)
    <2>1. \A n \in DOMAIN r.runs : Failed(r, n) /\ Settled(r.runs[n])
      BY <1>1, AtWork DEF OfRun
    <2>2. r.kind # "run" => r.runs = <<>>
      BY AtWork DEF Fits, Ordered
    <2>3. QED
      BY <1>5, <2>1, <2>2 DEF Ordered, OfRun, Failed
  <1>7. Counted(q)
    <2>1. r.tries < Limit(r.kind) + r.stalls /\ r.stalls <= MaxStalled /\ r.attempt \in 1..LastAttempt + 1
      BY <1>1, AtWork DEF Counted
    <2>2. t <= Limit(r.kind) + r.stalls
      BY <1>2, <1>3, <2>1
    <2>3. QED
      BY <1>5, <2>1, <2>2 DEF Counted
  <1>8. Fits(q) /\ q.pc \notin OfRun
    BY <1>5, <1>6, <1>7 DEF Fits, OfRun
  <1>9. QED
    BY <1>1, <1>4, <1>8, JobChanges

LEMMA CrashKeeps ==
  ASSUME AutomationsInv, Crash
  PROVE  AutomationsInv'
  <1>1. /\ workflow' = workflow /\ hook' = hook /\ crashes' \in 0..MaxCrashes
        /\ job' = [j \in Jobs |->
                  IF job[j].phase = "active" THEN Stalled(Forget(job[j]))
                  ELSE IF job[j].phase = "waiting" /\ ~Redis THEN Finished(job[j]) ELSE job[j]]
    BY DEF Crash, AutomationsInv
  <1>2. ASSUME NEW j \in Jobs
        PROVE  Fits(job'[j]) /\ (workflow # "gone" /\ job'[j].pc \in OfRun => job'[j].runs # <<>>)
    <2>0. "none" \notin OfRun
      BY DEF OfRun
    <2>1. CASE job[j].phase = "active"
      <3>1. Fits(Stalled(Forget(job[j]))) /\ Stalled(Forget(job[j])).pc = "none"
        BY <2>1, AtWork, ForgetFits, StalledFits
      <3>2. job'[j] = Stalled(Forget(job[j]))
        BY <1>1, <2>1
      <3>3. QED
        BY <2>0, <3>1, <3>2
    <2>2. CASE job[j].phase = "waiting" /\ ~Redis
      <3>1. Fits(Finished(job[j])) /\ Finished(job[j]).pc = "none"
        BY <2>0, <2>2, AtWork, FinishedFits
      <3>2. job'[j] = Finished(job[j])
        BY <1>1, <2>2
      <3>3. QED
        BY <2>0, <3>1, <3>2
    <2>3. CASE job[j].phase # "active" /\ ~(job[j].phase = "waiting" /\ ~Redis)
      <3>1. job'[j] = job[j]
        BY <1>1, <2>3
      <3>2. QED
        BY <3>1, AtWork
    <2>4. QED
      BY <2>1, <2>2, <2>3
  <1>3. job' \in [Jobs -> Job]
    BY <1>1, <1>2 DEF Fits
  <1>4. QED
    BY <1>1, <1>2, <1>3 DEF AutomationsInv, Fits

LEMMA PcMoves ==
  ASSUME AutomationsInv, NEW j \in Jobs, job[j].phase = "active", NEW pc \in Pcs, pc # "none",
         pc \in {"again", "again error"} => job[j].attempt < LastAttempt,
         pc \in OfRun <=> job[j].pc \in OfRun, pc \notin {"announce", "failed"},
         job' = Goto(j, pc), UNCHANGED <<workflow, hook, crashes>>
  PROVE  AutomationsInv'
  <1> DEFINE q == [job[j] EXCEPT !.pc = pc]
  <1>1. job' = [job EXCEPT ![j] = q]
    BY AtWork DEF Goto, Job
  <1>f. /\ q \in Job /\ q.phase = job[j].phase /\ q.pc = pc /\ q.tries = job[j].tries
        /\ q.stalls = job[j].stalls /\ q.runs = job[j].runs /\ q.attempt = job[j].attempt
        /\ q.kind = job[j].kind
    <2>1. job[j] \in Job
      BY AtWork
    <2>2. QED
      BY <2>1 DEF Job
  <1> HIDE DEF q
  <1>2. Fits(q)
    BY <1>f, AtWork, GoesFurther
  <1>3. workflow # "gone" /\ q.pc \in OfRun => q.runs # <<>>
    BY <1>f, AtWork
  <1>4. QED
    BY <1>1, <1>2, <1>3, JobChanges

(***************************************************************************)
(* Runs                                                                    *)
(***************************************************************************)

LEMMA FindWorkflowKeeps ==
  ASSUME AutomationsInv, NEW j \in Jobs, FindWorkflow(j)
  PROVE  AutomationsInv'
  <1>1. job[j].pc = "find" /\ job[j].phase = "active" /\ UNCHANGED <<workflow, hook, crashes>>
        /\ "find" \notin OfRun /\ "create" \in Pcs /\ "create" \notin OfRun
    BY DEF FindWorkflow, At, OfRun, Pcs
  <1>2. CASE workflow = "enabled"
    BY <1>1, <1>2, PcMoves DEF FindWorkflow
  <1>3. CASE workflow # "enabled"
    BY <1>1, <1>3, Ends DEF FindWorkflow
  <1>4. QED
    BY <1>2, <1>3

\* The first run of a job, or the next: the ones before have failed.
LEMMA CreateRunKeeps ==
  ASSUME AutomationsInv, NEW j \in Jobs, CreateRun(j)
  PROVE  AutomationsInv'
  <1> DEFINE r == job[j]
             run == [status |-> "RUNNING", announced |-> FALSE]
             t == Append(r.runs, run)
             q == [r EXCEPT !.pc = "steps", !.runs = t]
  <1>1. /\ r.pc = "create" /\ r.phase = "active" /\ r.kind = "run"
        /\ UNCHANGED <<workflow, hook, crashes>> /\ "create" \notin OfRun
    BY DEF CreateRun, At, OfRun
  <1>2. r \in Job /\ r.runs \in Seq(Run) /\ run \in Run
    BY AtWork DEF Job, Run
  <1>3. job' = [job EXCEPT ![j] = q]
    BY AtWork DEF CreateRun, Job
  <1> HIDE DEF run
  <1>4. /\ t \in Seq(Run) /\ t # <<>> /\ Len(t) = Len(r.runs) + 1
        /\ \A n \in DOMAIN t : n # Len(t) => n \in DOMAIN r.runs /\ t[n] = r.runs[n]
    BY <1>2
  <1> HIDE DEF t
  <1>5. /\ q \in Job /\ q.phase = r.phase /\ q.pc = "steps" /\ q.tries = r.tries /\ q.stalls = r.stalls
        /\ q.runs = t /\ q.attempt = r.attempt /\ q.kind = r.kind
    BY <1>2, <1>4 DEF Job, Pcs, OfRun
  <1> HIDE DEF q
  <1>6. \A n \in DOMAIN q.runs : n # Len(q.runs) => Failed(q, n)
    BY <1>1, <1>4, <1>5, AtWork DEF Failed
  <1>7. Ordered(q)
    BY <1>1, <1>5, <1>6 DEF Ordered, OfRun
  <1>8. Counted(q)
    BY <1>5, AtWork DEF Counted
  <1>9. Fits(q)
    BY <1>1, <1>5, <1>7, <1>8 DEF Fits
  <1>10. QED
    BY <1>1, <1>3, <1>4, <1>5, <1>9, JobChanges

\* The run at work is the last of its job.
LEMMA LastChanges ==
  ASSUME NEW s \in Seq(Run), s # <<>>, NEW x \in Run
  PROVE  LET t == [s EXCEPT ![Len(s)] = x]
         IN  /\ t \in Seq(Run) /\ t # <<>> /\ Len(t) = Len(s) /\ t[Len(t)] = x /\ DOMAIN t = DOMAIN s
             /\ \A n \in DOMAIN t : n # Len(t) => t[n] = s[n]
  OBVIOUS

LEMMA StatusKeeps ==
  ASSUME AutomationsInv, NEW j \in Jobs, NEW status \in {"COMPLETED", "FAILED"}, NEW pc \in {"announce", "failed"},
         job[j].pc \in {"complete", "fail"}, SetStatus(j, status, pc),
         pc = "announce" => status = "COMPLETED", pc = "failed" => status = "FAILED"
  PROVE  AutomationsInv'
  <1> DEFINE r == job[j]
             x == [r.runs[Len(r.runs)] EXCEPT !.status = status]
             t == [r.runs EXCEPT ![Len(r.runs)] = x]
             q == [r EXCEPT !.pc = pc, !.runs = t]
  <1>1. workflow # "gone" /\ UNCHANGED <<workflow, hook, crashes>> /\ r.pc \in OfRun /\ r.pc # "none"
        /\ pc \in OfRun /\ pc \in Pcs /\ pc # "none"
    BY DEF SetStatus, OfRun, Pcs
  <1>2. r \in Job /\ r.runs \in Seq(Run) /\ r.runs # <<>> /\ r.phase = "active" /\ r.kind = "run"
    BY <1>1, AtWork DEF Job
  <1>3. r.runs[Len(r.runs)] \in Run
    BY <1>2
  <1>4. x \in Run /\ x.status = status
    BY <1>3 DEF Run
  <1>5. job' = [job EXCEPT ![j] = q]
    BY <1>2, AtWork DEF SetStatus, Job
  <1> HIDE DEF x
  <1>6. /\ t \in Seq(Run) /\ t # <<>> /\ Len(t) = Len(r.runs) /\ t[Len(t)] = x /\ DOMAIN t = DOMAIN r.runs
        /\ \A n \in DOMAIN t : n # Len(t) => t[n] = r.runs[n]
    BY <1>2, <1>4, LastChanges
  <1> HIDE DEF t
  <1>7. /\ q \in Job /\ q.phase = r.phase /\ q.pc = pc /\ q.tries = r.tries /\ q.stalls = r.stalls
        /\ q.runs = t /\ q.attempt = r.attempt /\ q.kind = r.kind
    BY <1>1, <1>2, <1>6 DEF Job
  <1> HIDE DEF q
  <1>8. \A n \in DOMAIN q.runs : n # Len(q.runs) => Failed(q, n)
    BY <1>6, <1>7, AtWork DEF Failed
  <1>9. Ordered(q)
    BY <1>1, <1>2, <1>4, <1>6, <1>7, <1>8 DEF Ordered, Failed
  <1>10. Counted(q)
    BY <1>7, AtWork DEF Counted
  <1>11. Fits(q)
    BY <1>1, <1>2, <1>7, <1>9, <1>10 DEF Fits
  <1>12. QED
    BY <1>1, <1>5, <1>6, <1>7, <1>11, JobChanges

\* The workflow's webhooks are told, with the job gone on.
LEMMA FanOutKeeps ==
  ASSUME AutomationsInv, NEW j \in Jobs, NEW r, Fits(r), FanOut(j, [job EXCEPT ![j] = r]),
         workflow # "gone" /\ r.pc \in OfRun => r.runs # <<>>
  PROVE  AutomationsInv'
  <1>1. UNCHANGED <<workflow, hook, crashes>>
    BY DEF FanOut
  <1>2. CASE hook = "enabled"
    <2>1. PICK k \in Unused : job' = Enqueued([job EXCEPT ![j] = r], k, "webhook", 1, k)
      BY <1>2 DEF FanOut
    <2>2. k \in Jobs /\ k \in Nat /\ 1 \in 1..LastAttempt + 1
      BY DEF Unused, Jobs
    <2>3. QED
      BY <1>1, <2>1, <2>2, JobAndNext
  <1>3. CASE hook # "enabled"
    BY <1>1, <1>3, JobChanges DEF FanOut
  <1>4. QED
    BY <1>2, <1>3

LEMMA ExecuteStepsKeeps ==
  ASSUME AutomationsInv, NEW j \in Jobs, ExecuteSteps(j)
  PROVE  AutomationsInv'
  <1>1. job[j].pc = "steps" /\ job[j].phase = "active" /\ "complete" \in Pcs /\ "complete" \in OfRun
        /\ "steps" \in OfRun
    BY DEF ExecuteSteps, At, OfRun, Pcs
  <1>2. CASE job' = Goto(j, "complete") /\ UNCHANGED <<workflow, hook, crashes>>
    BY <1>1, <1>2, PcMoves
  <1>3. CASE FanOut(j, Goto(j, "complete"))
    <2> DEFINE q == [job[j] EXCEPT !.pc = "complete"]
    <2>1. Goto(j, "complete") = [job EXCEPT ![j] = q]
      BY AtWork DEF Goto, Job
    <2>f. /\ q \in Job /\ q.phase = job[j].phase /\ q.pc = "complete" /\ q.tries = job[j].tries
          /\ q.stalls = job[j].stalls /\ q.runs = job[j].runs /\ q.attempt = job[j].attempt
          /\ q.kind = job[j].kind
      BY <1>1, AtWork DEF Job
    <2> HIDE DEF q
    <2>2. Fits(q)
      BY <1>1, <2>f, AtWork, GoesFurther
    <2>3. workflow # "gone" /\ q.pc \in OfRun => q.runs # <<>>
      BY <1>1, <2>f, AtWork
    <2>4. FanOut(j, [job EXCEPT ![j] = q])
      BY <1>3, <2>1
    <2>5. QED
      BY <2>2, <2>3, <2>4, FanOutKeeps
  <1>4. QED
    BY <1>2, <1>3 DEF ExecuteSteps

LEMMA AnnounceKeeps ==
  ASSUME AutomationsInv, NEW j \in Jobs, Announce(j)
  PROVE  AutomationsInv'
  <1> DEFINE r == job[j]
  <1>1. r.pc = "announce" /\ r.phase = "active" /\ "none" \notin OfRun
    BY DEF Announce, At, OfRun
  <1>2. r \in Job /\ r.runs \in Seq(Run)
    BY AtWork DEF Job
  <1>3. CASE r.runs = <<>>
    <2>1. Fits(Finished(r)) /\ Finished(r).pc = "none"
      BY <1>3, AtWork, FinishedFits
    <2>2. FanOut(j, [job EXCEPT ![j] = Finished(r)])
      BY <1>3, AtWork DEF Announce, Ended
    <2>3. QED
      BY <1>1, <2>1, <2>2, FanOutKeeps
  <1>4. CASE r.runs # <<>>
    <2> DEFINE x == [r.runs[Len(r.runs)] EXCEPT !.announced = TRUE]
               t == [r.runs EXCEPT ![Len(r.runs)] = x]
               a == [r EXCEPT !.runs = t]
    <2>1. r.runs[Len(r.runs)] \in Run /\ r.runs[Len(r.runs)].status = "COMPLETED"
      BY <1>1, <1>2, <1>4, AtWork DEF Fits, Ordered
    <2>2. x \in Run /\ x.status = "COMPLETED" /\ x.announced = TRUE
      BY <2>1 DEF Run
    <2>3. FanOut(j, [job EXCEPT ![j] = Finished(a)])
      <3>1. Finished(r) \in Job /\ Finished(r).runs = r.runs
        BY <1>2 DEF Finished, Job, Pcs
      <3>2. [Finished(r) EXCEPT !.runs = t] = Finished(a)
        BY <1>2 DEF Finished, Job
      <3> DEFINE f == Finished(r)
      <3>3. Ended(j) = [job EXCEPT ![j] = f]
        BY AtWork DEF Ended
      <3>4. FanOut(j, [Ended(j) EXCEPT ![j].runs[Len(r.runs)].announced = TRUE])
        BY <1>4 DEF Announce
      <3> HIDE DEF f
      <3>5. [Ended(j) EXCEPT ![j].runs[Len(r.runs)].announced = TRUE] = [job EXCEPT ![j] = [f EXCEPT !.runs = t]]
        BY <3>1, <3>3, AtWork DEF f, Job
      <3>6. QED
        BY <3>2, <3>4, <3>5 DEF f
    <2> HIDE DEF x
    <2>4. /\ t \in Seq(Run) /\ t # <<>> /\ Len(t) = Len(r.runs) /\ t[Len(t)] = x /\ DOMAIN t = DOMAIN r.runs
          /\ \A n \in DOMAIN t : n # Len(t) => t[n] = r.runs[n]
      BY <1>2, <1>4, <2>2, LastChanges
    <2> HIDE DEF t
    <2>5. /\ a \in Job /\ a.phase = r.phase /\ a.runs = t /\ a.attempt = r.attempt /\ a.kind = r.kind
      BY <1>2, <2>4 DEF Job
    <2> HIDE DEF a
    <2>6. \A n \in DOMAIN a.runs : n # Len(a.runs) => Failed(a, n)
      BY <2>4, <2>5, AtWork DEF Failed
    <2>7. \A n \in DOMAIN a.runs : Settled(a.runs[n])
      <3>1. Settled(x)
        BY <2>2 DEF Settled
      <3>2. QED
        BY <2>4, <2>5, <2>6, <3>1, FailedIsSettled
    <2>8. a.kind # "run" => a.runs = <<>>
      BY <1>4, <2>5, AtWork
    <2>9. Fits(Finished(a)) /\ Finished(a).pc = "none"
      BY <2>5, <2>6, <2>7, <2>8, AtWork, FinishedFits
    <2>10. QED
      BY <1>1, <2>3, <2>9, FanOutKeeps
  <1>5. QED
    BY <1>3, <1>4

LEMMA EndFailedKeeps ==
  ASSUME AutomationsInv, NEW j \in Jobs, EndFailed(j)
  PROVE  AutomationsInv'
  <1> DEFINE r == job[j]
  <1>1. r.pc = "failed" /\ UNCHANGED <<workflow, hook, crashes>> /\ "none" \notin OfRun
    BY DEF EndFailed, At, OfRun
  <1>2. r \in Job /\ r.runs \in Seq(Run)
    BY AtWork DEF Job
  <1>3. \A n \in DOMAIN r.runs : Failed(r, n)
    BY <1>1, <1>2, AtWork DEF Fits, Ordered
  <1>4. Fits(Finished(r)) /\ Finished(r).pc = "none"
    BY <1>3, AtWork, FinishedFits, FailedIsSettled
  <1>5. job' = [job EXCEPT ![j] = Finished(r)]
    BY AtWork DEF EndFailed, Ended
  <1>6. QED
    BY <1>1, <1>4, <1>5, JobChanges

LEMMA RunThrowsKeeps ==
  ASSUME AutomationsInv, NEW j \in Jobs, RunThrows(j)
  PROVE  AutomationsInv'
  <1> DEFINE r == job[j]
  <1>1. /\ r.phase = "active" /\ UNCHANGED <<workflow, hook, crashes>> /\ "none" \notin OfRun
        /\ "fail" \in Pcs /\ "fail" \in OfRun
    BY DEF RunThrows, OfRun, Pcs
  <1>2. CASE Try(r.pc)
    <2>1. r.pc \in OfRun /\ job' = Goto(j, "fail")
      BY <1>2 DEF RunThrows, Try, OfRun
    <2>2. QED
      BY <1>1, <2>1, PcMoves
  <1>3. CASE r.pc \in {"fail", "failed"}
    <2>1. job' = [job EXCEPT ![j] = Rejected(Forget(r))]
      BY <1>3, AtWork DEF RunThrows, Try
    <2>2. Fits(Rejected(Forget(r))) /\ Rejected(Forget(r)).pc = "none"
      BY <1>1, AtWork, ForgetFits, RejectedFits
    <2>3. QED
      BY <1>1, <2>1, <2>2, JobChanges
  <1>4. CASE ~Try(r.pc) /\ r.pc \notin {"fail", "failed"}
    <2>1. job' = [job EXCEPT ![j] = Rejected(r)] /\ r.pc \notin OfRun
      BY <1>4, AtWork DEF RunThrows, Try, OfRun
    <2>2. Fits(Rejected(r)) /\ Rejected(r).pc = "none"
      BY <1>1, <2>1, AtWork, RejectedFits
    <2>3. QED
      BY <1>1, <2>1, <2>2, JobChanges
  <1>5. QED
    BY <1>2, <1>3, <1>4

(***************************************************************************)
(* Deliveries                                                              *)
(***************************************************************************)

LEMMA FindHookKeeps ==
  ASSUME AutomationsInv, NEW j \in Jobs, FindHook(j)
  PROVE  AutomationsInv'
  <1>1. job[j].pc = "find" /\ job[j].phase = "active" /\ UNCHANGED <<workflow, hook, crashes>>
        /\ "find" \notin OfRun /\ "post" \in Pcs /\ "post" \notin OfRun
    BY DEF FindHook, At, OfRun, Pcs
  <1>2. CASE hook # "gone"
    BY <1>1, <1>2, PcMoves DEF FindHook
  <1>3. CASE hook = "gone"
    BY <1>1, <1>3, Ends DEF FindHook
  <1>4. QED
    BY <1>2, <1>3

\* A delivery goes on, whether it was answered or stored being noted.
LEMMA DeliveryMoves ==
  ASSUME AutomationsInv, NEW j \in Jobs, NEW pc \in {"store", "again", "again error"}, NEW ok \in BOOLEAN,
         NEW stored \in BOOLEAN, job[j].phase = "active", job[j].pc \notin OfRun,
         pc \in {"again", "again error"} => job[j].attempt < LastAttempt,
         job' = [job EXCEPT ![j] = [job[j] EXCEPT !.pc = pc, !.ok = ok, !.stored = stored]],
         UNCHANGED <<workflow, hook, crashes>>
  PROVE  AutomationsInv'
  <1> DEFINE r == job[j]
             q == [r EXCEPT !.pc = pc, !.ok = ok, !.stored = stored]
  <1>1. r \in Job /\ pc \in Pcs /\ pc \notin OfRun /\ pc # "none"
    BY AtWork DEF Pcs, OfRun
  <1>2. /\ q \in Job /\ q.phase = r.phase /\ q.pc = pc /\ q.tries = r.tries /\ q.stalls = r.stalls
        /\ q.runs = r.runs /\ q.attempt = r.attempt /\ q.kind = r.kind
    BY <1>1 DEF Job
  <1>3. job' = [job EXCEPT ![j] = q]
    OBVIOUS
  <1> HIDE DEF q
  <1>4. pc \notin {"announce", "failed"}
    OBVIOUS
  <1>5. Fits(q)
    BY <1>1, <1>2, <1>4, AtWork, GoesFurther
  <1>6. QED
    BY <1>1, <1>2, <1>3, <1>5, JobChanges

LEMMA AnsweredKeeps ==
  ASSUME AutomationsInv, NEW j \in Jobs, Answered(j)
  PROVE  AutomationsInv'
  <1> DEFINE r == job[j]
  <1>1. r.pc = "post" /\ r.phase = "active" /\ UNCHANGED <<workflow, hook, crashes>> /\ r.pc \notin OfRun
    BY DEF Answered, At, OfRun
  <1>2. PICK ok \in BOOLEAN : job' = [job EXCEPT ![j].pc = "store", ![j].ok = ok]
    BY DEF Answered
  <1>3. r \in Job /\ r.stored \in BOOLEAN
    BY AtWork DEF Job
  <1>4. job' = [job EXCEPT ![j] = [r EXCEPT !.pc = "store", !.ok = ok, !.stored = r.stored]]
    BY <1>2, <1>3, AtWork DEF Job
  <1>5. QED
    BY <1>1, <1>3, <1>4, DeliveryMoves

LEMMA StoredKeeps ==
  ASSUME AutomationsInv, NEW j \in Jobs, NEW from \in {"store", "store error"},
         NEW again \in {"again", "again error"}, NEW retry, Stored(j, from, again, retry)
  PROVE  AutomationsInv'
  <1> DEFINE r == job[j]
  <1>1. r.pc = from /\ r.phase = "active" /\ UNCHANGED <<workflow, hook, crashes>> /\ r.pc \notin OfRun
        /\ "none" \notin OfRun
    BY DEF Stored, At, OfRun
  <1>2. r \in Job /\ r.ok \in BOOLEAN
    BY AtWork DEF Job
  <1>3. CASE retry /\ r.attempt < LastAttempt
    <2>1. job' = [job EXCEPT ![j].stored = TRUE, ![j].pc = again]
      BY <1>3 DEF Stored
    <2>2. job' = [job EXCEPT ![j] = [r EXCEPT !.pc = again, !.ok = r.ok, !.stored = TRUE]]
      BY <1>2, <2>1, AtWork DEF Job
    <2>3. QED
      BY <1>1, <1>2, <1>3, <2>2, DeliveryMoves
  <1>4. CASE ~(retry /\ r.attempt < LastAttempt)
    <2> DEFINE a == [r EXCEPT !.stored = TRUE]
    <2>1. job' = [Ended(j) EXCEPT ![j].stored = TRUE]
      BY <1>4 DEF Stored
    <2>2. job' = [job EXCEPT ![j] = Finished(a)]
      BY <1>2, <2>1, AtWork DEF Ended, Finished, Job
    <2>3. a \in Job /\ a.runs = r.runs /\ a.kind = r.kind /\ a.attempt = r.attempt
      BY <1>2 DEF Job
    <2> HIDE DEF a
    <2>4. \A n \in DOMAIN a.runs : Settled(a.runs[n]) /\ (n # Len(a.runs) => Failed(a, n))
      BY <1>1, <2>3, AtWork DEF Failed
    <2>5. Fits(Finished(a)) /\ Finished(a).pc = "none"
      BY <2>3, <2>4, AtWork, FinishedFits
    <2>6. QED
      BY <1>1, <2>2, <2>5, JobChanges
  <1>5. QED
    BY <1>3, <1>4

LEMMA AgainKeeps ==
  ASSUME AutomationsInv, NEW j \in Jobs, Again(j)
  PROVE  AutomationsInv'
  <1> DEFINE r == job[j]
             e == [r EXCEPT !.pc = "store error"]
             a == r.attempt + 1
  <1>1. /\ r.pc \in {"again", "again error"} /\ r.phase = "active" /\ UNCHANGED <<workflow, hook, crashes>>
        /\ r.pc \notin OfRun /\ "none" \notin OfRun /\ "store error" \notin OfRun /\ "store error" \in Pcs
    BY DEF Again, OfRun, Pcs
  <1>2. r \in Job /\ r.root \in Nat
    BY AtWork DEF Job
  <1>3. a \in 1..LastAttempt + 1
    <2>1. r.attempt \in 1..LastAttempt + 1
      BY AtWork
    <2>2. r.attempt < LastAttempt
      BY <1>1, AtWork, Zenon DEF Counted
    <2>3. QED
      BY <2>1, <2>2
  <1>4. PICK k \in Unused : \E q \in {Finished(r), e, Rejected(r)} :
           job' = Enqueued([job EXCEPT ![j] = q], k, "webhook", a, r.root)
    <2>1. PICK k \in Unused :
             \/ job' = Enqueued(Ended(j), k, "webhook", a, r.root)
             \/ job' = Enqueued(Goto(j, "store error"), k, "webhook", a, r.root)
             \/ job' = Enqueued([job EXCEPT ![j] = Rejected(@)], k, "webhook", a, r.root)
      BY DEF Again
    <2>2. /\ Ended(j) = [job EXCEPT ![j] = Finished(r)]
          /\ Goto(j, "store error") = [job EXCEPT ![j] = e]
          /\ [job EXCEPT ![j] = Rejected(@)] = [job EXCEPT ![j] = Rejected(r)]
      BY <1>2, AtWork DEF Ended, Goto, Job
    <2> HIDE DEF e, a
    <2>3. QED
      BY <2>1, <2>2
  <1>5. PICK q \in {Finished(r), e, Rejected(r)} :
           job' = Enqueued([job EXCEPT ![j] = q], k, "webhook", a, r.root)
    BY <1>4
  <1>6. /\ e \in Job /\ e.phase = r.phase /\ e.pc = "store error" /\ e.tries = r.tries
        /\ e.stalls = r.stalls /\ e.runs = r.runs /\ e.attempt = r.attempt /\ e.kind = r.kind
    BY <1>1, <1>2 DEF Job
  <1> HIDE DEF e, a
  <1>7. Fits(e)
    BY <1>1, <1>6, AtWork, GoesFurther
  <1>8. Fits(Finished(r)) /\ Finished(r).pc = "none" /\ Fits(Rejected(r)) /\ Rejected(r).pc = "none"
    BY <1>1, AtWork, FinishedFits, RejectedFits
  <1>9. Fits(q) /\ q.pc \notin OfRun
    BY <1>1, <1>6, <1>7, <1>8
  <1>10. k \in Jobs
    BY DEF Unused
  <1>11. QED
    BY <1>1, <1>2, <1>3, <1>5, <1>9, <1>10, JobAndNext

LEMMA DeliveryThrowsKeeps ==
  ASSUME AutomationsInv, NEW j \in Jobs, DeliveryThrows(j)
  PROVE  AutomationsInv'
  <1> DEFINE r == job[j]
  <1>1. /\ r.phase = "active" /\ r.kind = "webhook" /\ UNCHANGED <<workflow, hook, crashes>>
        /\ "none" \notin OfRun /\ "store error" \notin OfRun /\ "store error" \in Pcs
    BY DEF DeliveryThrows, OfRun, Pcs
  <1>2. CASE r.pc \in {"post", "store", "again"}
    <2>1. r.pc \notin OfRun /\ job' = Goto(j, "store error")
      BY <1>2 DEF DeliveryThrows, OfRun
    <2>2. QED
      BY <1>1, <2>1, PcMoves
  <1>3. CASE r.pc \notin {"post", "store", "again"}
    <2>1. job' = [job EXCEPT ![j] = Rejected(r)]
      BY <1>3, AtWork DEF DeliveryThrows
    <2>2. r.runs = <<>> /\ \A n \in DOMAIN r.runs : Failed(r, n)
      <3>1. r.runs = <<>>
        BY <1>1, AtWork
      <3>2. QED
        BY <3>1
    <2>3. Fits(Rejected(r)) /\ Rejected(r).pc = "none"
      BY <1>1, <2>2, AtWork, RejectedFits
    <2>4. QED
      BY <1>1, <2>1, <2>3, JobChanges
  <1>4. QED
    BY <1>2, <1>3

(***************************************************************************)
(* The handlers                                                            *)
(***************************************************************************)

LEMMA TriggerKeeps ==
  ASSUME AutomationsInv, NEW k \in Jobs, Trigger(k) \/ Post(k)
  PROVE  AutomationsInv'
  <1>1. 1 \in 1..LastAttempt + 1 /\ k \in Nat
    BY DEF Jobs
  <1>2. QED
    BY <1>1, Enqueues DEF Trigger, Post

LEMMA RetryDeliveryKeeps ==
  ASSUME AutomationsInv, NEW j \in Jobs, NEW k \in Jobs, RetryDelivery(j, k)
  PROVE  AutomationsInv'
  <1>1. job[j].attempt \in 1..LastAttempt + 1 /\ job[j].attempt <= LastAttempt /\ k \in Nat
    BY AtWork DEF RetryDelivery
  <1>2. job[j].attempt + 1 \in 1..LastAttempt + 1
    BY <1>1
  <1>3. QED
    BY <1>1, <1>2, Enqueues DEF RetryDelivery

LEMMA UpdateKeeps ==
  ASSUME AutomationsInv, Update
  PROVE  AutomationsInv'
  <1>1. job' = job /\ crashes' = crashes /\ (workflow' # "gone" => workflow # "gone")
        /\ workflow' \in States /\ hook' \in States
    BY DEF Update, States, AutomationsInv
  <1>2. QED
    BY <1>1, Parts DEF AutomationsInv, Fits

LEMMA DeleteWorkflowKeeps ==
  ASSUME AutomationsInv, DeleteWorkflow
  PROVE  AutomationsInv'
  <1> DEFINE q(j) == [job[j] EXCEPT !.runs = <<>>]
  <1>1. job' = [j \in Jobs |-> q(j)] /\ workflow' = "gone" /\ hook' = hook /\ crashes' = crashes
    BY DEF DeleteWorkflow
  <1>2. ASSUME NEW j \in Jobs PROVE Fits(q(j))
    <2> DEFINE x == q(j)
    <2>1. job[j] \in Job /\ <<>> \in Seq(Run)
      BY AtWork
    <2>2. /\ x \in Job /\ x.phase = job[j].phase /\ x.pc = job[j].pc /\ x.tries = job[j].tries
          /\ x.stalls = job[j].stalls /\ x.runs = <<>> /\ x.attempt = job[j].attempt /\ x.kind = job[j].kind
      BY <2>1 DEF Job
    <2> HIDE DEF x
    <2>3. Ordered(x)
      BY <2>2 DEF Ordered, Failed
    <2>4. Counted(x)
      BY <2>2, AtWork DEF Counted
    <2>5. Fits(x)
      BY <2>2, <2>3, <2>4, AtWork DEF Fits
    <2>6. QED
      BY <2>5 DEF x
  <1> HIDE DEF q
  <1>3. job' \in [Jobs -> Job] /\ \A j \in Jobs : Fits(job'[j])
    BY <1>1, <1>2 DEF Fits
  <1>4. QED
    BY <1>1, <1>3 DEF AutomationsInv, Fits, States

LEMMA DeleteHookKeeps ==
  ASSUME AutomationsInv, DeleteHook
  PROVE  AutomationsInv'
  <1> DEFINE q(j) == [job[j] EXCEPT !.stored = FALSE]
  <1>1. job' = [j \in Jobs |-> q(j)] /\ hook' = "gone" /\ workflow' = workflow /\ crashes' = crashes
    BY DEF DeleteHook
  <1>2. ASSUME NEW j \in Jobs PROVE Fits(q(j)) /\ q(j).pc = job[j].pc /\ q(j).runs = job[j].runs
    <2> DEFINE x == q(j)
    <2>1. job[j] \in Job
      BY AtWork
    <2>2. /\ x \in Job /\ x.phase = job[j].phase /\ x.pc = job[j].pc /\ x.tries = job[j].tries
          /\ x.stalls = job[j].stalls /\ x.runs = job[j].runs /\ x.attempt = job[j].attempt
          /\ x.kind = job[j].kind
      BY <2>1 DEF Job
    <2> HIDE DEF x
    <2>3. Ordered(x)
      BY <2>2, AtWork DEF Fits, Ordered, Failed
    <2>4. Counted(x)
      BY <2>2, AtWork DEF Counted
    <2>5. Fits(x)
      BY <2>2, <2>3, <2>4, AtWork DEF Fits
    <2>6. QED
      BY <2>2, <2>5 DEF x
  <1> HIDE DEF q
  <1>3. job' \in [Jobs -> Job] /\ \A j \in Jobs : Fits(job'[j])
    BY <1>1, <1>2 DEF Fits
  <1>4. \A j \in Jobs : workflow # "gone" /\ job'[j].pc \in OfRun => job'[j].runs # <<>>
    BY <1>1, <1>2, Parts
  <1>5. QED
    BY <1>1, <1>3, <1>4 DEF AutomationsInv, Fits, States

(***************************************************************************)
(* The theorems                                                            *)
(***************************************************************************)

LEMMA AtFirst ==
  ASSUME Init
  PROVE  AutomationsInv
  <1>1. Ordered(Blank) /\ Counted(Blank) /\ Blank.pc \notin OfRun
    BY BlankIs, LimitIs DEF Ordered, Counted, OfRun
  <1>2. \A j \in Jobs : job[j] = Blank
    BY DEF Init
  <1>3. job \in [Jobs -> Job]
    BY BlankIs DEF Init
  <1>4. workflow \in States /\ hook \in States /\ crashes \in 0..MaxCrashes
    BY DEF Init, States
  <1>5. QED
    BY <1>1, <1>2, <1>3, <1>4, BlankIs DEF AutomationsInv

LEMMA EveryStep ==
  ASSUME AutomationsInv, [Next]_vars
  PROVE  AutomationsInv'
  <1>1. CASE Next
    <2>1. ASSUME NEW j \in Jobs, Work(j) PROVE AutomationsInv'
      <3>1. CASE FindWorkflow(j) \/ CreateRun(j) \/ ExecuteSteps(j) \/ Announce(j) \/ EndFailed(j) \/ RunThrows(j)
        BY <3>1, FindWorkflowKeeps, CreateRunKeeps, ExecuteStepsKeeps, AnnounceKeeps, EndFailedKeeps, RunThrowsKeeps
      <3>2. CASE Complete(j)
        BY <3>2, StatusKeeps DEF Complete, At
      <3>3. CASE CatchRun(j)
        BY <3>3, StatusKeeps DEF CatchRun, At
      <3>4. CASE FindHook(j) \/ Answered(j) \/ Again(j) \/ DeliveryThrows(j)
        BY <3>4, FindHookKeeps, AnsweredKeeps, AgainKeeps, DeliveryThrowsKeeps
      <3>5. CASE StoreAnswer(j) \/ StoreError(j)
        BY <3>5, StoredKeeps DEF StoreAnswer, StoreError
      <3>6. QED
        BY <2>1, <3>1, <3>2, <3>3, <3>4, <3>5, Zenon DEF Work
    <2>2. ASSUME NEW j \in Jobs, Trigger(j) \/ Post(j) \/ Take(j) PROVE AutomationsInv'
      BY <2>2, TriggerKeeps, TakeKeeps
    <2>3. ASSUME NEW j \in Jobs, NEW k \in Jobs, RetryDelivery(j, k) PROVE AutomationsInv'
      BY <2>3, RetryDeliveryKeeps
    <2>4. CASE Update \/ DeleteWorkflow \/ DeleteHook \/ Crash
      BY <2>4, UpdateKeeps, DeleteWorkflowKeeps, DeleteHookKeeps, CrashKeeps
    <2>5. QED
      BY <1>1, <2>1, <2>2, <2>3, <2>4, Zenon DEF Next
  <1>2. CASE UNCHANGED vars
    BY <1>2 DEF vars, AutomationsInv
  <1>3. QED
    BY <1>1, <1>2

\* The inductive invariant of the automations: also that no job is tried more often than
\* its attempts and its stalls allow.
THEOREM AutomationsHold == Spec => []AutomationsInv
  <1>1. Init => AutomationsInv
    BY AtFirst
  <1>2. AutomationsInv /\ [Next]_vars => AutomationsInv'
    BY EveryStep
  <1>3. QED
    BY <1>1, <1>2, PTL DEF Spec

\* For any number of jobs, attempts, stalls and crashes: a trigger completes a workflow
\* at most once, unless a completed run was left behind.
THEOREM TriggersAlwaysCompleteOnce == Spec => []TriggersCompleteOnce
  <1>1. AutomationsInv => TriggersCompleteOnce
    <2> SUFFICES ASSUME AutomationsInv, NEW j \in Jobs, NEW m \in DOMAIN job[j].runs,
                        NEW n \in DOMAIN job[j].runs, job[j].runs[m].status = "COMPLETED",
                        job[j].runs[n].status = "COMPLETED"
                 PROVE  m = n
      BY DEF TriggersCompleteOnce
    <2>1. m = Len(job[j].runs)
      BY AtWork DEF Failed
    <2>2. n = Len(job[j].runs)
      BY AtWork DEF Failed
    <2>3. QED
      BY <2>1, <2>2
  <1>2. QED
    BY <1>1, AutomationsHold, PTL

\* For any number of jobs, attempts, stalls and crashes: a run ends FAILED, or COMPLETED
\* with the webhooks told, unless a crash or a failing catch block left it behind.
THEOREM RunsAreAlwaysSettled == Spec => []RunsAreSettled
  <1>1. AutomationsInv => RunsAreSettled
    <2> SUFFICES ASSUME AutomationsInv, NEW j \in Jobs, NEW n \in DOMAIN job[j].runs
                 PROVE  \/ Settled(job[j].runs[n])
                        \/ n = Len(job[j].runs) /\ job[j].pc \notin {"none", "find", "create"}
      BY DEF RunsAreSettled
    <2>1. n # Len(job[j].runs) => Settled(job[j].runs[n])
      BY AtWork, FailedIsSettled
    <2>2. job[j].pc \in {"none", "find", "create"} => Settled(job[j].runs[n])
      BY AtWork DEF OfRun
    <2>3. QED
      BY <2>1, <2>2
  <1>2. QED
    BY <1>1, AutomationsHold, PTL

=============================================================================
