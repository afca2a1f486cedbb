---------------------------- MODULE Automations ----------------------------
(***************************************************************************)
(* Workflow runs and webhook deliveries: services/workflowEngine.ts,       *)
(* services/automationQueue.ts, and the handlers of                        *)
(* automationController.ts that enqueue or change what they work on.       *)
(*                                                                         *)
(* One workflow and one outbound webhook of a user.  Every await of a job  *)
(* is a step, which may throw; each call has the handler of throws its     *)
(* place in the code gives it.  Jobs wait in Redis, or in timers of the    *)
(* process.  What the connectors of a step do is not modelled.             *)
(***************************************************************************)
EXTENDS Integers, Sequences, SequencesExt, FiniteSets

CONSTANTS
    MaxJobs,      \* bound on the jobs ever enqueued
    Concurrency,  \* jobs the worker runs at once: 4
    Redis,        \* whether jobs are kept in Redis
    Attempts,     \* tries BullMQ gives a workflow job: 2 in the code
    LastAttempt,  \* webhook attempt that is not followed by another: 3
    MaxStalled,   \* times BullMQ puts a stalled job back: its default 1
    MaxCrashes    \* bound on the crashes of the server

Jobs == 1..MaxJobs

ASSUME AutomationsAssumption ==
    /\ MaxJobs \in Nat
    /\ Concurrency \in Nat \ {0}
    /\ Redis \in BOOLEAN
    /\ Attempts \in Nat \ {0}
    /\ LastAttempt \in Nat \ {0}
    /\ MaxStalled \in Nat
    /\ MaxCrashes \in Nat

VARIABLES
    workflow,  \* the AutomationWorkflow row
    hook,      \* the OutboundWebhook row
    job,       \* the jobs, with the run rows and the deliveries they store
    crashes    \* crashes so far

vars == <<workflow, hook, job, crashes>>

States == {"enabled", "disabled", "gone"}
Run    == [status : {"RUNNING", "COMPLETED", "FAILED"}, announced : BOOLEAN]

\* A run is announced when its fan-out is done.  A job forgets the run it was at
\* work on when it stops where the code does not expect it, by a crash or in the
\* catch block: that row stays as it is.  The root of a delivery is the job its
\* chain of retries began with.
Blank == [kind |-> "none", phase |-> "none", pc |-> "none", tries |-> 0, stalls |-> 0,
          runs |-> <<>>, attempt |-> 1, root |-> 0, ok |-> FALSE, stored |-> FALSE]

Init ==
    /\ workflow = "enabled"
    /\ hook = "enabled"
    /\ job = [j \in Jobs |-> Blank]
    /\ crashes = 0

At(j, kind, pc) == job[j].kind = kind /\ job[j].phase = "active" /\ job[j].pc = pc

Goto(j, pc) == [job EXCEPT ![j].pc = pc]

\* Of a job that has ended, its runs and its place in a chain are left.
Finished(r) == [r EXCEPT !.phase = "ended", !.pc = "none", !.tries = 0, !.stalls = 0, !.ok = FALSE]
Ended(j)    == [job EXCEPT ![j] = Finished(@)]

\* queue.add, or setImmediate and setTimeout, on top of what else changes.
Enqueued(jobs, k, kind, attempt, root) ==
    [jobs EXCEPT ![k] = [Blank EXCEPT !.kind = kind, !.phase = "waiting",
                                      !.attempt = attempt, !.root = root]]

\* The number of the next job.
Unused == {k \in Jobs : job[k].phase = "none" /\ \A j \in 1..k - 1 : job[j].phase # "none"}

-----------------------------------------------------------------------------
(* automationController, tickSchedules and triggerEvent *)

\* runNow and an inbound hook look at no more than the row; the scheduler and
\* events at enabled, which may have changed when the job is added.
Trigger(k) ==
    /\ k \in Unused
    /\ workflow # "gone"
    /\ job' = Enqueued(job, k, "run", 1, k)
    /\ UNCHANGED <<workflow, hook, crashes>>

\* testWebhook, and fanOutOutbound for an event.
Post(k) ==
    /\ k \in Unused
    /\ hook # "gone"
    /\ job' = Enqueued(job, k, "webhook", 1, k)
    /\ UNCHANGED <<workflow, hook, crashes>>

\* retryDelivery of a stored delivery, of any attempt.
RetryDelivery(j, k) ==
    /\ k \in Unused
    /\ job[j].stored
    /\ job[j].attempt <= LastAttempt
    /\ job' = Enqueued(job, k, "webhook", job[j].attempt + 1, k)
    /\ UNCHANGED <<workflow, hook, crashes>>

\* updateWorkflow and updateWebhook.
Update ==
    /\ \/ workflow # "gone" /\ workflow' \in {"enabled", "disabled"} /\ UNCHANGED hook
       \/ hook # "gone" /\ hook' \in {"enabled", "disabled"} /\ UNCHANGED workflow
    /\ UNCHANGED <<job, crashes>>

\* deleteWorkflow and deleteWebhook; their runs and deliveries go with them.
DeleteWorkflow ==
    /\ workflow # "gone"
    /\ workflow' = "gone"
    /\ job' = [j \in Jobs |-> [job[j] EXCEPT !.runs = <<>>]]
    /\ UNCHANGED <<hook, crashes>>

DeleteHook ==
    /\ hook # "gone"
    /\ hook' = "gone"
    /\ job' = [j \in Jobs |-> [job[j] EXCEPT !.stored = FALSE]]
    /\ UNCHANGED <<workflow, crashes>>

-----------------------------------------------------------------------------
(* The worker *)

Take(j) ==
    /\ job[j].phase = "waiting"
    /\ Redis => Cardinality({k \in Jobs : job[k].phase = "active"}) < Concurrency
    /\ job' = [job EXCEPT ![j].phase = "active", ![j].pc = "find", ![j].tries = @ + 1]
    /\ UNCHANGED <<workflow, hook, crashes>>

Limit(kind) == IF kind = "run" THEN Attempts ELSE 1

\* The processor throws: BullMQ tries again while it has attempts left; without
\* Redis the rejection is logged.
Rejected(r) ==
    IF Redis /\ r.tries < Limit(r.kind) THEN [r EXCEPT !.phase = "waiting", !.pc = "none"] ELSE Finished(r)

\* The run under way is forgotten.
Forget(r) == IF r.runs = <<>> \/ r.pc \in {"find", "create"} THEN r ELSE [r EXCEPT !.runs = Front(@)]

Stalled(r) ==
    IF Redis /\ r.stalls < MaxStalled
    THEN [r EXCEPT !.phase = "waiting", !.pc = "none", !.stalls = @ + 1] ELSE Finished(r)

Crash ==
    /\ crashes < MaxCrashes
    /\ crashes' = crashes + 1
    /\ job' = [j \in Jobs |->
                  IF job[j].phase = "active" THEN Stalled(Forget(job[j]))
                  ELSE IF job[j].phase = "waiting" /\ ~Redis THEN Finished(job[j]) ELSE job[j]]
    /\ UNCHANGED <<workflow, hook>>

-----------------------------------------------------------------------------
(* runWorkflow *)

FindWorkflow(j) ==
    /\ At(j, "run", "find")
    /\ job' = IF workflow = "enabled" THEN Goto(j, "create") ELSE Ended(j)
    /\ UNCHANGED <<workflow, hook, crashes>>

CreateRun(j) ==
    /\ At(j, "run", "create")
    /\ workflow # "gone"
    /\ job' = [job EXCEPT ![j].pc = "steps",
                   ![j].runs = Append(@, [status |-> "RUNNING", announced |-> FALSE])]
    /\ UNCHANGED <<workflow, hook, crashes>>

SetStatus(j, status, pc) ==
    /\ workflow # "gone"
    /\ job' = [job EXCEPT ![j].pc = pc, ![j].runs[Len(job[j].runs)].status = status]
    /\ UNCHANGED <<workflow, hook, crashes>>

\* fanOutOutbound: a delivery for the hook while it is enabled.
FanOut(j, next) ==
    /\ IF hook = "enabled"
       THEN \E k \in Unused : job' = Enqueued(next, k, "webhook", 1, k)
       ELSE job' = next
    /\ UNCHANGED <<workflow, hook, crashes>>

\* appendEvent and the steps, up to a condition that does not hold.
ExecuteSteps(j) ==
    /\ At(j, "run", "steps")
    /\ FanOut(j, Goto(j, "complete")) \/ (job' = Goto(j, "complete") /\ UNCHANGED <<workflow, hook, crashes>>)

Complete(j) == At(j, "run", "complete") /\ SetStatus(j, "COMPLETED", "announce")

\* The last event and fanOutOutbound.
Announce(j) ==
    /\ At(j, "run", "announce")
    /\ FanOut(j, IF job[j].runs = <<>> THEN Ended(j)
                 ELSE [Ended(j) EXCEPT ![j].runs[Len(job[j].runs)].announced = TRUE])

\* Mutant: the catch block does not touch the row.
CatchRun_Quiet(j) ==
    /\ At(j, "run", "fail")
    /\ job' = Ended(j)
    /\ UNCHANGED <<workflow, hook, crashes>>

\* The catch block: the update, then its event.
CatchRun(j) == At(j, "run", "fail") /\ SetStatus(j, "FAILED", "failed")

EndFailed(j) ==
    /\ At(j, "run", "failed")
    /\ job' = Ended(j)
    /\ UNCHANGED <<workflow, hook, crashes>>

Try(pc) == pc \in {"steps", "complete", "announce"}

\* Mutant: the fan-out is not in the try block.
RunThrows_Announce(j) ==
    /\ job[j].kind = "run" /\ job[j].phase = "active"
    /\ job' = IF Try(job[j].pc) /\ job[j].pc # "announce" THEN Goto(j, "fail")
              ELSE [job EXCEPT ![j] = Rejected(IF @.pc \in {"fail", "failed"} THEN Forget(@) ELSE @)]
    /\ UNCHANGED <<workflow, hook, crashes>>

\* A statement throws: into the catch block, or out of it, or before the try.
RunThrows(j) ==
    /\ job[j].kind = "run" /\ job[j].phase = "active"
    /\ job' = IF Try(job[j].pc) THEN Goto(j, "fail")
              ELSE [job EXCEPT ![j] = Rejected(IF @.pc \in {"fail", "failed"} THEN Forget(@) ELSE @)]
    /\ UNCHANGED <<workflow, hook, crashes>>

-----------------------------------------------------------------------------
(* deliverWebhook *)

\* Mutant: the delivery to a disabled hook is put off.
FindHook_PutsOff(j) ==
    /\ At(j, "webhook", "find")
    /\ job' = IF hook = "enabled" THEN Goto(j, "post") ELSE IF hook = "gone" THEN Ended(j)
              ELSE [job EXCEPT ![j].phase = "waiting", ![j].pc = "none", ![j].tries = 0]
    /\ UNCHANGED <<workflow, hook, crashes>>

\* Only a deleted hook ends the delivery: a disabled one is still posted to.
FindHook(j) ==
    /\ At(j, "webhook", "find")
    /\ job' = IF hook # "gone" THEN Goto(j, "post") ELSE Ended(j)
    /\ UNCHANGED <<workflow, hook, crashes>>

\* fetch is answered, with success or not.
Answered(j) ==
    /\ At(j, "webhook", "post")
    /\ \E ok \in BOOLEAN : job' = [job EXCEPT ![j].pc = "store", ![j].ok = ok]
    /\ UNCHANGED <<workflow, hook, crashes>>

\* Where a stored delivery goes on, in the try block and in the catch block.
Stored(j, from, again, retry) ==
    /\ At(j, "webhook", from)
    /\ hook # "gone"
    /\ job' = IF retry /\ job[j].attempt < LastAttempt
              THEN [job EXCEPT ![j].stored = TRUE, ![j].pc = again]
              ELSE [Ended(j) EXCEPT ![j].stored = TRUE]
    /\ UNCHANGED <<workflow, hook, crashes>>

StoreAnswer(j) == Stored(j, "store", "again", ~job[j].ok)
StoreError(j)  == Stored(j, "store error", "again error", TRUE)

\* The next attempt is enqueued.  Redis may have it although the call throws.
Again(j) ==
    /\ job[j].phase = "active"
    /\ job[j].pc \in {"again", "again error"}
    /\ \E k \in Unused :
           LET next == IF job[j].pc = "again" THEN Goto(j, "store error")
                       ELSE [job EXCEPT ![j] = Rejected(@)]
           IN  \E jobs \in {Ended(j), next} :
                   job' = Enqueued(jobs, k, "webhook", job[j].attempt + 1, job[j].root)
    /\ UNCHANGED <<workflow, hook, crashes>>

\* The network, the database or Redis fails.
DeliveryThrows(j) ==
    /\ job[j].kind = "webhook" /\ job[j].phase = "active"
    /\ job' = IF job[j].pc \in {"post", "store", "again"} THEN Goto(j, "store error")
              ELSE [job EXCEPT ![j] = Rejected(@)]
    /\ UNCHANGED <<workflow, hook, crashes>>

-----------------------------------------------------------------------------
Work(j) ==
    \/ FindWorkflow(j) \/ CreateRun(j) \/ ExecuteSteps(j) \/ Complete(j) \/ Announce(j)
    \/ CatchRun(j) \/ EndFailed(j) \/ RunThrows(j)
    \/ FindHook(j) \/ Answered(j) \/ StoreAnswer(j) \/ StoreError(j) \/ Again(j) \/ DeliveryThrows(j)

Next ==
    \/ \E j \in Jobs : Trigger(j) \/ Post(j) \/ Take(j) \/ Work(j) \/ \E k \in Jobs : RetryDelivery(j, k)
    \/ Update \/ DeleteWorkflow \/ DeleteHook \/ Crash

\* The worker takes jobs, and an await returns or throws.
Fairness == \A j \in Jobs : WF_vars(Take(j)) /\ WF_vars(Work(j))

Spec == Init /\ [][Next]_vars /\ Fairness

-----------------------------------------------------------------------------
(* What the code keeps true *)

\* One trigger completes a workflow at most once, though its job is tried again,
\* unless a crash or a failure in the catch block left a completed run behind.
TriggersCompleteOnce ==
    \A j \in Jobs : \A m, n \in DOMAIN job[j].runs :
        job[j].runs[m].status = "COMPLETED" /\ job[j].runs[n].status = "COMPLETED" => m = n

Settled(r) == r.status = "FAILED" \/ (r.status = "COMPLETED" /\ r.announced)

\* A run is left RUNNING only by a crash or by a failure in the catch block, and
\* one that is left COMPLETED has told the user's webhooks.
RunsAreSettled ==
    \A j \in Jobs : \A n \in DOMAIN job[j].runs :
        \/ Settled(job[j].runs[n])
        \/ n = Len(job[j].runs) /\ job[j].pc \notin {"none", "find", "create"}

\* With Redis, every job that waits is worked on and ends.
JobsEnd == \A j \in Jobs : job[j].phase = "waiting" ~> job[j].phase = "ended"

-----------------------------------------------------------------------------
(* The inductive invariant of AutomationsProofs *)

OfRun == {"steps", "complete", "announce", "fail", "failed"}
Pcs   == {"none", "find", "create", "post", "store", "again", "store error", "again error"} \cup OfRun

Job == [kind : {"none", "run", "webhook"}, phase : {"none", "waiting", "active", "ended"}, pc : Pcs,
        tries : Nat, stalls : Nat, runs : Seq(Run), attempt : Nat, root : Nat, ok : BOOLEAN,
        stored : BOOLEAN]

Failed(r, n) == r.runs[n].status = "FAILED"

\* All runs of a job but the one at work have failed, but that the last of a job that has
\* ended may be completed and announced.  A delivery has no runs.
Ordered(r) ==
    /\ r.kind # "run" => r.runs = <<>>
    /\ \A n \in DOMAIN r.runs : n # Len(r.runs) => Failed(r, n)
    /\ r.pc \notin OfRun => \A n \in DOMAIN r.runs : Settled(r.runs[n])
    /\ r.pc \notin OfRun /\ r.phase # "ended" => \A n \in DOMAIN r.runs : Failed(r, n)
    /\ r.runs # <<>> /\ r.pc = "announce" => r.runs[Len(r.runs)].status = "COMPLETED"
    /\ r.runs # <<>> /\ r.pc = "failed" => Failed(r, Len(r.runs))

\* A job is tried no more often than its attempts and its stalls allow, and only an
\* attempt that is not the last is followed by another.
Counted(r) ==
    /\ r.tries <= Limit(r.kind) + r.stalls
    /\ r.phase = "waiting" => r.tries < Limit(r.kind) + r.stalls
    /\ r.stalls <= MaxStalled
    /\ r.attempt \in 1..LastAttempt + 1
    /\ r.pc \in {"again", "again error"} => r.attempt < LastAttempt

AutomationsInv ==
    /\ workflow \in States /\ hook \in States /\ crashes \in 0..MaxCrashes
    /\ job \in [Jobs -> Job]
    /\ \A j \in Jobs :
           /\ job[j].phase = "active" <=> job[j].pc # "none"
           /\ Ordered(job[j]) /\ Counted(job[j])
           /\ workflow # "gone" /\ job[j].pc \in OfRun => job[j].runs # <<>>
=============================================================================
