---------------------------- MODULE AiGeneration ----------------------------
(***************************************************************************)
(* The AI generations of one user: generate and refine of                  *)
(* controllers/aiController.ts, the queue of services/aiQueue.ts and       *)
(* processAiGeneration of services/aiPipeline.ts.                          *)
(*                                                                         *)
(* A handler counts the generations of the day, creates a row and queues   *)
(* it, in three awaited statements.  A worker takes the row through the    *)
(* pipeline; with Redis the job survives the process, without it the       *)
(* pipeline runs inline and dies with the process.  Whatever fails in the  *)
(* pipeline, the notification at its end included, ends in one catch block.*)
(***************************************************************************)
EXTENDS Integers, FiniteSets

CONSTANTS
    Generations, \* rows of ai_requests (a bound)
    Earlier,     \* those completed earlier today
    Handlers,    \* requests of the user in flight (a bound)
    Limit,       \* ai.dailyLimit of the user's role
    Redis,       \* whether a Redis connection is configured
    Concurrency, \* of the BullMQ worker
    Attempts,    \* of a BullMQ job
    MaxStalled,  \* how often BullMQ puts a stalled job back
    MaxCrashes,  \* bound on the crashes of the server
    DbFails      \* whether the update in the catch block may fail too

ASSUME GenerationAssumption ==
    /\ IsFiniteSet(Generations)
    /\ IsFiniteSet(Handlers) /\ Handlers # {}
    /\ Limit \in Nat /\ Concurrency \in Nat /\ MaxStalled \in Nat /\ MaxCrashes \in Nat
    /\ Attempts \in Nat \ {0}
    /\ Redis \in BOOLEAN /\ DbFails \in BOOLEAN
    /\ Earlier \subseteq Generations /\ Cardinality(Earlier) <= Limit

VARIABLES
    status,      \* ai_requests.status, "none" before the row exists
    today,       \* rows created since midnight
    template,    \* ai_requests.generated_template_id: 0, or the number of one
    made,        \* templates created for a row
    pc, row,     \* the handlers, and the row each has created
    step,        \* where the job of a row is
    tries,       \* attempts of its job that have failed
    stalled,     \* times its job has stalled
    crashes,
    failed       \* history: rows that were FAILED at some time

rows    == <<status, today, template, made, failed>>
handler == <<pc, row>>
jobs    == <<step, tries, stalled>>
vars    == <<rows, handler, jobs, crashes>>

Statuses == {"none", "PENDING", "PROCESSING", "COMPLETED", "FAILED"}
Running  == {"begin", "create", "complete", "notify", "catch", "ack"}
Steps    == {"none", "queued"} \cup Running

Init ==
    /\ status = [g \in Generations |-> IF g \in Earlier THEN "COMPLETED" ELSE "none"]
    /\ today = Earlier
    /\ template = [g \in Generations |-> IF g \in Earlier THEN 1 ELSE 0]
    /\ made = template
    /\ failed = {}
    /\ pc = [h \in Handlers |-> "idle"]
    /\ row = [h \in Handlers |-> {}]
    /\ step = [g \in Generations |-> "none"]
    /\ tries = [g \in Generations |-> 0]
    /\ stalled = [g \in Generations |-> 0]
    /\ crashes = 0

-----------------------------------------------------------------------------
(* generate and refine *)

Counted == {"PENDING", "PROCESSING", "COMPLETED"}
Used    == {g \in today : status[g] \in Counted}

\* Mutant: a user who is at the limit may start one more.
CheckLimit_OffByOne(h) ==
    /\ pc[h] = "idle"
    /\ Cardinality(Used) <= Limit
    /\ pc' = [pc EXCEPT ![h] = "create"]
    /\ UNCHANGED <<rows, row, jobs, crashes>>

\* countToday.  Refining is the same for a completed parent, which was counted
\* before or belongs to an earlier day.
CheckLimit(h) ==
    /\ pc[h] = "idle"
    /\ Cardinality(Used) < Limit
    /\ pc' = [pc EXCEPT ![h] = "create"]
    /\ UNCHANGED <<rows, row, jobs, crashes>>

CreateRow(h, g) ==
    /\ pc[h] = "create"
    /\ status[g] = "none"
    /\ status' = [status EXCEPT ![g] = "PENDING"]
    /\ today' = today \cup {g}
    /\ row' = [row EXCEPT ![h] = {g}]
    /\ pc' = [pc EXCEPT ![h] = "enqueue"]
    /\ UNCHANGED <<template, made, failed, jobs, crashes>>

\* enqueueAiJob, then the answer "Generation queued".
Enqueue(h) ==
    /\ pc[h] = "enqueue"
    /\ step' = [g \in Generations |-> IF g \in row[h] THEN "queued" ELSE step[g]]
    /\ row' = [row EXCEPT ![h] = {}]
    /\ pc' = [pc EXCEPT ![h] = "idle"]
    /\ UNCHANGED <<rows, tries, stalled, crashes>>

\* Redis refuses the job: the request fails and its row stays PENDING.
EnqueueError(h) ==
    /\ pc[h] = "enqueue"
    /\ Redis
    /\ row' = [row EXCEPT ![h] = {}]
    /\ pc' = [pc EXCEPT ![h] = "idle"]
    /\ UNCHANGED <<rows, jobs, crashes>>

-----------------------------------------------------------------------------
(* processAiGeneration *)

Goto(g, label) == step' = [step EXCEPT ![g] = label] /\ UNCHANGED <<tries, stalled>>

\* The worker takes a job when one of its slots is free; setImmediate runs it.
Take(g) ==
    /\ step[g] = "queued"
    /\ Redis => Cardinality({o \in Generations : step[o] \in Running}) < Concurrency
    /\ Goto(g, "begin")
    /\ UNCHANGED <<rows, handler, crashes>>

\* No statement looks at the status the row has.
BeginWork(g) ==
    /\ step[g] = "begin"
    /\ status' = [status EXCEPT ![g] = "PROCESSING"]
    /\ Goto(g, "create")
    /\ UNCHANGED <<today, template, made, failed, handler, crashes>>

\* After prompt, model or starter workbook, upload and preview.
CreateTemplate(g) ==
    /\ step[g] = "create"
    /\ made' = [made EXCEPT ![g] = @ + 1]
    /\ Goto(g, "complete")
    /\ UNCHANGED <<status, today, template, failed, handler, crashes>>

\* Mutant: the row is completed without its template.
Complete_NoTemplate(g) ==
    /\ step[g] = "complete"
    /\ status' = [status EXCEPT ![g] = "COMPLETED"]
    /\ Goto(g, "notify")
    /\ UNCHANGED <<today, template, made, failed, handler, crashes>>

Complete(g) ==
    /\ step[g] = "complete"
    /\ status' = [status EXCEPT ![g] = "COMPLETED"]
    /\ template' = [template EXCEPT ![g] = made[g]]
    /\ Goto(g, "notify")
    /\ UNCHANGED <<today, made, failed, handler, crashes>>

Notify(g) ==
    /\ step[g] = "notify"
    /\ Goto(g, "ack")
    /\ UNCHANGED <<rows, handler, crashes>>

\* Each of these statements may throw.
Throws(g) ==
    /\ step[g] \in {"begin", "create", "complete", "notify"}
    /\ Goto(g, "catch")
    /\ UNCHANGED <<rows, handler, crashes>>

\* Mutant: the error is only logged.
Fail_Silent(g) ==
    /\ step[g] = "catch"
    /\ Goto(g, "ack")
    /\ UNCHANGED <<rows, handler, crashes>>

Fail(g) ==
    /\ step[g] = "catch"
    /\ status' = [status EXCEPT ![g] = "FAILED"]
    /\ failed' = failed \cup {g}
    /\ Goto(g, "ack")
    /\ UNCHANGED <<today, template, made, handler, crashes>>

\* The first look-up or the catch block throws, which nothing catches: BullMQ
\* tries the job again while it has attempts.
FailThrows(g) ==
    /\ step[g] \in {"begin", "catch"}
    /\ DbFails
    /\ tries' = [tries EXCEPT ![g] = @ + 1]
    /\ step' = [step EXCEPT ![g] = IF Redis /\ tries'[g] < Attempts THEN "queued" ELSE "none"]
    /\ UNCHANGED <<rows, handler, stalled, crashes>>

\* Mutant: the worker does not wait for the promise and takes the job again.
Acknowledge_Again(g) ==
    /\ step[g] = "ack"
    /\ Goto(g, "queued")
    /\ UNCHANGED <<rows, handler, crashes>>

\* The job is removed, and its counters with it.
Acknowledge(g) ==
    /\ step[g] = "ack"
    /\ step' = [step EXCEPT ![g] = "none"]
    /\ tries' = [tries EXCEPT ![g] = 0]
    /\ stalled' = [stalled EXCEPT ![g] = 0]
    /\ UNCHANGED <<rows, handler, crashes>>

-----------------------------------------------------------------------------
Midnight ==
    /\ today # {}
    /\ today' = {}
    /\ UNCHANGED <<status, template, made, failed, handler, jobs, crashes>>

\* The handlers and the inline jobs are gone.  With Redis the queued jobs stay,
\* and those that were being worked on stall and are put back, MaxStalled times.
Crash ==
    /\ crashes < MaxCrashes
    /\ crashes' = crashes + 1
    /\ pc' = [h \in Handlers |-> "idle"]
    /\ row' = [h \in Handlers |-> {}]
    /\ stalled' = [g \in Generations |->
                     IF Redis /\ step[g] \in Running THEN stalled[g] + 1 ELSE stalled[g]]
    /\ step' = [g \in Generations |->
                  IF Redis /\ step[g] # "none" /\ stalled'[g] <= MaxStalled
                  THEN "queued" ELSE "none"]
    /\ UNCHANGED <<rows, tries>>

-----------------------------------------------------------------------------
Pipeline(g) ==
    \/ Take(g) \/ BeginWork(g) \/ CreateTemplate(g) \/ Complete(g)
    \/ Notify(g) \/ Throws(g) \/ Fail(g) \/ FailThrows(g) \/ Acknowledge(g)

Next ==
    \/ \E h \in Handlers :
          \/ CheckLimit(h) \/ Enqueue(h) \/ EnqueueError(h)
          \/ \E g \in Generations : CreateRow(h, g)
    \/ \E g \in Generations : Pipeline(g)
    \/ Midnight
    \/ Crash

Spec == Init /\ [][Next]_vars

\* The worker goes on with every job it holds and, whenever a slot is free time
\* and again, takes the ones that wait.
FairSpec == Spec /\ \A g \in Generations : SF_vars(Pipeline(g))

-----------------------------------------------------------------------------
(* What the code keeps true *)

\* Rows, handlers and jobs hold what their code puts there.
TypeOK ==
    /\ status \in [Generations -> Statuses]
    /\ today \in SUBSET Generations
    /\ made \in [Generations -> 0..(Attempts + MaxStalled)]
    /\ template \in [Generations -> 0..(Attempts + MaxStalled)]
    /\ failed \in SUBSET Generations
    /\ pc \in [Handlers -> {"idle", "create", "enqueue"}]
    /\ row \in [Handlers -> SUBSET Generations]
    /\ step \in [Generations -> Steps]
    /\ tries \in [Generations -> 0..Attempts]
    /\ stalled \in [Generations -> 0..(MaxStalled + 1)]
    /\ crashes \in 0..MaxCrashes

\* The limit is checked before the row is created, so handlers that run together
\* may pass it, but never by more than their number less one; and only for rows
\* that have not failed, since a failed one may be worked on again.
OvershootBounded ==
    Cardinality(Used \ failed) <= Limit + Cardinality(Handlers) - 1

\* However often a job is run again, fails, or is taken over by a later process,
\* a completed row has a template, and it is one that exists.
CompletedHasTemplate ==
    \A g \in Generations :
        /\ template[g] <= made[g]
        /\ status[g] = "COMPLETED" => template[g] > 0

\* BullMQ has given a job up.
GivenUp(g) == step[g] = "none" /\ (tries[g] >= Attempts \/ stalled[g] > MaxStalled)

\* With Redis, a row whose job was queued ends, also across a crash, unless the
\* database or the process fails it as often as BullMQ is willing to try.
QueuedEnds ==
    \A g \in Generations :
        step[g] = "queued" ~> status[g] \in {"COMPLETED", "FAILED"} \/ GivenUp(g)

-----------------------------------------------------------------------------
(* The inductive invariants of AiGenerationProofs *)

Checked == {h \in Handlers : pc[h] = "create"}

\* Handlers that have passed the check count as rows already: a check that passes
\* found less than Limit, and a created row takes the place of its handler.
LimitInv ==
    /\ status \in [Generations -> Statuses]
    /\ pc \in [Handlers -> {"idle", "create", "enqueue"}]
    /\ today \in SUBSET Generations
    /\ \A g \in today : status[g] \in Counted \/ g \in failed
    /\ Cardinality(today \ failed) + Cardinality(Checked)
           <= Limit + Cardinality(Handlers) - 1

\* A job that is about to complete its row has created a template.
TemplateInv ==
    /\ status \in [Generations -> Statuses]
    /\ step \in [Generations -> Steps]
    /\ made \in [Generations -> Nat]
    /\ template \in [Generations -> Nat]
    /\ \A g \in Generations : step[g] = "complete" => made[g] > 0
    /\ CompletedHasTemplate

Begun(g) == IF step[g] \in {"complete", "notify", "catch", "ack"} THEN 1 ELSE 0

\* Each run of a job creates one template, and each but the last has failed or
\* stalled; a row is queued once, by the handler that created it.
JobInv ==
    /\ TypeOK
    /\ \A g \in Generations : step[g] # "none" =>
           /\ made[g] <= tries[g] + stalled[g] + Begun(g)
           /\ tries[g] < Attempts /\ stalled[g] <= MaxStalled
    /\ \A g \in Generations :
           status[g] = "none" => step[g] = "none" /\ made[g] = 0 /\ tries[g] = 0 /\ stalled[g] = 0
    /\ \A h \in Handlers : \A g \in row[h] :
           /\ status[g] # "none" /\ step[g] = "none"
           /\ made[g] = 0 /\ tries[g] = 0 /\ stalled[g] = 0
           /\ \A o \in Handlers \ {h} : g \notin row[o]
    /\ \A g \in Generations : template[g] <= made[g]
=============================================================================
