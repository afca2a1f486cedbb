------------------------- MODULE AiGenerationProofs -------------------------
(***************************************************************************)
(* Two theorems about AiGeneration: by how much concurrent handlers may    *)
(* pass the daily limit, and that a completed row has its template.        *)
(***************************************************************************)
EXTENDS AiGeneration, FiniteSetTheorems, TLAPS

USE GenerationAssumption

(***************************************************************************)
(* The daily limit                                                         *)
(***************************************************************************)

\* Sets of rows and of handlers are finite, and grow no larger than their whole.
LEMMA Sizes ==
  ASSUME NEW R \in SUBSET Generations, NEW H \in SUBSET Handlers
  PROVE  /\ IsFiniteSet(R) /\ Cardinality(R) \in Nat
         /\ IsFiniteSet(H) /\ Cardinality(H) \in Nat
         /\ Cardinality(H) <= Cardinality(Handlers)
         /\ Cardinality(Handlers) \in Nat /\ Cardinality(Handlers) > 0
  <1>1. IsFiniteSet(R) /\ IsFiniteSet(H) /\ Cardinality(H) <= Cardinality(Handlers)
    BY FS_Subset
  <1>2. Cardinality(Handlers) # 0
    BY FS_EmptySet
  <1>3. QED
    BY <1>1, <1>2, FS_CardinalityType

\* One more row makes a set of rows larger by one at most.
LEMMA OneMoreRow ==
  ASSUME NEW R \in SUBSET Generations, NEW g \in Generations
  PROVE  IsFiniteSet(R \cup {g}) /\ Cardinality(R \cup {g}) <= Cardinality(R) + 1
  <1>1. IsFiniteSet(R) /\ Cardinality(R) \in Nat
    BY Sizes
  <1>2. QED
    BY ONLY <1>1, FS_AddElement

\* One handler less makes a set of handlers smaller by one.
LEMMA OneHandlerLess ==
  ASSUME NEW H \in SUBSET Handlers, NEW h \in H
  PROVE  Cardinality(H \ {h}) = Cardinality(H) - 1
  <1>1. IsFiniteSet(H)
    BY Sizes
  <1>2. QED
    BY ONLY <1>1, FS_RemoveElement

\* With fewer rows that count and no new handler past the check, the bound stays.
LEMMA BoundKept ==
  ASSUME LimitInv,
         (today \ failed)' \in SUBSET (today \ failed),
         Checked' \in SUBSET Checked
  PROVE  Cardinality((today \ failed)') + Cardinality(Checked')
             <= Limit + Cardinality(Handlers) - 1
  <1>1. /\ today \ failed \in SUBSET Generations
        /\ Checked \in SUBSET Handlers
    BY DEF LimitInv, Checked
  <1>2. /\ Cardinality((today \ failed)') <= Cardinality(today \ failed)
        /\ Cardinality(Checked') <= Cardinality(Checked)
    BY <1>1, Sizes, FS_Subset
  <1>3. /\ Cardinality((today \ failed)') \in Nat /\ Cardinality(today \ failed) \in Nat
        /\ Cardinality(Checked') \in Nat /\ Cardinality(Checked) \in Nat
        /\ Cardinality(Handlers) \in Nat
    <2>1. (today \ failed)' \in SUBSET Generations /\ Checked' \in SUBSET Handlers
      BY <1>1
    <2>2. QED
      BY <1>1, <2>1, Sizes
  <1>4. QED
    BY <1>2, <1>3 DEF LimitInv

\* The invariant holds at the start.
LEMMA LimitInit ==
  ASSUME Init
  PROVE  LimitInv
  <1>1. today \ failed = Earlier /\ Checked = {} /\ Cardinality(Earlier) <= Limit
    BY DEF Init, Checked
  <1>2. /\ Cardinality(Handlers) \in Nat /\ Cardinality(Handlers) > 0
        /\ Cardinality(Earlier) \in Nat
    BY Sizes
  <1>3. Cardinality(Earlier) + 0 <= Limit + Cardinality(Handlers) - 1
    BY <1>1, <1>2
  <1>4. Cardinality(today \ failed) + Cardinality(Checked)
            <= Limit + Cardinality(Handlers) - 1
    BY <1>1, <1>3, FS_EmptySet
  <1>5. QED
    BY <1>4 DEF Init, LimitInv, Statuses, Counted

\* A check that passes found at most Limit - 1 rows of the day that count, and
\* no more handlers than there are can be past it.
LEMMA CheckKeepsBound ==
  ASSUME LimitInv, NEW h \in Handlers, CheckLimit(h)
  PROVE  LimitInv'
  <1> DEFINE Counting == today \ failed
  <1>1. Counting \in SUBSET Generations /\ Used \in SUBSET Generations
        /\ Checked' \in SUBSET Handlers
    BY DEF LimitInv, Used, Checked
  <1>2. Counting \in SUBSET Used
    BY DEF LimitInv, Used
  <1>3. Cardinality(Counting) <= Cardinality(Used) /\ Cardinality(Used) < Limit
    BY <1>1, <1>2, Sizes, FS_Subset DEF CheckLimit
  <1>4. Cardinality(Checked') <= Cardinality(Handlers)
    BY <1>1, Sizes
  <1>5. Counting' = Counting
    BY DEF CheckLimit, rows
  <1>6. Cardinality(Counting') + Cardinality(Checked')
            <= Limit + Cardinality(Handlers) - 1
    <2>1. Cardinality(Counting) \in Nat /\ Cardinality(Used) \in Nat
          /\ Cardinality(Checked') \in Nat /\ Cardinality(Handlers) \in Nat
      BY <1>1, Sizes
    <2>2. Limit \in Nat
      OBVIOUS
    <2>3. Cardinality(Counting) + Cardinality(Checked')
              <= Limit + Cardinality(Handlers) - 1
      BY <2>1, <2>2, <1>3, <1>4
    <2>4. QED
      BY <2>3, <1>5
  <1>7. QED
    BY <1>6 DEF LimitInv, CheckLimit, rows

\* A created row takes the place of the handler that created it.
LEMMA CreateKeepsBound ==
  ASSUME LimitInv, NEW h \in Handlers, NEW g \in Generations, CreateRow(h, g)
  PROVE  LimitInv'
  <1> DEFINE Counting == today \ failed
  <1>1. Counting \in SUBSET Generations /\ Checked \in SUBSET Handlers /\ h \in Checked
    BY DEF LimitInv, Checked, CreateRow
  <1>2. Counting' \in SUBSET (Counting \cup {g})
    BY DEF CreateRow
  <1>3. Checked' = Checked \ {h}
    BY DEF Checked, CreateRow, LimitInv
  <1>4. Cardinality(Counting') <= Cardinality(Counting) + 1
    <2>1. /\ IsFiniteSet(Counting \cup {g})
          /\ Cardinality(Counting \cup {g}) <= Cardinality(Counting) + 1
      BY <1>1, OneMoreRow
    <2>2. Cardinality(Counting') <= Cardinality(Counting \cup {g})
      BY <1>2, <2>1, FS_Subset
    <2>3. Counting' \in SUBSET Generations /\ Counting \cup {g} \in SUBSET Generations
      BY <1>1, <1>2
    <2>4. /\ Cardinality(Counting') \in Nat /\ Cardinality(Counting) \in Nat
          /\ Cardinality(Counting \cup {g}) \in Nat
      BY <1>1, <2>3, Sizes
    <2>5. QED
      BY <2>1, <2>2, <2>4
  <1>5. Cardinality(Checked') = Cardinality(Checked) - 1
    BY <1>1, <1>3, OneHandlerLess
  <1>6. Cardinality(Counting') + Cardinality(Checked')
            <= Limit + Cardinality(Handlers) - 1
    <2>1. /\ Counting' \in SUBSET Generations
          /\ Cardinality(Counting) + Cardinality(Checked)
                 <= Limit + Cardinality(Handlers) - 1
      BY <1>1, <1>2 DEF LimitInv
    <2>2. /\ Cardinality(Counting) \in Nat /\ Cardinality(Counting') \in Nat
          /\ Cardinality(Checked) \in Nat /\ Cardinality(Handlers) \in Nat
      BY <1>1, <2>1, Sizes
    <2>3. QED
      BY <1>4, <1>5, <2>1, <2>2
  <1>7. /\ status' \in [Generations -> Statuses]
        /\ pc' \in [Handlers -> {"idle", "create", "enqueue"}]
        /\ today' \in SUBSET Generations
        /\ \A o \in today' : status'[o] \in Counted \/ o \in failed'
    BY DEF LimitInv, CreateRow, Statuses, Counted
  <1>8. QED
    BY <1>6, <1>7 DEF LimitInv

\* The other steps create no row and let no handler past the check.
LEMMA LimitStep ==
  ASSUME LimitInv, [Next]_vars
  PROVE  LimitInv'
  <1> DEFINE Types ==
        /\ status \in [Generations -> Statuses]
        /\ pc \in [Handlers -> {"idle", "create", "enqueue"}]
        /\ today \in SUBSET Generations
        /\ \A g \in today : status[g] \in Counted \/ g \in failed
  <1>1. ASSUME NEW h \in Handlers, CheckLimit(h) \/ \E g \in Generations : CreateRow(h, g)
        PROVE  LimitInv'
    BY <1>1, CheckKeepsBound, CreateKeepsBound
  <1>2. ASSUME Types', (today \ failed)' \in SUBSET (today \ failed),
               Checked' \in SUBSET Checked
        PROVE  LimitInv'
    BY <1>2, BoundKept DEF LimitInv
  <1>3. ASSUME NEW h \in Handlers, Enqueue(h) \/ EnqueueError(h)
        PROVE  LimitInv'
    <2>1. UNCHANGED rows /\ pc' = [pc EXCEPT ![h] = "idle"]
      BY <1>3 DEF Enqueue, EnqueueError
    <2>2. Types' /\ (today \ failed)' = today \ failed /\ Checked' \in SUBSET Checked
      BY <2>1 DEF rows, LimitInv, Checked
    <2>3. QED
      BY <1>2, <2>2
  <1>4. ASSUME NEW g \in Generations, Pipeline(g)
        PROVE  LimitInv'
    <2>1. UNCHANGED <<pc, today>> /\ failed \in SUBSET failed'
      BY <1>4 DEF Pipeline, Take, BeginWork, CreateTemplate, Complete, Notify,
         Throws, Fail, FailThrows, Acknowledge, rows, handler
    <2>2. \/ UNCHANGED status
          \/ status' = [status EXCEPT ![g] = "PROCESSING"]
          \/ status' = [status EXCEPT ![g] = "COMPLETED"]
          \/ status' = [status EXCEPT ![g] = "FAILED"] /\ g \in failed'
      BY <1>4 DEF Pipeline, Take, BeginWork, CreateTemplate, Complete, Notify,
         Throws, Fail, FailThrows, Acknowledge, rows
    <2>3. Types'
      BY <2>1, <2>2 DEF LimitInv, Statuses, Counted
    <2>4. QED
      BY <1>2, <2>1, <2>3 DEF Checked
  <1>5. CASE Midnight
    BY <1>2, <1>5 DEF Midnight, LimitInv, handler, Checked
  <1>6. CASE Crash
    <2>1. Types' /\ (today \ failed)' = today \ failed /\ Checked' = {}
      BY <1>6 DEF Crash, LimitInv, rows, Checked
    <2>2. QED
      BY <1>2, <2>1
  <1>7. CASE UNCHANGED vars
    BY <1>7 DEF vars, rows, handler, LimitInv, Checked
  <1>8. QED
    BY <1>1, <1>3, <1>4, <1>5, <1>6, <1>7 DEF Next

\* Handlers that run together pass the daily limit by at most their number less
\* one, for any limit and any number of handlers, workers and crashes.
THEOREM LimitOvershoot == Spec => []OvershootBounded
  <1>1. LimitInv => OvershootBounded
    <2>1. SUFFICES ASSUME LimitInv PROVE OvershootBounded
      OBVIOUS
    <2>2. /\ Used \ failed \in SUBSET (today \ failed)
          /\ today \ failed \in SUBSET Generations /\ Used \ failed \in SUBSET Generations
          /\ Checked \in SUBSET Handlers
      BY <2>1 DEF Used, LimitInv, Checked
    <2>3. /\ Cardinality(Used \ failed) <= Cardinality(today \ failed)
          /\ Cardinality(Used \ failed) \in Nat /\ Cardinality(today \ failed) \in Nat
          /\ Cardinality(Checked) \in Nat /\ Cardinality(Handlers) \in Nat
      BY <2>2, Sizes, FS_Subset
    <2>4. QED
      BY <2>1, <2>3 DEF LimitInv, OvershootBounded
  <1>2. QED
    BY <1>1, LimitInit, LimitStep, PTL DEF Spec

(***************************************************************************)
(* The template of a completed row                                         *)
(***************************************************************************)

\* Every step keeps the template invariant.
LEMMA TemplateStep ==
  ASSUME TemplateInv, [Next]_vars
  PROVE  TemplateInv'
  <1> USE DEF TemplateInv, CompletedHasTemplate
  <1>1. ASSUME NEW h \in Handlers,
               CheckLimit(h) \/ Enqueue(h) \/ EnqueueError(h)
                   \/ \E g \in Generations : CreateRow(h, g)
        PROVE  TemplateInv'
    BY <1>1 DEF CheckLimit, Enqueue, EnqueueError, CreateRow, rows, jobs, Statuses, Steps
  <1>2. ASSUME NEW g \in Generations, Pipeline(g)
        PROVE  TemplateInv'
    <2>1. CASE CreateTemplate(g)
      BY <2>1 DEF CreateTemplate, Goto, Steps, Running
    <2>2. CASE Complete(g)
      BY <2>2 DEF Complete, Goto, Steps, Running, Statuses
    <2>3. CASE BeginWork(g) \/ Fail(g)
      BY <2>3 DEF BeginWork, Fail, Goto, Steps, Running, Statuses
    <2>4. CASE Take(g) \/ Notify(g) \/ Throws(g) \/ FailThrows(g) \/ Acknowledge(g)
      BY <2>4 DEF Take, Notify, Throws, FailThrows, Acknowledge, Goto, rows, Steps, Running
    <2>5. QED
      BY <1>2, <2>1, <2>2, <2>3, <2>4 DEF Pipeline
  <1>3. CASE Midnight
    BY <1>3 DEF Midnight, jobs
  <1>4. CASE Crash
    BY <1>4 DEF Crash, rows, Steps
  <1>5. CASE UNCHANGED vars
    BY <1>5 DEF vars, rows, jobs
  <1>6. QED
    BY <1>1, <1>2, <1>3, <1>4, <1>5 DEF Next

\* A completed row has a template that exists, however often its job failed, was
\* tried again or was taken over by another process.
THEOREM CompletedIsUsable == Spec => []CompletedHasTemplate
  <1>1. Init => TemplateInv
    BY DEF Init, TemplateInv, CompletedHasTemplate, Statuses, Steps
  <1>2. TemplateInv => CompletedHasTemplate
    BY DEF TemplateInv
  <1>3. QED
    BY <1>1, <1>2, TemplateStep, PTL DEF Spec

(***************************************************************************)
(* Rows, handlers and jobs                                                 *)
(***************************************************************************)

\* A step of a job keeps what is said of it, and touches no other row.
LEMMA PipelineKeepsJobs ==
  ASSUME JobInv, NEW g \in Generations, Pipeline(g)
  PROVE  JobInv'
  <1> USE DEF JobInv, TypeOK, Statuses, Steps, Running, Begun, Goto, rows, handler
  <1>1. CASE Take(g)
    BY <1>1 DEF Take
  <1>2. CASE BeginWork(g)
    BY <1>2 DEF BeginWork
  <1>3. CASE CreateTemplate(g)
    BY <1>3 DEF CreateTemplate
  <1>4. CASE Complete(g)
    BY <1>4 DEF Complete
  <1>5. CASE Notify(g)
    BY <1>5 DEF Notify
  <1>6. CASE Throws(g)
    BY <1>6 DEF Throws
  <1>7. CASE Fail(g)
    BY <1>7 DEF Fail
  <1>8. CASE FailThrows(g)
    BY <1>8 DEF FailThrows
  <1>9. CASE Acknowledge(g)
    BY <1>9 DEF Acknowledge
  <1>10. QED
    BY <1>1, <1>2, <1>3, <1>4, <1>5, <1>6, <1>7, <1>8, <1>9 DEF Pipeline

\* A handler queues the row it has created, which no other handler holds.
LEMMA HandlerKeepsJobs ==
  ASSUME JobInv, NEW h \in Handlers,
         CheckLimit(h) \/ Enqueue(h) \/ EnqueueError(h) \/ \E g \in Generations : CreateRow(h, g)
  PROVE  JobInv'
  <1> USE DEF JobInv, TypeOK, Statuses, Steps, Running, Begun, rows, jobs
  <1>1. CASE CheckLimit(h)
    BY <1>1 DEF CheckLimit
  <1>2. CASE Enqueue(h)
    BY <1>2 DEF Enqueue
  <1>3. CASE EnqueueError(h)
    BY <1>3 DEF EnqueueError
  <1>4. ASSUME NEW g \in Generations, CreateRow(h, g)
        PROVE  JobInv'
    BY <1>4 DEF CreateRow
  <1>5. QED
    BY <1>1, <1>2, <1>3, <1>4

\* A job that stalls is put back with one stall more, or is given up.
LEMMA CrashKeepsJobs ==
  ASSUME JobInv, Crash
  PROVE  JobInv'
  <1>1. TypeOK'
    BY DEF JobInv, TypeOK, Crash, Statuses, Steps, Running, Begun, rows
  <1>2. ASSUME NEW g \in Generations, step'[g] # "none"
        PROVE  /\ made'[g] <= tries'[g] + stalled'[g] + Begun(g)'
               /\ tries'[g] < Attempts /\ stalled'[g] <= MaxStalled
    BY <1>2 DEF JobInv, TypeOK, Crash, Steps, Running, Begun, rows
  <1>3. QED
    BY <1>1, <1>2 DEF JobInv, TypeOK, Crash, Running, rows

\* What rows, handlers and jobs hold: a job is tried and stalls no more often
\* than BullMQ lets it, and creates no more templates than it is run.
THEOREM AiTypes == Spec => []TypeOK
  <1>1. Init => JobInv
    BY DEF Init, JobInv, TypeOK, Statuses, Steps, Begun
  <1>2. JobInv /\ [Next]_vars => JobInv'
    <2> SUFFICES ASSUME JobInv, [Next]_vars PROVE JobInv'
      OBVIOUS
    <2>1. CASE Midnight
      BY <2>1 DEF JobInv, TypeOK, Midnight, Begun, handler, jobs
    <2>2. CASE UNCHANGED vars
      BY <2>2 DEF JobInv, TypeOK, Begun, vars, rows, handler, jobs
    <2>3. QED
      BY <2>1, <2>2, PipelineKeepsJobs, HandlerKeepsJobs, CrashKeepsJobs DEF Next
  <1>3. JobInv => TypeOK
    BY DEF JobInv
  <1>4. QED
    BY <1>1, <1>2, <1>3, PTL DEF Spec
=============================================================================
