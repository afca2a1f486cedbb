----------------------------- MODULE Schedules ------------------------------
(***************************************************************************)
(* The clock of the automations: tickSchedules and the interval that calls *)
(* it in services/automationQueue.ts, cronMatches of automations/logic.ts, *)
(* and triggerEvent of services/workflowEngine.ts.                         *)
(*                                                                         *)
(* The interval is a minute and not bound to the minutes of the clock, and *)
(* a tick reads the time only after its query has answered: two ticks may  *)
(* be at work at once.  Time passes in parts of a minute.                  *)
(***************************************************************************)
EXTENDS Integers, Sequences, FiniteSets

CONSTANTS
    Parts,     \* parts of a minute
    Start,     \* the minute it is at first, counted from midnight
    MaxTime,   \* bound on the time that passes, in parts
    Ticks,     \* ticks at work at once (a bound)
    Crons,     \* the expressions a schedule may have
    MaxEdits   \* bound on the changes of the workflow and on the events

VARIABLES
    now,       \* time since the start
    due,       \* when the interval's timer is due
    plan,      \* the workflow: enabled, triggerType, triggerConfig
    edits,     \* its changes, and the events, so far
    tick,      \* the ticks
    fired,     \* jobs enqueued for the schedule in each minute
    slid,      \* ticks that began in an earlier minute than the one they read
    wanted     \* jobs enqueued for the event

schedVars == <<now, due, plan, edits, tick, fired, slid, wanted>>

Minute(time) == Start + time \div Parts
Minutes == {Minute(time) : time \in 0..MaxTime}

Idle == [pc |-> "idle", began |-> 0, read |-> 0, cron |-> <<>>]

Init ==
    /\ now = 0
    /\ due = Parts
    /\ plan = [on |-> FALSE, trigger |-> "MANUAL", cron |-> <<>>, event |-> "none"]
    /\ edits = 0
    /\ tick = [t \in Ticks |-> Idle]
    /\ fired = [m \in Minutes |-> 0]
    /\ slid = [m \in Minutes |-> 0]
    /\ wanted = {}

-----------------------------------------------------------------------------
(* cronMatches *)

\* A field is a star, every n-th or a list; what is none of them matches nothing.
Star     == [every |-> 1, list |-> {}]
Every(n) == [every |-> n, list |-> {}]
Only(s)  == [every |-> 0, list |-> s]

matchField(field, value) ==
    IF field.every > 0 THEN value % field.every = 0 ELSE value \in field.list

\* Minute, hour, day, month and weekday, on a first of January, a Thursday.
Parted(minute) == <<minute % 60, minute \div 60, 1, 1, 4>>

cronMatches(cron, minute) ==
    /\ Len(cron) = 5
    /\ \A i \in 1..5 : matchField(cron[i], Parted(minute)[i])

-----------------------------------------------------------------------------
(* tickSchedules *)

Pass ==
    /\ now < MaxTime
    /\ now' = now + 1
    /\ UNCHANGED <<due, plan, edits, tick, fired, slid, wanted>>

\* Mutant: the timer is set to half a minute.
Begin_Twice(t) ==
    /\ tick[t] = Idle
    /\ now >= due
    /\ due' = now + Parts \div 2
    /\ tick' = [tick EXCEPT ![t] = [Idle EXCEPT !.pc = "query", !.began = now]]
    /\ UNCHANGED <<now, plan, edits, fired, slid, wanted>>

\* setInterval: the timer is due again a minute after it has run, which may be late.
Begin(t) ==
    /\ tick[t] = Idle
    /\ now >= due
    /\ due' = now + Parts
    /\ tick' = [tick EXCEPT ![t] = [Idle EXCEPT !.pc = "query", !.began = now]]
    /\ UNCHANGED <<now, plan, edits, fired, slid, wanted>>

Scheduled == plan.on /\ plan.trigger = "SCHEDULE" /\ plan.cron # <<>>

\* The query takes its rows; then the clock is read.
Query(t) ==
    /\ tick[t].pc = "query"
    /\ tick' = [tick EXCEPT ![t] = IF Scheduled THEN [@ EXCEPT !.pc = "read", !.cron = plan.cron]
                                   ELSE Idle]
    /\ UNCHANGED <<now, due, plan, edits, fired, slid, wanted>>

\* new Date, when the answer is there.
ReadClock(t) ==
    /\ tick[t].pc = "read"
    /\ tick' = [tick EXCEPT ![t].pc = "enqueue", ![t].read = Minute(now)]
    /\ slid' = IF Minute(now) = Minute(tick[t].began) THEN slid
               ELSE [slid EXCEPT ![Minute(now)] = @ + 1]
    /\ UNCHANGED <<now, due, plan, edits, fired, wanted>>

Enqueue(t) ==
    /\ tick[t].pc = "enqueue"
    /\ fired' = IF cronMatches(tick[t].cron, tick[t].read)
                THEN [fired EXCEPT ![tick[t].read] = @ + 1] ELSE fired
    /\ tick' = [tick EXCEPT ![t] = Idle]
    /\ UNCHANGED <<now, due, plan, edits, slid, wanted>>

\* A query or a job that fails ends the tick; the rejection is only logged.
Fail(t) ==
    /\ tick[t] # Idle
    /\ tick' = [tick EXCEPT ![t] = Idle]
    /\ UNCHANGED <<now, due, plan, edits, fired, slid, wanted>>

Restart ==
    /\ due # now + Parts
    /\ tick' = [t \in Ticks |-> Idle]
    /\ due' = now + Parts
    /\ UNCHANGED <<now, plan, edits, fired, slid, wanted>>

-----------------------------------------------------------------------------
(* The owner, and what happens *)

\* createWorkflow, updateWorkflow: on or paused, with a schedule or for an event.
Edit ==
    /\ edits < MaxEdits /\ edits' = edits + 1
    /\ \E on \in BOOLEAN, trigger \in {"SCHEDULE", "EVENT"}, cron \in Crons, event \in {"purchase", "form", "none"} :
           plan' = [on |-> on, trigger |-> trigger, cron |-> IF trigger = "SCHEDULE" THEN cron ELSE <<>>,
                    event |-> IF trigger = "EVENT" THEN event ELSE "none"]
    /\ UNCHANGED <<now, due, tick, fired, slid, wanted>>

\* triggerEvent: a workflow for no event in particular is for all.
Trigger(event) ==
    /\ edits < MaxEdits /\ edits' = edits + 1
    /\ wanted' = IF plan.on /\ plan.trigger = "EVENT" /\ plan.event \in {event, "none"}
                 THEN wanted \cup {event} ELSE wanted
    /\ UNCHANGED <<now, due, plan, tick, fired, slid>>

fireEvent   == Trigger("purchase")
inboundFire == Trigger("form")
importData  == Trigger("sheet.change")

Next ==
    \/ Pass \/ Restart \/ Edit \/ fireEvent \/ inboundFire \/ importData
    \/ \E t \in Ticks : Begin(t) \/ Query(t) \/ ReadClock(t) \/ Enqueue(t) \/ Fail(t)

Spec == Init /\ [][Next]_schedVars

-----------------------------------------------------------------------------
(* What the code keeps true *)

\* A schedule fires in a minute at most once more than ticks of an earlier minute slid
\* into it, whenever the process started, however the timer drifts, whatever is changed
\* meanwhile; and only in a minute one of the expressions is for.
SchedulesKeepTime ==
    \A m \in Minutes :
        /\ fired[m] <= 1 + slid[m]
        /\ fired[m] > 0 => \E cron \in Crons : cronMatches(cron, m)

-----------------------------------------------------------------------------
(* The inductive invariant of PaymentsProofs *)

\* The clock, the workflow and the ticks have the fields they are declared with.
TypeOK ==
    /\ now \in 0..MaxTime
    /\ due \in Nat /\ due <= now + Parts
    /\ plan.cron \in Crons \cup {<<>>}
    /\ tick \in [Ticks -> [pc : {"idle", "query", "read", "enqueue"}, began : 0..MaxTime,
                           read : Nat, cron : Crons \cup {<<>>}]]
    /\ fired \in [Minutes -> Nat]
    /\ slid \in [Minutes -> Nat]

\* The ticks that may yet fire in minute m.
Firing(m) ==
    {t \in Ticks : \/ tick[t].pc = "enqueue" /\ tick[t].read = m
                   \/ tick[t].pc \in {"query", "read"} /\ Minute(tick[t].began) = m}

\* A minute has had its tick once the timer is due in a later one.
SchedulesInv ==
    /\ TypeOK
    /\ SchedulesKeepTime
    /\ \A t \in Ticks :
           /\ tick[t].pc \in {"read", "enqueue"} => tick[t].cron \in Crons
           /\ tick[t].pc = "enqueue" => tick[t].read \in Minutes
    /\ \A m \in Minutes :
           fired[m] + Cardinality(Firing(m)) <= (IF Minute(due) <= m THEN 0 ELSE 1) + slid[m]
=============================================================================
