-------------------------- MODULE WorkflowBuilder ---------------------------
(***************************************************************************)
(* Making a workflow: WorkflowBuilderPage and AutomationsPage, and the     *)
(* handlers of automationController they call.                             *)
(*                                                                         *)
(* Of a workflow's name, trigger and steps it only matters whose they      *)
(* are, and how many steps there are.  The builder keeps its form when a   *)
(* new workflow gets its address, and fills it whenever an answer comes.   *)
(* Automations has the runs.                                               *)
(***************************************************************************)
EXTENDS Integers

CONSTANTS
    Flows,      \* rows of automation_workflows, of Nat \ {0} (a bound)
    Calls,      \* calls of the pages in flight at once (a bound)
    MaxSteps    \* bound on the steps of a workflow: 20 in the schema

VARIABLES
    flow,       \* the rows: how many steps, and whose they were at first
    form,       \* the builder's fields and what it has heard
    call,       \* the calls in flight
    blind       \* history: workflows saved from a form that had not shown theirs

flowVars == <<flow, form, call, blind>>

NoFlow  == [there |-> FALSE, steps |-> 0, of |-> 0]
Default == [steps |-> 1, of |-> 0]

\* The builder of a workflow, of a new one (0), or not there (-1).
Closed  == [at |-> -1, steps |-> 0, of |-> 0, shown |-> FALSE, crossed |-> FALSE,
            pending |-> FALSE]
NoCall  == [pc |-> "idle", for |-> "load", flow |-> 0, kept |-> Default,
            empty |-> FALSE, here |-> TRUE]

Init ==
    /\ flow = [f \in Flows |-> NoFlow]
    /\ form = Closed
    /\ call = [c \in Calls |-> NoCall]
    /\ blind = {}

Free(c)     == call[c] = NoCall
At(c, for)  == call[c].pc = "sent" /\ call[c].for = for
Ask(calls, c, for, f, steps, of) ==
    /\ calls[c] = NoCall
    /\ call' = [calls EXCEPT ![c] = [NoCall EXCEPT !.pc = "sent", !.for = for, !.flow = f,
                                                   !.kept = [steps |-> steps, of |-> of]]]

\* Mutant: the answer to a page that is left is shown by the next.
Left_Heard == call

\* What a page that is left has asked for is done, and shown nowhere.
Left == [c \in Calls |-> IF call[c].for = "load" THEN NoCall ELSE [call[c] EXCEPT !.here = call[c] = NoCall]]

-----------------------------------------------------------------------------
(* The pages *)

\* The effect on the address; steps are those to keep if there are none.
Load(calls, c, f, steps, of) == Ask(calls, c, "load", f, steps, of)

\* A link of AutomationsPage.
Open(c, f) ==
    /\ form.at = -1
    /\ flow[f].there
    /\ form' = [Closed EXCEPT !.at = f, !.steps = Default.steps]
    /\ Load(call, c, f, Default.steps, 0)
    /\ UNCHANGED <<flow, blind>>

OpenNew ==
    /\ form.at = -1
    /\ form' = [Closed EXCEPT !.at = 0, !.steps = Default.steps]
    /\ UNCHANGED <<flow, call, blind>>

Close ==
    /\ form.at # -1
    /\ form' = Closed
    /\ call' = Left
    /\ UNCHANGED <<flow, blind>>

addStep ==
    /\ form.at # -1 /\ form.steps < MaxSteps
    /\ form' = [form EXCEPT !.steps = @ + 1]
    /\ UNCHANGED <<flow, call, blind>>

\* A drop, an arrow, another type and updateConfig change no number.
removeStep ==
    /\ form.steps > 0
    /\ form' = [form EXCEPT !.steps = @ - 1]
    /\ UNCHANGED <<flow, call, blind>>

save(c) ==
    /\ form.at # -1 /\ ~form.pending
    /\ form' = [form EXCEPT !.pending = TRUE]
    /\ Ask(call, c, IF form.at = 0 THEN "create" ELSE "update", form.at, form.steps, form.of)
    /\ blind' = IF form.at # 0 /\ (~form.shown \/ form.crossed) THEN blind \cup {form.at} ELSE blind
    /\ UNCHANGED flow

\* Run now: of its two buttons only one is disabled by pending.
runNow(c) ==
    /\ form.at > 0
    /\ Ask(call, c, "run", form.at, Default.steps, 0)
    /\ form' = [form EXCEPT !.pending = TRUE]
    /\ UNCHANGED <<flow, blind>>

-----------------------------------------------------------------------------
(* The handlers *)

Answer(c, f) == [call EXCEPT ![c] = [NoCall EXCEPT !.pc = "answered", !.for = call[c].for,
                                                         !.here = call[c].here, !.flow = f]]

createWorkflow(c) ==
    /\ At(c, "create")
    /\ \E f \in Flows :
           /\ ~flow[f].there /\ \A g \in Flows : g < f => flow[g].there
           /\ flow' = [flow EXCEPT ![f] = [there |-> TRUE, steps |-> call[c].kept.steps, of |-> f]]
           /\ call' = Answer(c, f)
    /\ UNCHANGED <<form, blind>>

updateWorkflow(c) ==
    LET f == call[c].flow
    IN  /\ At(c, "update")
        /\ flow[f].there
        /\ flow' = [flow EXCEPT ![f] = [@ EXCEPT !.steps = call[c].kept.steps, !.of = call[c].kept.of]]
        /\ call' = Answer(c, f)
        /\ UNCHANGED <<form, blind>>

getWorkflow(c) ==
    LET row == flow[call[c].flow]
    IN  /\ At(c, "load")
        /\ row.there
        /\ call' = [call EXCEPT ![c].pc = "answered",
                               ![c].kept = IF row.steps = 0 THEN @ ELSE [steps |-> row.steps, of |-> row.of],
                               ![c].empty = row.steps = 0]
        /\ UNCHANGED <<flow, form, blind>>

deleteWorkflow(f) ==
    /\ flow[f].there
    /\ flow' = [flow EXCEPT ![f] = [NoFlow EXCEPT !.of = f]]
    /\ UNCHANGED <<form, call, blind>>

\* installTemplate; the built-in ones have two or three steps.
install ==
    /\ \E f \in Flows :
           /\ ~flow[f].there /\ \A g \in Flows : g < f => flow[g].there
           /\ flow' = [flow EXCEPT ![f] = [there |-> TRUE, steps |-> MaxSteps, of |-> f]]
    /\ UNCHANGED <<form, call, blind>>

-----------------------------------------------------------------------------
(* What the builder hears *)

\* An answer without steps leaves those there were when the load was begun.
Loaded(c) ==
    /\ call[c].pc = "answered" /\ call[c].for = "load"
    /\ form' = [form EXCEPT !.shown = ~call[c].empty,
                            !.steps = call[c].kept.steps, !.of = call[c].kept.of]
    /\ call' = [call EXCEPT ![c] = NoCall]
    /\ UNCHANGED <<flow, blind>>

\* To the new workflow, even when its page was left: a builder keeps its form on the
\* way, and a load it has under way is not called off.
Created(c) ==
    LET f == call[c].flow
    IN  /\ call[c].pc = "answered" /\ call[c].for = "create"
        /\ form' = [form EXCEPT !.at = f, !.shown = call[c].here, !.pending = @ /\ ~call[c].here,
                                !.steps = IF form.at = -1 THEN Default.steps ELSE @,
                                !.of = IF call[c].here THEN f ELSE @,
                                !.crossed = @ \/ \E d \in Calls : ~Free(d) /\ call[d].for = "load"]
        /\ Load([call EXCEPT ![c] = NoCall], c, f, form'.steps, form'.of)
        /\ UNCHANGED <<flow, blind>>

\* A run is enqueued; the runs are read again.
Run(c) ==
    /\ At(c, "run")
    /\ form' = [form EXCEPT !.pending = @ /\ ~call[c].here]
    /\ call' = [call EXCEPT ![c] = NoCall]
    /\ UNCHANGED <<flow, blind>>

Updated(c) ==
    /\ call[c].pc = "answered" /\ call[c].for = "update"
    /\ form' = [form EXCEPT !.pending = @ /\ ~call[c].here]
    /\ call' = [call EXCEPT ![c] = NoCall]
    /\ UNCHANGED <<flow, blind>>

\* Refused or lost.
Lost(c) ==
    /\ ~Free(c)
    /\ form' = [form EXCEPT !.pending = @ /\ (call[c].for = "load" \/ ~call[c].here)]
    /\ call' = [call EXCEPT ![c] = NoCall]
    /\ UNCHANGED <<flow, blind>>

Next ==
    \/ OpenNew \/ Close \/ addStep \/ removeStep \/ install
    \/ \E f \in Flows : deleteWorkflow(f)
    \/ \E c \in Calls :
           \/ \E f \in Flows : Open(c, f)
           \/ save(c) \/ runNow(c) \/ createWorkflow(c) \/ updateWorkflow(c) \/ getWorkflow(c)
           \/ Loaded(c) \/ Created(c) \/ Updated(c) \/ Run(c) \/ Lost(c)

Spec == Init /\ [][Next]_flowVars

-----------------------------------------------------------------------------
(* What the code keeps true *)

\* A workflow's steps are its own, edited: they never come from the empty form or from
\* another workflow, except by a save from a form that had not shown the workflow,
\* because its load was under way, had failed, or brought no steps, or was crossed by
\* that of another.
StepsAreItsOwn == \A f \in Flows : flow[f].there => flow[f].of = f \/ f \in blind

-----------------------------------------------------------------------------
(* The inductive invariant of PaymentsProofs *)

Kinds == {"load", "create", "update", "run"}

\* The rows, the form and the calls have the fields they are declared with.
TypeOK ==
    /\ flow \in [Flows -> [there : BOOLEAN, steps : Int, of : Int]]
    /\ form \in [at : Int, steps : Int, of : Int, shown : BOOLEAN, crossed : BOOLEAN,
                 pending : BOOLEAN]
    /\ call \in [Calls -> [pc : {"idle", "sent", "answered"}, for : Kinds, flow : Int,
                           kept : [steps : Int, of : Int], empty : BOOLEAN, here : BOOLEAN]]

\* Steps taken from row f, or saved to it.
Own(f, of) == of = f \/ f \in blind

\* What a load brings is of the workflow it was sent for, the form's own unless crossed.
LoadsMatch ==
    \A c \in Calls :
        call[c].pc # "idle" /\ call[c].for = "load" =>
            /\ call[c].flow \in Flows
            /\ form.crossed \/ call[c].flow = form.at
            /\ call[c].pc = "answered" /\ ~call[c].empty => Own(call[c].flow, call[c].kept.of)

BuilderInv ==
    /\ TypeOK
    /\ StepsAreItsOwn
    /\ LoadsMatch
    /\ form.at = -1 => ~form.crossed
    /\ form.at \notin {-1, 0} /\ form.shown /\ ~form.crossed => Own(form.at, form.of)
    /\ \A c \in Calls :
           /\ At(c, "update") => Own(call[c].flow, call[c].kept.of)
           /\ call[c].pc = "answered" /\ call[c].for = "create" => call[c].flow \in Flows
=============================================================================
