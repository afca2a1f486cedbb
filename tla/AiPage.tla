------------------------------- MODULE AiPage -------------------------------
(***************************************************************************)
(* Building a workbook on the AI page: pages/AiPage.tsx, the handlers of   *)
(* aiController it calls, and what processAiGeneration does with the       *)
(* language models of ai/llmClient.ts.                                     *)
(*                                                                         *)
(* The page follows one build by asking for its status at an interval,     *)
(* never waiting for the answer before, and merges every answer into what  *)
(* it shows.  AiGeneration has the limit, the queue and its retries.       *)
(***************************************************************************)
EXTENDS Integers, Sequences

CONSTANTS
    Builds,     \* rows of ai_requests, of Nat \ {0} (a bound)
    Calls,      \* calls of the page in flight at once (a bound)
    Models,     \* resolveProviderOrder without "fallback"
    Starter     \* aiAllowFallback

VARIABLES
    rows,       \* ai_requests
    shown,      \* the page's request, with its generatedTemplate
    due,        \* build whose result the page is about to ask for, 0 for none
    call,       \* the calls in flight
    strayed,    \* history: the answer of another build was merged into the one shown
    wrong       \* history: a workbook was published that the page did not show

aiVars == <<rows, shown, due, call, strayed, wrong>>

NoRow == [status |-> "none", progress |-> "none", asked |-> 0, tokens |-> 0, by |-> "none",
          template |-> FALSE]

\* A call, the workbook shown when a publication was asked for, and what its answer holds.
NoCall == [pc |-> "idle", for |-> "status", build |-> 0, seen |-> 0, status |-> "none",
           progress |-> "none", tokens |-> 0]

Init ==
    /\ rows = [b \in Builds |-> NoRow]
    /\ shown = [build |-> 0, status |-> "none", progress |-> "none", tokens |-> 0, template |-> 0]
    /\ due = 0
    /\ call = [c \in Calls |-> NoCall]
    /\ strayed = FALSE
    /\ wrong = FALSE

Ended == {"COMPLETED", "FAILED"}

-----------------------------------------------------------------------------
(* processAiGeneration and generateWorkbookSpec *)

Reaches(b, progress) == rows[b].status = "PROCESSING" /\ rows[b].progress = progress

\* Parsing is part of it: the page shows the same while it lasts.
Begin(b) ==
    /\ rows[b].status = "PENDING"
    /\ rows' = [rows EXCEPT ![b].status = "PROCESSING", ![b].progress = "generate"]
    /\ UNCHANGED <<shown, due, call, strayed, wrong>>

\* Every model has two attempts.
Attempts == 2
Model(b) == Models[(rows[b].asked \div Attempts) + 1]
Asking(b) == Reaches(b, "generate") /\ rows[b].asked < Attempts * Len(Models)

\* A call times out, is refused or does not answer: the next attempt, or the next model.
AttemptFails(b) ==
    /\ Asking(b)
    /\ rows' = [rows EXCEPT ![b].asked = @ + 1]
    /\ UNCHANGED <<shown, due, call, strayed, wrong>>

\* An answer without JSON or without a sheet: the next model, without another attempt.
AnswerInvalid(b) ==
    /\ Asking(b)
    /\ rows' = [rows EXCEPT ![b].asked = ((@ \div Attempts) + 1) * Attempts]
    /\ UNCHANGED <<shown, due, call, strayed, wrong>>

Built(b, by, tokens) ==
    /\ rows' = [rows EXCEPT ![b].progress = "preview", ![b].by = by, ![b].tokens = tokens, ![b].asked = 0]
    /\ UNCHANGED <<shown, due, call, strayed, wrong>>

\* A model may not say how many tokens it used.
AnswerValid(b) ==
    /\ Asking(b)
    /\ \E tokens \in {0, 1} : Built(b, Model(b), tokens)

fallbackSpec(b) ==
    /\ Reaches(b, "generate") /\ ~Asking(b)
    /\ Starter
    /\ Built(b, "fallback", 0)

\* Mutant: a starter workbook is done like any other.
Complete_Plain(b) ==
    /\ Reaches(b, "preview")
    /\ rows' = [rows EXCEPT ![b].status = "COMPLETED", ![b].template = TRUE, ![b].progress = "done",
                            ![b].tokens = IF rows[b].by = "fallback" THEN 1 ELSE @]
    /\ UNCHANGED <<shown, due, call, strayed, wrong>>

\* Workbook and preview are stored before, the template is created and the row completed.
Complete(b) ==
    /\ Reaches(b, "preview")
    /\ rows' = [rows EXCEPT ![b].status = "COMPLETED", ![b].template = TRUE,
                            ![b].progress = IF rows[b].by = "fallback" THEN "done:starter" ELSE "done"]
    /\ UNCHANGED <<shown, due, call, strayed, wrong>>

\* The catch block: a statement failed, no model is left, or the notification of a
\* completed build was not sent.
Fail(b) ==
    /\ rows[b].status \in {"PROCESSING", "COMPLETED"}
    /\ rows' = [rows EXCEPT ![b].status = "FAILED", ![b].progress = "failed"]
    /\ UNCHANGED <<shown, due, call, strayed, wrong>>

-----------------------------------------------------------------------------
(* The page asks *)

Free(c)   == call[c] = NoCall
At(c, pc) == call[c].pc = pc
End(c)    == call' = [call EXCEPT ![c] = NoCall]

Send(c, for, b) ==
    /\ Free(c)
    /\ call' = [call EXCEPT ![c] = [NoCall EXCEPT !.pc = "sent", !.for = for, !.build = b,
                                        !.seen = IF for # "publish" THEN 0 ELSE IF strayed THEN b
                                                 ELSE shown.template]]
    /\ UNCHANGED <<rows, shown, strayed, wrong>>

\* The whole card with the workbook is there when it is completed and has one.
Card == shown.status = "COMPLETED" /\ shown.template # 0

startGenerate(c) == Send(c, "generate", 0) /\ UNCHANGED due
refine(c)        == Card /\ Send(c, "refine", shown.build) /\ UNCHANGED due
publish(c)       == Card /\ Send(c, "publish", shown.build) /\ UNCHANGED due
openHistory(c)   == \E b \in Builds : rows[b].template /\ Send(c, "result", b) /\ UNCHANGED due

\* The interval of the effect on the build and its status.
Poll(c) ==
    /\ shown.build # 0 /\ shown.status \notin Ended
    /\ Send(c, "status", shown.build) /\ UNCHANGED due

\* The effect that has seen the build completed.
AskResult(c) ==
    /\ due # 0
    /\ Send(c, "result", due) /\ due' = 0

-----------------------------------------------------------------------------
(* The handlers *)

Answer(c, b) ==
    call' = [call EXCEPT ![c].pc = "read", ![c].build = b, ![c].status = rows'[b].status,
                         ![c].progress = rows'[b].progress, ![c].tokens = rows'[b].tokens]

\* generate; refine wants its parent completed.
create(c) ==
    /\ At(c, "sent")
    /\ \/ call[c].for = "generate"
       \/ call[c].for = "refine" /\ rows[call[c].build].status = "COMPLETED"
    /\ \E b \in Builds :
           /\ rows[b] = NoRow
           /\ \A a \in Builds : rows[a] = NoRow => b <= a
           /\ rows' = [rows EXCEPT ![b].status = "PENDING", ![b].progress = "queued"]
           /\ Answer(c, b)
    /\ UNCHANGED <<shown, due, strayed, wrong>>

getStatus(c) ==
    /\ At(c, "sent") /\ call[c].for = "status"
    /\ rows' = rows
    /\ Answer(c, call[c].build)
    /\ UNCHANGED <<shown, due, strayed, wrong>>

getResult(c) ==
    /\ At(c, "sent") /\ call[c].for = "result"
    /\ rows[call[c].build].status = "COMPLETED" /\ rows[call[c].build].template
    /\ rows' = rows
    /\ Answer(c, call[c].build)
    /\ UNCHANGED <<shown, due, strayed, wrong>>

\* The template of the row is published, whatever the row's status; the page only adds
\* a message and reads its history.
publishGenerated(c) ==
    LET b == call[c].build
    IN  /\ At(c, "sent") /\ call[c].for = "publish"
        /\ rows[b].template
        /\ wrong' = (wrong \/ call[c].seen # b)
        /\ End(c)
        /\ UNCHANGED <<rows, shown, due, strayed>>

\* Refused, failed, or lost on the way there or back.
Lost(c) ==
    /\ ~Free(c)
    /\ End(c)
    /\ UNCHANGED <<rows, shown, due, strayed, wrong>>

-----------------------------------------------------------------------------
(* The page hears *)

\* setRequest: the effect on the result runs when build or status have changed.
Show(c, template, stray) ==
    LET a == call[c]
    IN  /\ shown' = [build |-> a.build, status |-> a.status, progress |-> a.progress,
                     tokens |-> a.tokens, template |-> template]
        /\ due' = IF a.status = "COMPLETED" /\ (a.build # shown.build \/ a.status # shown.status)
                  THEN a.build ELSE due
        /\ strayed' = stray
        /\ End(c)
        /\ UNCHANGED <<rows, wrong>>

Strays(c) == strayed \/ call[c].build # shown.build

\* Mutant: the new build is merged into the old.
ShowStarted_Merged(c) ==
    /\ At(c, "read") /\ call[c].for \in {"generate", "refine"}
    /\ Show(c, shown.template, FALSE)

\* The new build is shown as it came; from here the page is of one build again.
ShowStarted(c) ==
    /\ At(c, "read") /\ call[c].for \in {"generate", "refine"}
    /\ Show(c, 0, FALSE)

\* The template of the status before stays.
ShowStatus(c) ==
    /\ At(c, "read") /\ call[c].for = "status"
    /\ Show(c, shown.template, Strays(c))

\* A result brings build and template; of another build it is one from the history, or
\* the page is taken back to a build it has left.
ShowResult(c) ==
    /\ At(c, "read") /\ call[c].for = "result"
    /\ Show(c, call[c].build, FALSE)

Next ==
    \/ \E b \in Builds :
           \/ Begin(b) \/ AttemptFails(b) \/ AnswerInvalid(b) \/ AnswerValid(b)
           \/ fallbackSpec(b) \/ Complete(b) \/ Fail(b)
    \/ \E c \in Calls :
           \/ startGenerate(c) \/ refine(c) \/ publish(c) \/ openHistory(c) \/ Poll(c) \/ AskResult(c)
           \/ create(c) \/ getStatus(c) \/ getResult(c) \/ publishGenerated(c) \/ Lost(c)
           \/ ShowStarted(c) \/ ShowStatus(c) \/ ShowResult(c)

Spec == Init /\ [][Next]_aiVars

-----------------------------------------------------------------------------
(* What the code keeps true *)

IsStarter == shown.progress = "done:starter" \/ shown.tokens = 0

\* Whatever order the answers about several builds come in, the workbook on the page is
\* that of the build its buttons act on, a workbook said to be made by AI was made by a
\* model, and what is published is what the page showed; except after the status of a
\* build the page had left was merged into another.
PageIsOfOneBuild ==
    /\ ~wrong
    /\ ~strayed /\ Card =>
           /\ shown.template = shown.build
           /\ IsStarter \/ rows[shown.build].by # "fallback"

-----------------------------------------------------------------------------
(* The inductive invariant of SiteProofs *)

Statuses == {"none", "PENDING", "PROCESSING", "COMPLETED", "FAILED"}
Stages   == {"none", "queued", "generate", "preview", "done", "done:starter", "failed"}
Makers   == {"none", "fallback"} \cup {Models[n] : n \in DOMAIN Models}
Row      == [status : Statuses, progress : Stages, asked : Nat, tokens : Nat, by : Makers,
             template : BOOLEAN]
Sight    == [build : Builds \cup {0}, status : Statuses, progress : Stages, tokens : Nat,
             template : Builds \cup {0}]
Call     == [pc : {"idle", "sent", "read"}, for : {"status", "result", "generate", "refine", "publish"},
             build : Builds \cup {0}, seen : Builds \cup {0}, status : Statuses,
             progress : Stages, tokens : Nat]

\* A row has no maker before its workbook is built, and of a starter no tokens.
Made(r) ==
    /\ r.status \in {"none", "PENDING"} \/ r.progress = "generate" => r.tokens = 0
    /\ r.by = "fallback" => r.tokens = 0
    /\ r.template => r.status \in Ended

\* What is shown, or answered, of an ended build is what its row says for good.
True(b, status, tokens) ==
    status \in Ended => b # 0 /\ rows[b].status \in Ended /\ tokens = rows[b].tokens

\* A call is about a build, but for the first of it; what is published was shown.
Sound(q) ==
    /\ q.for # "generate" /\ q.pc = "sent" => q.build # 0
    /\ q.for = "publish" => q.pc # "read" /\ q.seen = q.build
    /\ q.pc = "read" => q.build # 0 /\ True(q.build, q.status, q.tokens)

AiInv ==
    /\ rows \in [Builds -> Row] /\ \A b \in Builds : Made(rows[b])
    /\ shown \in Sight /\ due \in Builds \cup {0}
    /\ call \in [Calls -> Call] /\ strayed \in BOOLEAN /\ wrong = FALSE
    /\ \A c \in Calls : Sound(call[c])
    /\ True(shown.build, shown.status, shown.tokens)
    /\ ~strayed => shown.template \in {0, shown.build}
=============================================================================
