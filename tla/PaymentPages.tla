---------------------------- MODULE PaymentPages ----------------------------
(***************************************************************************)
(* Paying in the browser: CheckoutPage, PaymentHistoryPage and             *)
(* PaymentStatusPage, with the handlers of paymentController they call.    *)
(*                                                                         *)
(* A checkout's idempotency key is made of the selection and the currency  *)
(* alone.  The status page asks again and again, by a timer that every     *)
(* answer starts anew; the cleanup of the page clears the timer and        *)
(* nothing else.  Payments has the server's side in full, here a row only  *)
(* is open, completed or failed.                                           *)
(***************************************************************************)
EXTENDS Integers, Sequences

CONSTANTS
    Keys,       \* selections with their currency
    NoKey,      \* a top-up or a purchase from the balance has none
    Loops,      \* loops of the status page running at once (a bound)
    MaxBills    \* bound on the rows of payments

VARIABLES
    bills,      \* payments, in the order of creation
    page,       \* "checkout", "away", or the status page of a payment
    at,         \* that payment, 0 for none
    attempt,    \* the checkout being made: its key, where it is, its payment
    seen,       \* the status page's payment and its status
    error,      \* the status page's error, which nothing clears
    loop,       \* the loops
    overtaken,  \* history: a loop the page had left has set what is shown
    refused     \* history: a checkout was refused though no payment of its key was open or completed

payVars == <<bills, page, at, attempt, seen, error, loop, overtaken, refused>>
status  == <<seen, error, loop, overtaken>>

Idle   == [pc |-> "idle", key |-> NoKey, bill |-> 0]
NoLoop == [pc |-> "none", bill |-> 0, read |-> "none", left |-> FALSE]
NoSight  == [bill |-> 0, status |-> "none"]

Init ==
    /\ bills = <<>>
    /\ page = "checkout"
    /\ at = 0
    /\ attempt = Idle
    /\ seen = NoSight
    /\ error = FALSE
    /\ loop = [l \in Loops |-> NoLoop]
    /\ overtaken = FALSE
    /\ refused = FALSE

Open(i)   == bills[i].status \in {"PENDING", "COMPLETED"}
WithKey(k) == {i \in DOMAIN bills : k # NoKey /\ bills[i].key = k}

-----------------------------------------------------------------------------
(* The status page *)

\* The effect on the payment's id: its timer is cleared, and a new loop begins.  A loop
\* that waits for an answer goes on, its page left.
Cleanup(lp) ==
    [l \in Loops |->
        IF lp[l].pc \in {"ask", "read"} THEN [lp[l] EXCEPT !.left = TRUE] ELSE
        IF lp[l].left THEN lp[l] ELSE NoLoop]

\* The page of another kind is a new one; for another payment the page stays and
\* keeps what it shows.
OpenStatus(i) ==
    /\ \E l \in Loops :
           /\ Cleanup(loop)[l] = NoLoop
           /\ loop' = [Cleanup(loop) EXCEPT ![l] = [NoLoop EXCEPT !.pc = "ask", !.bill = i]]
    /\ page' = "status"
    /\ at' = i
    /\ IF page = "status" THEN UNCHANGED <<seen, error, overtaken>>
       ELSE seen' = NoSight /\ error' = FALSE /\ overtaken' = FALSE

OpenCheckout ==
    /\ page # "checkout"
    /\ page' = "checkout"
    /\ at' = 0
    /\ loop' = Cleanup(loop)
    /\ UNCHANGED <<bills, attempt, seen, error, overtaken, refused>>

\* The route of a payment: the back button, an address kept, the provider's return address.
Visit(i) ==
    /\ i \in DOMAIN bills /\ bills[i].mine /\ at # i
    /\ attempt.pc = "idle"
    /\ OpenStatus(i)
    /\ UNCHANGED <<bills, attempt, refused>>

\* getStatus on the server.
Tick(l) ==
    /\ loop[l].pc = "ask"
    /\ bills[loop[l].bill].mine
    /\ loop' = [loop EXCEPT ![l].pc = "read", ![l].read = bills[loop[l].bill].status]
    /\ UNCHANGED <<bills, page, at, attempt, seen, error, overtaken, refused>>

\* Mutant: only a settled payment's loop ends, and one that is open is not asked for again.
Ticked_Once(l) ==
    /\ loop[l].pc = "read"
    /\ seen' = IF page = "status" THEN [bill |-> loop[l].bill, status |-> loop[l].read] ELSE seen
    /\ overtaken' = (overtaken \/ (page = "status" /\ loop[l].bill # at))
    /\ loop' = [loop EXCEPT ![l] = NoLoop]
    /\ UNCHANGED <<bills, page, at, attempt, error, refused>>

\* setPayment, and the timer while the payment is open, whether the page is there or
\* not.  The provider is asked to verify and nobody waits for the answer.
Ticked(l) ==
    /\ loop[l].pc = "read"
    /\ seen' = IF page = "status" THEN [bill |-> loop[l].bill, status |-> loop[l].read] ELSE seen
    /\ overtaken' = (overtaken \/ (page = "status" /\ loop[l].bill # at))
    /\ loop' = [loop EXCEPT ![l] = IF loop[l].read = "PENDING"
                                   THEN [loop[l] EXCEPT !.pc = "wait", !.read = "none"] ELSE NoLoop]
    /\ UNCHANGED <<bills, page, at, attempt, error, refused>>

Timer(l) ==
    /\ loop[l].pc = "wait"
    /\ loop' = [loop EXCEPT ![l].pc = "ask"]
    /\ UNCHANGED <<bills, page, at, attempt, seen, error, overtaken, refused>>

\* A failed call, or another user's payment, ends the loop with an error.
TickFails(l) ==
    /\ loop[l].pc \in {"ask", "read"}
    /\ error' = (error \/ page = "status")
    /\ loop' = [loop EXCEPT ![l] = NoLoop]
    /\ UNCHANGED <<bills, page, at, attempt, seen, overtaken, refused>>

\* verifyPayment: of a loop, of the button of the sandbox, or of a webhook.
Settle(i) ==
    /\ i \in DOMAIN bills /\ bills[i].status = "PENDING"
    /\ \E s \in {"COMPLETED", "FAILED"} : bills' = [bills EXCEPT ![i].status = s]
    /\ UNCHANGED <<page, at, attempt, status, refused>>

\* The button: the payment shown is verified and then read, and set without a loop.
simulate ==
    /\ page = "status" /\ seen.status = "PENDING" /\ seen.bill = at /\ bills[at].mine
    /\ bills' = [bills EXCEPT ![at].status = IF @ = "PENDING" THEN "COMPLETED" ELSE @]
    /\ seen' = [seen EXCEPT !.status = bills'[at].status]
    /\ UNCHANGED <<page, at, attempt, error, loop, overtaken, refused>>

-----------------------------------------------------------------------------
(* The checkout; a top-up is one without a key *)

pay(k) ==
    /\ page = "checkout"
    /\ attempt = Idle
    /\ attempt' = [Idle EXCEPT !.pc = "find", !.key = k]
    /\ UNCHANGED <<bills, page, at, status, refused>>

\* A payment of the key that is open or completed is the answer, whoever made it.
Reuse ==
    /\ attempt.pc = "find"
    /\ \E i \in WithKey(attempt.key) :
           Open(i) /\ attempt' = [attempt EXCEPT !.pc = "go", !.bill = i]
    /\ UNCHANGED <<bills, page, at, status, refused>>

Create ==
    /\ attempt.pc = "find"
    /\ WithKey(attempt.key) = {}
    /\ Len(bills) < MaxBills
    /\ bills' = Append(bills, [key |-> attempt.key, mine |-> TRUE, status |-> "PENDING"])
    /\ attempt' = [attempt EXCEPT !.pc = "charge", !.bill = Len(bills) + 1]
    /\ UNCHANGED <<page, at, status, refused>>

\* Mutant: a failed payment of the key gives way.
Conflict_GivesWay ==
    /\ attempt.pc = "find"
    /\ WithKey(attempt.key) # {} /\ \A i \in WithKey(attempt.key) : ~Open(i)
    /\ bills' = [i \in DOMAIN bills |->
                    IF i \in WithKey(attempt.key) THEN [bills[i] EXCEPT !.key = NoKey] ELSE bills[i]]
    /\ UNCHANGED <<page, at, attempt, status, refused>>

\* The key is taken by a payment that has failed: the unique column refuses the new one.
Conflict ==
    /\ attempt.pc = "find"
    /\ WithKey(attempt.key) # {} /\ \A i \in WithKey(attempt.key) : ~Open(i)
    /\ refused' = TRUE
    /\ attempt' = Idle
    /\ UNCHANGED <<bills, page, at, status>>

Charged ==
    /\ attempt.pc = "charge"
    /\ attempt' = [attempt EXCEPT !.pc = "go"]
    /\ UNCHANGED <<bills, page, at, status, refused>>

ChargeFails ==
    /\ attempt.pc = "charge"
    /\ bills' = [bills EXCEPT ![attempt.bill].status = IF @ = "PENDING" THEN "FAILED" ELSE @]
    /\ attempt' = Idle
    /\ UNCHANGED <<page, at, status, refused>>

\* To the provider's page, or to the payment's.
Leave ==
    /\ attempt.pc = "go" /\ page = "checkout"
    /\ page' = "away"
    /\ at' = 0
    /\ loop' = [l \in Loops |-> NoLoop]
    /\ attempt' = Idle
    /\ UNCHANGED <<bills, seen, error, overtaken, refused>>

Navigate ==
    /\ attempt.pc = "go" /\ page = "checkout"
    /\ OpenStatus(attempt.bill)
    /\ attempt' = Idle
    /\ UNCHANGED <<bills, refused>>

\* The answer is lost, or the page was left meanwhile.
AttemptLost ==
    /\ attempt.pc \in {"find", "go"}
    /\ attempt' = Idle
    /\ UNCHANGED <<bills, page, at, status, refused>>

\* Somebody else checks out the same selection.
OtherPays(k) ==
    /\ WithKey(k) = {} /\ k # NoKey
    /\ Len(bills) < MaxBills
    /\ bills' = Append(bills, [key |-> k, mine |-> FALSE, status |-> "PENDING"])
    /\ UNCHANGED <<page, at, attempt, status, refused>>

Next ==
    \/ OpenCheckout \/ simulate
    \/ \E i \in 1..MaxBills : Visit(i) \/ Settle(i)
    \/ \E l \in Loops : Tick(l) \/ Ticked(l) \/ Timer(l) \/ TickFails(l)
    \/ \E k \in Keys \cup {NoKey} : pay(k) \/ OtherPays(k)
    \/ Reuse \/ Create \/ Conflict \/ Charged \/ ChargeFails \/ Leave \/ Navigate \/ AttemptLost

Spec == Init /\ [][Next]_payVars

-----------------------------------------------------------------------------
(* What the code keeps true *)

\* The status page shows the payment it is the page of, and does not stop asking before
\* it shows how that payment ended, however often the user goes from one payment to the
\* next; unless a call failed, or a loop of a payment the page had left came back.
StatusPageSettles ==
    page = "status" /\ ~error /\ ~overtaken =>
        /\ seen.bill \in {0, at} \/ \E l \in Loops : loop[l].bill = at
        /\ (\A l \in Loops : loop[l] = NoLoop) =>
               seen.bill = at /\ seen.status = bills[at].status /\ seen.status # "PENDING"

\* What the status page says of a payment that failed, "Try again": a checkout whose
\* payments have all failed is not refused for that.
TryAgainWorks == ~refused

-----------------------------------------------------------------------------
(* The inductive invariant of SiteProofs *)

Statuses == {"PENDING", "COMPLETED", "FAILED"}
Bill     == [key : Keys \cup {NoKey}, mine : BOOLEAN, status : Statuses]
Attempt  == [pc : {"idle", "find", "charge", "go"}, key : Keys \cup {NoKey}, bill : Nat]
Sight    == [bill : Nat, status : Statuses \cup {"none"}]
Loop     == [pc : {"none", "ask", "read", "wait"}, bill : Nat,
             read : Statuses \cup {"none"}, left : BOOLEAN]

\* A loop asks about a payment there is; an ending it has read is that payment's.
Asks(lp) ==
    /\ lp.pc = "none" => lp = NoLoop
    /\ lp.pc # "none" => lp.bill \in DOMAIN bills
    /\ lp.pc = "read" => lp.read \in {"PENDING", bills[lp.bill].status}

Ended == seen.bill = at /\ seen.status = bills[at].status /\ seen.status # "PENDING"

PagesInv ==
    /\ bills \in Seq(Bill)
    /\ page \in {"checkout", "away", "status"}
    /\ attempt \in Attempt /\ (attempt.pc \in {"charge", "go"} => attempt.bill \in DOMAIN bills)
    /\ page = "status" => at \in DOMAIN bills
    /\ seen \in Sight /\ error \in BOOLEAN /\ overtaken \in BOOLEAN
    /\ loop \in [Loops -> Loop] /\ \A l \in Loops : Asks(loop[l])
    /\ page = "status" /\ ~error /\ ~overtaken => Ended \/ \E l \in Loops : loop[l].bill = at
=============================================================================
