-------------------------- MODULE GuardedPayments --------------------------
(***************************************************************************)
(* Payments with the circuit breakers in front of the providers, as        *)
(* payments/banffpay.ts and payments/orangeMoney.ts put them there, each   *)
(* with one breaker for all its charges and queries.  A call to a provider *)
(* is two steps here: the breaker admits it or turns it away, and then it  *)
(* answers or throws, after other calls have begun and ended.              *)
(*                                                                         *)
(* Live mode, between two crashes of the process: a crash would close the  *)
(* breakers and end the calls.  An outage of the providers is a number of  *)
(* calls that throw, the attempts of fetchWithTimeout in each included.    *)
(***************************************************************************)
EXTENDS Payments, CircuitBreaker

CONSTANT MaxOutage   \* bound on the calls that throw

ASSUME LiveAssumption == ~Sandbox /\ MaxOutage \in Nat /\ IsFiniteSet(Requests)

VARIABLES
    breaker,   \* failures and openedAt of each provider's breaker
    calling,   \* requests whose call a breaker has admitted
    outage     \* calls that have thrown

guards  == <<breaker, calling, outage>>
guardedVars == <<vars, guards>>

GuardedInit ==
    /\ Init
    /\ breaker = [v \in LiveProviders |-> Closed]
    /\ calling = {}
    /\ outage = 0

Calls == {"charge", "fallback", "ask", "counter"}

Throws(r)  == ChargeFail(r) \/ VerifyError(r)
Answers(r) == ChargeOk(r) \/ VerifyAsk(r) \/ VerifyCounter(r)

Reached(r) == job[r].provider \in Configured

\* exec admits the call.
Admit(r) ==
    LET v == job[r].provider
    IN  /\ pc[r] \in Calls
        /\ r \notin calling
        /\ Reached(r)
        /\ Admits(breaker[v])
        /\ breaker' = [breaker EXCEPT ![v] = Admitted(@)]
        /\ calling' = calling \cup {r}
        /\ UNCHANGED <<vars, outage>>

\* exec throws CircuitOpenError, or the provider has no credentials.
TurnAway(r) ==
    /\ r \notin calling
    /\ Reached(r) => ~Admits(breaker[job[r].provider])
    /\ Throws(r)
    /\ remote' = remote
    /\ UNCHANGED guards

CallAnswers(r) ==
    /\ r \in calling
    /\ Answers(r)
    /\ breaker' = [breaker EXCEPT ![job[r].provider] = Succeeded(@)]
    /\ calling' = calling \ {r}
    /\ UNCHANGED outage

CallThrows(r) ==
    /\ r \in calling
    /\ outage < MaxOutage
    /\ Throws(r)
    /\ breaker' = [breaker EXCEPT ![job[r].provider] = Failed(@)]
    /\ calling' = calling \ {r}
    /\ outage' = outage + 1

\* resetMs have passed.
Elapse(v) ==
    /\ breaker[v].opened = "recently"
    /\ breaker' = [breaker EXCEPT ![v] = Elapsed(@)]
    /\ UNCHANGED <<vars, calling, outage>>

Statement(r) ==
    /\ pc[r] \notin Calls
    /\ Checkout(r) \/ Settle(r) \/ Fulfil(r) \/ Refund(r)
    /\ UNCHANGED guards

GuardedNext ==
    \/ \E r \in Requests :
          Statement(r) \/ Admit(r) \/ TurnAway(r) \/ CallAnswers(r) \/ CallThrows(r)
    \/ Customer /\ UNCHANGED guards
    \/ \E v \in LiveProviders : Elapse(v)

GuardedSpec == GuardedInit /\ [][GuardedNext]_guardedVars

-----------------------------------------------------------------------------
(* Fairness *)

\* A request in flight resumes when its statement returns.
Resume(r) ==
    /\ pc[r] # "idle"
    /\ Statement(r) \/ Admit(r) \/ TurnAway(r) \/ CallAnswers(r) \/ CallThrows(r)

\* The status page polls the verify route for as long as it reads PENDING.
Poll(p) ==
    \E r \in Requests : status[p] = "PENDING" /\ VerifyRead(r, p, "NONE") /\ UNCHANGED guards

\* A provider that is asked again and again about a payment is not vague forever.
Heeds(r, p)     == job[r].pay = p /\ pc'[r] # "idle"
AskHeard(p)     == \E r \in Requests : pc[r] = "ask" /\ CallAnswers(r) /\ Heeds(r, p)
CounterHeard(p) == \E r \in Requests : pc[r] = "counter" /\ CallAnswers(r) /\ Heeds(r, p)

Fairness ==
    /\ \A r \in Requests : WF_guardedVars(Resume(r))
    /\ \A p \in PaymentIds :
          SF_guardedVars(Poll(p)) /\ SF_guardedVars(AskHeard(p)) /\ SF_guardedVars(CounterHeard(p))
    /\ \A v \in LiveProviders : WF_guardedVars(Elapse(v))

FairServing == GuardedSpec /\ Fairness

-----------------------------------------------------------------------------
(* What the code keeps true *)

CallsOf(v) == {r \in calling : job[r].provider = v}

\* Calls that began before the breaker opened end whenever they like: late
\* successes and failures neither leave a breaker closed that has counted enough
\* failures, nor open one that has not, and the count passes the threshold by no
\* more than the other calls in flight.
BreakersCount ==
    \A v \in LiveProviders :
        /\ breaker[v].opened = "no" => breaker[v].failures < Threshold
        /\ breaker[v].failures + Cardinality(CallsOf(v)) < Threshold + Cardinality(Requests)

\* While the server stays up, a completed template purchase or top-up is
\* delivered in full, unless a decline or a refund takes the status away first.
SettledIsDelivered ==
    \A p \in PaymentIds :
        (status[p] = "COMPLETED" /\ order[p].purpose # "COURSE") ~>
            (status[p] # "COMPLETED" \/ Delivered(p))

\* A payment the payer has approved at the provider the row names does not stay
\* PENDING while its status page polls, even if no webhook ever arrives and an
\* outage has opened the breaker, for new queries and those it was asked before.
ApprovedIsSettled ==
    \A p \in PaymentIds :
        (status[p] = "PENDING" /\ remote[AskedProvider(p)][p] = "COMPLETED") ~>
            (status[p] # "PENDING" \/ remote[AskedProvider(p)][p] # "COMPLETED")
=============================================================================
