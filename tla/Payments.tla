------------------------------ MODULE Payments ------------------------------
(***************************************************************************)
(* Checkout, settlement, fulfilment and refund of a payment, and the       *)
(* stored-value wallet: services/paymentService.ts, the handlers of        *)
(* controllers/paymentController.ts that call it, payments/webhook.ts,     *)
(* payments/sandbox.ts, the cart, and the refund of the admin dashboard.   *)
(*                                                                         *)
(* Every handler is a chain of awaited statements, and the event loop runs *)
(* other handlers between two of them.  A request is therefore a process:  *)
(* pc[r] names the statement it will execute next, job[r] holds its local  *)
(* variables, and every database statement (or $transaction) is one step.  *)
(* A crash of the server process drops all requests and what the process   *)
(* keeps in memory; the tables survive.                                    *)
(*                                                                         *)
(* One wallet per user is modelled: walletUsd and walletLrd are two        *)
(* independent columns that no code path combines.                         *)
(***************************************************************************)
EXTENDS Integers, Sequences, FiniteSets

CONSTANTS
    Users,
    Items,              \* templates and courses on sale
    PaymentIds,         \* rows the payments table can hold (a bound)
    Requests,           \* requests the server can have in flight (a bound)
    Orders,             \* the checkouts customers may ask for
    NoKey,              \* a checkout without an idempotency key
    NoOrder, NoPayment,
    Sandbox,            \* env.paymentsMode = 'sandbox'
    Configured,         \* live providers whose credentials are set
    OrangeViaBanffpay,  \* env.orangeViaBanffpay
    Opening,            \* balance that earlier payments left each user
    MaxLedger           \* bound on the ledger rows of one user

\* BANFFPAY_VISA stands for every gateway that only BanffPay serves, mobile money
\* included; as a provider, BANFFPAY stands for every value of the column that
\* makes the code ask BanffPay, WALLET included.
Purposes  == {"TEMPLATE", "COURSE", "WALLET_TOPUP"}
Gateways  == {"ORANGE_MONEY", "BANFFPAY_VISA", "WALLET"}
LiveProviders == {"ORANGE", "BANFFPAY"}
Providers == LiveProviders \cup {"SANDBOX"}
Statuses  == {"PENDING", "COMPLETED", "FAILED", "REFUNDED"}

ASSUME OrdersAssumption ==
    /\ \A o \in Orders :
          /\ o.user \in Users
          /\ o.purpose \in Purposes
          /\ o.items \subseteq Items
          /\ o.amount \in Nat
          /\ o.gateway \in Gateways
          /\ o.items = {} <=> o.purpose = "WALLET_TOPUP"
    /\ NoOrder \notin Orders

ASSUME ModeAssumption ==
    /\ Sandbox \in BOOLEAN
    /\ OrangeViaBanffpay \in BOOLEAN
    /\ Configured \subseteq LiveProviders
    /\ Opening \in [Users -> Nat]
    /\ MaxLedger \in Nat

ASSUME NoPaymentAssumption == NoPayment \notin PaymentIds

VARIABLES
    status,      \* payments.status, "NONE" where no row exists
    order,       \* what the row was created for: user, items, amount, gateway
    provider,    \* payments.provider
    verified,    \* payments.verified_at is not null
    wallet,      \* users.wallet_usd (or wallet_lrd)
    ledger,      \* wallet_ledgers of a user, oldest first
    downloads,   \* template_downloads with a payment: <<user, item, payment>>
    enrolled,    \* course_enrollments: <<user, item>>
    cart,        \* cart_items: <<user, item>>
    remote,      \* what a provider knows of a reference (external)
    pc, job      \* the requests in flight

rows  == <<status, order, provider, verified>>
purse == <<wallet, ledger>>
goods == <<downloads, enrolled, cart>>
local == <<pc, job>>
vars  == <<rows, purse, goods, remote, local>>

-----------------------------------------------------------------------------
(* Requests *)

NewJob(p, o, v, e) ==
    [pay |-> p, order |-> o, avail |-> 0, todo |-> {}, provider |-> v, expected |-> e]

NoJob == NewJob(NoPayment, NoOrder, "BANFFPAY", "NONE")

Labels == {"idle", "create", "charge", "fallback", "record", "refuse",
           "wallet", "debit", "ask", "decline", "counter", "settle",
           "fulfil", "credit", "grant", "enrol", "clear", "refund"}

Begin(r, label, j) ==
    /\ pc[r] = "idle"
    /\ pc' = [pc EXCEPT ![r] = label]
    /\ job' = [job EXCEPT ![r] = j]

Goto(r, label) == pc' = [pc EXCEPT ![r] = label] /\ UNCHANGED job

Finish(r) ==
    /\ pc' = [pc EXCEPT ![r] = "idle"]
    /\ job' = [job EXCEPT ![r] = NoJob]

Rows  == {p \in PaymentIds : status[p] # "NONE"}
Fresh == PaymentIds \ Rows

-----------------------------------------------------------------------------
Init ==
    /\ status = [p \in PaymentIds |-> "NONE"]
    /\ order = [p \in PaymentIds |-> NoOrder]
    /\ provider = [p \in PaymentIds |-> "BANFFPAY"]
    /\ verified = [p \in PaymentIds |-> FALSE]
    /\ wallet = Opening
    /\ ledger = [u \in Users |-> <<>>]
    /\ downloads = {}
    /\ enrolled = {}
    /\ cart = {}
    /\ remote = [v \in Providers |-> [p \in PaymentIds |-> "NONE"]]
    /\ pc = [r \in Requests |-> "idle"]
    /\ job = [r \in Requests |-> NoJob]

-----------------------------------------------------------------------------
(* initiateCheckout *)

\* The unique column payments.idempotency_key: wallet payments leave it null.
KeyOf(p) == IF order[p].gateway = "WALLET" THEN NoKey ELSE order[p].key

RowsWithKey(k) == {p \in Rows : k # NoKey /\ KeyOf(p) = k}

Reusable(k) == {p \in RowsWithKey(k) : status[p] \in {"PENDING", "COMPLETED"}}

\* Bound: a checkout starts only while a row is left for it to create.
RowLeft == Cardinality({q \in Requests : pc[q] \in {"create", "wallet", "debit"}})
              < Cardinality(Fresh)

\* The key is looked up first: a row still open or completed is the answer, and
\* the checkout goes no further.
StartCheckout(r, o) ==
    /\ RowLeft
    /\ Reusable(o.key) = {}
    /\ Begin(r, IF o.gateway = "WALLET" THEN "wallet" ELSE "create",
             NewJob(NoPayment, o, "BANFFPAY", "NONE"))
    /\ UNCHANGED <<rows, purse, goods, remote>>

\* Which provider chargeProvider tries first, and which one after a failure.
FirstProvider(o) ==
    IF Sandbox THEN "SANDBOX"
    ELSE IF /\ o.gateway = "ORANGE_MONEY"
            /\ ~OrangeViaBanffpay
            /\ "ORANGE" \in Configured
         THEN "ORANGE" ELSE "BANFFPAY"

HasFallback(o) ==
    /\ ~Sandbox
    /\ o.gateway = "ORANGE_MONEY"
    /\ FirstProvider(o) = "ORANGE" => "BANFFPAY" \in Configured

Other(v) == IF v = "ORANGE" THEN "BANFFPAY" ELSE "ORANGE"

\* Mutant: no unique index on the key, the early look-up alone.
CreatePayment_NoUniqueIndex(r) ==
    /\ pc[r] = "create"
    /\ \E p \in Fresh :
          /\ status' = [status EXCEPT ![p] = "PENDING"]
          /\ order' = [order EXCEPT ![p] = job[r].order]
          /\ job' = [job EXCEPT ![r] = [@ EXCEPT !.pay = p,
                        !.provider = FirstProvider(job[r].order)]]
    /\ pc' = [pc EXCEPT ![r] = "charge"]
    /\ UNCHANGED <<provider, verified, purse, goods, remote>>

\* payment.create; the unique index refuses a second row with the same key,
\* whatever the status of the first.
CreatePayment(r) ==
    /\ pc[r] = "create"
    /\ RowsWithKey(job[r].order.key) = {}
    /\ \E p \in Fresh :
          /\ status' = [status EXCEPT ![p] = "PENDING"]
          /\ order' = [order EXCEPT ![p] = job[r].order]
          /\ job' = [job EXCEPT ![r] = [@ EXCEPT !.pay = p,
                        !.provider = FirstProvider(job[r].order)]]
    /\ pc' = [pc EXCEPT ![r] = "charge"]
    /\ UNCHANGED <<provider, verified, purse, goods, remote>>

CreateConflict(r) ==
    /\ pc[r] = "create"
    /\ RowsWithKey(job[r].order.key) # {}
    /\ Finish(r)
    /\ UNCHANGED <<rows, purse, goods, remote>>

\* The provider opens the charge under our reference.
Opened(v, p) ==
    remote' = [remote EXCEPT ![v][p] = IF @ = "NONE" THEN "PENDING" ELSE @]

ChargeOk(r) ==
    /\ pc[r] \in {"charge", "fallback"}
    /\ job[r].provider \in Configured \cup {"SANDBOX"}
    /\ Opened(job[r].provider, job[r].pay)
    /\ Goto(r, "record")
    /\ UNCHANGED <<rows, purse, goods>>

\* The provider refuses, the breaker is open, the key is missing, or every
\* attempt times out; a timed-out charge may have been opened all the same.
ChargeFail(r) ==
    /\ pc[r] \in {"charge", "fallback"}
    /\ ~Sandbox
    /\ \/ UNCHANGED remote
       \/ job[r].provider \in Configured /\ Opened(job[r].provider, job[r].pay)
    /\ IF pc[r] = "charge" /\ HasFallback(job[r].order)
       THEN /\ pc' = [pc EXCEPT ![r] = "fallback"]
            /\ job' = [job EXCEPT ![r].provider = Other(@)]
       ELSE Goto(r, "refuse")
    /\ UNCHANGED <<rows, purse, goods>>

\* The update after a charge: it names the provider and leaves status alone.
RecordCharge(r) ==
    /\ pc[r] = "record"
    /\ provider' = [provider EXCEPT ![job[r].pay] = job[r].provider]
    /\ Finish(r)
    /\ UNCHANGED <<status, order, verified, purse, goods, remote>>

\* Mutant: the catch block deletes the row.
RefuseCharge_Deletes(r) ==
    /\ pc[r] = "refuse"
    /\ status' = [status EXCEPT ![job[r].pay] = "NONE"]
    /\ order' = [order EXCEPT ![job[r].pay] = NoOrder]
    /\ Finish(r)
    /\ UNCHANGED <<provider, verified, purse, goods, remote>>

\* The catch block of the checkout: an unconditional FAILED.
RefuseCharge(r) ==
    /\ pc[r] = "refuse"
    /\ status' = [status EXCEPT ![job[r].pay] = "FAILED"]
    /\ Finish(r)
    /\ UNCHANGED <<order, provider, verified, purse, goods, remote>>

-----------------------------------------------------------------------------
(* debitWalletAndComplete *)

\* Mutant: the balance is read and not compared.
ReadWallet_Unchecked(r) ==
    /\ pc[r] = "wallet"
    /\ pc' = [pc EXCEPT ![r] = "debit"]
    /\ job' = [job EXCEPT ![r].avail = wallet[job[r].order.user]]
    /\ UNCHANGED <<rows, purse, goods, remote>>

\* The balance is read and compared outside the transaction.
ReadWallet(r) ==
    /\ pc[r] = "wallet"
    /\ LET o == job[r].order IN
       IF wallet[o.user] < o.amount
       THEN Finish(r)
       ELSE /\ pc' = [pc EXCEPT ![r] = "debit"]
            /\ job' = [job EXCEPT ![r].avail = wallet[o.user]]
    /\ UNCHANGED <<rows, purse, goods, remote>>

Entry(p, reason, delta, after) ==
    [pay |-> p, reason |-> reason, delta |-> delta, after |-> after]

\* Mutant: the balance is decremented in place, the ledger still records the
\* difference from the earlier read.
DebitWallet_Decrement(r) ==
    LET o == job[r].order
        u == o.user
        next == job[r].avail - o.amount
    IN  /\ pc[r] = "debit"
        /\ Len(ledger[u]) < MaxLedger
        /\ \E p \in Fresh :
              /\ status' = [status EXCEPT ![p] = "COMPLETED"]
              /\ order' = [order EXCEPT ![p] = o]
              /\ verified' = [verified EXCEPT ![p] = TRUE]
              /\ wallet' = [wallet EXCEPT ![u] = @ - o.amount]
              /\ ledger' = [ledger EXCEPT ![u] =
                               Append(@, Entry(p, "purchase", -o.amount, next))]
              /\ job' = [job EXCEPT ![r].pay = p]
        /\ pc' = [pc EXCEPT ![r] = "fulfil"]
        /\ UNCHANGED <<provider, goods, remote>>

\* The transaction: a COMPLETED row, the balance computed from the earlier
\* read, and the ledger row.
DebitWallet(r) ==
    LET o == job[r].order
        u == o.user
        next == job[r].avail - o.amount
    IN  /\ pc[r] = "debit"
        /\ Len(ledger[u]) < MaxLedger
        /\ \E p \in Fresh :
              /\ status' = [status EXCEPT ![p] = "COMPLETED"]
              /\ order' = [order EXCEPT ![p] = o]
              /\ verified' = [verified EXCEPT ![p] = TRUE]
              /\ wallet' = [wallet EXCEPT ![u] = next]
              /\ ledger' = [ledger EXCEPT ![u] =
                               Append(@, Entry(p, "purchase", -o.amount, next))]
              /\ job' = [job EXCEPT ![r].pay = p]
        /\ pc' = [pc EXCEPT ![r] = "fulfil"]
        /\ UNCHANGED <<provider, goods, remote>>

-----------------------------------------------------------------------------
(* verifyAndSettle, called by the verify route and by the webhook *)

\* Statuses a webhook body can carry into verifyAndSettle: only sandbox
\* mode looks at them.
Expectations == IF Sandbox THEN {"NONE", "COMPLETED", "FAILED"} ELSE {"NONE"}

\* Whom the code will ask about a payment: decided by the row it read.
AskedProvider(p) ==
    IF Sandbox THEN "SANDBOX"
    ELSE IF provider[p] = "ORANGE" THEN "ORANGE" ELSE "BANFFPAY"

VerifyRead(r, p, e) ==
    /\ status[p] \in Statuses \ {"COMPLETED"}
    /\ Begin(r, "ask", NewJob(p, NoOrder, AskedProvider(p), e))
    /\ UNCHANGED <<rows, purse, goods, remote>>

\* The verify route with simulate = 'success': it marks the reference in the
\* sandbox store before it verifies, also when the row is settled already.
SimulatedVerify(r, p) ==
    /\ Sandbox
    /\ p \in Rows
    /\ pc[r] = "idle"
    /\ remote' = [remote EXCEPT !["SANDBOX"][p] = "COMPLETED"]
    /\ IF status[p] = "COMPLETED" THEN UNCHANGED local
       ELSE Begin(r, "ask", NewJob(p, NoOrder, "SANDBOX", "NONE"))
    /\ UNCHANGED <<rows, purse, goods>>

\* Mutant: an answer that carries no known status reads as a success.
Told_Success(v, p) == IF remote[v][p] = "NONE" THEN "COMPLETED" ELSE remote[v][p]

\* What a provider may answer.  A live answer without a status, an error
\* body for instance, reads as PENDING; the sandbox store never errs.
Told(v, p) == IF remote[v][p] = "NONE" THEN "PENDING" ELSE remote[v][p]
Heard(v, p) ==
    IF Sandbox THEN {Told(v, p)}
    ELSE IF v \in Configured THEN {Told(v, p), "PENDING"} ELSE {}

AfterAnswer(r, s) ==
    \/ s = "PENDING"   /\ Finish(r)
    \/ s = "FAILED"    /\ Goto(r, "decline")
    \/ s = "COMPLETED" /\ Goto(r, "counter")

VerifyAsk(r) ==
    LET p == job[r].pay
        e == job[r].expected
    IN  /\ pc[r] = "ask"
        /\ IF Sandbox /\ e # "NONE"
           THEN /\ remote' = [remote EXCEPT !["SANDBOX"][p] = e]
                /\ AfterAnswer(r, e)
           ELSE /\ UNCHANGED remote
                /\ \E s \in Heard(job[r].provider, p) : AfterAnswer(r, s)
        /\ UNCHANGED <<rows, purse, goods>>

\* A live query that throws ends the request.
VerifyError(r) ==
    /\ pc[r] \in {"ask", "counter"}
    /\ ~Sandbox
    /\ Finish(r)
    /\ UNCHANGED <<rows, purse, goods, remote>>

VerifyDecline(r) ==
    /\ pc[r] = "decline"
    /\ status' = [status EXCEPT ![job[r].pay] = "FAILED"]
    /\ Finish(r)
    /\ UNCHANGED <<order, provider, verified, purse, goods, remote>>

\* The second query; sandbox mode ignores what it says.
VerifyCounter(r) ==
    /\ pc[r] = "counter"
    /\ \E s \in Heard(job[r].provider, job[r].pay) :
          IF s = "COMPLETED" \/ Sandbox THEN Goto(r, "settle") ELSE Finish(r)
    /\ UNCHANGED <<rows, purse, goods, remote>>

\* Mutant: verified_at is not set.
VerifyComplete_NoStamp(r) ==
    /\ pc[r] = "settle"
    /\ status' = [status EXCEPT ![job[r].pay] = "COMPLETED"]
    /\ Goto(r, "fulfil")
    /\ UNCHANGED <<order, provider, verified, purse, goods, remote>>

\* Mutant: the completed payment is not fulfilled.
VerifyComplete_NoFulfil(r) ==
    /\ pc[r] = "settle"
    /\ status' = [status EXCEPT ![job[r].pay] = "COMPLETED"]
    /\ verified' = [verified EXCEPT ![job[r].pay] = TRUE]
    /\ Finish(r)
    /\ UNCHANGED <<order, provider, purse, goods, remote>>

VerifyComplete(r) ==
    /\ pc[r] = "settle"
    /\ status' = [status EXCEPT ![job[r].pay] = "COMPLETED"]
    /\ verified' = [verified EXCEPT ![job[r].pay] = TRUE]
    /\ Goto(r, "fulfil")
    /\ UNCHANGED <<order, provider, purse, goods, remote>>

-----------------------------------------------------------------------------
(* fulfillPayment *)

\* Mutant: the cart is emptied before the templates are granted.
Branch_ClearFirst == [WALLET_TOPUP |-> "credit", COURSE |-> "enrol", TEMPLATE |-> "clear"]

\* What fulfilment does next, by the purpose of the payment.
Branch == [WALLET_TOPUP |-> "credit", COURSE |-> "enrol", TEMPLATE |-> "grant"]

FulfilRead(r) ==
    LET p == job[r].pay
        o == order[p]
    IN  /\ pc[r] = "fulfil"
        /\ IF status[p] = "COMPLETED"
           THEN /\ pc' = [pc EXCEPT ![r] = Branch[o.purpose]]
                /\ job' = [job EXCEPT ![r] = [@ EXCEPT !.todo = o.items,
                                                       !.order = o]]
           ELSE Finish(r)
        /\ UNCHANGED <<rows, purse, goods, remote>>

\* Mutant: the ledger row of a top-up takes the new balance for the amount.
FulfilCredit_Balance(r) ==
    LET p == job[r].pay
        o == job[r].order
        u == o.user
        sum == wallet[u] + o.amount
    IN  /\ pc[r] = "credit"
        /\ Len(ledger[u]) < MaxLedger
        /\ wallet' = [wallet EXCEPT ![u] = sum]
        /\ ledger' = [ledger EXCEPT ![u] = Append(@, Entry(p, "topup", sum, sum))]
        /\ Finish(r)
        /\ UNCHANGED <<rows, goods, remote>>

\* The transaction of a top-up: an atomic increment and its ledger row.
FulfilCredit(r) ==
    LET p == job[r].pay
        o == job[r].order
        u == o.user
        sum == wallet[u] + o.amount
    IN  /\ pc[r] = "credit"
        /\ Len(ledger[u]) < MaxLedger
        /\ wallet' = [wallet EXCEPT ![u] = sum]
        /\ ledger' = [ledger EXCEPT ![u] =
                         Append(@, Entry(p, "topup", o.amount, sum))]
        /\ Finish(r)
        /\ UNCHANGED <<rows, goods, remote>>

\* One upsert per template of the order.
FulfilGrant(r) ==
    /\ pc[r] = "grant"
    /\ \E i \in job[r].todo :
          /\ downloads' = downloads \cup {<<job[r].order.user, i, job[r].pay>>}
          /\ job' = [job EXCEPT ![r].todo = @ \ {i}]
          /\ pc' = [pc EXCEPT ![r] = IF job[r].todo = {i} THEN "clear" ELSE @]
    /\ UNCHANGED <<rows, purse, enrolled, cart, remote>>

\* cartItem.deleteMany; the notification and the workflow event follow it.
FulfilClearCart(r) ==
    LET o == job[r].order IN
    /\ pc[r] = "clear"
    /\ cart' = cart \ ({o.user} \X o.items)
    /\ Finish(r)
    /\ UNCHANGED <<rows, purse, downloads, enrolled, remote>>

\* enrollFromPayment of one course; "Already enrolled" counts as done.
FulfilEnrol(r) ==
    /\ pc[r] = "enrol"
    /\ \E i \in job[r].todo :
          /\ enrolled' = enrolled \cup {<<job[r].order.user, i>>}
          /\ IF job[r].todo = {i} THEN Finish(r)
             ELSE job' = [job EXCEPT ![r].todo = @ \ {i}] /\ UNCHANGED pc
    /\ UNCHANGED <<rows, purse, downloads, cart, remote>>

\* A course that was unpublished meanwhile, or an enrolment another request
\* inserts first, throws out of the loop: the remaining courses are skipped.
FulfilEnrolError(r) ==
    /\ pc[r] = "enrol"
    /\ Finish(r)
    /\ UNCHANGED <<rows, purse, goods, remote>>

-----------------------------------------------------------------------------
(* refundPayment: only the status changes *)

\* Mutant: any payment may be refunded.
RefundRead_AnyStatus(r, p) ==
    /\ status[p] # "NONE"
    /\ Begin(r, "refund", NewJob(p, NoOrder, "BANFFPAY", "NONE"))
    /\ UNCHANGED <<rows, purse, goods, remote>>

RefundRead(r, p) ==
    /\ status[p] = "COMPLETED"
    /\ Begin(r, "refund", NewJob(p, NoOrder, "BANFFPAY", "NONE"))
    /\ UNCHANGED <<rows, purse, goods, remote>>

RefundWrite(r) ==
    /\ pc[r] = "refund"
    /\ status' = [status EXCEPT ![job[r].pay] = "REFUNDED"]
    /\ Finish(r)
    /\ UNCHANGED <<order, provider, verified, purse, goods, remote>>

-----------------------------------------------------------------------------
(* The cart handlers, the payer at the provider, and the process *)

AddToCart(u, i) ==
    /\ cart' = cart \cup {<<u, i>>}
    /\ UNCHANGED <<rows, purse, downloads, enrolled, remote, local>>

RemoveFromCart(u, i) ==
    /\ cart' = cart \ {<<u, i>>}
    /\ UNCHANGED <<rows, purse, downloads, enrolled, remote, local>>

\* External: a payer approves an open charge, possibly after a declined try.
PayerApproves(v, p) ==
    /\ v \in LiveProviders
    /\ remote[v][p] \in {"PENDING", "FAILED"}
    /\ remote' = [remote EXCEPT ![v][p] = "COMPLETED"]
    /\ UNCHANGED <<rows, purse, goods, local>>

PayerDeclines(v, p) ==
    /\ v \in LiveProviders
    /\ remote[v][p] = "PENDING"
    /\ remote' = [remote EXCEPT ![v][p] = "FAILED"]
    /\ UNCHANGED <<rows, purse, goods, local>>

\* The process dies: its requests and the sandbox store go with it.
Crash ==
    /\ pc' = [r \in Requests |-> "idle"]
    /\ job' = [r \in Requests |-> NoJob]
    /\ remote' = [remote EXCEPT !["SANDBOX"] = [p \in PaymentIds |-> "NONE"]]
    /\ UNCHANGED <<rows, purse, goods>>

-----------------------------------------------------------------------------
Checkout(r) ==
    \/ \E o \in Orders : StartCheckout(r, o)
    \/ CreatePayment(r) \/ CreateConflict(r)
    \/ ChargeOk(r) \/ ChargeFail(r) \/ RecordCharge(r) \/ RefuseCharge(r)
    \/ ReadWallet(r) \/ DebitWallet(r)

Settle(r) ==
    \/ \E p \in PaymentIds :
          \/ \E e \in Expectations : VerifyRead(r, p, e)
          \/ SimulatedVerify(r, p)
    \/ VerifyAsk(r) \/ VerifyError(r) \/ VerifyDecline(r)
    \/ VerifyCounter(r) \/ VerifyComplete(r)

Fulfil(r) ==
    \/ FulfilRead(r) \/ FulfilCredit(r) \/ FulfilGrant(r)
    \/ FulfilClearCart(r) \/ FulfilEnrol(r) \/ FulfilEnrolError(r)

Refund(r) == (\E p \in PaymentIds : RefundRead(r, p)) \/ RefundWrite(r)

Customer ==
    \/ \E u \in Users, i \in Items : AddToCart(u, i) \/ RemoveFromCart(u, i)
    \/ \E v \in LiveProviders, p \in PaymentIds :
          PayerApproves(v, p) \/ PayerDeclines(v, p)

Serve ==
    \/ \E r \in Requests : Checkout(r) \/ Settle(r) \/ Fulfil(r) \/ Refund(r)
    \/ Customer

Next == Serve \/ Crash

Spec == Init /\ [][Next]_vars

-----------------------------------------------------------------------------
(* What the code keeps true *)

Job == [pay : PaymentIds \cup {NoPayment}, order : Orders \cup {NoOrder},
        avail : Int, todo : SUBSET Items, provider : Providers,
        expected : {"NONE", "COMPLETED", "FAILED"}]

LedgerRow == [pay : PaymentIds, reason : {"purchase", "topup"},
              delta : Int, after : Int]

\* The tables and the requests hold values of their columns' types.
TypeOK ==
    /\ status \in [PaymentIds -> Statuses \cup {"NONE"}]
    /\ order \in [PaymentIds -> Orders \cup {NoOrder}]
    /\ provider \in [PaymentIds -> Providers]
    /\ verified \in [PaymentIds -> BOOLEAN]
    /\ wallet \in [Users -> Int]
    /\ ledger \in [Users -> Seq(LedgerRow)]
    /\ downloads \in SUBSET (Users \X Items \X PaymentIds)
    /\ enrolled \in SUBSET (Users \X Items)
    /\ cart \in SUBSET (Users \X Items)
    /\ remote \in [Providers -> [PaymentIds -> {"NONE", "PENDING", "COMPLETED", "FAILED"}]]
    /\ pc \in [Requests -> Labels]
    /\ job \in [Requests -> Job]

Buys(p, u, i, purpose) ==
    /\ order[p] \in Orders
    /\ order[p].user = u
    /\ order[p].purpose = purpose
    /\ i \in order[p].items

\* Nobody is granted a template or enrolled in a course by a payment that was
\* never settled, or that was not their own order for it, whatever the order in
\* which webhooks, polls, refunds and failing checkouts write the row.
GrantsVerified ==
    /\ \A d \in downloads : verified[d[3]] /\ Buys(d[3], d[1], d[2], "TEMPLATE")
    /\ \A e \in enrolled :
          \E p \in PaymentIds : verified[p] /\ Buys(p, e[1], e[2], "COURSE")

\* A ledger row is written for a settled payment of that user, with its amount:
\* a top-up adds what was charged, a purchase takes the price.
LedgerVerified ==
    \A u \in Users : \A n \in 1..Len(ledger[u]) :
        LET row == ledger[u][n] IN
        /\ verified[row.pay]
        /\ order[row.pay] \in Orders
        /\ order[row.pay].user = u
        /\ IF row.reason = "topup"
           THEN /\ order[row.pay].purpose = "WALLET_TOPUP"
                /\ row.delta = order[row.pay].amount
           ELSE /\ order[row.pay].gateway = "WALLET"
                /\ row.delta = -order[row.pay].amount

\* Nothing is delivered, enrolled or credited that was not settled for that very
\* user and order.
NothingUnpaid == GrantsVerified /\ LedgerVerified

\* The balance on the user's row is the one the newest ledger row records, and
\* it is never negative, although purchases overwrite it from an older read.
WalletMatchesLedger ==
    \A u \in Users :
        /\ wallet[u] >= 0
        /\ wallet[u] = IF ledger[u] = <<>> THEN Opening[u]
                       ELSE ledger[u][Len(ledger[u])].after

\* A payment is COMPLETED or REFUNDED only after it was verified: a refund that
\* races a late decline, or a retry after a refund, never makes money appear.
SettledWasVerified ==
    \A p \in PaymentIds : status[p] \in {"COMPLETED", "REFUNDED"} => verified[p]

\* In live mode a gateway payment is settled only when a provider holds the
\* payer's approval of that very reference.
VerifiedWasPaid ==
    ~Sandbox =>
        \A p \in PaymentIds :
            verified[p] /\ order[p].gateway # "WALLET" =>
                \E v \in LiveProviders : remote[v][p] = "COMPLETED"

\* Two checkouts with one idempotency key never open two payments, even when
\* both looked the key up before either had created its row.
OnePaymentPerKey ==
    \A p, q \in Rows :
        KeyOf(p) = KeyOf(q) /\ KeyOf(p) # NoKey => p = q

Delivered(p) ==
    IF order[p].purpose = "WALLET_TOPUP"
    THEN \E n \in 1..Len(ledger[order[p].user]) : ledger[order[p].user][n].pay = p
    ELSE \A i \in order[p].items :
            IF order[p].purpose = "COURSE" THEN <<order[p].user, i>> \in enrolled
            ELSE <<order[p].user, i, p>> \in downloads

\* What a fulfilment removes from a cart has been granted: a template leaves
\* the cart by the user's own removal or because it is paid and downloadable.
CartOutlivesPurchase ==
    [][\A u \in Users, i \in Items :
          <<u, i>> \in cart \ cart' =>
             \/ RemoveFromCart(u, i)
             \/ \E p \in PaymentIds : <<u, i, p>> \in downloads]_vars
=============================================================================
