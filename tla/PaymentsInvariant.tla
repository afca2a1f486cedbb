------------------------- MODULE PaymentsInvariant --------------------------
(***************************************************************************)
(* The inductive invariant behind the safety properties of Payments: what  *)
(* a row of the payments table is, and what each request may rely on at    *)
(* the statement it is about to execute.  A request never re-reads most of *)
(* what it relies on, so these facts have to survive every other request.  *)
(***************************************************************************)
EXTENDS Payments

\* A live provider holds the payer's approval.
Paid(p) == \E v \in LiveProviders : remote[v][p] = "COMPLETED"

\* A row has an order for as long as it exists, and only rows are verified.
RowsMatch ==
    \A p \in PaymentIds :
        /\ status[p] = "NONE" <=> order[p] = NoOrder
        /\ verified[p] => status[p] # "NONE"

BeforeRow   == {"create", "wallet", "debit"}
Charging    == {"charge", "fallback", "record", "refuse"}
Settling    == {"ask", "decline", "counter", "settle"}
Fulfilling  == {"credit", "grant", "enrol", "clear"}
OnVerified  == Fulfilling \cup {"fulfil", "refund"}

\* A checkout about to create its row; what is left of it afterwards works on
\* the row of its own order.
CheckoutKnows(r) ==
    /\ pc[r] \in BeforeRow =>
          /\ job[r].order \in Orders
          /\ pc[r] = "create" <=> job[r].order.gateway # "WALLET"
    /\ pc[r] = "debit" => job[r].avail >= job[r].order.amount
    /\ pc[r] \in Charging => job[r].order = order[job[r].pay]

\* Every step after the first works on a row that exists.
HasRow(r) ==
    pc[r] \notin BeforeRow \cup {"idle"} =>
        job[r].pay \in PaymentIds /\ status[job[r].pay] # "NONE"

\* A live settlement asks a live provider, and completes what that one holds.
SettlementKnows(r) ==
    ~Sandbox =>
        /\ pc[r] \in {"ask", "counter"} => job[r].provider \in LiveProviders
        /\ pc[r] = "settle" => Paid(job[r].pay)

\* A fulfilment or a refund works on a payment that was verified, and a
\* fulfilment hands out its order: what it has worked off has been granted.
FulfilmentKnows(r) ==
    /\ pc[r] \in OnVerified => verified[job[r].pay]
    /\ pc[r] \in Fulfilling =>
          /\ job[r].order = order[job[r].pay]
          /\ job[r].todo \subseteq job[r].order.items
    /\ pc[r] = "credit" => job[r].order.purpose = "WALLET_TOPUP"
    /\ pc[r] = "enrol"  => job[r].order.purpose = "COURSE"
    /\ pc[r] = "grant"  => job[r].order.purpose = "TEMPLATE"
    /\ pc[r] = "clear"  => job[r].todo = {}
    /\ pc[r] \in {"grant", "clear"} =>
          \A i \in job[r].order.items \ job[r].todo :
              <<job[r].order.user, i, job[r].pay>> \in downloads

Knows(r) ==
    CheckoutKnows(r) /\ HasRow(r) /\ SettlementKnows(r) /\ FulfilmentKnows(r)

IInv ==
    /\ TypeOK
    /\ RowsMatch
    /\ \A r \in Requests : Knows(r)
    /\ SettledWasVerified
    /\ VerifiedWasPaid
    /\ GrantsVerified
    /\ LedgerVerified
    /\ WalletMatchesLedger
    /\ OnePaymentPerKey

\* What no step takes back: rows, their orders, that they were verified, what
\* was granted, and a payer's approval.
Lasting ==
    /\ downloads \subseteq downloads'
    /\ \A p \in PaymentIds :
        /\ status[p] # "NONE" => status'[p] # "NONE" /\ order'[p] = order[p]
        /\ verified[p] => verified'[p]
        /\ \A v \in LiveProviders :
              remote[v][p] = "COMPLETED" => remote'[v][p] = "COMPLETED"
=============================================================================
