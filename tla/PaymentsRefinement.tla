------------------------- MODULE PaymentsRefinement -------------------------
(***************************************************************************)
(* Payments implements Purchases.  A purchase is placed when its row       *)
(* exists, paid once payments.verified_at is set (never cleared, unlike    *)
(* the status), and handed over by the download and enrolment rows.        *)
(***************************************************************************)
EXTENDS Payments

PaidRows == {p \in PaymentIds : verified[p]}

Owned(D) == {<<d[1], d[2]>> : d \in D}

HandedOver == Owned(downloads) \cup enrolled

Abstract == INSTANCE Purchases WITH
    placed <- order, paid <- PaidRows, has <- HandedOver

\* Every behaviour of the payment code is one of the promised behaviours: no
\* interleaving of checkouts, webhooks, polls, refunds and crashes hands out
\* goods that were not paid for, or pays a purchase that was not placed.
ImplementsPurchases == Abstract!Spec
=============================================================================
