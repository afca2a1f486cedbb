------------------------- MODULE MCGuardedPayments -------------------------
(***************************************************************************)
(* An instance of GuardedPayments for TLC.                                 *)
(***************************************************************************)
EXTENDS GuardedPayments, TLC

CONSTANTS u1, i1

Broke == [u \in Users |-> 0]

Order(purpose, items, gateway) ==
    [user |-> u1, purpose |-> purpose, items |-> items, amount |-> 1,
     gateway |-> gateway, key |-> NoKey]

\* A purchase by Orange Money or a top-up by card.
LiveOrders == {Order("TEMPLATE", {i1}, "ORANGE_MONEY"), Order("WALLET_TOPUP", {}, "BANFFPAY_VISA")}
=============================================================================
