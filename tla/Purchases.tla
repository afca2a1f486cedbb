----------------------------- MODULE Purchases ------------------------------
(***************************************************************************)
(* What the payment code promises, without requests, providers or tables:  *)
(* a purchase is placed for one order, it may be paid, and only a paid     *)
(* purchase hands out goods, its own goods, to its own customer.  Payments *)
(* implements this (see PaymentsRefinement).                               *)
(***************************************************************************)
CONSTANTS
    PaymentIds,
    Orders,
    NoOrder

VARIABLES
    placed,     \* the order a purchase was placed for
    paid,       \* the purchases whose payment was confirmed
    has         \* <<user, item>>: what customers were handed

purchaseVars == <<placed, paid, has>>

Init ==
    /\ placed = [p \in PaymentIds |-> NoOrder]
    /\ paid = {}
    /\ has = {}

Place(p, o) ==
    /\ placed[p] = NoOrder
    /\ placed' = [placed EXCEPT ![p] = o]
    /\ UNCHANGED <<paid, has>>

Pay(p) ==
    /\ placed[p] # NoOrder
    /\ paid' = paid \cup {p}
    /\ UNCHANGED <<placed, has>>

\* A purchase from the stored balance is placed and paid at once.
PlacePaid(p, o) ==
    /\ placed[p] = NoOrder
    /\ placed' = [placed EXCEPT ![p] = o]
    /\ paid' = paid \cup {p}
    /\ UNCHANGED has

HandOver(p, i) ==
    /\ p \in paid
    /\ placed[p] # NoOrder
    /\ i \in placed[p].items
    /\ has' = has \cup {<<placed[p].user, i>>}
    /\ UNCHANGED <<placed, paid>>

Next ==
    \E p \in PaymentIds :
        \/ \E o \in Orders : Place(p, o) \/ PlacePaid(p, o)
        \/ Pay(p)
        \/ placed[p] # NoOrder /\ \E i \in placed[p].items : HandOver(p, i)

Spec == Init /\ [][Next]_purchaseVars
=============================================================================
