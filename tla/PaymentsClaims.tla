--------------------------- MODULE PaymentsClaims ---------------------------
(***************************************************************************)
(* What the source says of payments and the code does not keep: a run      *)
(* refutes it, and the behaviour TLC finds is a behaviour of the code.     *)
(***************************************************************************)
EXTENDS Payments, SequencesExt

\* "Insufficient wallet balance" (paymentService.ts:200): purchases from the
\* wallet never take more than the opening balance and the top-ups put in.
SpentWithinFunds ==
    \A u \in Users :
        Opening[u] + FoldLeft(LAMBDA sum, row : sum + row.delta, 0, ledger[u]) >= 0
=============================================================================
