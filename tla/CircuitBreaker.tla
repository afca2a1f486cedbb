--------------------------- MODULE CircuitBreaker ---------------------------
(***************************************************************************)
(* The circuit breaker of payments/circuitBreaker.ts: what exec does to    *)
(* its two counters when a call asks to be admitted, when it returns and   *)
(* when it throws.  Of openedAt the model keeps whether it is set and      *)
(* whether resetMs have passed since.                                      *)
(***************************************************************************)
EXTENDS Integers

CONSTANT Threshold   \* failures that open it

ASSUME ThresholdAssumption == Threshold \in Nat \ {0}

Phases  == {"no", "recently", "long ago"}
Breaker == [failures : Nat, opened : Phases]
Closed  == [failures |-> 0, opened |-> "no"]

\* Mutant: a breaker once opened admits no call.
Admits_Never(b) == b.opened = "no"

Admits(b) == b.opened # "recently"

\* Mutant: the failures of the last period are not forgotten.
Admitted_KeepsCount(b) == IF b.opened = "long ago" THEN [b EXCEPT !.opened = "no"] ELSE b

\* A call admitted after the breaker was open long enough closes it first.
Admitted(b) == IF b.opened = "long ago" THEN Closed ELSE b

\* A call that returns leaves openedAt as it finds it.
Succeeded(b) == [b EXCEPT !.failures = 0]

Failed(b) ==
    [failures |-> b.failures + 1,
     opened |-> IF b.failures + 1 >= Threshold THEN "recently" ELSE b.opened]

\* Time passes.
Elapsed(b) == [b EXCEPT !.opened = "long ago"]
=============================================================================
