----------------------------- MODULE MCPayments -----------------------------
(***************************************************************************)
(* Instances for TLC of Payments: small sets of users, items and payment   *)
(* rows, and the checkouts each question is about; and of the modules on   *)
(* schedules, the workflow builder and the accounts.  A behaviour of       *)
(* AllSpec is one of these: part says which, and the variables of the      *)
(* others stay as they start.                                              *)
(***************************************************************************)
EXTENDS PaymentsClaims, PaymentsInvariant, PaymentsRefinement, TLC

CONSTANTS
    u1, i1, i2, k1,
    Parts, Start, MaxTime, MaxEdits, Flows, MaxSteps, People, Founder, MaxChanges,
    Crons, Roles

\* Somebody is an administrator at first.
ASSUME FounderAssumption == Founder \in People

\* A minute has parts, and the workflows are numbered.
ASSUME ClockAssumption ==
    /\ Parts \in Nat \ {0}
    /\ Start \in Nat /\ MaxTime \in Nat
    /\ IsFiniteSet(Requests)
ASSUME FlowsAssumption == Flows \subseteq Nat \ {0} /\ MaxSteps \in Nat

VARIABLES part,
    now, due, plan, edits, tick, fired, slid, wanted,
    flow, form, call, blind,
    row, badge, list, fields, dropping, rising, changes, crossed, chosen, late

schedVars   == <<now, due, plan, edits, tick, fired, slid, wanted>>
flowVars    == <<flow, form, call, blind>>
accountVars == <<row, badge, list, fields, dropping, rising, changes, crossed, chosen, late>>
allVars     == <<vars, schedVars, flowVars, accountVars, part>>

Order(u, purpose, items, amount, gateway, key) ==
    [user |-> u, purpose |-> purpose, items |-> items, amount |-> amount,
     gateway |-> gateway, key |-> key]

Broke == [u \in Users |-> 0]
Saved == [u \in Users |-> 2]

\* A template bought by Orange Money, with its key; a top-up by card; a
\* purchase from the balance.
ShopOrders == {Order(u1, "TEMPLATE", {i1}, 1, "ORANGE_MONEY", k1),
               Order(u1, "WALLET_TOPUP", {}, 2, "BANFFPAY_VISA", NoKey),
               Order(u1, "TEMPLATE", {i1}, 2, "WALLET", NoKey)}

\* A top-up by card, and purchases from the balance.
WalletOrders == {Order(u1, "WALLET_TOPUP", {}, 2, "BANFFPAY_VISA", NoKey),
                 Order(u1, "TEMPLATE", {i1}, 2, "WALLET", NoKey)}

\* 0 */1 * * * and */2 * 1 * 4.
Field(step, minutes) == [every |-> step, list |-> minutes]
CronSet == LET star == Field(1, {}) IN
           {<<Field(0, {0}), star, star, star, star>>,
            <<Field(2, {}), star, Field(0, {1}), star, Field(0, {4})>>}

Sched    == INSTANCE Schedules WITH Ticks <- Requests
Builder  == INSTANCE WorkflowBuilder WITH Calls <- Requests
Accounts == INSTANCE Accounts WITH Users <- People, form <- fields

AllInit ==
    /\ part \in {"shop", "schedules", "builder", "accounts"}
    /\ Init /\ Sched!Init /\ Builder!Init /\ Accounts!Init

AllNext ==
    /\ part' = part
    /\ \/ part = "shop" /\ Next /\ UNCHANGED <<schedVars, flowVars, accountVars>>
       \/ part = "schedules" /\ Sched!Next /\ UNCHANGED <<vars, flowVars, accountVars>>
       \/ part = "builder" /\ Builder!Next /\ UNCHANGED <<vars, schedVars, accountVars>>
       \/ part = "accounts" /\ Accounts!Next /\ UNCHANGED <<vars, schedVars, flowVars>>

AllSpec == AllInit /\ [][AllNext]_allVars

Interchangeable == Permutations(Requests) \cup Permutations(PaymentIds)

\* Schedules!SchedulesKeepTime: a schedule is enqueued once in each minute it names.
SchedulesKeepTime == Sched!SchedulesKeepTime

\* WorkflowBuilder!StepsAreItsOwn: a workflow keeps its steps unless they were changed.
StepsAreItsOwn == Builder!StepsAreItsOwn

\* Accounts!AdministrationHolds: an administrator remains, and a role is the one chosen.
AdministrationHolds == Accounts!AdministrationHolds
=============================================================================
