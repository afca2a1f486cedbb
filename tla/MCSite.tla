------------------------------- MODULE MCSite -------------------------------
(***************************************************************************)
(* Instances for TLC of the community, of Payments with the simulated      *)
(* provider, of the pages on which users look for things, build a workbook *)
(* and pay, and of the way a template gets its files.  A behaviour is one  *)
(* of these: part says which, and the variables of the others stay as they *)
(* start.                                                                  *)
(***************************************************************************)
EXTENDS Community, Sequences, TLC

CONSTANTS
    r1, r2, u1, u2,
    i1, i2, k1, Items, PaymentIds, NoKey, NoOrder, NoPayment,
    Builds, Models, Starter, Baskets, MaxBills,
    Storage, Workbooks, MaxUploads,
    letter, words, Filters, Blank

\* The builds are numbered, and no model is called as the starter's maker is.
ASSUME ModelsAssumption ==
    /\ Builds \subseteq Nat \ {0}
    /\ Models \in Seq(STRING) /\ \A n \in DOMAIN Models : Models[n] # "fallback"

ASSUME UploadsAssumption == MaxUploads \in Nat

VARIABLES part,
    status, order, provider, verified, wallet, ledger, downloads, enrolled, cart, remote, pc, job,
    builds, shownBuild, due, aiCall, strayed, wrong,
    bills, page, at, attempt, seen, error, loop, overtaken, refused,
    listing, newest, astray, uploads, stored, versions, sheets, form, ask,
    face, word, filter, sheet, address, have, pages, seat, fetches, seats, tills, picked, beheld, amiss

shopVars == <<status, order, provider, verified, wallet, ledger, downloads, enrolled, cart, remote,
              pc, job>>
aiVars   == <<builds, shownBuild, due, aiCall, strayed, wrong>>
payVars  == <<bills, page, at, attempt, seen, error, loop, overtaken, refused>>
pubVars  == <<listing, newest, astray, uploads, stored, versions, sheets, form, ask>>
frontVars == <<face, word, filter, sheet, address, have, pages, seat, fetches, seats, tills, picked,
               beheld, amiss>>
allVars  == <<vars, shopVars, aiVars, payVars, pubVars, frontVars, part>>

Order(purpose, items, gateway, key) ==
    [user |-> u1, purpose |-> purpose, items |-> items, amount |-> 1, gateway |-> gateway, key |-> key]

\* Two courses at once, or a top-up.
SandboxOrders == {Order("COURSE", {i1, i2}, "BANFFPAY_VISA", k1),
                  Order("WALLET_TOPUP", {}, "BANFFPAY_VISA", NoKey)}

Shop == INSTANCE Payments WITH Users <- {u1}, Orders <- SandboxOrders, Sandbox <- TRUE,
            Configured <- {}, OrangeViaBanffpay <- FALSE, Opening <- [u \in {u1} |-> 0], MaxLedger <- 2
Ai   == INSTANCE AiPage WITH rows <- builds, shown <- shownBuild, call <- aiCall, Calls <- Requests
Pay  == INSTANCE PaymentPages WITH Keys <- Baskets, Loops <- Requests
Pub  == INSTANCE Publishing WITH Tabs <- Requests

\* A letter finds two pages of templates, the words one and recommendations.
Store == INSTANCE Storefront WITH Slots <- Requests, Words <- {letter, words}, LongWords <- {words},
            Pages <- (letter :> 2 @@ words :> 1), Wares <- Items, Gratis <- {i1},
            page <- sheet, at <- address, enrolled <- seats, missed <- amiss

AllInit ==
    /\ part \in {"community", "sandbox", "ai", "paying", "publishing", "front"}
    /\ Init /\ Shop!Init /\ Ai!Init /\ Pay!Init /\ Pub!Init /\ Store!Init
    /\ part # "front" => face = "template" /\ word = letter /\ filter = 1

AllNext ==
    /\ part' = part
    /\ \/ part = "community" /\ Next /\ UNCHANGED <<shopVars, aiVars, payVars, pubVars, frontVars>>
       \/ part = "sandbox" /\ Shop!Next /\ UNCHANGED <<vars, aiVars, payVars, pubVars, frontVars>>
       \/ part = "ai" /\ Ai!Next /\ UNCHANGED <<vars, shopVars, payVars, pubVars, frontVars>>
       \/ part = "paying" /\ Pay!Next /\ UNCHANGED <<vars, shopVars, aiVars, pubVars, frontVars>>
       \/ part = "publishing" /\ Pub!Next /\ UNCHANGED <<vars, shopVars, aiVars, payVars, frontVars>>
       \/ part = "front" /\ Store!Next /\ UNCHANGED <<vars, shopVars, aiVars, payVars, pubVars>>

AllSpec == AllInit /\ [][AllNext]_allVars

OneModel == <<"openai">>

OneEach == [kind \in {"follow", "endorse", "like", "vote", "review"} |-> 1]

Interchangeable == Permutations(Requests) \cup Permutations(Fans)

\* AiPage!PageIsOfOneBuild: workbook and buttons of the page are of one build.
PageIsOfOneBuild == Ai!PageIsOfOneBuild

\* PaymentPages!StatusPageSettles: the status page asks until the payment has ended.
StatusPageSettles == Pay!StatusPageSettles

\* PaymentPages!TryAgainWorks: a checkout whose payments have failed can be made again.
TryAgainWorks == Pay!TryAgainWorks

\* Publishing!LatestStands: buyers get the file, preview and demo made last.
LatestStands == Pub!LatestStands

\* Publishing!OffersAreWhole: what is offered is stored, filled and readable.
OffersAreWhole == Pub!OffersAreWhole

\* Both: the file of a template stands, and what is offered is whole.
FilesStand == LatestStands /\ OffersAreWhole

\* Storefront!ShownIsWanted: pages show what is wanted of them, but for late answers.
ShownIsWanted == Store!ShownIsWanted

\* Storefront!TakenWasSeen: what a visitor takes was on the page.
TakenWasSeen == Store!TakenWasSeen
=============================================================================
