------------------------------ MODULE Settings ------------------------------
(***************************************************************************)
(* The platform's settings: services/catalogSettings.ts, the settings      *)
(* handlers of adminDashboardController, the page AdminSettingsPage and    *)
(* the hook useCatalog of the pages that show the catalog.                 *)
(*                                                                         *)
(* A catalog is the template categories, those whose price is not the      *)
(* usual one, and the subscription packages; the course categories are     *)
(* like the template categories without prices.  It is one row of          *)
(* platform_settings, which the advanced tab can write as text, like any   *)
(* other row; the other rows are left out.                                 *)
(***************************************************************************)
EXTENDS Integers, FiniteSets

CONSTANTS
    Names,       \* names of categories
    Packs,       \* packages
    Editors,     \* administrators' pages
    Calls,       \* calls in flight at once (a bound)
    MaxSaves,    \* bound on the saves
    MaxEdits     \* bound on the edits of a page between two answers

VARIABLES
    setting,     \* the row of platform_settings that holds the catalog
    version,     \* history: how often the catalog row has been written
    saved,       \* history: the catalogs saved from a page
    page,        \* what each page shows
    call         \* the calls in flight

settingVars == <<setting, version, saved, page, call>>

\* A name of white space is a name until the catalog is saved.
Blank == "blank"

Catalog(names, packs) == [names |-> names, priced |-> {}, packs |-> packs]

defaultCatalog == Catalog({"Finance"}, {"starter"})

NoCatalog == Catalog({}, {"none"})
NoRow     == Catalog({}, {"no row"})
Text      == Catalog({}, {"text"})

NoCall == [pc |-> "idle", for |-> "load", by |-> 0, body |-> NoCatalog, version |-> 0]
Closed == [catalog |-> NoCatalog, version |-> 0, edits |-> 0]

Init ==
    /\ setting = NoRow
    /\ version = 0
    /\ saved = {}
    /\ page = [e \in Editors |-> Closed]
    /\ call = [c \in Calls |-> NoCall]

-----------------------------------------------------------------------------
(* catalogSettings *)

\* A row that is missing or no catalog stands for the default one; so do no packages.
getCatalogConfig ==
    IF setting \in {NoRow, Text} THEN defaultCatalog
    ELSE [setting EXCEPT !.packs = IF @ = {} THEN defaultCatalog.packs ELSE @]

\* Blank names go, and prices of what is no category.
Cleaned(catalog) ==
    [catalog EXCEPT !.names = @ \ {Blank}, !.priced = @ \cap (catalog.names \ {Blank})]

-----------------------------------------------------------------------------
(* AdminSettingsPage *)

Send(c, e, for, body) ==
    /\ call[c] = NoCall
    /\ call' = [call EXCEPT ![c] = [NoCall EXCEPT !.pc = "sent", !.for = for, !.by = e, !.body = body]]

\* The effect of a page that is opened.
open(c, e) ==
    /\ page[e] = Closed
    /\ Send(c, e, "load", NoCatalog)
    /\ UNCHANGED <<setting, version, saved, page>>

\* The page is left; what it has asked for is done and shown nowhere.
leave(e) ==
    /\ page[e] # Closed
    /\ page' = [page EXCEPT ![e] = Closed]
    /\ call' = [c \in Calls |-> IF call[c].by = e /\ (call[c].for = "load" \/ call[c].pc = "answered")
                                THEN NoCall ELSE [call[c] EXCEPT !.by = IF @ = e THEN 0 ELSE @]]
    /\ UNCHANGED <<setting, version, saved>>

Edit(e, catalog) ==
    /\ page[e].catalog # NoCatalog
    /\ catalog # page[e].catalog
    /\ page[e].edits < MaxEdits
    /\ page' = [page EXCEPT ![e].catalog = catalog, ![e].edits = @ + 1]
    /\ UNCHANGED <<setting, version, saved, call>>

addCategory(e, n) == Edit(e, [page[e].catalog EXCEPT !.names = @ \cup {n}])

\* The price of a name stays, and is there again if the name is.
removeCategory(e, n) == Edit(e, [page[e].catalog EXCEPT !.names = @ \ {n}])

renameCategory(e, n, to) ==
    /\ n \in page[e].catalog.names /\ to \notin page[e].catalog.names
    /\ Edit(e, [page[e].catalog EXCEPT !.names = (@ \ {n}) \cup {to}])

setPrice(e, n) ==
    /\ n \in page[e].catalog.names
    /\ Edit(e, [page[e].catalog EXCEPT !.priced = @ \cup {n}])

addPackage(e, p) == Edit(e, [page[e].catalog EXCEPT !.packs = @ \cup {p}])

removePackage(e, p) == Edit(e, [page[e].catalog EXCEPT !.packs = @ \ {p}])

MaySave == version + Cardinality({c \in Calls : call[c].pc = "sent" /\ call[c].for # "load"}) < MaxSaves

\* Nothing is saved of a catalog that has not come.
saveCatalog(c, e) ==
    /\ page[e].catalog # NoCatalog
    /\ MaySave
    /\ Send(c, e, "catalog", page[e].catalog)
    /\ UNCHANGED <<setting, version, saved, page>>

\* The rows shown, among them one that was added with the key of the catalog.
saveAdvanced(c, e) ==
    /\ MaySave
    /\ Send(c, e, "settings", Text)
    /\ UNCHANGED <<setting, version, saved, page>>

-----------------------------------------------------------------------------
(* The handlers *)

At(c, for) == call[c].pc = "sent" /\ call[c].for = for

\* getCatalog; of getSettings the row of the catalog is not for the advanced tab.
getCatalog(c) ==
    /\ At(c, "load")
    /\ call' = [call EXCEPT ![c].pc = "answered", ![c].body = getCatalogConfig, ![c].version = version]
    /\ UNCHANGED <<setting, version, saved, page>>

saveCatalogConfig(c) ==
    LET cleaned == Cleaned(call[c].body)
    IN  /\ At(c, "catalog")
        /\ setting' = cleaned
        /\ version' = version + 1
        /\ saved' = saved \cup {call[c].body}
        /\ call' = [call EXCEPT ![c] = IF @.by = 0 THEN NoCall
                                       ELSE [@ EXCEPT !.pc = "answered", !.body = cleaned, !.version = version']]
        /\ UNCHANGED page

\* Any row is text here; the page reads no answer.
saveSettings(c) ==
    /\ At(c, "settings")
    /\ setting' = Text
    /\ version' = version + 1
    /\ call' = [call EXCEPT ![c] = NoCall]
    /\ UNCHANGED <<saved, page>>

\* A call fails or its answer is lost: the page says so and keeps what it shows.
Lost(c) ==
    /\ call[c] # NoCall
    /\ call' = [call EXCEPT ![c] = NoCall]
    /\ UNCHANGED <<setting, version, saved, page>>

-----------------------------------------------------------------------------
(* What the pages hear *)

\* Mutant: a page that has saved keeps what it shows.
Heard_Keeps(c) ==
    LET e == call[c].by
    IN  /\ call[c].pc = "answered"
        /\ page' = [page EXCEPT ![e].catalog = IF call[c].for = "load" THEN call[c].body ELSE @,
                                ![e].version = call[c].version, ![e].edits = 0]
        /\ call' = [call EXCEPT ![c] = NoCall]
        /\ UNCHANGED <<setting, version, saved>>

\* setCatalog: what was edited since is gone.
Heard(c) ==
    LET e == call[c].by
    IN  /\ call[c].pc = "answered"
        /\ page' = [page EXCEPT ![e].catalog = call[c].body, ![e].version = call[c].version,
                                ![e].edits = 0]
        /\ call' = [call EXCEPT ![c] = NoCall]
        /\ UNCHANGED <<setting, version, saved>>

Next ==
    \/ \E c \in Calls : getCatalog(c) \/ saveCatalogConfig(c) \/ saveSettings(c) \/ Lost(c) \/ Heard(c)
    \/ \E e \in Editors :
           \/ leave(e)
           \/ \E n \in Names : addCategory(e, n) \/ removeCategory(e, n) \/ setPrice(e, n)
           \/ \E n \in Names, to \in Names \cup {Blank} : renameCategory(e, n, to)
           \/ \E p \in Packs : addPackage(e, p) \/ removePackage(e, p)
           \/ \E c \in Calls :
                  \/ open(c, e) \/ saveCatalog(c, e)
                  \/ saveAdvanced(c, e)

Spec == Init /\ [][Next]_settingVars

-----------------------------------------------------------------------------
(* What the code keeps true *)

\* What a saved catalog sells: its categories that have a name, at the prices given them.
Sells(catalog) ==
    [names |-> {n \in catalog.names : n # Blank},
     priced |-> {n \in catalog.names : n # Blank /\ n \in catalog.priced},
     packs |-> IF catalog.packs = {} THEN defaultCatalog.packs ELSE catalog.packs]

\* The catalog served is one that one page has saved as a whole, never a mixture of two
\* administrators', or the default one; and a page that has not been edited shows what is
\* served, unless the row was written since, or its last package was removed.
CatalogIsWhole ==
    /\ getCatalogConfig \in {defaultCatalog} \cup {Sells(catalog) : catalog \in saved}
    /\ \A e \in Editors :
           LET p == page[e]
           IN  p.catalog # NoCatalog /\ p.edits = 0 /\ p.version = version /\ p.catalog.packs # {}
                   => p.catalog = getCatalogConfig
-----------------------------------------------------------------------------
(* The inductive invariant of SessionsProofs *)

\* What pages show and save; the names in it may have been blanked.
Proper ==
    [names : SUBSET (Names \cup {"Finance", Blank}), priced : SUBSET (Names \cup {"Finance", Blank}),
     packs : SUBSET (Packs \cup {"starter"})]

TypeOK ==
    /\ setting \in Proper \cup {NoRow, Text}
    /\ version \in Nat
    /\ saved \subseteq Proper
    /\ page \in [Editors -> [catalog : Proper \cup {NoCatalog}, version : Nat, edits : Nat]]
    /\ call \in [Calls -> [pc : {"idle", "sent", "answered"}, for : {"load", "catalog", "settings"},
                           by : Editors \cup {0}, body : Proper \cup {NoCatalog, Text}, version : Nat]]

\* The row is what was saved last; pages and answers of this version agree with it.
SettingsInv ==
    /\ TypeOK
    /\ setting \in {NoRow, Text} \cup {Cleaned(catalog) : catalog \in saved}
    /\ \A e \in Editors :
           /\ page[e].version <= version
           /\ page[e].catalog # NoCatalog /\ page[e].edits = 0 /\ page[e].version = version
              /\ page[e].catalog.packs # {} => page[e].catalog = getCatalogConfig
    /\ \A c \in Calls :
           /\ call[c].version <= version
           /\ call[c].pc = "answered" \/ call[c].for = "catalog" => call[c].body \in Proper
           /\ call[c].pc = "answered" /\ call[c].version = version /\ call[c].body.packs # {} =>
                  call[c].body = getCatalogConfig
=============================================================================
