--------------------------- MODULE SessionsProofs ---------------------------
(***************************************************************************)
(* What is promised of the session in the browser and of the catalog, for  *)
(* any number of calls, accounts, pages, categories and packages; of       *)
(* streaks and of the mail that brings users back, for any number of       *)
(* heartbeats, days, users and runs; and for any number of requests, rows, *)
(* links and passwords, what Sessions promises of old sessions,            *)
(* suspensions, successors and links.                                      *)
(***************************************************************************)
EXTENDS MCSessions, FiniteSetTheorems, SequenceTheorems, TLAPS

(***************************************************************************)
(* The catalog                                                             *)
(***************************************************************************)

SetCall == [pc : {"idle", "sent", "answered"}, for : {"load", "catalog", "settings"},
            by : People \cup {0}, body : Set!Proper \cup {Set!NoCatalog, Set!Text}, version : Nat]
SetPage == [catalog : Set!Proper \cup {Set!NoCatalog}, version : Nat, edits : Nat]

\* What the invariant says of a page, and of a call; v is the version and now what is served.
PageFits(x, v, now) ==
  /\ x.version <= v
  /\ x.catalog # Set!NoCatalog /\ x.edits = 0 /\ x.version = v /\ x.catalog.packs # {} =>
         x.catalog = now

CallFits(x, v, now) ==
  /\ x.version <= v
  /\ x.pc = "answered" \/ x.for = "catalog" => x.body \in Set!Proper
  /\ x.pc = "answered" /\ x.version = v /\ x.body.packs # {} => x.body = now

LEMMA SettingsParts ==
  Set!SettingsInv <=>
      /\ setting \in Set!Proper \cup {Set!NoRow, Set!Text} /\ version \in Nat /\ saved \subseteq Set!Proper
      /\ page \in [People -> SetPage] /\ asked \in [Requests -> SetCall]
      /\ setting \in {Set!NoRow, Set!Text} \cup {Set!Cleaned(catalog) : catalog \in saved}
      /\ \A e \in People : PageFits(page[e], version, Set!getCatalogConfig)
      /\ \A c \in Requests : CallFits(asked[c], version, Set!getCatalogConfig)
  BY Zenon DEF Set!SettingsInv, Set!TypeOK, SetCall, SetPage, PageFits, CallFits

\* The same of the state a step leads to.
LEMMA SettingsThen ==
  ASSUME setting' \in Set!Proper \cup {Set!NoRow, Set!Text}, version' \in Nat, saved' \subseteq Set!Proper,
         page' \in [People -> SetPage], asked' \in [Requests -> SetCall],
         setting' \in {Set!NoRow, Set!Text} \cup {Set!Cleaned(catalog) : catalog \in saved'},
         \A e \in People : PageFits(page'[e], version', Set!getCatalogConfig'),
         \A c \in Requests : CallFits(asked'[c], version', Set!getCatalogConfig')
  PROVE  Set!SettingsInv'
  BY Zenon DEF Set!SettingsInv, Set!TypeOK, SetCall, SetPage, PageFits, CallFits

\* The three catalogs that are none.
LEMMA MarkersAre ==
  /\ Set!NoCatalog \notin Set!Proper /\ Set!NoRow \notin Set!Proper /\ Set!Text \notin Set!Proper
  /\ Set!defaultCatalog \in Set!Proper
  <1>1. \A names, packs : /\ Set!Catalog(names, packs).packs = packs
                          /\ Set!Catalog(names, packs).names = names
                          /\ Set!Catalog(names, packs) = [names |-> names, priced |-> {}, packs |-> packs]
    BY DEF Set!Catalog
  <1>2. \A x \in Set!Proper : x.packs \subseteq Packs \cup {"starter"}
    BY DEF Set!Proper
  <1>3. ASSUME NEW m \in {"none", "no row", "text"}
        PROVE  Set!Catalog({}, {m}) \notin Set!Proper
    BY <1>1, <1>2, PacksAssumption
  <1>4. Set!defaultCatalog \in Set!Proper
    BY <1>1 DEF Set!defaultCatalog, Set!Proper
  <1>5. QED
    BY <1>3, <1>4 DEF Set!NoCatalog, Set!NoRow, Set!Text

\* What is served is proper, and it is the row if that is proper and has packages.
LEMMA ServedIs ==
  ASSUME setting \in Set!Proper \cup {Set!NoRow, Set!Text}
  PROVE  /\ Set!getCatalogConfig \in Set!Proper
         /\ setting \in Set!Proper /\ setting.packs # {} => Set!getCatalogConfig = setting
  <1>1. Set!defaultCatalog.packs \subseteq Packs \cup {"starter"}
    BY MarkersAre DEF Set!Proper
  <1>2. CASE setting \in {Set!NoRow, Set!Text}
    BY <1>2, MarkersAre DEF Set!getCatalogConfig
  <1>3. CASE setting \in Set!Proper
    <2> DEFINE packs == IF setting.packs = {} THEN Set!defaultCatalog.packs ELSE setting.packs
    <2>1. setting \notin {Set!NoRow, Set!Text}
      BY <1>3, MarkersAre
    <2>2. Set!getCatalogConfig = [setting EXCEPT !.packs = packs]
      BY <2>1 DEF Set!getCatalogConfig
    <2>3. packs \subseteq Packs \cup {"starter"} /\ (setting.packs # {} => packs = setting.packs)
      BY <1>1, <1>3 DEF Set!Proper
    <2> HIDE DEF packs
    <2>4. QED
      BY <1>3, <2>2, <2>3 DEF Set!Proper
  <1>4. QED
    BY <1>2, <1>3

\* What is cleaned stays proper, and sells what was saved.
LEMMA CleanedIs ==
  ASSUME NEW x \in Set!Proper
  PROVE  /\ Set!Cleaned(x) \in Set!Proper
         /\ setting = Set!Cleaned(x) => Set!getCatalogConfig = Set!Sells(x)
  <1> DEFINE names == x.names \ {Set!Blank}
             priced == x.priced \cap (x.names \ {Set!Blank})
  <1>1. Set!Cleaned(x) = [x EXCEPT !.names = names, !.priced = priced]
    BY DEF Set!Cleaned
  <1>2. /\ names \in SUBSET (Names \cup {"Finance", Set!Blank})
        /\ priced \in SUBSET (Names \cup {"Finance", Set!Blank})
    BY DEF Set!Proper
  <1>3. Set!Cleaned(x) \in Set!Proper /\ Set!Cleaned(x).names = names
        /\ Set!Cleaned(x).priced = priced /\ Set!Cleaned(x).packs = x.packs
    BY <1>1, <1>2 DEF Set!Proper
  <1>4. ASSUME setting = Set!Cleaned(x)
        PROVE  Set!getCatalogConfig = Set!Sells(x)
    <2> DEFINE packs == IF x.packs = {} THEN Set!defaultCatalog.packs ELSE x.packs
    <2>1. setting \notin {Set!NoRow, Set!Text}
      BY <1>3, <1>4, MarkersAre
    <2>2. Set!getCatalogConfig = [Set!Cleaned(x) EXCEPT !.packs = packs]
      BY <1>3, <1>4, <2>1 DEF Set!getCatalogConfig
    <2>3. Set!getCatalogConfig = [names |-> names, priced |-> priced, packs |-> packs]
      BY <1>3, <2>2 DEF Set!Proper
    <2>4. names = {n \in x.names : n # Set!Blank} /\ priced = {n \in x.names : n # Set!Blank /\ n \in x.priced}
      OBVIOUS
    <2>5. QED
      BY <2>3, <2>4 DEF Set!Sells
  <1>5. QED
    BY <1>3, <1>4

\* A page that is not open, and a call that is not made.
LEMMA NothingIs ==
  /\ Set!Closed \in SetPage /\ Set!Closed.catalog = Set!NoCatalog /\ Set!Closed.version = 0
  /\ Set!NoCall \in SetCall /\ Set!NoCall.pc = "idle" /\ Set!NoCall.for = "load" /\ Set!NoCall.version = 0
  <1> DEFINE none == Set!NoCatalog
  <1>1. Set!Closed = [catalog |-> none, version |-> 0, edits |-> 0]
        /\ Set!NoCall = [pc |-> "idle", for |-> "load", by |-> 0, body |-> none, version |-> 0]
    BY DEF Set!Closed, Set!NoCall
  <1>2. none \in Set!Proper \cup {Set!NoCatalog} /\ none \in Set!Proper \cup {Set!NoCatalog, Set!Text}
    OBVIOUS
  <1> HIDE DEF none
  <1>3. QED
    BY <1>1, <1>2 DEF SetPage, SetCall, none

\* What the invariant says, named for the steps.
LEMMA SettingsFacts ==
  ASSUME Set!SettingsInv
  PROVE  /\ setting \in Set!Proper \cup {Set!NoRow, Set!Text} /\ version \in Nat
         /\ saved \subseteq Set!Proper /\ Set!getCatalogConfig \in Set!Proper
         /\ page \in [People -> SetPage] /\ asked \in [Requests -> SetCall]
         /\ setting \in {Set!NoRow, Set!Text} \cup {Set!Cleaned(catalog) : catalog \in saved}
         /\ \A e \in People : PageFits(page[e], version, Set!getCatalogConfig)
         /\ \A c \in Requests : CallFits(asked[c], version, Set!getCatalogConfig)
  BY SettingsParts, ServedIs

\* A step that writes no row: every page and call that changed fits what is served.
LEMMA SettingsQuiet ==
  ASSUME Set!SettingsInv, setting' = setting, version' = version, saved' = saved,
         page' \in [People -> SetPage], asked' \in [Requests -> SetCall],
         \A e \in People : page'[e] = page[e] \/ PageFits(page'[e], version, Set!getCatalogConfig),
         \A c \in Requests : asked'[c] = asked[c] \/ CallFits(asked'[c], version, Set!getCatalogConfig)
  PROVE  Set!SettingsInv'
  <1>1. Set!getCatalogConfig' = Set!getCatalogConfig
    BY DEF Set!getCatalogConfig
  <1>2. /\ \A e \in People : PageFits(page'[e], version', Set!getCatalogConfig')
        /\ \A c \in Requests : CallFits(asked'[c], version', Set!getCatalogConfig')
    BY <1>1, SettingsFacts
  <1>3. QED
    BY <1>2, SettingsFacts, SettingsThen

\* A step that writes the row: what was of the version before it no longer binds.
LEMMA SettingsWritten ==
  ASSUME Set!SettingsInv, version' = version + 1, saved \subseteq saved', saved' \subseteq Set!Proper,
         setting' \in Set!Proper \cup {Set!NoRow, Set!Text}, page' = page,
         setting' \in {Set!NoRow, Set!Text} \cup {Set!Cleaned(catalog) : catalog \in saved'},
         asked' \in [Requests -> SetCall],
         \A c \in Requests : asked'[c] = asked[c] \/ CallFits(asked'[c], version + 1, Set!getCatalogConfig')
  PROVE  Set!SettingsInv'
  <1>1. \A e \in People : PageFits(page[e], version, Set!getCatalogConfig) /\ page[e].version \in Nat
    BY SettingsFacts DEF SetPage
  <1>2. \A c \in Requests : CallFits(asked[c], version, Set!getCatalogConfig) /\ asked[c].version \in Nat
    BY SettingsFacts DEF SetCall
  <1>3. \A e \in People : PageFits(page[e], version + 1, Set!getCatalogConfig')
    BY <1>1, SettingsFacts DEF PageFits
  <1>4. \A c \in Requests : CallFits(asked[c], version + 1, Set!getCatalogConfig')
    BY <1>2, SettingsFacts DEF CallFits
  <1>5. QED
    BY <1>3, <1>4, SettingsFacts, SettingsThen

\* A page asks for something.
LEMMA SendFits ==
  ASSUME Set!SettingsInv, NEW c \in Requests, NEW e \in People,
         NEW for \in {"load", "catalog", "settings"}, NEW body \in Set!Proper \cup {Set!NoCatalog, Set!Text},
         for = "catalog" => body \in Set!Proper,
         Set!Send(c, e, for, body), UNCHANGED <<setting, version, saved, page>>
  PROVE  Set!SettingsInv'
  <1> DEFINE new == [Set!NoCall EXCEPT !.pc = "sent", !.for = for, !.by = e, !.body = body]
  <1>1. asked' = [asked EXCEPT ![c] = new]
    BY DEF Set!Send
  <1>2. new \in SetCall /\ new.pc = "sent" /\ new.for = for /\ new.body = body /\ new.version = 0
    BY NothingIs DEF SetCall
  <1> HIDE DEF new
  <1>3. asked' \in [Requests -> SetCall] /\ asked'[c] = new /\ \A d \in Requests \ {c} : asked'[d] = asked[d]
    BY <1>1, <1>2, SettingsFacts
  <1>4. CallFits(new, version, Set!getCatalogConfig)
    BY <1>2, SettingsFacts DEF CallFits
  <1>5. QED
    BY <1>3, <1>4, SettingsFacts, SettingsQuiet

LEMMA AskFits ==
  ASSUME Set!SettingsInv, NEW c \in Requests, NEW e \in People,
         Set!open(c, e) \/ Set!saveCatalog(c, e) \/ Set!saveAdvanced(c, e)
  PROVE  Set!SettingsInv'
  <1>1. page[e].catalog # Set!NoCatalog => page[e].catalog \in Set!Proper
    BY SettingsFacts DEF SetPage
  <1>2. CASE Set!open(c, e)
    BY <1>2, SendFits DEF Set!open
  <1>3. CASE Set!saveCatalog(c, e)
    BY <1>1, <1>3, SendFits DEF Set!saveCatalog
  <1>4. CASE Set!saveAdvanced(c, e)
    BY <1>4, SendFits DEF Set!saveAdvanced
  <1>5. QED
    BY <1>2, <1>3, <1>4

\* A page is left.
LEMMA LeaveFits ==
  ASSUME Set!SettingsInv, NEW e \in People, Set!leave(e)
  PROVE  Set!SettingsInv'
  <1>1. page' = [page EXCEPT ![e] = Set!Closed] /\ setting' = setting /\ version' = version /\ saved' = saved
    BY DEF Set!leave
  <1>2. PageFits(Set!Closed, version, Set!getCatalogConfig)
    BY NothingIs, SettingsFacts DEF PageFits
  <1>3. CallFits(Set!NoCall, version, Set!getCatalogConfig)
    BY NothingIs, SettingsFacts DEF CallFits
  <1>4. ASSUME NEW c \in Requests
        PROVE  /\ asked'[c] \in SetCall
               /\ CallFits(asked'[c], version, Set!getCatalogConfig)
    <2> DEFINE by == IF asked[c].by = e THEN 0 ELSE asked[c].by
               kept == [asked[c] EXCEPT !.by = by]
    <2>1. asked'[c] = Set!NoCall \/ asked'[c] = kept
      BY DEF Set!leave
    <2>2. by \in People \cup {0} /\ asked[c] \in SetCall
      BY SettingsFacts DEF SetCall
    <2> HIDE DEF by
    <2>3. /\ kept \in SetCall /\ kept.pc = asked[c].pc /\ kept.for = asked[c].for /\ kept.body = asked[c].body
          /\ kept.version = asked[c].version
      BY <2>2 DEF SetCall
    <2> HIDE DEF kept
    <2>4. CallFits(kept, version, Set!getCatalogConfig)
      BY <2>3, SettingsFacts DEF CallFits
    <2>5. QED
      BY <1>3, <2>1, <2>3, <2>4, NothingIs
  <1>5. asked' \in [Requests -> SetCall]
    <2>1. DOMAIN asked' = Requests /\ asked' = [c \in Requests |-> asked'[c]]
      BY DEF Set!leave
    <2>2. QED
      BY <1>4, <2>1
  <1>6. page' \in [People -> SetPage]
    BY <1>1, SettingsFacts, NothingIs
  <1>7. \A f \in People : page'[f] = page[f] \/ PageFits(page'[f], version, Set!getCatalogConfig)
    BY <1>1, <1>2, SettingsFacts
  <1>8. QED
    BY <1>1, <1>4, <1>5, <1>6, <1>7, SettingsQuiet

\* A page is edited: until the next answer it need not show what is served.
LEMMA EditFits ==
  ASSUME Set!SettingsInv, NEW e \in People, NEW x, Set!Edit(e, x),
         page[e].catalog \in Set!Proper => x \in Set!Proper
  PROVE  Set!SettingsInv'
  <1> DEFINE edits == page[e].edits + 1
  <1>1. /\ page' = [page EXCEPT ![e].catalog = x, ![e].edits = edits]
        /\ setting' = setting /\ version' = version /\ saved' = saved /\ asked' = asked
        /\ page[e].catalog # Set!NoCatalog
    BY DEF Set!Edit
  <1>2. x \in Set!Proper /\ edits \in Nat /\ edits # 0
    BY <1>1, SettingsFacts DEF SetPage
  <1> HIDE DEF edits
  <1>3. /\ page' \in [People -> SetPage] /\ page'[e].edits = edits /\ page'[e].version = page[e].version
        /\ \A f \in People \ {e} : page'[f] = page[f]
    BY <1>1, <1>2, SettingsFacts DEF SetPage
  <1>4. PageFits(page'[e], version, Set!getCatalogConfig)
    BY <1>2, <1>3, SettingsFacts DEF PageFits
  <1>5. QED
    BY <1>1, <1>3, <1>4, SettingsFacts, SettingsQuiet

LEMMA EditsFit ==
  ASSUME Set!SettingsInv, NEW e \in People,
         \/ \E n \in Names : Set!addCategory(e, n) \/ Set!removeCategory(e, n) \/ Set!setPrice(e, n)
         \/ \E n \in Names, to \in Names \cup {Set!Blank} : Set!renameCategory(e, n, to)
         \/ \E p \in Packs : Set!addPackage(e, p) \/ Set!removePackage(e, p)
  PROVE  Set!SettingsInv'
  <1> DEFINE x == page[e].catalog
  <1>1. ASSUME NEW names, NEW priced, NEW packs, x \in Set!Proper,
               names \subseteq x.names \cup Names \cup {Set!Blank},
               priced \subseteq x.priced \cup Names, packs \subseteq x.packs \cup Packs
        PROVE  /\ [x EXCEPT !.names = names] \in Set!Proper
               /\ [x EXCEPT !.priced = priced] \in Set!Proper
               /\ [x EXCEPT !.packs = packs] \in Set!Proper
    BY <1>1 DEF Set!Proper
  <1>2. CASE \E n \in Names : Set!addCategory(e, n)
    <2>1. PICK n \in Names : Set!Edit(e, [x EXCEPT !.names = x.names \cup {n}])
      BY <1>2 DEF Set!addCategory
    <2>2. x \in Set!Proper => [x EXCEPT !.names = x.names \cup {n}] \in Set!Proper
      BY <1>1
    <2>3. QED
      BY <2>1, <2>2, EditFits
  <1>3. CASE \E n \in Names : Set!removeCategory(e, n)
    <2>1. PICK n \in Names : Set!Edit(e, [x EXCEPT !.names = x.names \ {n}])
      BY <1>3 DEF Set!removeCategory
    <2>2. x \in Set!Proper => [x EXCEPT !.names = x.names \ {n}] \in Set!Proper
      BY <1>1
    <2>3. QED
      BY <2>1, <2>2, EditFits
  <1>4. CASE \E n \in Names : Set!setPrice(e, n)
    <2>1. PICK n \in Names : Set!Edit(e, [x EXCEPT !.priced = x.priced \cup {n}])
      BY <1>4 DEF Set!setPrice
    <2>2. x \in Set!Proper => [x EXCEPT !.priced = x.priced \cup {n}] \in Set!Proper
      BY <1>1
    <2>3. QED
      BY <2>1, <2>2, EditFits
  <1>5. CASE \E n \in Names, to \in Names \cup {Set!Blank} : Set!renameCategory(e, n, to)
    <2>1. PICK n \in Names, to \in Names \cup {Set!Blank} :
              Set!Edit(e, [x EXCEPT !.names = (x.names \ {n}) \cup {to}])
      BY <1>5 DEF Set!renameCategory
    <2>2. x \in Set!Proper => [x EXCEPT !.names = (x.names \ {n}) \cup {to}] \in Set!Proper
      BY <1>1
    <2>3. QED
      BY <2>1, <2>2, EditFits
  <1>6. CASE \E p \in Packs : Set!addPackage(e, p)
    <2>1. PICK p \in Packs : Set!Edit(e, [x EXCEPT !.packs = x.packs \cup {p}])
      BY <1>6 DEF Set!addPackage
    <2>2. x \in Set!Proper => [x EXCEPT !.packs = x.packs \cup {p}] \in Set!Proper
      BY <1>1
    <2>3. QED
      BY <2>1, <2>2, EditFits
  <1>7. CASE \E p \in Packs : Set!removePackage(e, p)
    <2>1. PICK p \in Packs : Set!Edit(e, [x EXCEPT !.packs = x.packs \ {p}])
      BY <1>7 DEF Set!removePackage
    <2>2. x \in Set!Proper => [x EXCEPT !.packs = x.packs \ {p}] \in Set!Proper
      BY <1>1
    <2>3. QED
      BY <2>1, <2>2, EditFits
  <1>8. QED
    BY <1>2, <1>3, <1>4, <1>5, <1>6, <1>7

\* The catalog is read.
LEMMA GetFits ==
  ASSUME Set!SettingsInv, NEW c \in Requests, Set!getCatalog(c)
  PROVE  Set!SettingsInv'
  <1> DEFINE served == Set!getCatalogConfig
  <1>1. /\ asked' = [asked EXCEPT ![c].pc = "answered", ![c].body = served, ![c].version = version]
        /\ setting' = setting /\ version' = version /\ saved' = saved /\ page' = page
    BY DEF Set!getCatalog
  <1>2. served \in Set!Proper /\ version \in Nat
    BY SettingsFacts
  <1> HIDE DEF served
  <1>3. /\ asked' \in [Requests -> SetCall] /\ \A d \in Requests \ {c} : asked'[d] = asked[d]
        /\ asked'[c].body = served /\ asked'[c].version = version
    <2> DEFINE new == [asked[c] EXCEPT !.pc = "answered", !.body = served, !.version = version]
    <2>1. asked \in [Requests -> SetCall] /\ asked[c] \in SetCall
      BY SettingsFacts
    <2>2. new \in SetCall /\ new.body = served /\ new.version = version
      BY <1>2, <2>1 DEF SetCall
    <2>3. asked' = [asked EXCEPT ![c] = new]
      BY <1>1, <2>1 DEF SetCall
    <2> HIDE DEF new
    <2>4. QED
      BY <2>1, <2>2, <2>3
  <1>4. CallFits(asked'[c], version, Set!getCatalogConfig)
    BY <1>2, <1>3 DEF CallFits, served
  <1>5. QED
    BY <1>1, <1>3, <1>4, SettingsFacts, SettingsQuiet

\* A catalog is saved: it is served as it was cleaned.
LEMMA SavedFits ==
  ASSUME Set!SettingsInv, NEW c \in Requests, Set!saveCatalogConfig(c)
  PROVE  Set!SettingsInv'
  <1> DEFINE body == asked[c].body
             cleaned == Set!Cleaned(body)
             v == version + 1
             new == [asked[c] EXCEPT !.pc = "answered", !.body = cleaned, !.version = v]
  <1>1. /\ asked[c].for = "catalog" /\ setting' = cleaned /\ version' = v
        /\ saved' = saved \cup {body} /\ page' = page
        /\ asked' = [asked EXCEPT ![c] = Set!NoCall] \/ asked' = [asked EXCEPT ![c] = new]
    BY DEF Set!saveCatalogConfig, Set!At
  <1>2. body \in Set!Proper /\ asked[c] \in SetCall /\ v \in Nat
    BY <1>1, SettingsFacts DEF CallFits
  <1>3. cleaned \in Set!Proper
    BY <1>2, CleanedIs
  <1> HIDE DEF body, v
  <1>4. setting' \in {Set!NoRow, Set!Text} \cup {Set!Cleaned(catalog) : catalog \in saved'}
    BY <1>1
  <1> HIDE DEF cleaned
  <1>5. /\ new \in SetCall /\ new.body = cleaned /\ new.version = v
    BY <1>2, <1>3 DEF SetCall
  <1>6. cleaned.packs # {} => Set!getCatalogConfig' = cleaned
    <2>1. ASSUME cleaned.packs # {}
          PROVE  Set!getCatalogConfig' = cleaned
      <3>1. Set!getCatalogConfig' = IF setting' \in {Set!NoRow, Set!Text} THEN Set!defaultCatalog
                ELSE [setting' EXCEPT !.packs = IF setting'.packs = {} THEN Set!defaultCatalog.packs ELSE setting'.packs]
        BY DEF Set!getCatalogConfig
      <3>2. setting' \notin {Set!NoRow, Set!Text}
        BY <1>1, <1>3, MarkersAre
      <3>3. Set!getCatalogConfig' = [cleaned EXCEPT !.packs = cleaned.packs]
        BY <1>1, <2>1, <3>1, <3>2
      <3>4. QED
        BY <1>3, <3>3 DEF Set!Proper
    <2>2. QED
      BY <2>1
  <1>7. CallFits(new, v, Set!getCatalogConfig') /\ CallFits(Set!NoCall, v, Set!getCatalogConfig')
    BY <1>2, <1>3, <1>5, <1>6, NothingIs DEF CallFits
  <1> HIDE DEF new
  <1>8. /\ asked' \in [Requests -> SetCall]
        /\ \A d \in Requests : asked'[d] = asked[d] \/ CallFits(asked'[d], v, Set!getCatalogConfig')
    BY <1>1, <1>5, <1>7, NothingIs, SettingsFacts
  <1>9. saved' \subseteq Set!Proper /\ setting' \in Set!Proper \cup {Set!NoRow, Set!Text}
    BY <1>1, <1>2, <1>3, SettingsFacts
  <1>10. QED
    BY <1>1, <1>4, <1>8, <1>9, SettingsWritten DEF v

\* The row is written as text.
LEMMA TextFits ==
  ASSUME Set!SettingsInv, NEW c \in Requests, Set!saveSettings(c)
  PROVE  Set!SettingsInv'
  <1>1. /\ setting' = Set!Text /\ version' = version + 1 /\ saved' = saved /\ page' = page
        /\ asked' = [asked EXCEPT ![c] = Set!NoCall]
    BY DEF Set!saveSettings
  <1>2. CallFits(Set!NoCall, version + 1, Set!getCatalogConfig')
    BY NothingIs, SettingsFacts DEF CallFits
  <1>3. /\ asked' \in [Requests -> SetCall]
        /\ \A d \in Requests : asked'[d] = asked[d] \/ CallFits(asked'[d], version + 1, Set!getCatalogConfig')
    BY <1>1, <1>2, NothingIs, SettingsFacts
  <1>4. QED
    BY <1>1, <1>3, SettingsFacts, SettingsWritten

\* A call is lost, or heard.
LEMMA HeardFits ==
  ASSUME Set!SettingsInv, NEW c \in Requests, Set!Lost(c) \/ Set!Heard(c)
  PROVE  Set!SettingsInv'
  <1> DEFINE e == asked[c].by
             body == asked[c].body
             v == asked[c].version
  <1>1. /\ setting' = setting /\ version' = version /\ saved' = saved
        /\ asked' = [asked EXCEPT ![c] = Set!NoCall]
    BY DEF Set!Lost, Set!Heard
  <1>2. CallFits(Set!NoCall, version, Set!getCatalogConfig)
    BY NothingIs, SettingsFacts DEF CallFits
  <1>3. /\ asked' \in [Requests -> SetCall]
        /\ \A d \in Requests : asked'[d] = asked[d] \/ CallFits(asked'[d], version, Set!getCatalogConfig)
    BY <1>1, <1>2, NothingIs, SettingsFacts
  <1>4. CASE page' = page
    BY <1>1, <1>3, <1>4, SettingsFacts, SettingsQuiet
  <1>5. CASE Set!Heard(c)
    <2>1. /\ page' = [page EXCEPT ![e].catalog = body, ![e].version = v, ![e].edits = 0]
          /\ asked[c].pc = "answered"
      BY <1>5 DEF Set!Heard
    <2>2. body \in Set!Proper /\ v \in Nat /\ CallFits(asked[c], version, Set!getCatalogConfig)
      BY <2>1, SettingsFacts DEF CallFits, SetCall
    <2>3. v <= version /\ (v = version /\ body.packs # {} => body = Set!getCatalogConfig)
      BY <2>1, <2>2 DEF CallFits
    <2> HIDE DEF e, body, v
    <2>4. /\ page' \in [People -> SetPage]
          /\ \A f \in People : \/ page'[f] = page[f]
                               \/ page'[f].catalog = body /\ page'[f].version = v
      BY <2>1, <2>2, SettingsFacts DEF SetPage
    <2>5. \A f \in People : page'[f] = page[f] \/ PageFits(page'[f], version, Set!getCatalogConfig)
      BY <2>3, <2>4 DEF PageFits
    <2>6. QED
      BY <1>1, <1>3, <2>4, <2>5, SettingsQuiet
  <1>6. QED
    BY <1>4, <1>5 DEF Set!Lost

\* Every step of the settings keeps their invariant.
LEMMA SettingsStep ==
  ASSUME Set!SettingsInv, Set!Next \/ UNCHANGED settings
  PROVE  Set!SettingsInv'
  <1>1. CASE UNCHANGED settings
    BY <1>1, SettingsFacts, SettingsQuiet DEF settings
  <1>2. CASE Set!Next
    BY <1>2, AskFits, LeaveFits, EditsFit, GetFits, SavedFits, TextFits, HeardFits DEF Set!Next
  <1>3. QED
    BY <1>1, <1>2

\* At first there is no row, and nothing is shown.
LEMMA SettingsAtFirst == Set!Init => Set!SettingsInv
  <1> SUFFICES ASSUME Set!Init PROVE Set!SettingsInv
    OBVIOUS
  <1>1. /\ setting = Set!NoRow /\ version = 0 /\ saved = {}
        /\ page = [e \in People |-> Set!Closed] /\ asked = [c \in Requests |-> Set!NoCall]
    BY DEF Set!Init
  <1>2. /\ PageFits(Set!Closed, 0, Set!getCatalogConfig) /\ CallFits(Set!NoCall, 0, Set!getCatalogConfig)
    BY NothingIs DEF PageFits, CallFits
  <1>3. QED
    BY <1>1, <1>2, NothingIs, SettingsParts

\* What the invariant says of the catalog served.
LEMMA SettingsWhole == Set!SettingsInv => CatalogIsWhole
  <1> SUFFICES ASSUME Set!SettingsInv PROVE CatalogIsWhole
    OBVIOUS
  <1>1. Set!getCatalogConfig \in {Set!defaultCatalog} \cup {Set!Sells(catalog) : catalog \in saved}
    <2>1. CASE setting \in {Set!NoRow, Set!Text}
      BY <2>1 DEF Set!getCatalogConfig
    <2>2. CASE setting \notin {Set!NoRow, Set!Text}
      <3>1. PICK x \in saved : setting = Set!Cleaned(x)
        BY <2>2, SettingsFacts
      <3>2. Set!getCatalogConfig = Set!Sells(x)
        BY <3>1, SettingsFacts, CleanedIs
      <3>3. QED
        BY <3>1, <3>2
    <2>3. QED
      BY <2>1, <2>2
  <1>2. \A e \in People : PageFits(page[e], version, Set!getCatalogConfig)
    BY SettingsFacts
  <1>3. QED
    BY <1>1, <1>2 DEF CatalogIsWhole, Set!CatalogIsWhole, PageFits

(***************************************************************************)
(* The session in the browser                                              *)
(***************************************************************************)

WebCall == [pc : Web!Pcs, as : Web!Whose, cookie : Nat, old : BOOLEAN,
            for : {"data", "boot", "start", "login", "google", "logout", "flush"}]
WebRow == [user : Web!Whose, live : BOOLEAN]

\* What holds of a call by itself, with n rows; lost as broken.
Way(x, n, lost) ==
  /\ x.cookie <= n
  /\ x.pc = "idle" => x = Web!NoCall
  /\ x.pc \in {"signin", "signedin"} => x.for \in {"login", "google"}
  /\ x.for = "login" => x.pc \in {"signin", "signedin"}
  /\ x.pc # "idle" => (x.pc \in {"signout", "signedout"} <=> x.for \in {"logout", "flush"})
  /\ x.pc \in {"sent", "again", "profile"} => x.for # "start"
  /\ x.pc = "profile" => x.for # "data" /\ x.as # Nobody
  /\ x.pc = "unbooted" => x.for \in {"boot", "start"}
  /\ x.for = "flush" => lost
  /\ x.pc \in {"rotate", "persist"} => x.cookie # 0

\* A call that begins a session, or begins with one, and may yet show its user.
Stages(x) ==
  /\ x.pc # "idle" /\ ~x.old
  /\ \/ x.for \in {"boot", "start"}
     \/ x.for = "google" /\ x.pc \notin {"signin", "signedin"}

\* A call for data that counts.
Asks(x) == x.for = "data" /\ x.pc # "idle" /\ ~x.old

\* A call that is not made.
LEMMA NoCallIs ==
  /\ Web!NoCall \in WebCall /\ Web!NoCall.pc = "idle" /\ Web!NoCall.cookie = 0 /\ ~Web!NoCall.old
  /\ Web!NoCall.for = "data"
  /\ \A n \in Nat : \A lost : Way(Web!NoCall, n, lost)
  <1>1. /\ Web!NoCall \in WebCall /\ Web!NoCall.pc = "idle" /\ Web!NoCall.cookie = 0 /\ ~Web!NoCall.old
        /\ Web!NoCall.for = "data"
    BY DEF Web!NoCall, WebCall, Web!Pcs, Web!Whose
  <1>2. QED
    BY <1>1 DEF Way

\* The parts of the invariant, as the steps are about them.
WebTyped ==
  /\ token \in Web!Whose /\ user \in Web!Whose /\ booted \in BOOLEAN /\ outbox \in BOOLEAN
  /\ leftover \in BOOLEAN /\ broken \in BOOLEAN
  /\ sessions \in Seq(WebRow) /\ cookie \in Nat /\ cookie <= Len(sessions)
  /\ call \in [Requests -> WebCall]
  /\ \A c \in Requests : Way(call[c], Len(sessions), broken)

WebFresh ==
  \A c \in Requests :
      call[c].pc \in {"renewed", "signedin"} =>
          /\ call[c].cookie # 0 /\ call[c].cookie # cookie
          /\ \A d \in Requests \ {c} : call[d].cookie # call[c].cookie
          /\ sessions[call[c].cookie].user = call[c].as
          /\ \/ call[c].old \/ broken \/ sessions[call[c].cookie].live
             \/ \E d \in Requests : call[d].pc = "signedout"

WebKept ==
  \/ broken \/ leftover \/ (cookie # 0 /\ sessions[cookie].live)
  \/ \E c \in Requests : call[c].pc \in {"persist", "renewed", "signedout"}

WebGoing ==
  /\ user # Nobody => WebKept
  /\ token # Nobody => WebKept
  /\ \A c \in Requests : Stages(call[c]) /\ call[c].for # "start" => WebKept

\* A row is u's, or there is none; and so is all of the session.
RowOf(i, u) == i = 0 \/ sessions[i].user = u

AllOf(u) ==
  /\ token = Nobody \/ token = u
  /\ RowOf(cookie, u)
  /\ \A c \in Requests : Asks(call[c]) => RowOf(call[c].cookie, u)

WebApart ==
  /\ token # Nobody => RowOf(cookie, token)
  /\ ~booted => user = Nobody /\ \A c \in Requests : call[c].pc = "idle" \/ call[c].for = "flush"
  /\ \A c, d \in Requests : Stages(call[c]) /\ Stages(call[d]) => c = d

\* No call begins a session, or the call c does.
NoStage ==
  /\ user = Nobody => token = Nobody /\ \A c \in Requests : ~Asks(call[c])
  /\ user # Nobody => AllOf(user)

OnStage(c) ==
  /\ call[c].for = "start" => token = Nobody
  /\ call[c].for # "start" => AllOf(call[c].as) /\ RowOf(call[c].cookie, call[c].as)
  /\ call[c].for # "google" => user = Nobody /\ \A d \in Requests : ~Asks(call[d])

WebOne ==
  leftover \/ /\ booted /\ (\A c \in Requests : ~Stages(call[c])) => NoStage
              /\ \A c \in Requests : Stages(call[c]) => OnStage(c)

LEMMA WebIs == Web!WebInv <=> WebTyped /\ WebFresh /\ WebGoing /\ WebApart /\ WebOne
  <1> DEFINE idle == \A c \in Requests : call[c].pc = "idle" => call[c] = Web!NoCall
  <1>1. Web!WebInv => idle
    BY DEF Web!WebInv, Web!TypeOK, Web!Free, Web!At
  <1>2. WebTyped => idle
    BY DEF WebTyped, Way
  <1>3. SUFFICES ASSUME idle
                 PROVE  Web!WebInv <=> WebTyped /\ WebFresh /\ WebGoing /\ WebApart /\ WebOne
    BY <1>1, <1>2
  <1>4. \A c \in Requests : Web!Free(c) <=> call[c].pc = "idle"
    BY <1>3, NoCallIs DEF Web!Free
  <1>5. \A c \in Requests : Web!Stage(c) <=> Stages(call[c])
    BY <1>4 DEF Web!Stage, Stages
  <1>6. \A u : Web!All(u) <=> AllOf(u)
    BY <1>4 DEF Web!All, AllOf, Asks, Web!IsOf, RowOf
  <1>7. Web!TypeOK /\ Web!Paths <=> WebTyped
    <2>1. ASSUME sessions \in Seq(WebRow)
          PROVE  Len(sessions) \in Nat /\ (cookie \in 0..Len(sessions) <=> cookie \in Nat /\ cookie <= Len(sessions))
      BY <2>1, LenProperties
    <2>2. (\A c \in Requests : call[c].cookie <= Len(sessions) /\ (Web!At(c, "idle") => Web!Free(c))) /\ Web!Paths
          <=> \A c \in Requests : Way(call[c], Len(sessions), broken)
      BY <1>3, <1>4 DEF Web!Paths, Way, Web!At
    <2>3. Web!TypeOK <=>
              /\ token \in Web!Whose /\ user \in Web!Whose /\ booted \in BOOLEAN /\ outbox \in BOOLEAN
              /\ leftover \in BOOLEAN /\ broken \in BOOLEAN
              /\ sessions \in Seq(WebRow) /\ cookie \in 0..Len(sessions)
              /\ call \in [Requests -> WebCall]
              /\ \A c \in Requests : call[c].cookie <= Len(sessions) /\ (Web!At(c, "idle") => Web!Free(c))
      BY Zenon DEF Web!TypeOK, WebRow, WebCall
    <2>4. QED
      BY <2>1, <2>2, <2>3, Zenon DEF WebTyped
  <1>8. Web!Fresh <=> WebFresh
    BY DEF Web!Fresh, WebFresh, Web!At, Web!Live
  <1>9. Web!Going <=> WebGoing
    BY <1>5 DEF Web!Going, WebGoing, Web!Kept, WebKept, Web!Live
  <1>10. Web!OneSession <=> WebApart /\ WebOne
    <2>1. \A c \in Requests : (call[c].for # "data" \/ Web!Free(c) \/ call[c].old) <=> ~Asks(call[c])
      BY <1>4 DEF Asks
    <2>2. QED
      BY <1>4, <1>5, <1>6, <2>1 DEF Web!OneSession, WebApart, WebOne, NoStage, OnStage, Web!IsOf, RowOf
  <1>11. QED
    BY <1>7, <1>8, <1>9, <1>10 DEF Web!WebInv

\* The same of the state a step leads to.
LEMMA WebThen == Web!WebInv' <=> WebTyped' /\ WebFresh' /\ WebGoing' /\ WebApart' /\ WebOne'
  BY WebIs, PTL

\* A step of one call that changes nothing else: the call goes on, or is over.
LEMMA WebQuiet ==
  ASSUME Web!WebInv, NEW c \in Requests, NEW x \in WebCall, call' = [call EXCEPT ![c] = x],
         token' \in {token, Nobody}, cookie' = cookie, user' = user, booted' = booted, outbox' = outbox,
         sessions' = sessions, leftover' \in BOOLEAN, broken' \in BOOLEAN,
         leftover => leftover', broken => broken', Way(x, Len(sessions), broken'),
         x.pc \notin {"renewed", "signin", "signedin"}, call[c].pc # "idle",
         \/ x = Web!NoCall
         \/ /\ x.for = call[c].for /\ x.old = call[c].old /\ x.as = call[c].as
            /\ x.cookie = call[c].cookie \/ x.cookie = cookie,
         call[c].pc \in {"signin", "signedin"} => x = Web!NoCall,
         call[c].pc \in {"persist", "renewed", "signedout"} => broken',
         Stages(call[c]) /\ x = Web!NoCall => leftover'
  PROVE  Web!WebInv'
  <1>1. WebTyped /\ WebFresh /\ WebGoing /\ WebApart /\ WebOne
    BY WebIs
  <1>2. /\ call \in [Requests -> WebCall] /\ call' \in [Requests -> WebCall]
        /\ call'[c] = x /\ \A d \in Requests \ {c} : call'[d] = call[d]
    BY <1>1 DEF WebTyped
  <1>3. WebTyped'
    <2>1. \A d \in Requests : Way(call'[d], Len(sessions), broken')
      BY <1>1, <1>2 DEF WebTyped, Way
    <2>2. QED
      BY <1>1, <1>2, <2>1 DEF WebTyped, Web!Whose
  <1>4. WebFresh'
    BY <1>1, <1>2, NoCallIs DEF WebFresh
  <1>5. WebKept => WebKept'
    BY <1>2 DEF WebKept
  <1>6. \A d \in Requests : Stages(call'[d]) => Stages(call[d]) /\ call'[d].for = call[d].for
    BY <1>2, NoCallIs DEF Stages
  <1>7. WebGoing'
    BY <1>1, <1>5, <1>6 DEF WebGoing
  <1>8. WebApart'
    BY <1>1, <1>2, <1>6, NoCallIs DEF WebApart, RowOf
  <1>9. WebOne'
    <2>1. CASE leftover'
      BY <2>1 DEF WebOne
    <2>2. CASE ~leftover'
      <3>1. ~leftover /\ \A d \in Requests : Stages(call[d]) => Stages(call'[d])
        BY <1>2, <2>2, NoCallIs DEF Stages, Way
      <3>2. \A d \in Requests : Asks(call'[d]) =>
                /\ Asks(call[d])
                /\ call'[d].cookie = call[d].cookie \/ call'[d].cookie = cookie
        BY <1>2, NoCallIs DEF Asks
      <3>3. \A u : AllOf(u) => AllOf(u)'
        BY <3>2 DEF AllOf, RowOf
      <3>4. ASSUME booted', \A d \in Requests : ~Stages(call'[d])
            PROVE  NoStage'
        <4>1. NoStage
          BY <1>1, <1>6, <3>1, <3>4 DEF WebOne
        <4>2. QED
          BY <3>2, <3>3, <4>1 DEF NoStage
      <3>5. ASSUME NEW d \in Requests, Stages(call'[d])
            PROVE  OnStage(d)'
        <4>1. OnStage(d) /\ call'[d].as = call[d].as /\ call'[d].for = call[d].for
          BY <1>1, <1>2, <1>6, <3>1, <3>5, NoCallIs DEF WebOne, Stages
        <4>2. call'[d].cookie = call[d].cookie \/ call'[d].cookie = cookie
          BY <1>2, <3>5, NoCallIs DEF Stages
        <4>3. QED
          BY <3>2, <3>3, <4>1, <4>2 DEF OnStage, AllOf, RowOf
      <3>6. QED
        BY <3>4, <3>5 DEF WebOne
    <2>3. QED
      BY <2>1, <2>2
  <1>10. QED
    BY <1>3, <1>4, <1>7, <1>8, <1>9, WebThen

\* A call that only gets further.
LEMMA GoesOnWeb ==
  ASSUME NEW y \in WebCall, NEW pc \in Web!Pcs
  PROVE  LET x == [y EXCEPT !.pc = pc]
         IN  /\ x \in WebCall /\ x.pc = pc /\ x.for = y.for /\ x.as = y.as /\ x.cookie = y.cookie
             /\ x.old = y.old
  BY DEF WebCall

\* Where a call can be.
LEMMA PcsAre == Web!Pcs = {"idle", "sent", "refresh", "rotate", "persist", "denied", "renewed", "again", "profile",
                           "unbooted", "signin", "signedin", "signout", "signedout"}
  BY DEF Web!Pcs

\* A call fails.
LEMMA ThrowKept ==
  ASSUME Web!WebInv, NEW c \in Requests, Web!Throw(c), call[c].pc # "idle",
         token' \in {token, Nobody}, cookie' = cookie, user' = user, booted' = booted, outbox' = outbox,
         sessions' = sessions, broken' \in BOOLEAN, broken => broken',
         call[c].pc \in {"persist", "renewed", "signedout"} => broken'
  PROVE  Web!WebInv'
  <1> DEFINE x == IF call[c].for \in {"boot", "start"} THEN [call[c] EXCEPT !.pc = "unbooted"] ELSE Web!NoCall
  <1>1. WebTyped
    BY WebIs
  <1>2. call[c] \in WebCall /\ Way(call[c], Len(sessions), broken) /\ Len(sessions) \in Nat
    BY <1>1, LenProperties DEF WebTyped
  <1>3. call' = [call EXCEPT ![c] = x] /\ leftover' = (leftover \/ call[c].for = "google")
    BY DEF Web!Throw, Web!Goto, Web!End
  <1>4. leftover' \in BOOLEAN /\ (leftover => leftover') /\ (call[c].for = "google" => leftover')
    BY <1>1, <1>3 DEF WebTyped
  <1>5. CASE call[c].for \in {"boot", "start"}
    <2> DEFINE z == [call[c] EXCEPT !.pc = "unbooted"]
    <2>1. /\ z \in WebCall /\ z.pc = "unbooted" /\ z.for = call[c].for /\ z.as = call[c].as
          /\ z.cookie = call[c].cookie /\ z.old = call[c].old
      BY <1>2, GoesOnWeb, PcsAre
    <2>2. z # Web!NoCall /\ call' = [call EXCEPT ![c] = z]
      BY <1>3, <1>5, <2>1, NoCallIs
    <2> HIDE DEF z, x
    <2>3. Way(z, Len(sessions), broken') /\ call[c].pc \notin {"signin", "signedin"}
      BY <1>2, <1>5, <2>1 DEF Way
    <2>4. QED
      BY <1>4, <2>1, <2>2, <2>3, WebQuiet
  <1>6. CASE call[c].for \notin {"boot", "start"}
    <2>1. call' = [call EXCEPT ![c] = Web!NoCall]
      BY <1>3, <1>6
    <2>2. Stages(call[c]) => leftover'
      BY <1>4, <1>6 DEF Stages
    <2> HIDE DEF x
    <2>3. QED
      BY <1>2, <1>4, <2>1, <2>2, NoCallIs, WebQuiet
  <1>7. QED
    BY <1>5, <1>6

\* A call goes on, and nothing else.
LEMMA GotoKept ==
  ASSUME Web!WebInv, NEW c \in Requests, NEW pc \in Web!Pcs, Web!Goto(c, pc),
         token' = token, cookie' = cookie, user' = user, booted' = booted, outbox' = outbox,
         sessions' = sessions, leftover' = leftover, broken' \in BOOLEAN, broken => broken',
         pc \in {"profile", "rotate", "denied"}, call[c].pc \in {"sent", "again", "refresh", "rotate", "persist"},
         pc = "profile" => call[c].for \notin {"data", "start"} /\ call[c].as # Nobody,
         pc = "rotate" => call[c].cookie # 0,
         call[c].pc = "persist" => broken'
  PROVE  Web!WebInv'
  <1> DEFINE x == [call[c] EXCEPT !.pc = pc]
  <1>1. WebTyped
    BY WebIs
  <1>2. call[c] \in WebCall /\ Way(call[c], Len(sessions), broken) /\ leftover' \in BOOLEAN
    BY <1>1 DEF WebTyped
  <1>3. call' = [call EXCEPT ![c] = x]
    BY DEF Web!Goto
  <1>4. x \in WebCall /\ x.pc = pc /\ x.for = call[c].for /\ x.as = call[c].as
        /\ x.cookie = call[c].cookie /\ x.old = call[c].old
    BY <1>2, GoesOnWeb
  <1>5. x # Web!NoCall
    BY <1>4, NoCallIs
  <1> HIDE DEF x
  <1>6. Way(x, Len(sessions), broken')
    BY <1>2, <1>4 DEF Way
  <1>7. QED
    BY <1>2, <1>3, <1>4, <1>5, <1>6, WebQuiet

\* What an endpoint says, and what refresh finds; a call or a statement that fails.
LEMMA QuietStepsKept ==
  ASSUME Web!WebInv, NEW c \in Requests,
         Web!Accept(c) \/ Web!Refuse(c) \/ Web!RefuseAgain(c) \/ Web!FindToken(c) \/ Web!Lost(c) \/ Web!Fail(c)
  PROVE  Web!WebInv'
  <1>1. WebTyped
    BY WebIs
  <1>2. call[c] \in WebCall /\ Way(call[c], Len(sessions), broken) /\ Len(sessions) \in Nat
        /\ leftover \in BOOLEAN /\ broken \in BOOLEAN
    BY <1>1, LenProperties DEF WebTyped
  <1>3. sessions' = sessions /\ token' = token /\ cookie' = cookie /\ user' = user /\ booted' = booted
        /\ outbox' = outbox
    BY DEF Web!Accept, Web!Refuse, Web!RefuseAgain, Web!FindToken, Web!Lost, Web!Fail, Web!page
  <1>4. CASE Web!Accept(c)
    <2>1. /\ leftover' = leftover /\ broken' = broken /\ call[c].pc \in {"sent", "again"} /\ call[c].as # Nobody
          /\ call[c].for = "data" => Web!End(c)
          /\ call[c].for # "data" => Web!Goto(c, "profile")
      BY <1>4 DEF Web!Accept
    <2>2. CASE call[c].for = "data"
      <3>1. call' = [call EXCEPT ![c] = Web!NoCall] /\ ~Stages(call[c])
        BY <2>1, <2>2 DEF Web!End, Stages
      <3>2. QED
        BY <1>2, <1>3, <2>1, <3>1, NoCallIs, WebQuiet
    <2>3. CASE call[c].for # "data"
      <3>1. call[c].for \notin {"data", "start"} /\ "profile" \in Web!Pcs
        BY <1>2, <2>1, <2>3, PcsAre DEF Way
      <3>2. QED
        BY <1>2, <1>3, <2>1, <2>3, <3>1, GotoKept
    <2>4. QED
      BY <2>2, <2>3
  <1>5. CASE Web!Refuse(c)
    <2> DEFINE x == [call[c] EXCEPT !.pc = "refresh", !.cookie = cookie]
    <2>1. /\ leftover' = leftover /\ broken' = broken /\ call[c].pc = "sent" /\ call' = [call EXCEPT ![c] = x]
      BY <1>5 DEF Web!Refuse, Web!At
    <2>2. cookie \in Nat /\ cookie <= Len(sessions) /\ "refresh" \in Web!Pcs
      BY <1>1, PcsAre DEF WebTyped
    <2>3. /\ x \in WebCall /\ x.pc = "refresh" /\ x.for = call[c].for /\ x.as = call[c].as
          /\ x.cookie = cookie /\ x.old = call[c].old
      BY <1>2, <2>2 DEF WebCall
    <2> HIDE DEF x
    <2>4. x # Web!NoCall /\ Way(x, Len(sessions), broken')
      BY <1>2, <2>1, <2>2, <2>3, NoCallIs DEF Way
    <2>5. QED
      BY <1>2, <1>3, <2>1, <2>3, <2>4, WebQuiet
  <1>6. CASE Web!RefuseAgain(c)
    BY <1>2, <1>3, <1>6, ThrowKept DEF Web!RefuseAgain, Web!At
  <1>7. CASE Web!FindToken(c)
    <2>1. /\ leftover' = leftover /\ broken' = broken /\ call[c].pc = "refresh"
          /\ (call[c].cookie # 0 /\ Web!Goto(c, "rotate")) \/ Web!Goto(c, "denied")
      BY <1>7 DEF Web!FindToken, Web!At
    <2>2. "rotate" \in Web!Pcs /\ "denied" \in Web!Pcs
      BY PcsAre
    <2>3. QED
      BY <1>2, <1>3, <2>1, <2>2, GotoKept
  <1>8. CASE Web!Lost(c)
    <2>1. /\ call[c].pc # "idle" /\ Web!Throw(c)
          /\ ~(call[c].for = "logout" /\ call[c].pc \in {"signout", "signedout"})
          /\ broken' = (broken \/ call[c].pc \in {"rotate", "persist", "renewed", "signedin"})
      BY <1>2, <1>8 DEF Web!Lost, Web!Free, Way
    <2>2. broken' \in BOOLEAN /\ (broken => broken') /\ (call[c].pc \in {"persist", "renewed", "signedout"} => broken')
      BY <1>2, <2>1 DEF Way
    <2>3. QED
      BY <1>3, <2>1, <2>2, ThrowKept
  <1>9. CASE Web!Fail(c)
    <2>1. leftover' = leftover /\ broken' = TRUE /\ call[c].pc \in {"rotate", "persist"} /\ Web!Goto(c, "denied")
      BY <1>9 DEF Web!Fail
    <2>2. "denied" \in Web!Pcs
      BY PcsAre
    <2>3. QED
      BY <1>2, <1>3, <2>1, <2>2, GotoKept
  <1>10. QED
    BY <1>4, <1>5, <1>6, <1>7, <1>8, <1>9

\* A call is begun that shows no user by itself: it asks for data, signs in or signs out.
LEMMA WebAdded ==
  ASSUME Web!WebInv, NEW c \in Requests, NEW x \in WebCall, call[c].pc = "idle",
         call' = [call EXCEPT ![c] = x],
         token' = token, cookie' = cookie, user' = user, booted' = booted, outbox' \in BOOLEAN,
         sessions' = sessions, leftover' = leftover, broken' \in BOOLEAN, broken => broken',
         Way(x, Len(sessions), broken'), ~x.old, x.cookie = 0 \/ x.cookie = cookie,
         x.pc \in {"sent", "signin", "signout"}, ~Stages(x),
         booted \/ x.for = "flush",
         x.for = "data" => user # Nobody /\ x.cookie = cookie
  PROVE  Web!WebInv'
  <1>1. WebTyped /\ WebFresh /\ WebGoing /\ WebApart /\ WebOne
    BY WebIs
  <1>2. /\ call \in [Requests -> WebCall] /\ call' \in [Requests -> WebCall]
        /\ call'[c] = x /\ \A d \in Requests \ {c} : call'[d] = call[d]
    BY <1>1 DEF WebTyped
  <1>3. WebTyped'
    <2>1. \A d \in Requests : Way(call'[d], Len(sessions), broken')
      BY <1>1, <1>2 DEF WebTyped, Way
    <2>2. QED
      BY <1>1, <1>2, <2>1 DEF WebTyped
  <1>4. WebFresh'
    BY <1>1, <1>2 DEF WebFresh
  <1>5. WebKept => WebKept'
    BY <1>2 DEF WebKept
  <1>6. \A d \in Requests : Stages(call'[d]) => Stages(call[d]) /\ call'[d] = call[d] /\ d # c
    BY <1>2 DEF Stages
  <1>7. WebGoing'
    BY <1>1, <1>5, <1>6 DEF WebGoing
  <1>8. WebApart'
    BY <1>1, <1>2, <1>6 DEF WebApart, RowOf
  <1>9. WebOne'
    <2>1. CASE leftover
      BY <2>1 DEF WebOne
    <2>2. CASE ~leftover
      <3>1. \A d \in Requests : Stages(call[d]) => Stages(call'[d])
        BY <1>2 DEF Stages
      <3>2. \A d \in Requests : Asks(call'[d]) => (Asks(call[d]) /\ call'[d].cookie = call[d].cookie)
                                                  \/ (user # Nobody /\ call'[d].cookie = cookie)
        BY <1>2 DEF Asks
      <3>3. \A u : AllOf(u) => AllOf(u)'
        BY <3>2 DEF AllOf, RowOf
      <3>4. ASSUME booted', \A d \in Requests : ~Stages(call'[d])
            PROVE  NoStage'
        <4>1. NoStage
          BY <1>1, <2>2, <3>1, <3>4 DEF WebOne
        <4>2. QED
          BY <3>2, <3>3, <4>1 DEF NoStage
      <3>5. ASSUME NEW d \in Requests, Stages(call'[d])
            PROVE  OnStage(d)'
        <4>1. OnStage(d) /\ call'[d] = call[d]
          BY <1>1, <1>6, <2>2, <3>5 DEF WebOne
        <4>2. QED
          BY <3>2, <3>3, <4>1 DEF OnStage, RowOf
      <3>6. QED
        BY <2>2, <3>4, <3>5 DEF WebOne
    <2>3. QED
      BY <2>1, <2>2
  <1>10. QED
    BY <1>3, <1>4, <1>7, <1>8, <1>9, WebThen

\* A call as it is sent.
LEMMA SentIs ==
  ASSUME WebTyped, NEW c \in Requests, call[c] = Web!NoCall, NEW pc \in Web!Pcs,
         NEW for \in {"data", "boot", "start", "login", "google", "logout", "flush"}
  PROVE  LET x == Web!Sent(c, pc, for)
         IN  /\ x \in WebCall /\ x.pc = pc /\ x.for = for /\ x.as = token /\ x.cookie = cookie /\ ~x.old
             /\ cookie <= Len(sessions)
  <1>1. Web!Sent(c, pc, for) = [Web!NoCall EXCEPT !.pc = pc, !.for = for, !.as = token, !.cookie = cookie]
    BY DEF Web!Sent
  <1>2. token \in Web!Whose /\ cookie \in Nat /\ cookie <= Len(sessions)
    BY DEF WebTyped
  <1>3. QED
    BY <1>1, <1>2, NoCallIs DEF WebCall

\* Data is asked for, a sign-out or a sign-in begun, or a queued sign-out sent.
LEMMA BegunKept ==
  ASSUME Web!WebInv, NEW c \in Requests,
         \/ Web!Fetch(c) \/ Web!SignOut(c) \/ Web!Flush(c)
         \/ \E u \in People : Web!LogIn(c, u) \/ Web!finish(c, u)
  PROVE  Web!WebInv'
  <1>1. WebTyped /\ WebApart
    BY WebIs
  <1>2. leftover \in BOOLEAN /\ broken \in BOOLEAN /\ booted \in BOOLEAN /\ outbox \in BOOLEAN
        /\ Len(sessions) \in Nat
    BY <1>1, LenProperties DEF WebTyped
  <1>3. call[c] = Web!NoCall /\ call[c].pc = "idle"
    BY NoCallIs DEF Web!Fetch, Web!SignOut, Web!Flush, Web!LogIn, Web!finish, Web!SignIn, Web!Free
  <1>4. user # Nobody => booted
    BY <1>1 DEF WebApart
  <1>5. CASE Web!Fetch(c)
    <2> DEFINE x == Web!Sent(c, "sent", "data")
    <2>1. /\ user # Nobody /\ call' = [call EXCEPT ![c] = x] /\ token' = token /\ cookie' = cookie
          /\ user' = user /\ booted' = booted /\ outbox' = outbox /\ sessions' = sessions
          /\ leftover' = leftover /\ broken' = broken
      BY <1>5 DEF Web!Fetch, Web!page
    <2>2. /\ x \in WebCall /\ x.pc = "sent" /\ x.for = "data" /\ x.cookie = cookie /\ ~x.old
          /\ cookie <= Len(sessions)
      BY <1>1, <1>3, SentIs, PcsAre
    <2> HIDE DEF x
    <2>3. Way(x, Len(sessions), broken') /\ ~Stages(x)
      BY <2>2 DEF Way, Stages
    <2>4. QED
      BY <1>2, <1>3, <1>4, <2>1, <2>2, <2>3, WebAdded
  <1>6. CASE Web!SignOut(c)
    <2> DEFINE x == Web!Sent(c, "signout", "logout")
    <2>1. /\ user # Nobody /\ call' = [call EXCEPT ![c] = x] /\ token' = token /\ cookie' = cookie
          /\ user' = user /\ booted' = booted /\ outbox' = outbox /\ sessions' = sessions
          /\ leftover' = leftover /\ broken' = broken
      BY <1>6 DEF Web!SignOut, Web!page
    <2>2. /\ x \in WebCall /\ x.pc = "signout" /\ x.for = "logout" /\ x.cookie = cookie /\ ~x.old
          /\ cookie <= Len(sessions)
      BY <1>1, <1>3, SentIs, PcsAre
    <2> HIDE DEF x
    <2>3. Way(x, Len(sessions), broken') /\ ~Stages(x)
      BY <2>2 DEF Way, Stages
    <2>4. QED
      BY <1>2, <1>3, <1>4, <2>1, <2>2, <2>3, WebAdded
  <1>7. CASE Web!Flush(c)
    <2> DEFINE x == Web!Sent(c, "signout", "flush")
    <2>1. /\ call' = [call EXCEPT ![c] = x] /\ token' = token /\ cookie' = cookie
          /\ user' = user /\ booted' = booted /\ outbox' = FALSE /\ sessions' = sessions
          /\ leftover' = leftover /\ broken' = TRUE
      BY <1>7 DEF Web!Flush
    <2>2. /\ x \in WebCall /\ x.pc = "signout" /\ x.for = "flush" /\ x.cookie = cookie /\ ~x.old
          /\ cookie <= Len(sessions)
      BY <1>1, <1>3, SentIs, PcsAre
    <2> HIDE DEF x
    <2>3. Way(x, Len(sessions), broken') /\ ~Stages(x)
      BY <2>1, <2>2 DEF Way, Stages
    <2>4. QED
      BY <1>2, <1>3, <2>1, <2>2, <2>3, WebAdded
  <1>8. CASE \E u \in People : Web!LogIn(c, u) \/ Web!finish(c, u)
    <2>1. PICK u \in People, for \in {"login", "google"} : Web!SignIn(c, u, for)
      BY <1>8 DEF Web!LogIn, Web!finish
    <2> DEFINE x == [Web!NoCall EXCEPT !.pc = "signin", !.for = for, !.as = u]
    <2>2. /\ booted /\ call' = [call EXCEPT ![c] = x] /\ token' = token /\ cookie' = cookie
          /\ user' = user /\ booted' = booted /\ outbox' = outbox /\ sessions' = sessions
          /\ leftover' = leftover /\ broken' = broken
      BY <2>1 DEF Web!SignIn, Web!page
    <2>3. x \in WebCall /\ x.pc = "signin" /\ x.for = for /\ x.cookie = 0 /\ ~x.old
      <3>1. u \in Web!Whose /\ "signin" \in Web!Pcs
        BY PcsAre DEF Web!Whose
      <3>2. QED
        BY <3>1, NoCallIs DEF WebCall
    <2> HIDE DEF x
    <2>4. Way(x, Len(sessions), broken') /\ ~Stages(x)
      BY <1>2, <2>3 DEF Way, Stages
    <2>5. QED
      BY <1>2, <1>3, <2>2, <2>3, <2>4, WebAdded
  <1>9. QED
    BY <1>5, <1>6, <1>7, <1>8

\* The page starts: its first call may show the stored token's user.
LEMMA BootKept ==
  ASSUME Web!WebInv, NEW c \in Requests, Web!Boot(c)
  PROVE  Web!WebInv'
  <1> DEFINE x == IF token = Nobody THEN Web!Sent(c, "refresh", "start") ELSE Web!Sent(c, "sent", "boot")
  <1>1. WebTyped /\ WebFresh /\ WebGoing /\ WebApart /\ WebOne
    BY WebIs
  <1>2. /\ ~booted /\ booted' = TRUE /\ call[c] = Web!NoCall /\ call[c].pc = "idle"
        /\ call' = [call EXCEPT ![c] = x] /\ token' = token /\ cookie' = cookie /\ user' = user
        /\ outbox' = outbox /\ sessions' = sessions /\ leftover' = leftover /\ broken' = broken
    BY NoCallIs DEF Web!Boot, Web!Free
  <1>3. /\ x \in WebCall /\ x.as = token /\ x.cookie = cookie /\ ~x.old /\ cookie <= Len(sessions)
        /\ \/ token = Nobody /\ x.pc = "refresh" /\ x.for = "start"
           \/ token # Nobody /\ x.pc = "sent" /\ x.for = "boot"
    <2>1. CASE token = Nobody
      BY <1>1, <1>2, <2>1, SentIs, PcsAre
    <2>2. CASE token # Nobody
      BY <1>1, <1>2, <2>2, SentIs, PcsAre
    <2>3. QED
      BY <2>1, <2>2
  <1> HIDE DEF x
  <1>4. /\ call \in [Requests -> WebCall] /\ call' \in [Requests -> WebCall]
        /\ call'[c] = x /\ \A d \in Requests \ {c} : call'[d] = call[d]
    BY <1>1, <1>2, <1>3 DEF WebTyped
  <1>5. WebTyped'
    <2>1. Way(x, Len(sessions), broken)
      BY <1>3 DEF Way
    <2>2. QED
      BY <1>1, <1>2, <1>4, <2>1 DEF WebTyped
  <1>6. WebFresh'
    BY <1>1, <1>2, <1>3, <1>4 DEF WebFresh
  <1>7. WebKept => WebKept'
    BY <1>2, <1>4 DEF WebKept
  <1>8. \A d \in Requests : Stages(call'[d]) => d = c
    BY <1>1, <1>2, <1>4 DEF WebApart, Stages
  <1>9. WebGoing'
    BY <1>1, <1>2, <1>3, <1>4, <1>7, <1>8 DEF WebGoing
  <1>10. WebApart'
    BY <1>1, <1>2, <1>8 DEF WebApart, RowOf
  <1>11. \A d \in Requests : ~Asks(call'[d])
    BY <1>1, <1>2, <1>3, <1>4 DEF WebApart, Asks
  <1>12. OnStage(c)' /\ Stages(call'[c])
    BY <1>1, <1>2, <1>3, <1>4, <1>11 DEF WebApart, OnStage, AllOf, RowOf, Stages
  <1>13. WebOne'
    BY <1>8, <1>12 DEF WebOne
  <1>14. QED
    BY <1>5, <1>6, <1>9, <1>10, <1>13, WebThen

\* Rows of refresh_tokens die, with a call that will bring another or take the session.
LEMMA WebDimmed ==
  ASSUME Web!WebInv, NEW c \in Requests, NEW pc \in {"persist", "signedout"},
         call[c].pc = (IF pc = "persist" THEN "rotate" ELSE "signout"), Web!Goto(c, pc),
         sessions' \in Seq(WebRow), Len(sessions') = Len(sessions),
         \A i \in 1..Len(sessions) : sessions'[i].user = sessions[i].user,
         pc = "persist" => \A i \in 1..Len(sessions) \ {call[c].cookie} : sessions'[i] = sessions[i],
         token' = token, cookie' = cookie, user' = user, booted' = booted, outbox' = outbox,
         leftover' = leftover, broken' = broken
  PROVE  Web!WebInv'
  <1> DEFINE x == [call[c] EXCEPT !.pc = pc]
  <1>1. WebTyped /\ WebFresh /\ WebGoing /\ WebApart /\ WebOne
    BY WebIs
  <1>2. call[c] \in WebCall /\ Way(call[c], Len(sessions), broken) /\ Len(sessions) \in Nat
        /\ cookie \in Nat /\ cookie <= Len(sessions)
        /\ \A d \in Requests : call[d].cookie \in Nat /\ call[d].cookie <= Len(sessions)
    BY <1>1, LenProperties DEF WebTyped, WebCall, Way
  <1>3. x \in WebCall /\ x.pc = pc /\ x.for = call[c].for /\ x.as = call[c].as
        /\ x.cookie = call[c].cookie /\ x.old = call[c].old
    <2>1. pc \in Web!Pcs
      BY PcsAre
    <2>2. QED
      BY <1>2, <2>1, GoesOnWeb
  <1>4. call' = [call EXCEPT ![c] = x]
    BY DEF Web!Goto
  <1> HIDE DEF x
  <1>5. /\ call \in [Requests -> WebCall] /\ call' \in [Requests -> WebCall]
        /\ call'[c] = x /\ \A d \in Requests \ {c} : call'[d] = call[d]
    BY <1>1, <1>3, <1>4 DEF WebTyped
  <1>6. WebTyped'
    <2>1. \A d \in Requests : Way(call'[d], Len(sessions), broken)
      BY <1>1, <1>2, <1>3, <1>5 DEF WebTyped, Way
    <2>2. QED
      BY <1>1, <1>5, <2>1 DEF WebTyped
  <1>7. \A i \in Nat : i # 0 /\ i <= Len(sessions) => sessions'[i].user = sessions[i].user
    BY <1>2
  <1>8. \A u : /\ RowOf(cookie, u) => RowOf(cookie, u)'
               /\ \A d \in Requests : RowOf(call[d].cookie, u) => RowOf(call[d].cookie, u)'
    <2>1. \A d \in Requests : call'[d].cookie = call[d].cookie
      BY <1>3, <1>5
    <2>2. QED
      BY <1>2, <1>7, <2>1 DEF RowOf
  <1>9. \E d \in Requests : call'[d].pc = pc
    BY <1>3, <1>5
  <1>10. WebFresh'
    <2>1. CASE pc = "signedout"
      BY <1>1, <1>2, <1>3, <1>5, <1>7, <1>9, <2>1 DEF WebFresh
    <2>2. CASE pc = "persist"
      <3>1. \A d \in Requests \ {c} : call[d].pc \in {"renewed", "signedin"} =>
                sessions'[call[d].cookie] = sessions[call[d].cookie]
        BY <1>1, <1>2, <2>2 DEF WebFresh
      <3>2. \A d \in Requests : call[d].pc = "signedout" => call'[d].pc = "signedout"
        BY <1>5, <2>2
      <3>3. QED
        BY <1>1, <1>2, <1>3, <1>5, <2>2, <3>1, <3>2 DEF WebFresh
    <2>3. QED
      BY <2>1, <2>2
  <1>11. WebKept'
    BY <1>9 DEF WebKept
  <1>12. WebGoing'
    BY <1>11 DEF WebGoing
  <1>13. \A d \in Requests : (Stages(call'[d]) <=> Stages(call[d])) /\ (Asks(call'[d]) <=> Asks(call[d]))
    BY <1>3, <1>5 DEF Stages, Asks
  <1>14. WebApart'
    BY <1>1, <1>3, <1>5, <1>8, <1>13 DEF WebApart
  <1>15. \A d \in Requests : call'[d].cookie = call[d].cookie /\ call'[d].as = call[d].as /\ call'[d].for = call[d].for
    BY <1>3, <1>5
  <1>16. \A u : AllOf(u) => AllOf(u)'
    BY <1>8, <1>13, <1>15 DEF AllOf
  <1>17. NoStage => NoStage'
    BY <1>13, <1>16 DEF NoStage
  <1>18. \A d \in Requests : OnStage(d) => OnStage(d)'
    BY <1>8, <1>13, <1>15, <1>16 DEF OnStage
  <1>19. WebOne'
    BY <1>1, <1>13, <1>17, <1>18 DEF WebOne
  <1>20. QED
    BY <1>6, <1>10, <1>12, <1>14, <1>19, WebThen

\* Rotate, and the revocations of logout.
LEMMA DimmingKept ==
  ASSUME Web!WebInv, NEW c \in Requests, Web!Rotate(c) \/ Web!Revoke(c)
  PROVE  Web!WebInv'
  <1>1. WebTyped
    BY WebIs
  <1>2. /\ sessions \in Seq(WebRow) /\ Len(sessions) \in Nat /\ DOMAIN sessions = 1..Len(sessions)
        /\ call[c].cookie \in Nat /\ call[c].cookie <= Len(sessions)
        /\ call[c].pc \in {"rotate", "persist"} => call[c].cookie # 0
        /\ \A i \in 1..Len(sessions) : sessions[i] \in WebRow
    BY <1>1, LenProperties, ElementOfSeq DEF WebTyped, WebCall, Way
  <1>3. /\ token' = token /\ cookie' = cookie /\ user' = user /\ booted' = booted /\ outbox' = outbox
        /\ leftover' = leftover /\ broken' = broken
    BY DEF Web!Rotate, Web!Revoke, Web!page
  <1>4. ASSUME NEW n \in Nat, NEW s, s \in [1..n -> WebRow]
        PROVE  s \in Seq(WebRow) /\ Len(s) = n
    BY <1>4, LenProperties, SeqDef
  <1>5. CASE Web!Rotate(c)
    <2> DEFINE k == call[c].cookie
    <2>1. k \in 1..Len(sessions) /\ Web!Goto(c, "persist") /\ call[c].pc = "rotate"
          /\ sessions' = [sessions EXCEPT ![k].live = FALSE]
      BY <1>2, <1>5 DEF Web!Rotate, Web!At
    <2> HIDE DEF k
    <2>2. /\ sessions' \in [1..Len(sessions) -> WebRow]
          /\ \A i \in 1..Len(sessions) : sessions'[i].user = sessions[i].user
          /\ \A i \in 1..Len(sessions) \ {k} : sessions'[i] = sessions[i]
      <3>1. sessions \in [1..Len(sessions) -> WebRow]
        BY <1>2
      <3>2. QED
        BY <2>1, <3>1 DEF WebRow
    <2>3. sessions' \in Seq(WebRow) /\ Len(sessions') = Len(sessions)
      BY <1>2, <1>4, <2>2
    <2>4. QED
      BY <1>3, <2>1, <2>2, <2>3, WebDimmed DEF k
  <1>6. CASE Web!Revoke(c)
    <2>1. PICK all \in BOOLEAN : sessions' = Web!Revoked(c, all)
      BY <1>6 DEF Web!Revoke
    <2>2. Web!Goto(c, "signedout") /\ call[c].pc = "signout"
      BY <1>6 DEF Web!Revoke, Web!At
    <2>3. \A i \in 1..Len(sessions) : sessions'[i] = [sessions[i] EXCEPT !.live = FALSE] \/ sessions'[i] = sessions[i]
      BY <1>2, <2>1 DEF Web!Revoked
    <2>4. \A i \in 1..Len(sessions) : sessions'[i] \in WebRow /\ sessions'[i].user = sessions[i].user
      BY <1>2, <2>3 DEF WebRow
    <2>5. sessions' \in [1..Len(sessions) -> WebRow]
      <3>1. sessions' = [i \in 1..Len(sessions) |-> sessions'[i]]
        BY <1>2, <2>1 DEF Web!Revoked
      <3>2. QED
        BY <2>4, <3>1
    <2>6. sessions' \in Seq(WebRow) /\ Len(sessions') = Len(sessions)
      BY <1>2, <1>4, <2>5
    <2>7. QED
      BY <1>3, <2>2, <2>4, <2>6, WebDimmed
  <1>7. QED
    BY <1>5, <1>6

\* A refresh or a sign-in issues a row, which the call brings.
LEMMA WebIssued ==
  ASSUME Web!WebInv, NEW c \in Requests, NEW pc \in {"renewed", "signedin"}, NEW u \in Web!Whose, NEW x \in WebCall,
         call[c].pc = (IF pc = "renewed" THEN "persist" ELSE "signin"),
         u = (IF pc = "renewed" THEN sessions[call[c].cookie].user ELSE call[c].as),
         x.pc = pc, x.cookie = Len(sessions) + 1, x.as = u, x.for = call[c].for, x.old = call[c].old,
         call' = [call EXCEPT ![c] = x], sessions' = Append(sessions, [user |-> u, live |-> TRUE]),
         token' = token, cookie' = cookie, user' = user, booted' = booted, outbox' = outbox,
         leftover' = leftover, broken' = broken
  PROVE  Web!WebInv'
  <1> DEFINE fresh == [user |-> u, live |-> TRUE]
  <1>1. WebTyped /\ WebFresh /\ WebGoing /\ WebApart /\ WebOne
    BY WebIs
  <1>2. call[c] \in WebCall /\ Len(sessions) \in Nat /\ sessions \in Seq(WebRow)
        /\ cookie \in Nat /\ cookie <= Len(sessions)
        /\ \A d \in Requests : /\ call[d].cookie \in Nat /\ call[d].cookie <= Len(sessions)
                               /\ Way(call[d], Len(sessions), broken)
    BY <1>1, LenProperties DEF WebTyped, WebCall, Way
  <1>3. fresh \in WebRow /\ fresh.user = u /\ fresh.live
    BY DEF WebRow
  <1> HIDE DEF fresh
  <1>4. /\ sessions' \in Seq(WebRow) /\ Len(sessions') = Len(sessions) + 1
        /\ \A i \in 1..Len(sessions) : sessions'[i] = sessions[i]
        /\ sessions'[Len(sessions) + 1] = fresh
    <2>1. sessions' = Append(sessions, fresh)
      BY DEF fresh
    <2>2. QED
      BY <1>2, <1>3, <2>1, AppendProperties
  <1>5. /\ call \in [Requests -> WebCall] /\ call' \in [Requests -> WebCall]
        /\ call'[c] = x /\ \A d \in Requests \ {c} : call'[d] = call[d]
    BY <1>1 DEF WebTyped
  <1>6. WebTyped'
    <2>1. \A d \in Requests \ {c} : Way(call[d], Len(sessions) + 1, broken)
      BY <1>2 DEF Way
    <2>2. Way(x, Len(sessions) + 1, broken)
      <3>1. Way(call[c], Len(sessions), broken) /\ call[c].pc \in {"persist", "signin"}
        BY <1>2
      <3>2. QED
        BY <1>2, <3>1 DEF Way
    <2>3. \A d \in Requests : Way(call'[d], Len(sessions'), broken')
      BY <1>4, <1>5, <2>1, <2>2
    <2>4. cookie' \in Nat /\ cookie' <= Len(sessions')
      BY <1>2, <1>4
    <2>5. QED
      BY <1>1, <1>4, <1>5, <2>3, <2>4 DEF WebTyped
  <1>7. \A i \in Nat : i # 0 /\ i <= Len(sessions) => sessions'[i] = sessions[i]
    BY <1>2, <1>4
  <1>8. WebFresh'
    <2>1. ASSUME NEW d \in Requests \ {c}, call'[d].pc \in {"renewed", "signedin"}
          PROVE  /\ call'[d].cookie # 0 /\ call'[d].cookie # cookie
                 /\ \A e \in Requests \ {d} : call'[e].cookie # call'[d].cookie
                 /\ sessions'[call'[d].cookie].user = call'[d].as
                 /\ \/ call'[d].old \/ broken \/ sessions'[call'[d].cookie].live
                    \/ \E e \in Requests : call'[e].pc = "signedout"
      <3>1. call'[d] = call[d] /\ call[d].cookie # 0 /\ call[d].cookie <= Len(sessions)
            /\ sessions'[call[d].cookie] = sessions[call[d].cookie]
        BY <1>1, <1>2, <1>5, <1>7, <2>1 DEF WebFresh
      <3>2. \A e \in Requests \ {d} : call'[e].cookie # call'[d].cookie
        <4>1. call'[c].cookie # call'[d].cookie
          BY <1>2, <1>5, <3>1
        <4>2. \A e \in Requests \ {d, c} : call'[e].cookie # call'[d].cookie
          BY <1>1, <1>5, <2>1, <3>1 DEF WebFresh
        <4>3. QED
          BY <4>1, <4>2
      <3>3. (\E e \in Requests : call[e].pc = "signedout") => \E e \in Requests : call'[e].pc = "signedout"
        BY <1>5
      <3>4. QED
        BY <1>1, <1>5, <2>1, <3>1, <3>2, <3>3 DEF WebFresh
    <2>2. /\ call'[c].cookie # 0 /\ call'[c].cookie # cookie
          /\ \A e \in Requests \ {c} : call'[e].cookie # call'[c].cookie
          /\ sessions'[call'[c].cookie].user = call'[c].as
          /\ sessions'[call'[c].cookie].live
      BY <1>2, <1>3, <1>4, <1>5
    <2>3. QED
      BY <2>1, <2>2 DEF WebFresh
  <1>9. WebKept => WebKept'
    <2>1. \A d \in Requests : call[d].pc \in {"persist", "renewed", "signedout"} =>
              call'[d].pc \in {"persist", "renewed", "signedout"}
      BY <1>5
    <2>2. cookie # 0 /\ sessions[cookie].live => cookie' # 0 /\ sessions'[cookie'].live
      BY <1>2, <1>7
    <2>3. QED
      BY <2>1, <2>2 DEF WebKept
  <1>10. \A d \in Requests : /\ Stages(call'[d]) <=> Stages(call[d])
                             /\ Asks(call'[d]) <=> Asks(call[d])
                             /\ call'[d].for = call[d].for
                             /\ call'[d].pc = "idle" <=> call[d].pc = "idle"
    BY <1>5 DEF Stages, Asks
  <1>11. WebGoing'
    BY <1>1, <1>9, <1>10 DEF WebGoing
  <1>12. \A v : RowOf(cookie, v) => RowOf(cookie, v)'
    BY <1>2, <1>7 DEF RowOf
  <1>13. WebApart'
    BY <1>1, <1>10, <1>12 DEF WebApart
  <1>14. \A v : \A d \in Requests : (d # c \/ pc = "renewed") /\ RowOf(call[d].cookie, v) => RowOf(call[d].cookie, v)'
    <2>1. ASSUME NEW v, NEW d \in Requests, d # c \/ pc = "renewed", RowOf(call[d].cookie, v)
          PROVE  call'[d].cookie = 0 \/ sessions'[call'[d].cookie].user = v
      <3>1. CASE d # c
        BY <1>2, <1>5, <1>7, <2>1, <3>1 DEF RowOf
      <3>2. CASE d = c
        <4>1. pc = "renewed" /\ call[c].pc = "persist" /\ call[c].cookie # 0
          BY <1>2, <2>1, <3>2 DEF Way
        <4>2. sessions[call[c].cookie].user = v /\ u = v
          BY <2>1, <3>2, <4>1 DEF RowOf
        <4>3. QED
          BY <1>3, <1>4, <1>5, <3>2, <4>2
      <3>3. QED
        BY <3>1, <3>2
    <2>2. QED
      BY <2>1 DEF RowOf
  <1>15. pc = "signedin" => ~Asks(call[c]) /\ ~Stages(call[c])
    BY <1>2 DEF Asks, Stages, Way
  <1>16. \A v : AllOf(v) => AllOf(v)'
    BY <1>10, <1>12, <1>14, <1>15 DEF AllOf
  <1>17. NoStage => NoStage'
    BY <1>10, <1>16 DEF NoStage
  <1>18. \A d \in Requests : Stages(call[d]) /\ OnStage(d) => OnStage(d)'
    <2>1. ASSUME NEW d \in Requests, Stages(call[d]), OnStage(d)
          PROVE  OnStage(d)'
      <3>1. d # c \/ pc = "renewed"
        BY <1>15, <2>1
      <3>2. call[d].for # "start" => call'[d].as = call[d].as
        <4>1. CASE d # c
          BY <1>5, <4>1
        <4>2. CASE d = c /\ call[d].for # "start"
          <5>1. call[c].pc = "persist" /\ call[c].cookie # 0 /\ u = sessions[call[c].cookie].user
            BY <1>2, <3>1, <4>2 DEF Way
          <5>2. RowOf(call[c].cookie, call[c].as)
            BY <2>1, <4>2 DEF OnStage
          <5>3. QED
            BY <1>5, <4>2, <5>1, <5>2 DEF RowOf
        <4>3. QED
          BY <4>1, <4>2
      <3>3. call[d].for # "start" => AllOf(call[d].as)' /\ RowOf(call[d].cookie, call[d].as)'
        <4>1. SUFFICES ASSUME call[d].for # "start"
                       PROVE  AllOf(call[d].as)' /\ RowOf(call[d].cookie, call[d].as)'
          OBVIOUS
        <4>2. PICK v : v = call[d].as
          OBVIOUS
        <4>3. AllOf(v) /\ RowOf(call[d].cookie, v) /\ call'[d].as = v
          BY <2>1, <3>2, <4>1, <4>2 DEF OnStage
        <4>4. AllOf(v)' /\ RowOf(call[d].cookie, v)'
          BY <1>14, <1>16, <3>1, <4>3
        <4>5. QED
          BY <4>3, <4>4 DEF AllOf, RowOf
      <3>4. QED
        BY <1>10, <2>1, <3>3 DEF OnStage
    <2>2. QED
      BY <2>1
  <1>19. WebOne'
    BY <1>1, <1>10, <1>17, <1>18 DEF WebOne
  <1>20. QED
    BY <1>6, <1>8, <1>11, <1>13, <1>19, WebThen

\* Persist of a refresh, and the sign-ins on the server.
LEMMA IssuesKept ==
  ASSUME Web!WebInv, NEW c \in Requests, Web!Persist(c) \/ Web!login(c) \/ Web!googleIdTokenLogin(c)
  PROVE  Web!WebInv'
  <1>1. WebTyped
    BY WebIs
  <1>2. /\ call[c] \in WebCall /\ Way(call[c], Len(sessions), broken) /\ Len(sessions) \in Nat
        /\ \A i \in 1..Len(sessions) : sessions[i].user \in Web!Whose
    <2>1. \A i \in 1..Len(sessions) : sessions[i] \in WebRow
      BY <1>1, ElementOfSeq DEF WebTyped
    <2>2. QED
      BY <1>1, <2>1, LenProperties DEF WebTyped, WebRow
  <1>3. call[c].cookie \in Nat /\ call[c].cookie <= Len(sessions) /\ call[c].as \in Web!Whose
    BY <1>2 DEF WebCall, Way
  <1>4. CASE Web!Persist(c)
    <2> DEFINE u == sessions[call[c].cookie].user
               x == [call[c] EXCEPT !.pc = "renewed", !.cookie = Len(sessions) + 1, !.as = u]
    <2>1. /\ call[c].pc = "persist" /\ sessions' = Append(sessions, [user |-> u, live |-> TRUE])
          /\ call' = [call EXCEPT ![c] = x]
          /\ token' = token /\ cookie' = cookie /\ user' = user /\ booted' = booted /\ outbox' = outbox
          /\ leftover' = leftover /\ broken' = broken
      BY <1>4 DEF Web!Persist, Web!At, Web!Issue, Web!page
    <2>2. u \in Web!Whose /\ "renewed" \in Web!Pcs /\ Len(sessions) + 1 \in Nat
      BY <1>2, <1>3, <2>1, PcsAre DEF Way
    <2> HIDE DEF u
    <2>3. /\ x \in WebCall /\ x.pc = "renewed" /\ x.cookie = Len(sessions) + 1 /\ x.as = u
          /\ x.for = call[c].for /\ x.old = call[c].old
      BY <1>2, <2>2 DEF WebCall
    <2> HIDE DEF x
    <2>4. u = sessions[call[c].cookie].user
      BY DEF u
    <2>5. QED
      BY <2>1, <2>2, <2>3, <2>4, WebIssued
  <1>5. CASE Web!login(c) \/ Web!googleIdTokenLogin(c)
    <2> DEFINE x == [call[c] EXCEPT !.pc = "signedin", !.cookie = Len(sessions) + 1]
    <2>1. /\ call[c].pc = "signin" /\ sessions' = Append(sessions, [user |-> call[c].as, live |-> TRUE])
          /\ call' = [call EXCEPT ![c] = x]
          /\ token' = token /\ cookie' = cookie /\ user' = user /\ booted' = booted /\ outbox' = outbox
          /\ leftover' = leftover /\ broken' = broken
      BY <1>5 DEF Web!login, Web!googleIdTokenLogin, Web!attachSession, Web!At, Web!Issue, Web!page
    <2>2. "signedin" \in Web!Pcs /\ Len(sessions) + 1 \in Nat
      BY <1>2, PcsAre
    <2>3. /\ x \in WebCall /\ x.pc = "signedin" /\ x.cookie = Len(sessions) + 1 /\ x.as = call[c].as
          /\ x.for = call[c].for /\ x.old = call[c].old
      BY <1>2, <2>2 DEF WebCall
    <2> HIDE DEF x
    <2>4. QED
      BY <1>3, <2>1, <2>3, WebIssued
  <1>6. QED
    BY <1>4, <1>5

\* Signing in or out: the other calls are older than that.
LEMMA WebSettles ==
  ASSUME Web!WebInv, NEW c \in Requests, NEW x \in WebCall, call[c].pc # "idle", call[c].for # "flush",
         call' = [d \in Requests |-> IF d = c THEN x ELSE [call[d] EXCEPT !.old = ~Web!Free(d)]],
         leftover' = call[c].old, sessions' = sessions, broken' = broken, booted' = booted, outbox' \in BOOLEAN,
         token' \in Web!Whose, user' \in Web!Whose, cookie' \in Nat, cookie' <= Len(sessions),
         Way(x, Len(sessions), broken), x.pc \notin {"renewed", "signedin"}, ~Asks(x), x.cookie \in {0, cookie'},
         \A d \in Requests \ {c} : call[d].pc \in {"renewed", "signedin"} => call[d].cookie # cookie',
         token' # Nobody => cookie' # 0 /\ sessions[cookie'].user = token',
         token' # Nobody \/ user' # Nobody \/ Stages(x) =>
             \/ leftover' \/ broken \/ (cookie' # 0 /\ sessions[cookie'].live)
             \/ \E d \in Requests \ {c} : call[d].pc = "signedout",
         \/ leftover'
         \/ ~Stages(x) /\ user' = token'
         \/ Stages(x) /\ x.for = "google" /\ x.as = token' /\ x.cookie = cookie' /\ sessions[cookie'].user = token'
  PROVE  Web!WebInv'
  <1>1. WebTyped /\ WebFresh /\ WebApart
    BY WebIs
  <1>2. \A d \in Requests : call[d] \in WebCall /\ Way(call[d], Len(sessions), broken)
    BY <1>1 DEF WebTyped
  <1>3. ASSUME NEW d \in Requests \ {c}
        PROVE  /\ call'[d] \in WebCall /\ call'[d].pc = call[d].pc /\ call'[d].for = call[d].for
               /\ call'[d].cookie = call[d].cookie /\ call'[d].as = call[d].as
               /\ call'[d].old <=> call[d].pc # "idle"
               /\ Way(call'[d], Len(sessions), broken)
    <2>1. CASE Web!Free(d)
      <3>1. call'[d] = [Web!NoCall EXCEPT !.old = FALSE] /\ call[d] = Web!NoCall
        BY <2>1 DEF Web!Free
      <3>2. call'[d] = Web!NoCall
        BY <3>1 DEF Web!NoCall
      <3>3. QED
        BY <1>2, <3>1, <3>2, NoCallIs
    <2>2. CASE ~Web!Free(d)
      <3>1. call'[d] = [call[d] EXCEPT !.old = TRUE] /\ call[d].pc # "idle"
        BY <1>2, <2>2 DEF Web!Free, Way
      <3>2. /\ call'[d] \in WebCall /\ call'[d].pc = call[d].pc /\ call'[d].for = call[d].for
            /\ call'[d].cookie = call[d].cookie /\ call'[d].as = call[d].as /\ call'[d].old
        BY <1>2, <3>1 DEF WebCall
      <3>3. QED
        BY <1>2, <3>1, <3>2 DEF Way
    <2>3. QED
      BY <2>1, <2>2
  <1>4. call'[c] = x /\ call' \in [Requests -> WebCall]
    <2>1. call' = [d \in Requests |-> call'[d]] /\ call'[c] = x
      BY Zenon
    <2>2. \A d \in Requests : call'[d] \in WebCall
      BY <1>3, <2>1
    <2>3. QED
      BY <2>1, <2>2, Zenon
  <1>5. WebTyped'
    <2>1. \A d \in Requests : Way(call'[d], Len(sessions), broken)
      BY <1>3, <1>4
    <2>2. leftover' \in BOOLEAN
      BY <1>2 DEF WebCall
    <2>3. QED
      BY <1>1, <1>4, <2>1, <2>2 DEF WebTyped
  <1>6. WebFresh'
    <2>1. ASSUME NEW d \in Requests, call'[d].pc \in {"renewed", "signedin"}
          PROVE  /\ call'[d].cookie # 0 /\ call'[d].cookie # cookie'
                 /\ sessions'[call'[d].cookie].user = call'[d].as
                 /\ call'[d].old /\ d # c /\ call[d].pc = call'[d].pc
      <3>1. d # c
        BY <1>4, <2>1
      <3>2. /\ call'[d].pc = call[d].pc /\ call'[d].cookie = call[d].cookie /\ call'[d].as = call[d].as
            /\ call'[d].old <=> call[d].pc # "idle"
        BY <1>3, <3>1
      <3>3. call[d].cookie # 0 /\ sessions[call[d].cookie].user = call[d].as /\ call[d].cookie # cookie'
        BY <1>1, <2>1, <3>1, <3>2 DEF WebFresh
      <3>4. QED
        BY <2>1, <3>1, <3>2, <3>3
    <2>2. ASSUME NEW d \in Requests, call'[d].pc \in {"renewed", "signedin"}, NEW e \in Requests \ {d}
          PROVE  call'[e].cookie # call'[d].cookie
      <3>1. d # c /\ call'[d].cookie = call[d].cookie /\ call[d].pc \in {"renewed", "signedin"}
        BY <1>3, <2>1, <2>2
      <3>2. CASE e # c
        <4>1. call'[e].cookie = call[e].cookie
          BY <1>3, <3>2
        <4>2. QED
          BY <1>1, <2>2, <3>1, <4>1 DEF WebFresh
      <3>3. CASE e = c
        <4>1. call'[e].cookie \in {0, cookie'}
          BY <1>4, <3>3
        <4>2. call'[d].cookie # 0 /\ call'[d].cookie # cookie'
          BY <2>1, <2>2
        <4>3. QED
          BY <4>1, <4>2
      <3>4. QED
        BY <3>2, <3>3
    <2>3. QED
      BY <2>1, <2>2 DEF WebFresh
  <1>7. \A d \in Requests : Stages(call'[d]) => d = c
    BY <1>3 DEF Stages
  <1>8. \A d \in Requests : ~Asks(call'[d])
    <2>1. ~Asks(call'[c])
      BY <1>4
    <2>2. ASSUME NEW d \in Requests \ {c}
          PROVE  ~Asks(call'[d])
      <3>1. call'[d].pc = "idle" \/ call'[d].old
        BY <1>3
      <3>2. QED
        BY <3>1 DEF Asks
    <2>3. QED
      BY <2>1, <2>2
  <1>9. WebGoing'
    <2>1. token' # Nobody \/ user' # Nobody \/ Stages(x) => WebKept'
      BY <1>3 DEF WebKept
    <2>2. QED
      BY <1>4, <1>7, <2>1 DEF WebGoing
  <1>10. WebApart'
    <2>1. booted
      BY <1>1 DEF WebApart
    <2>2. QED
      BY <1>7, <2>1 DEF WebApart, RowOf
  <1>11. WebOne'
    <2>1. CASE leftover'
      BY <2>1 DEF WebOne
    <2>2. CASE ~Stages(x) /\ user' = token'
      <3>1. \A d \in Requests : ~Stages(call'[d])
        BY <1>4, <1>7, <2>2
      <3>3. NoStage'
        <4>1. user' # Nobody => AllOf(user)'
          BY <1>8, <2>2 DEF AllOf, RowOf
        <4>2. QED
          BY <1>8, <2>2, <4>1 DEF NoStage
      <3>4. QED
        BY <3>1, <3>3 DEF WebOne
    <2>3. CASE Stages(x) /\ x.for = "google" /\ x.as = token' /\ x.cookie = cookie' /\ sessions[cookie'].user = token'
      <3>1. OnStage(c)'
        BY <1>4, <1>8, <2>3 DEF OnStage, AllOf, RowOf
      <3>2. Stages(call'[c])
        BY <1>4, <2>3
      <3>3. QED
        BY <1>7, <3>1, <3>2 DEF WebOne
    <2>4. QED
      BY <2>1, <2>2, <2>3
  <1>12. QED
    BY <1>5, <1>6, <1>9, <1>10, <1>11, WebThen

\* The answer of a sign-in is stored, a sign-out ends or fails.
LEMMA SettlesKept ==
  ASSUME Web!WebInv, NEW c \in Requests,
         \/ Web!LoggedIn(c) \/ Web!Finished(c) \/ Web!SignOutFails(c)
         \/ Web!LeavePage(c) /\ call[c].for = "logout"
  PROVE  Web!WebInv'
  <1>1. WebTyped /\ WebFresh
    BY WebIs
  <1>2. /\ call[c] \in WebCall /\ Way(call[c], Len(sessions), broken) /\ Len(sessions) \in Nat
        /\ call[c].cookie \in Nat /\ call[c].cookie <= Len(sessions) /\ call[c].as \in Web!Whose
        /\ cookie \in Nat /\ cookie <= Len(sessions) /\ user \in Web!Whose /\ outbox \in BOOLEAN
        /\ Nobody \in Web!Whose
    BY <1>1, LenProperties DEF WebTyped, WebCall, Way, Web!Whose
  <1>3. ASSUME call[c].pc = "signedin"
        PROVE  /\ call[c].cookie # 0 /\ sessions[call[c].cookie].user = call[c].as
               /\ \A d \in Requests \ {c} : call[d].cookie # call[c].cookie
               /\ \/ call[c].old \/ broken \/ sessions[call[c].cookie].live
                  \/ \E d \in Requests \ {c} : call[d].pc = "signedout"
    BY <1>1, <1>3 DEF WebFresh
  <1>4. CASE Web!LoggedIn(c)
    <2>1. /\ call[c].for = "login" /\ user' = call[c].as /\ call[c].pc = "signedin" /\ cookie' = call[c].cookie
          /\ token' = call[c].as /\ booted' = booted /\ outbox' = outbox /\ sessions' = sessions /\ broken' = broken
          /\ leftover' = call[c].old
          /\ call' = [d \in Requests |-> IF d = c THEN Web!NoCall ELSE [call[d] EXCEPT !.old = ~Web!Free(d)]]
      BY <1>4 DEF Web!LoggedIn, Web!StoreAnswer, Web!At, Web!Settle
    <2>2. ~Stages(Web!NoCall) /\ ~Asks(Web!NoCall)
      BY NoCallIs DEF Stages, Asks
    <2>3. QED
      BY <1>2, <1>3, <2>1, <2>2, NoCallIs, WebSettles
  <1>5. CASE Web!Finished(c)
    <2> DEFINE x == [call[c] EXCEPT !.pc = "sent"]
    <2>1. /\ call[c].for = "google" /\ user' = user /\ call[c].pc = "signedin" /\ cookie' = call[c].cookie
          /\ token' = call[c].as /\ booted' = booted /\ outbox' = outbox /\ sessions' = sessions /\ broken' = broken
          /\ leftover' = call[c].old
          /\ call' = [d \in Requests |-> IF d = c THEN x ELSE [call[d] EXCEPT !.old = ~Web!Free(d)]]
      BY <1>5 DEF Web!Finished, Web!StoreAnswer, Web!At, Web!Settle
    <2>2. "sent" \in Web!Pcs
      BY PcsAre
    <2>3. /\ x \in WebCall /\ x.pc = "sent" /\ x.for = call[c].for /\ x.as = call[c].as
          /\ x.cookie = call[c].cookie /\ x.old = call[c].old
      BY <1>2, <2>2, GoesOnWeb
    <2> HIDE DEF x
    <2>4. Way(x, Len(sessions), broken) /\ ~Asks(x) /\ (Stages(x) <=> ~call[c].old)
      BY <1>2, <2>1, <2>3 DEF Way, Asks, Stages
    <2>5. QED
      BY <1>2, <1>3, <2>1, <2>3, <2>4, WebSettles
  <1>6. CASE Web!SignOutFails(c) \/ (Web!LeavePage(c) /\ call[c].for = "logout")
    <2>1. PICK kept \in BOOLEAN :
              /\ call[c].for = "logout" /\ call[c].pc \in {"signout", "signedout"} /\ Web!SignedOut(c, kept)
              /\ outbox' \in {outbox, TRUE} /\ sessions' = sessions /\ broken' = broken
      BY <1>6 DEF Web!SignOutFails, Web!LeavePage, Web!At
    <2>2. /\ user' = Nobody /\ token' = Nobody /\ cookie' \in {cookie, 0} /\ booted' = booted
          /\ leftover' = call[c].old
          /\ call' = [d \in Requests |-> IF d = c THEN Web!NoCall ELSE [call[d] EXCEPT !.old = ~Web!Free(d)]]
      BY <2>1 DEF Web!SignedOut, Web!Settle
    <2>3. ~Stages(Web!NoCall) /\ ~Asks(Web!NoCall)
      BY NoCallIs DEF Stages, Asks
    <2>4. \A d \in Requests \ {c} : call[d].pc \in {"renewed", "signedin"} => call[d].cookie # cookie'
      BY <1>1, <2>2 DEF WebFresh
    <2>5. outbox' \in BOOLEAN
      BY <1>2, <2>1
    <2>6. QED
      BY <1>2, <2>1, <2>2, <2>3, <2>4, <2>5, NoCallIs, WebSettles
  <1>7. QED
    BY <1>4, <1>5, <1>6

\* The answer of a queued sign-out takes the cookie, whoever is in.
LEMMA FlushKept ==
  ASSUME Web!WebInv, NEW c \in Requests, Web!LeavePage(c), call[c].for # "logout"
  PROVE  Web!WebInv'
  <1>1. WebTyped /\ WebFresh /\ WebGoing /\ WebApart /\ WebOne
    BY WebIs
  <1>2. /\ call[c].pc = "signedout" /\ cookie' = 0 /\ call' = [call EXCEPT ![c] = Web!NoCall]
        /\ token' = token /\ user' = user /\ booted' = booted /\ leftover' = leftover /\ outbox' = outbox
        /\ sessions' = sessions /\ broken' = broken
    BY DEF Web!LeavePage, Web!At, Web!End
  <1>3. broken
    <2>1. Way(call[c], Len(sessions), broken)
      BY <1>1 DEF WebTyped
    <2>2. QED
      BY <1>2, <2>1 DEF Way
  <1>4. /\ call \in [Requests -> WebCall] /\ call' \in [Requests -> WebCall]
        /\ call'[c] = Web!NoCall /\ \A d \in Requests \ {c} : call'[d] = call[d]
    BY <1>1, <1>2, NoCallIs DEF WebTyped
  <1>5. WebTyped'
    <2>1. Len(sessions) \in Nat
      BY <1>1, LenProperties DEF WebTyped
    <2>2. \A d \in Requests : Way(call'[d], Len(sessions), broken)
      BY <1>1, <1>4, <2>1, NoCallIs DEF WebTyped
    <2>3. QED
      BY <1>1, <1>2, <1>4, <2>1, <2>2 DEF WebTyped
  <1>6. WebFresh'
    BY <1>1, <1>2, <1>3, <1>4, NoCallIs DEF WebFresh
  <1>7. WebGoing'
    BY <1>2, <1>3 DEF WebGoing, WebKept
  <1>8. \A d \in Requests : /\ Stages(call'[d]) <=> Stages(call[d])
                            /\ Asks(call'[d]) <=> Asks(call[d])
    <2>1. ~Stages(call[c]) /\ ~Asks(call[c])
      <3>1. Way(call[c], Len(sessions), broken)
        BY <1>1 DEF WebTyped
      <3>2. QED
        BY <1>2, <3>1 DEF Stages, Asks, Way
    <2>2. ~Stages(Web!NoCall) /\ ~Asks(Web!NoCall)
      BY NoCallIs DEF Stages, Asks
    <2>3. QED
      BY <1>4, <2>1, <2>2
  <1>9. \A d \in Requests : Stages(call'[d]) \/ Asks(call'[d]) => call'[d] = call[d]
    BY <1>4, <1>8, NoCallIs DEF Stages, Asks
  <1>10. \A v : AllOf(v) => AllOf(v)'
    BY <1>2, <1>8, <1>9 DEF AllOf, RowOf
  <1>11. WebApart'
    BY <1>1, <1>2, <1>4, <1>8, NoCallIs DEF WebApart, RowOf
  <1>12. NoStage => NoStage'
    BY <1>2, <1>8, <1>10 DEF NoStage
  <1>13. ASSUME NEW d \in Requests, Stages(call[d]), OnStage(d)
         PROVE  OnStage(d)'
    <2>1. call'[d] = call[d]
      BY <1>8, <1>9, <1>13
    <2>2. QED
      BY <1>2, <1>8, <1>10, <1>13, <2>1 DEF OnStage, RowOf
  <1>14. WebOne'
    BY <1>1, <1>2, <1>8, <1>12, <1>13 DEF WebOne
  <1>15. QED
    BY <1>5, <1>6, <1>7, <1>11, <1>14, WebThen

\* The page is loaded anew.
LEMMA ReloadKept ==
  ASSUME Web!WebInv, Web!Reload
  PROVE  Web!WebInv'
  <1>1. WebTyped /\ WebFresh /\ WebGoing /\ WebApart /\ WebOne
    BY WebIs
  <1>2. /\ booted' = FALSE /\ user' = Nobody /\ token' = token /\ cookie' = cookie /\ outbox' = outbox
        /\ sessions' = sessions /\ leftover' = leftover /\ call' = [c \in Requests |-> Web!NoCall]
        /\ broken' = (broken \/ \E c \in Requests : call[c].pc \in {"rotate", "persist", "renewed", "signedin", "signedout"})
    BY DEF Web!Reload
  <1>3. call' \in [Requests -> WebCall] /\ \A c \in Requests : call'[c] = Web!NoCall
    BY <1>2, NoCallIs
  <1>4. broken' \in BOOLEAN /\ (broken => broken') /\ Len(sessions) \in Nat /\ Nobody \in Web!Whose
    BY <1>1, <1>2, LenProperties DEF WebTyped, Web!Whose
  <1>5. \A c \in Requests : call'[c].pc = "idle" /\ ~Stages(call'[c]) /\ ~Asks(call'[c])
    BY <1>3, NoCallIs DEF Stages, Asks
  <1>6. WebTyped'
    BY <1>1, <1>2, <1>3, <1>4, NoCallIs DEF WebTyped
  <1>7. WebFresh'
    BY <1>5 DEF WebFresh
  <1>8. token # Nobody => WebKept'
    BY <1>1, <1>2 DEF WebGoing, WebKept
  <1>9. WebGoing'
    BY <1>2, <1>5, <1>8 DEF WebGoing
  <1>10. WebApart'
    BY <1>1, <1>2, <1>5 DEF WebApart, RowOf
  <1>11. WebOne'
    BY <1>2, <1>5 DEF WebOne
  <1>12. QED
    BY <1>6, <1>7, <1>9, <1>10, <1>11, WebThen

\* The session is not renewed, and the stored token dropped.
LEMMA RefreshFailsKept ==
  ASSUME Web!WebInv, NEW c \in Requests, Web!RefreshFails(c)
  PROVE  Web!WebInv'
  <1>1. broken \in BOOLEAN
    BY WebIs DEF WebTyped
  <1>2. /\ call[c].pc = "denied" /\ token' = Nobody /\ Web!Throw(c) /\ cookie' = cookie /\ user' = user
        /\ booted' = booted /\ outbox' = outbox /\ sessions' = sessions /\ broken' = broken
    BY DEF Web!RefreshFails, Web!At
  <1>3. QED
    BY <1>1, <1>2, ThrowKept

\* A call that may have shown its user ends, and what it set stays.
LEMMA WebShown ==
  ASSUME Web!WebInv, NEW c \in Requests, call[c].pc \in {"profile", "unbooted"}, Web!Mark(c), Web!End(c),
         token' \in Web!Whose, user' \in Web!Whose,
         cookie' = cookie, booted' = booted, outbox' = outbox, sessions' = sessions, broken' = broken,
         \/ call[c].pc = "profile" /\ token' = token /\ user' = call[c].as
         \/ call[c].pc = "unbooted" /\ token' = Nobody /\ user' = Nobody
  PROVE  Web!WebInv'
  <1>1. WebTyped /\ WebFresh /\ WebGoing /\ WebApart /\ WebOne
    BY WebIs
  <1>2. call[c] \in WebCall /\ Way(call[c], Len(sessions), broken) /\ Len(sessions) \in Nat
    BY <1>1, LenProperties DEF WebTyped
  <1>3. call' = [call EXCEPT ![c] = Web!NoCall] /\ leftover' = (leftover \/ call[c].old)
    BY DEF Web!End, Web!Mark
  <1>4. /\ call \in [Requests -> WebCall] /\ call' \in [Requests -> WebCall]
        /\ call'[c] = Web!NoCall /\ \A d \in Requests \ {c} : call'[d] = call[d]
    BY <1>1, <1>3, NoCallIs DEF WebTyped
  <1>5. leftover' \in BOOLEAN /\ (leftover => leftover') /\ (call[c].old => leftover')
    BY <1>1, <1>2, <1>3 DEF WebTyped, WebCall
  <1>6. WebTyped'
    <2>1. \A d \in Requests : Way(call'[d], Len(sessions), broken)
      BY <1>1, <1>2, <1>4, NoCallIs DEF WebTyped
    <2>2. QED
      BY <1>1, <1>4, <1>5, <2>1 DEF WebTyped
  <1>7. WebFresh'
    BY <1>1, <1>4, NoCallIs DEF WebFresh
  <1>8. WebKept => WebKept'
    BY <1>2, <1>4, <1>5 DEF WebKept
  <1>9. ~leftover' => Stages(call[c])
    <2>1. call[c].for \in {"boot", "start", "google"}
      BY <1>2 DEF WebCall, Way
    <2>2. QED
      BY <1>5, <2>1 DEF Stages
  <1>10. \A d \in Requests : Stages(call'[d]) => Stages(call[d]) /\ d # c /\ call'[d] = call[d]
    BY <1>4, NoCallIs DEF Stages
  <1>11. \A d \in Requests : Asks(call'[d]) => Asks(call[d]) /\ d # c /\ call'[d] = call[d]
    BY <1>4, NoCallIs DEF Asks
  <1>12. ~leftover' => \A d \in Requests : ~Stages(call'[d])
    BY <1>1, <1>9, <1>10 DEF WebApart
  <1>13. WebGoing'
    <2>1. CASE leftover'
      BY <2>1 DEF WebGoing, WebKept
    <2>2. CASE ~leftover'
      <3>1. CASE call[c].pc = "profile"
        <4>1. WebKept
          BY <1>1, <1>2, <1>9, <2>2, <3>1 DEF WebGoing, Way
        <4>2. QED
          BY <1>8, <4>1 DEF WebGoing
      <3>2. CASE call[c].pc = "unbooted"
        BY <1>12, <2>2, <3>2 DEF WebGoing
      <3>3. QED
        BY <3>1, <3>2
    <2>3. QED
      BY <2>1, <2>2
  <1>14. WebApart'
    <2>1. booted
      BY <1>1, <1>2 DEF WebApart, Way
    <2>2. QED
      BY <1>1, <1>10, <2>1 DEF WebApart, RowOf
  <1>15. WebOne'
    <2>1. CASE leftover'
      BY <2>1 DEF WebOne
    <2>2. CASE ~leftover'
      <3>1. OnStage(c) /\ \A d \in Requests : ~Stages(call'[d])
        BY <1>1, <1>5, <1>9, <1>12, <2>2 DEF WebOne
      <3>2. CASE call[c].pc = "profile"
        <4>1. AllOf(call[c].as) /\ call[c].as # Nobody
          BY <1>2, <3>1, <3>2 DEF OnStage, Way
        <4>2. PICK v : v = call[c].as
          OBVIOUS
        <4>3. AllOf(v)' /\ user' = v /\ v # Nobody
          BY <1>11, <3>2, <4>1, <4>2 DEF AllOf, RowOf
        <4>4. AllOf(user)'
          BY <4>3 DEF AllOf, RowOf
        <4>5. QED
          BY <3>1, <4>3, <4>4 DEF WebOne, NoStage
      <3>3. CASE call[c].pc = "unbooted"
        <4>1. call[c].for # "google"
          BY <1>2, <3>3 DEF Way
        <4>2. \A d \in Requests : ~Asks(call'[d])
          BY <1>11, <3>1, <4>1 DEF OnStage
        <4>3. QED
          BY <3>1, <3>3, <4>2 DEF WebOne, NoStage
      <3>4. QED
        BY <3>2, <3>3
    <2>3. QED
      BY <2>1, <2>2
  <1>16. QED
    BY <1>6, <1>7, <1>13, <1>14, <1>15, WebThen

\* The profile is shown, or the start given up.
LEMMA ShowsKept ==
  ASSUME Web!WebInv, NEW c \in Requests, Web!ShowProfile(c) \/ Web!Unboot(c)
  PROVE  Web!WebInv'
  <1>1. token \in Web!Whose /\ call[c].as \in Web!Whose /\ Nobody \in Web!Whose
    BY WebIs DEF WebTyped, WebCall, Web!Whose
  <1>2. CASE Web!ShowProfile(c)
    <2>1. /\ call[c].pc = "profile" /\ token' = token /\ user' = call[c].as /\ Web!Mark(c) /\ Web!End(c)
          /\ cookie' = cookie /\ booted' = booted /\ outbox' = outbox /\ sessions' = sessions /\ broken' = broken
      BY <1>2 DEF Web!ShowProfile, Web!At
    <2>2. QED
      BY <1>1, <2>1, WebShown
  <1>3. CASE Web!Unboot(c)
    <2>1. /\ call[c].pc = "unbooted" /\ token' = Nobody /\ user' = Nobody /\ Web!Mark(c) /\ Web!End(c)
          /\ cookie' = cookie /\ booted' = booted /\ outbox' = outbox /\ sessions' = sessions /\ broken' = broken
      BY <1>3 DEF Web!Unboot, Web!At
    <2>2. QED
      BY <1>1, <2>1, WebShown
  <1>4. QED
    BY <1>2, <1>3

\* The answer of a refresh brings the cookie and the token; the call goes on, or is over.
LEMMA WebRenewed ==
  ASSUME Web!WebInv, NEW c \in Requests, NEW x \in WebCall, call[c].pc = "renewed", call' = [call EXCEPT ![c] = x],
         cookie' = call[c].cookie, token' = call[c].as, Web!Mark(c), booted' = booted, outbox' = outbox,
         sessions' = sessions, broken' = broken,
         \/ call[c].for = "start" /\ x = Web!NoCall /\ user' = call[c].as
         \/ /\ call[c].for # "start" /\ user' = user /\ x.pc = "again" /\ x.for = call[c].for
            /\ x.as = call[c].as /\ x.cookie = call[c].cookie /\ x.old = call[c].old
  PROVE  Web!WebInv'
  <1>1. WebTyped /\ WebFresh /\ WebGoing /\ WebApart /\ WebOne
    BY WebIs
  <1>2. call[c] \in WebCall /\ Way(call[c], Len(sessions), broken) /\ Len(sessions) \in Nat
        /\ call[c].cookie \in Nat /\ call[c].cookie <= Len(sessions) /\ call[c].as \in Web!Whose
    BY <1>1, LenProperties DEF WebTyped, WebCall, Way
  <1>3. leftover' \in BOOLEAN /\ (leftover => leftover') /\ (call[c].old => leftover')
    BY <1>1, <1>2 DEF WebTyped, WebCall, Web!Mark
  <1>4. /\ call \in [Requests -> WebCall] /\ call' \in [Requests -> WebCall]
        /\ call'[c] = x /\ \A d \in Requests \ {c} : call'[d] = call[d]
    BY <1>1 DEF WebTyped
  <1>5. /\ cookie' # 0 /\ cookie' # cookie /\ sessions[cookie'].user = token'
        /\ \A d \in Requests \ {c} : call[d].cookie # cookie'
        /\ \/ leftover' \/ broken \/ sessions[cookie'].live
           \/ \E d \in Requests : call[d].pc = "signedout"
    BY <1>1, <1>3 DEF WebFresh
  <1>6. WebTyped'
    <2>1. Way(x, Len(sessions), broken)
      BY <1>2, NoCallIs DEF Way
    <2>2. \A d \in Requests : Way(call'[d], Len(sessions), broken)
      BY <1>1, <1>4, <2>1 DEF WebTyped
    <2>3. user' \in Web!Whose
      BY <1>1, <1>2 DEF WebTyped
    <2>4. QED
      BY <1>1, <1>2, <1>3, <1>4, <2>2, <2>3 DEF WebTyped
  <1>7. WebFresh'
    <2>1. \A d \in Requests : call'[d].pc \in {"renewed", "signedin"} => d # c /\ call'[d] = call[d]
      BY <1>4, NoCallIs
    <2>2. x.cookie \in {0, cookie'}
      BY NoCallIs
    <2>3. (\E d \in Requests : call[d].pc = "signedout") => \E d \in Requests : call'[d].pc = "signedout"
      BY <1>4
    <2>4. ASSUME NEW d \in Requests, call'[d].pc \in {"renewed", "signedin"}
          PROVE  /\ call'[d].cookie # 0 /\ call'[d].cookie # cookie'
                 /\ \A e \in Requests \ {d} : call'[e].cookie # call'[d].cookie
                 /\ sessions'[call'[d].cookie].user = call'[d].as
                 /\ \/ call'[d].old \/ broken' \/ sessions'[call'[d].cookie].live
                    \/ \E e \in Requests : call'[e].pc = "signedout"
      <3>1. d # c /\ call'[d] = call[d] /\ call[d].cookie # 0 /\ call[d].cookie # cookie'
        BY <1>1, <1>5, <2>1, <2>4 DEF WebFresh
      <3>2. \A e \in Requests \ {d} : call'[e].cookie # call'[d].cookie
        BY <1>1, <1>4, <2>2, <2>4, <3>1 DEF WebFresh
      <3>3. QED
        BY <1>1, <2>3, <2>4, <3>1, <3>2 DEF WebFresh
    <2>5. QED
      BY <2>4 DEF WebFresh
  <1>8. WebKept'
    BY <1>4, <1>5 DEF WebKept
  <1>9. WebGoing'
    BY <1>8 DEF WebGoing
  <1>10. \A d \in Requests : Stages(call'[d]) => Stages(call[d])
    BY <1>4, NoCallIs DEF Stages
  <1>11. booted
    BY <1>1, <1>2 DEF WebApart, Way
  <1>12. WebApart'
    BY <1>1, <1>5, <1>10, <1>11 DEF WebApart, RowOf
  <1>13. WebOne'
    <2>1. CASE leftover'
      BY <2>1 DEF WebOne
    <2>2. CASE ~leftover' /\ ~Stages(call[c])
      <3>1. ~call[c].old /\ call[c].for = "data" /\ ~leftover
        BY <1>2, <1>3, <2>2 DEF Stages, Way, WebCall
      <3>2. x.pc = "again" /\ x.for = "data" /\ x.cookie = cookie' /\ user' = user /\ x.old = call[c].old /\ Asks(call[c])
        BY <3>1 DEF Asks
      <3>3. \A d \in Requests : (Stages(call'[d]) <=> Stages(call[d])) /\ (Asks(call'[d]) <=> Asks(call[d]))
        BY <1>4, <3>1, <3>2 DEF Stages, Asks
      <3>4. \A d \in Requests : call'[d].cookie = call[d].cookie /\ call'[d].as = call[d].as /\ call'[d].for = call[d].for
        BY <1>4, <3>1
      <3>5. \A v : AllOf(v) => v = token'
        <4>1. \A v : AllOf(v) => RowOf(cookie', v)
          BY <3>2 DEF AllOf
        <4>2. QED
          BY <1>5, <4>1 DEF RowOf
      <3>6. \A v : AllOf(v) => AllOf(v)'
        BY <1>5, <3>3, <3>4, <3>5 DEF AllOf, RowOf
      <3>7. NoStage => NoStage'
        BY <3>2, <3>3, <3>6 DEF NoStage
      <3>8. ASSUME NEW d \in Requests, Stages(call[d]), OnStage(d)
            PROVE  OnStage(d)'
        <4>1. call[d].for = "google" /\ AllOf(call[d].as) /\ RowOf(call[d].cookie, call[d].as)
          BY <3>2, <3>8 DEF OnStage
        <4>2. PICK v : v = call[d].as
          OBVIOUS
        <4>3. AllOf(v)' /\ RowOf(call[d].cookie, v)' /\ call'[d].as = v /\ call'[d].for = "google"
          BY <3>4, <3>6, <4>1, <4>2 DEF RowOf
        <4>4. QED
          BY <4>3 DEF OnStage, AllOf, RowOf
      <3>9. QED
        BY <1>1, <3>1, <3>3, <3>7, <3>8 DEF WebOne
    <2>3. CASE ~leftover' /\ Stages(call[c])
      <3>1. OnStage(c) /\ \A d \in Requests : Stages(call[d]) => d = c
        BY <1>1, <1>3, <2>3 DEF WebOne, WebApart
      <3>2. \A d \in Requests : Asks(call'[d]) => Asks(call[d]) /\ call'[d].cookie = call[d].cookie
        BY <1>4, NoCallIs DEF Asks
      <3>3. CASE call[c].for = "start"
        <4>1. \A d \in Requests : ~Asks(call'[d]) /\ ~Stages(call'[d])
          BY <1>4, <1>10, <3>1, <3>2, <3>3, NoCallIs DEF OnStage, Stages
        <4>2. user' = token'
          BY <3>3
        <4>3. AllOf(user)'
          BY <1>5, <4>1, <4>2 DEF AllOf, RowOf
        <4>4. QED
          BY <4>1, <4>2, <4>3 DEF WebOne, NoStage
      <3>4. CASE call[c].for # "start"
        <4>1. Stages(call'[c]) /\ x.as = token' /\ x.cookie = cookie' /\ x.for = call[c].for
          BY <1>4, <2>3, <3>4 DEF Stages
        <4>2. PICK v : v = call[c].as
          OBVIOUS
        <4>3. AllOf(v) /\ token' = v
          BY <3>1, <3>4, <4>2 DEF OnStage
        <4>4. AllOf(v)'
          BY <1>5, <3>2, <4>3 DEF AllOf, RowOf
        <4>5. OnStage(c)'
          <5>1. call'[c].as = v /\ RowOf(call[c].cookie, v)'
            BY <1>4, <1>5, <4>1, <4>3 DEF RowOf
          <5>2. AllOf(call[c].as)' /\ RowOf(call[c].cookie, call[c].as)'
            BY <4>4, <5>1 DEF AllOf, RowOf
          <5>3. call[c].for # "google" => user' = Nobody /\ \A d \in Requests : ~Asks(call'[d])
            BY <3>1, <3>2, <3>4 DEF OnStage
          <5>4. call'[c].for = call[c].for
            BY <1>4, <4>1
          <5>5. QED
            BY <3>4, <5>2, <5>3, <5>4 DEF OnStage
        <4>6. QED
          BY <1>10, <3>1, <4>1, <4>5 DEF WebOne
      <3>5. QED
        BY <3>3, <3>4
    <2>4. QED
      BY <2>1, <2>2, <2>3
  <1>14. QED
    BY <1>6, <1>7, <1>9, <1>12, <1>13, WebThen

LEMMA RenewKept ==
  ASSUME Web!WebInv, NEW c \in Requests, Web!Renew(c)
  PROVE  Web!WebInv'
  <1>1. call[c] \in WebCall
    BY WebIs DEF WebTyped
  <1>2. /\ call[c].pc = "renewed" /\ cookie' = call[c].cookie /\ token' = call[c].as /\ Web!Mark(c)
        /\ booted' = booted /\ outbox' = outbox /\ sessions' = sessions /\ broken' = broken
        /\ \/ call[c].for = "start" /\ user' = call[c].as /\ Web!End(c)
           \/ call[c].for # "start" /\ user' = user /\ Web!Goto(c, "again")
    BY DEF Web!Renew, Web!At
  <1>3. CASE call[c].for = "start"
    BY <1>2, <1>3, NoCallIs, WebRenewed DEF Web!End
  <1>4. CASE call[c].for # "start"
    <2> DEFINE x == [call[c] EXCEPT !.pc = "again"]
    <2>1. call' = [call EXCEPT ![c] = x] /\ user' = user
      BY <1>2, <1>4 DEF Web!Goto
    <2>2. "again" \in Web!Pcs
      BY PcsAre
    <2>3. /\ x \in WebCall /\ x.pc = "again" /\ x.for = call[c].for /\ x.as = call[c].as
          /\ x.cookie = call[c].cookie /\ x.old = call[c].old
      BY <1>1, <2>2, GoesOnWeb
    <2> HIDE DEF x
    <2>4. QED
      BY <1>2, <1>4, <2>1, <2>3, WebRenewed
  <1>5. QED
    BY <1>3, <1>4

\* Every step of the browser keeps the invariant.
LEMMA WebStep ==
  ASSUME Web!WebInv, Web!Next \/ UNCHANGED browser
  PROVE  Web!WebInv'
  <1>1. CASE UNCHANGED browser
    BY <1>1 DEF browser, Web!WebInv, Web!TypeOK, Web!Paths, Web!Fresh, Web!Going, Web!OneSession, Web!At, Web!Free,
        Web!Live, Web!Kept, Web!Stage, Web!All, Web!IsOf
  <1>2. CASE Web!Reload
    BY <1>2, ReloadKept
  <1>3. ASSUME NEW c \in Requests,
            \/ Web!Fetch(c) \/ Web!Boot(c) \/ Web!Accept(c) \/ Web!Refuse(c) \/ Web!RefuseAgain(c)
            \/ Web!ShowProfile(c) \/ Web!Unboot(c)
            \/ Web!FindToken(c) \/ Web!Rotate(c) \/ Web!Persist(c) \/ Web!RefreshFails(c) \/ Web!Renew(c)
            \/ \E u \in People : Web!LogIn(c, u) \/ Web!finish(c, u)
            \/ Web!login(c) \/ Web!googleIdTokenLogin(c) \/ Web!LoggedIn(c) \/ Web!Finished(c)
            \/ Web!SignOut(c) \/ Web!Revoke(c) \/ Web!LeavePage(c) \/ Web!SignOutFails(c) \/ Web!Flush(c)
            \/ Web!Lost(c) \/ Web!Fail(c)
        PROVE Web!WebInv'
    BY <1>3, BegunKept, BootKept, QuietStepsKept, ShowsKept, DimmingKept, IssuesKept, RefreshFailsKept, RenewKept,
        SettlesKept, FlushKept
  <1>4. QED
    BY <1>1, <1>2, <1>3 DEF Web!Next

LEMMA WebAtFirst == Web!Init => Web!WebInv
  <1> SUFFICES ASSUME Web!Init PROVE Web!WebInv
    OBVIOUS
  <1>1. /\ token = Nobody /\ cookie = 0 /\ user = Nobody /\ booted = FALSE /\ sessions = <<>> /\ outbox = FALSE
        /\ leftover = FALSE /\ broken = FALSE /\ call = [c \in Requests |-> Web!NoCall]
    BY DEF Web!Init
  <1>2. \A c \in Requests : call[c] = Web!NoCall /\ call[c].pc = "idle" /\ ~Stages(call[c]) /\ ~Asks(call[c])
    BY <1>1, NoCallIs DEF Stages, Asks
  <1>3. WebTyped
    <2>1. sessions \in Seq(WebRow) /\ Len(sessions) = 0 /\ Nobody \in Web!Whose
      BY <1>1, EmptySeq DEF Web!Whose
    <2>2. call \in [Requests -> WebCall]
      BY <1>1, NoCallIs
    <2>3. \A c \in Requests : Way(call[c], Len(sessions), broken)
      BY <1>2, <2>1, NoCallIs
    <2>4. token \in Web!Whose /\ user \in Web!Whose /\ cookie \in Nat /\ cookie <= Len(sessions)
      BY <1>1, <2>1
    <2>5. booted \in BOOLEAN /\ outbox \in BOOLEAN /\ leftover \in BOOLEAN /\ broken \in BOOLEAN
      BY <1>1
    <2>6. QED
      BY <2>1, <2>2, <2>3, <2>4, <2>5 DEF WebTyped
  <1>4. WebFresh /\ WebGoing /\ WebApart /\ WebOne
    BY <1>1, <1>2 DEF WebFresh, WebGoing, WebApart, WebOne, RowOf
  <1>5. QED
    BY <1>3, <1>4, WebIs

\* What the invariant says of who is shown as signed in.
LEMMA WebPromises == Web!WebInv => SessionKept /\ TokenFollowsUser
  <1> SUFFICES ASSUME Web!WebInv PROVE SessionKept /\ TokenFollowsUser
    OBVIOUS
  <1>1. WebTyped /\ WebGoing /\ WebApart /\ WebOne
    BY WebIs
  <1>2. SessionKept
    BY <1>1 DEF WebGoing, WebKept, SessionKept, Web!SessionKept, Web!Live
  <1>3. TokenFollowsUser
    <2>1. SUFFICES ASSUME ~leftover, booted,
                          \A c \in Requests : call[c].for \notin {"boot", "start", "google"} /\ ~call[c].old
                   PROVE  token \in {Nobody, user}
      BY DEF TokenFollowsUser, Web!TokenFollowsUser
    <2>2. \A c \in Requests : ~Stages(call[c])
      BY <2>1 DEF Stages
    <2>3. NoStage
      BY <1>1, <2>1, <2>2 DEF WebOne
    <2>4. QED
      BY <2>3 DEF NoStage, AllOf
  <1>4. QED
    BY <1>2, <1>3

(***************************************************************************)
(* What holds of every behaviour                                           *)
(***************************************************************************)

LEMMA BrowserKeeps == AllSpec => [](Set!SettingsInv /\ Web!WebInv)
  <1>1. AllInit => Set!SettingsInv /\ Web!WebInv
    BY SettingsAtFirst, WebAtFirst DEF AllInit
  <1>2. Set!SettingsInv /\ Web!WebInv /\ [AllNext]_allVars => Set!SettingsInv' /\ Web!WebInv'
    <2> SUFFICES ASSUME Set!SettingsInv, Web!WebInv, [AllNext]_allVars
                 PROVE  Set!SettingsInv' /\ Web!WebInv'
      OBVIOUS
    <2>1. Set!Next \/ UNCHANGED settings
      BY DEF AllNext, allVars
    <2>2. Web!Next \/ UNCHANGED browser
      BY DEF AllNext, allVars
    <2>3. QED
      BY <2>1, <2>2, SettingsStep, WebStep
  <1>3. QED
    BY <1>1, <1>2, PTL DEF AllSpec

\* Calls refused together do not sign the user out: whoever is shown as signed in holds a
\* cookie that will be accepted, or a call on its way brings one (api() of lib/api.ts with
\* rotateRefreshToken), unless a sign-out is on its way or something failed.
THEOREM SessionIsKept == AllSpec => []SessionKept
  BY BrowserKeeps, WebPromises, PTL

\* The token in localStorage is that of the user shown, however signing in and out
\* follow each other (AuthProvider, login and logout of authController).
THEOREM TokenAlwaysFollowsUser == AllSpec => []TokenFollowsUser
  BY BrowserKeeps, WebPromises, PTL

\* The browser keeps its session, and the token in localStorage is of the user it shows.
THEOREM BrowserAlwaysKeepsSession == AllSpec => []BrowserKeepsSession
  BY SessionIsKept, TokenAlwaysFollowsUser, PTL DEF BrowserKeepsSession

\* The catalog of packages that getCatalogConfig serves is the default, or what one save
\* of one page wrote, whatever pages save at once and whatever answers are lost.
THEOREM CatalogIsAlwaysWhole == AllSpec => []CatalogIsWhole
  BY BrowserKeeps, SettingsWhole, PTL

(***************************************************************************)
(* Streaks                                                                 *)
(***************************************************************************)

\* A streak, and the days it is counted from.
LEMMA StreakIs ==
  ASSUME NEW s \in Streak!Streak
  PROVE  s.length \in 0..Days /\ s.last \in 0..Days
  BY DEF Streak!Streak

\* Days that are added take nothing from what a streak covers.
LEMMA CoversMore ==
  ASSUME NEW s, NEW days, NEW more, days \subseteq more, Streak!Covers(s, days)
  PROVE  Streak!Covers(s, more)
  BY DEF Streak!Covers

\* What Counted returns.
LEMMA CountedIs ==
  ASSUME NEW s \in Streak!Streak, NEW day \in 1..Days, Streak!Sound(s), s.last <= day
  PROVE  LET c == Streak!Counted(s, day)
         IN  /\ c \in Streak!Streak /\ Streak!Sound(c) /\ c.last = day
             /\ \/ c = s /\ s.last = day
                \/ s.last < day /\ s.last # 0 /\ s.last + 1 = day /\ c.length = s.length + 1
                \/ s.last < day /\ (s.last = 0 \/ s.last + 1 < day) /\ c.length = 1
  <1> USE DaysAssumption
  <1>1. s.length \in 0..Days /\ s.last \in 0..Days
    BY StreakIs
  <1>2. CASE s.last = day
    <2>1. Streak!Counted(s, day) = s
      BY <1>2 DEF Streak!Counted
    <2>2. QED
      BY <1>2, <2>1
  <1>3. CASE s.last # 0 /\ s.last + 1 = day
    <2>1. Streak!Counted(s, day) = [length |-> s.length + 1, last |-> day]
      BY <1>1, <1>3 DEF Streak!Counted, Streak!Never
    <2>2. s.length + 1 \in 0..Days /\ s.length + 1 <= day
      BY <1>1, <1>3 DEF Streak!Sound
    <2>3. QED
      BY <1>1, <1>3, <2>1, <2>2 DEF Streak!Sound, Streak!Streak
  <1>4. CASE s.last < day /\ (s.last = 0 \/ s.last + 1 < day)
    <2>1. Streak!Counted(s, day) = [length |-> 1, last |-> day]
      BY <1>1, <1>4 DEF Streak!Counted, Streak!Never
    <2>2. 1 \in 0..Days
      OBVIOUS
    <2>3. QED
      BY <1>4, <2>1, <2>2 DEF Streak!Sound, Streak!Streak
  <1>5. QED
    BY <1>1, <1>2, <1>3, <1>4

\* One day more is covered with the day.
LEMMA CountedCovers ==
  ASSUME NEW s \in Streak!Streak, NEW day \in 1..Days, Streak!Sound(s), s.last <= day,
         NEW days, Streak!Covers(s, days)
  PROVE  Streak!Covers(Streak!Counted(s, day), days \cup {day})
  <1> DEFINE c == Streak!Counted(s, day)
  <1>1. /\ c \in Streak!Streak /\ Streak!Sound(c) /\ c.last = day
        /\ \/ c = s /\ s.last = day
           \/ s.last < day /\ s.last # 0 /\ s.last + 1 = day /\ c.length = s.length + 1
           \/ s.last < day /\ (s.last = 0 \/ s.last + 1 < day) /\ c.length = 1
    BY CountedIs
  <1>2. s.length \in Nat /\ s.last \in Nat /\ c.length \in Nat /\ c.last \in Nat
    BY <1>1, StreakIs, DaysAssumption
  <1> HIDE DEF c
  <1>3. ASSUME NEW k \in 0..(c.length - 1)
        PROVE  c.last - k \in days \cup {day}
    <2>1. CASE c = s
      BY <1>3, <2>1 DEF Streak!Covers
    <2>2. CASE k = 0
      BY <1>1, <1>2, <2>2
    <2>3. CASE k # 0 /\ c # s
      <3>1. k - 1 \in 0..(s.length - 1) /\ c.last - k = s.last - (k - 1)
        BY <1>1, <1>2, <2>3
      <3>2. s.last - (k - 1) \in days
        BY <3>1 DEF Streak!Covers
      <3>3. QED
        BY <3>1, <3>2
    <2>4. QED
      BY <2>1, <2>2, <2>3
  <1>4. QED
    BY <1>3 DEF c, Streak!Covers

\* And all that went before are counted, when they were until then.
LEMMA CountedExact ==
  ASSUME NEW s \in Streak!Streak, NEW day \in 1..Days, Streak!Sound(s), s.last <= day,
         NEW days \in SUBSET Nat, Streak!Covers(s, days), Streak!Exact(s, days),
         \A d \in days : d <= day
  PROVE  Streak!Exact(Streak!Counted(s, day), days \cup {day})
  <1> DEFINE c == Streak!Counted(s, day)
  <1>1. /\ c \in Streak!Streak /\ Streak!Sound(c) /\ c.last = day
        /\ \/ c = s /\ s.last = day
           \/ s.last < day /\ s.last # 0 /\ s.last + 1 = day /\ c.length = s.length + 1
           \/ s.last < day /\ (s.last = 0 \/ s.last + 1 < day) /\ c.length = 1
    BY CountedIs
  <1>2. s.length \in Nat /\ s.last \in Nat /\ c.length \in Nat /\ c.last \in Nat /\ day \in Nat \ {0}
    BY <1>1, StreakIs, DaysAssumption
  <1> HIDE DEF c
  <1>3. \A d \in days : d \in Nat /\ d <= s.last
    BY DEF Streak!Exact
  <1>4. c.length > 0
    BY <1>1, <1>2 DEF Streak!Sound, Streak!Never
  <1>5. s.last - s.length \notin days
    BY DEF Streak!Exact
  <1>6. c.last - c.length # day
    BY <1>1, <1>2, <1>4
  <1>7. c.last - c.length \notin days
    <2>1. CASE c = s
      BY <1>5, <2>1
    <2>2. CASE s.last # 0 /\ s.last + 1 = day /\ c.length = s.length + 1
      <3>1. c.last - c.length = s.last - s.length
        BY <1>1, <1>2, <2>2
      <3>2. QED
        BY <1>5, <3>1
    <2>3. CASE s.last # 0 /\ s.last + 1 < day /\ c.length = 1
      <3>1. c.last - c.length > s.last
        BY <1>1, <1>2, <2>3
      <3>2. QED
        BY <1>2, <1>3, <3>1
    <2>4. CASE s.last = 0
      <3>1. s.length = 0
        BY <1>2, <2>4 DEF Streak!Sound
      <3>2. days = {}
        BY <1>2, <3>1 DEF Streak!Exact
      <3>3. QED
        BY <3>2
    <2>5. QED
      BY <1>1, <2>1, <2>2, <2>3, <2>4
  <1>8. \A d \in days \cup {day} : d <= c.last
    BY <1>1
  <1>9. QED
    BY <1>4, <1>6, <1>7, <1>8 DEF c, Streak!Exact

\* The heartbeat that is none.
LEMMA StillIs ==
  /\ Streak!Still \in Streak!Beat /\ Streak!Still.pc = "idle"
  /\ Streak!Unseen \in Streak!Streak /\ Streak!Sound(Streak!Unseen) /\ Streak!Unseen.last = 0
  /\ Streak!Unseen.length = 0
  /\ Streak!Still.login = Streak!Unseen /\ Streak!Still.learning = Streak!Unseen
  <1>1. Streak!Unseen \in Streak!Streak /\ Streak!Unseen.last = 0 /\ Streak!Unseen.length = 0
    BY DaysAssumption DEF Streak!Unseen, Streak!Streak, Streak!Never
  <1>2. Streak!Sound(Streak!Unseen)
    BY <1>1 DEF Streak!Sound, Streak!Never
  <1>3. FALSE \in BOOLEAN /\ 0 \in 0..Days
    BY DaysAssumption
  <1>4. Streak!Still \in Streak!Beat
    BY <1>1, <1>3 DEF Streak!Still, Streak!Beat, Streak!Never
  <1>5. Streak!Still.login = Streak!Unseen /\ Streak!Still.learning = Streak!Unseen /\ Streak!Still.pc = "idle"
    BY DEF Streak!Still
  <1>6. QED
    BY <1>1, <1>2, <1>4, <1>5

\* The invariant of the state a step leads to, from its parts.
LEMMA StreaksThen ==
  ASSUME Streak!TypeOK', Streak!Sound(login'), Streak!Sound(learning'), login'.last <= today',
         learning'.last <= today', \A b \in Requests : Streak!BeatIsSound(beats[b])', Streak!StreaksAreDays'
  PROVE  Streak!StreaksInv'
  BY DEF Streak!StreaksInv

\* Midnight comes.
LEMMA MidnightKept ==
  ASSUME Streak!StreaksInv, Streak!Midnight
  PROVE  Streak!StreaksInv'
  <1> USE DaysAssumption
  <1>1. today \in 1..Days /\ today < Days /\ today' = today + 1
        /\ UNCHANGED <<login, learning, beats, visits, lessons, overlaid>>
    BY DEF Streak!Midnight, Streak!StreaksInv, Streak!TypeOK
  <1>2. Streak!TypeOK /\ login \in Streak!Streak /\ learning \in Streak!Streak /\ beats \in [Requests -> Streak!Beat]
    BY DEF Streak!StreaksInv, Streak!TypeOK
  <1>3. Streak!TypeOK'
    BY <1>1, <1>2 DEF Streak!TypeOK
  <1>4. login.last \in Nat /\ learning.last \in Nat
    BY <1>2, StreakIs
  <1>5. login'.last <= today' /\ learning'.last <= today' /\ Streak!Sound(login') /\ Streak!Sound(learning')
    BY <1>1, <1>4 DEF Streak!StreaksInv
  <1>6. ASSUME NEW b \in Requests
        PROVE  Streak!BeatIsSound(beats[b])'
    <2>1. PICK q \in Streak!Beat : q = beats[b]
      BY <1>2
    <2>2. q.login.last \in Nat /\ q.learning.last \in Nat /\ q.day \in 0..Days
      BY StreakIs DEF Streak!Beat
    <2>3. Streak!BeatIsSound(q)
      BY <2>1 DEF Streak!StreaksInv
    <2>4. q.login.last <= today' /\ q.learning.last <= today'
      BY <1>1, <2>2, <2>3 DEF Streak!BeatIsSound
    <2>5. q.pc = "sent" => q.day \in 1..today'
      BY <1>1, <2>2, <2>3 DEF Streak!BeatIsSound
    <2>6. Streak!BeatIsSound(q)'
      BY <1>1, <2>3, <2>4, <2>5 DEF Streak!BeatIsSound
    <2>7. QED
      BY <1>1, <2>1, <2>6
  <1>7. Streak!StreaksAreDays'
    BY <1>1 DEF Streak!StreaksInv, Streak!StreaksAreDays
  <1>8. QED
    BY <1>3, <1>5, <1>6, <1>7, StreaksThen

\* A heartbeat goes on and the rows stay: it is enough that it fits.
LEMMA BeatGoesOn ==
  ASSUME Streak!StreaksInv, NEW b \in Requests, NEW q \in Streak!Beat, Streak!BeatIsSound(q),
         beats' = [beats EXCEPT ![b] = q],
         UNCHANGED <<today, login, learning, visits, lessons, overlaid>>
  PROVE  Streak!StreaksInv'
  <1>1. Streak!TypeOK /\ beats \in [Requests -> Streak!Beat]
    BY DEF Streak!StreaksInv, Streak!TypeOK
  <1>2. Streak!TypeOK'
    BY <1>1 DEF Streak!TypeOK
  <1>3. ASSUME NEW c \in Requests
        PROVE  Streak!BeatIsSound(beats[c])'
    <2>1. PICK o \in Streak!Beat : o = beats'[c]
      BY <1>2 DEF Streak!TypeOK
    <2>2. o = q \/ o = beats[c]
      BY <1>1, <2>1
    <2>3. Streak!BeatIsSound(o)
      BY <2>2 DEF Streak!StreaksInv
    <2>4. Streak!BeatIsSound(o)'
      BY <2>3 DEF Streak!BeatIsSound
    <2>5. QED
      BY <2>1, <2>4
  <1>4. Streak!StreaksAreDays'
    BY DEF Streak!StreaksInv, Streak!StreaksAreDays
  <1>5. login'.last <= today' /\ learning'.last <= today' /\ Streak!Sound(login') /\ Streak!Sound(learning')
    BY DEF Streak!StreaksInv
  <1>6. QED
    BY <1>2, <1>3, <1>4, <1>5, StreaksThen

\* One that is none fits.
LEMMA StillFits ==
  ASSUME Streak!StreaksInv
  PROVE  Streak!BeatIsSound(Streak!Still)
  <1>1. today \in 1..Days
    BY DEF Streak!StreaksInv, Streak!TypeOK
  <1>2. PICK q : q = Streak!Still
    OBVIOUS
  <1>3. q.pc = "idle" /\ Streak!Sound(q.login) /\ Streak!Sound(q.learning) /\ q.login.last = 0 /\ q.learning.last = 0
    BY <1>2, StillIs
  <1>4. Streak!BeatIsSound(q)
    BY <1>1, <1>3, DaysAssumption DEF Streak!BeatIsSound
  <1>5. QED
    BY <1>2, <1>4

LEMMA BeatFails ==
  ASSUME Streak!StreaksInv, NEW b \in Requests, Streak!Fail(b)
  PROVE  Streak!StreaksInv'
  BY StillIs, StillFits, BeatGoesOn DEF Streak!Fail

\* The row is read.
LEMMA ReadKept ==
  ASSUME Streak!StreaksInv, NEW b \in Requests, NEW learn \in BOOLEAN, Streak!Read(b, learn)
  PROVE  Streak!StreaksInv'
  <1>1. login \in Streak!Streak /\ learning \in Streak!Streak /\ today \in 1..Days
    BY DEF Streak!StreaksInv, Streak!TypeOK
  <1>2. PICK l \in Streak!Streak : l = login
    BY <1>1
  <1>3. PICK m \in Streak!Streak : m = learning
    BY <1>1
  <1>4. PICK q : q = [Streak!Still EXCEPT !.pc = "read", !.learn = learn, !.login = l, !.learning = m]
    OBVIOUS
  <1>5. Streak!Still \in Streak!Beat
    BY StillIs
  <1>6. q \in Streak!Beat /\ q.pc = "read" /\ q.login = l /\ q.learning = m
    BY <1>4, <1>5 DEF Streak!Beat
  <1>7. beats' = [beats EXCEPT ![b] = q]
    BY <1>2, <1>3, <1>4 DEF Streak!Read
  <1>8. Streak!Sound(l) /\ Streak!Sound(m) /\ l.last <= today /\ m.last <= today
        /\ Streak!Covers(l, visits) /\ Streak!Covers(m, lessons)
    BY <1>2, <1>3 DEF Streak!StreaksInv, Streak!StreaksAreDays
  <1>9. Streak!BeatIsSound(q)
    BY <1>2, <1>3, <1>6, <1>8 DEF Streak!BeatIsSound
  <1>10. UNCHANGED <<today, login, learning, visits, lessons, overlaid>>
    BY DEF Streak!Read
  <1>11. QED
    BY <1>6, <1>7, <1>9, <1>10, BeatGoesOn

\* The day is asked for, and the streaks are counted.
LEMMA CountKept ==
  ASSUME Streak!StreaksInv, NEW b \in Requests, Streak!Count(b)
  PROVE  Streak!StreaksInv'
  <1> USE DaysAssumption
  <1>1. /\ today \in 1..Days /\ beats \in [Requests -> Streak!Beat] /\ visits \subseteq 1..today /\ lessons \subseteq visits
    BY DEF Streak!StreaksInv, Streak!TypeOK
  <1>2. PICK o \in Streak!Beat : o = beats[b]
    BY <1>1
  <1>3. PICK d \in 1..Days : d = today
    BY <1>1
  <1>4. /\ o.login \in Streak!Streak /\ o.learning \in Streak!Streak /\ o.learn \in BOOLEAN
        /\ o.pc = "read" /\ Streak!BeatIsSound(o)
    BY <1>2 DEF Streak!Count, Streak!StreaksInv, Streak!Beat
  <1>5. /\ Streak!Sound(o.login) /\ Streak!Sound(o.learning) /\ o.login.last <= d /\ o.learning.last <= d
        /\ Streak!Covers(o.login, visits) /\ Streak!Covers(o.learning, lessons)
        /\ ~o.late => o.login = login /\ o.learning = learning
    BY <1>3, <1>4 DEF Streak!BeatIsSound
  <1>6. PICK l \in Streak!Streak : l = Streak!Counted(o.login, d)
    BY <1>4, <1>5, CountedIs
  <1>7. Streak!Sound(l) /\ l.last = d /\ Streak!Covers(l, visits \cup {d})
    BY <1>4, <1>5, <1>6, CountedIs, CountedCovers
  <1>8. PICK m \in Streak!Streak : m = IF o.learn THEN Streak!Counted(o.learning, d) ELSE o.learning
    BY <1>4, <1>5, CountedIs
  <1>9. Streak!Sound(m) /\ m.last <= d /\ Streak!Covers(m, IF o.learn THEN lessons \cup {d} ELSE lessons)
    <2>1. CASE o.learn
      BY <2>1, <1>4, <1>5, <1>8, CountedIs, CountedCovers
    <2>2. CASE ~o.learn
      BY <2>2, <1>5, <1>8
    <2>3. QED
      BY <2>1, <2>2
  <1>10. PICK q : q = [o EXCEPT !.pc = "sent", !.day = d, !.login = l, !.learning = m]
    OBVIOUS
  <1>11. /\ q \in Streak!Beat /\ q.pc = "sent" /\ q.day = d /\ q.login = l /\ q.learning = m
         /\ q.learn = o.learn /\ q.late = o.late
    <2>1. d \in 0..Days
      BY <1>3
    <2>2. QED
      BY <1>10, <2>1 DEF Streak!Beat
  <1>12. beats' = [beats EXCEPT ![b] = q]
    BY <1>1, <1>2, <1>3, <1>6, <1>8, <1>10 DEF Streak!Count
  <1>13. Streak!BeatIsSound(q)
    <2>1. \A v \in visits : v <= d
      BY <1>1, <1>3
    <2>2. ~q.late => q.login = Streak!Counted(login, q.day)
                     /\ q.learning = IF q.learn THEN Streak!Counted(learning, q.day) ELSE learning
      BY <1>5, <1>6, <1>8, <1>11
    <2>3. q.login.last <= today /\ q.learning.last <= today /\ q.day \in 1..today
      BY <1>3, <1>7, <1>9, <1>11
    <2>4. QED
      BY <1>7, <1>9, <1>11, <2>1, <2>2, <2>3 DEF Streak!BeatIsSound
  <1>14. UNCHANGED <<today, login, learning, visits, lessons, overlaid>>
    BY DEF Streak!Count
  <1>15. QED
    BY <1>11, <1>12, <1>13, <1>14, BeatGoesOn

\* The streaks are written: the others that have read are late.
LEMMA WriteKept ==
  ASSUME Streak!StreaksInv, NEW b \in Requests, Streak!Write(b)
  PROVE  Streak!StreaksInv'
  <1> USE DaysAssumption
  <1>1. /\ today \in 1..Days /\ beats \in [Requests -> Streak!Beat] /\ visits \subseteq 1..today /\ lessons \subseteq visits
        /\ login \in Streak!Streak /\ learning \in Streak!Streak /\ overlaid \in BOOLEAN
    BY DEF Streak!StreaksInv, Streak!TypeOK
  <1>2. PICK o \in Streak!Beat : o = beats[b]
    BY <1>1
  <1>3. /\ o.login \in Streak!Streak /\ o.learning \in Streak!Streak /\ o.learn \in BOOLEAN /\ o.late \in BOOLEAN
        /\ o.pc = "sent" /\ Streak!BeatIsSound(o)
    BY <1>2 DEF Streak!Write, Streak!StreaksInv, Streak!Beat
  <1>4. /\ login' = o.login /\ learning' = o.learning /\ visits' = visits \cup {o.day}
        /\ lessons' = (IF o.learn THEN lessons \cup {o.day} ELSE lessons)
        /\ overlaid' = (overlaid \/ o.late) /\ today' = today
    BY <1>2 DEF Streak!Write
  <1>5. /\ Streak!Sound(o.login) /\ Streak!Sound(o.learning) /\ o.login.last <= today /\ o.learning.last <= today
        /\ o.day \in 1..today
        /\ Streak!Covers(o.login, visits') /\ Streak!Covers(o.learning, lessons')
    BY <1>3, <1>4 DEF Streak!BeatIsSound
  <1>6. ASSUME NEW c \in Requests
        PROVE  beats'[c] \in Streak!Beat /\ Streak!BeatIsSound(beats[c])'
    <2>1. CASE c = b
      <3>1. beats'[c] = Streak!Still
        BY <1>1, <2>1 DEF Streak!Write, Streak!Late
      <3>2. PICK q \in Streak!Beat : q = Streak!Still
        BY StillIs
      <3>3. q.pc = "idle" /\ Streak!Sound(q.login) /\ Streak!Sound(q.learning) /\ q.login.last = 0 /\ q.learning.last = 0
        BY <3>2, StillIs
      <3>4. Streak!BeatIsSound(q)'
        BY <1>1, <1>4, <3>3 DEF Streak!BeatIsSound
      <3>5. QED
        BY <3>1, <3>2, <3>4
    <2>2. CASE c # b
      <3>1. PICK p \in Streak!Beat : p = beats[c]
        BY <1>1
      <3>2. Streak!BeatIsSound(p)
        BY <3>1 DEF Streak!StreaksInv
      <3>3. PICK q : q = [p EXCEPT !.late = p.pc # "idle"]
        OBVIOUS
      <3>4. beats'[c] = q
        BY <1>1, <2>2, <3>1, <3>3 DEF Streak!Write, Streak!Late
      <3>5. \E late \in BOOLEAN : late = (p.pc # "idle")
        BY Zenon
      <3>6. PICK late \in BOOLEAN : late = (p.pc # "idle")
        BY <3>5
      <3>7. q = [p EXCEPT !.late = late]
        BY <3>3, <3>6
      <3>8. /\ q \in Streak!Beat /\ q.pc = p.pc /\ q.learn = p.learn /\ q.day = p.day
            /\ q.login = p.login /\ q.learning = p.learning /\ q.late = late
        BY <3>7 DEF Streak!Beat
      <3>9. Streak!Sound(q.login) /\ Streak!Sound(q.learning) /\ q.login.last <= today' /\ q.learning.last <= today'
        BY <1>4, <3>2, <3>8 DEF Streak!BeatIsSound
      <3>10. q.pc # "idle" => q.late
        BY <3>6, <3>8
      <3>11. visits \subseteq visits' /\ lessons \subseteq lessons'
        BY <1>4
      <3>12. q.pc = "read" => Streak!Covers(q.login, visits') /\ Streak!Covers(q.learning, lessons')
        <4>1. SUFFICES ASSUME q.pc = "read"
                       PROVE  Streak!Covers(q.login, visits') /\ Streak!Covers(q.learning, lessons')
          OBVIOUS
        <4>2. Streak!Covers(q.login, visits) /\ Streak!Covers(q.learning, lessons)
          BY <3>2, <3>8, <4>1 DEF Streak!BeatIsSound
        <4>3. QED
          BY <3>11, <4>2, CoversMore
      <3>13. q.pc = "sent" => /\ q.day \in 1..today'
                              /\ Streak!Covers(q.login, visits' \cup {q.day})
                              /\ Streak!Covers(q.learning, IF q.learn THEN lessons' \cup {q.day} ELSE lessons')
        <4>1. SUFFICES ASSUME q.pc = "sent"
                       PROVE  /\ q.day \in 1..today'
                              /\ Streak!Covers(q.login, visits' \cup {q.day})
                              /\ Streak!Covers(q.learning, IF q.learn THEN lessons' \cup {q.day} ELSE lessons')
          OBVIOUS
        <4>2. /\ q.day \in 1..today
              /\ Streak!Covers(q.login, visits \cup {q.day})
              /\ Streak!Covers(q.learning, IF q.learn THEN lessons \cup {q.day} ELSE lessons)
          BY <3>2, <3>8, <4>1 DEF Streak!BeatIsSound
        <4>3. visits \cup {q.day} \subseteq visits' \cup {q.day}
              /\ (IF q.learn THEN lessons \cup {q.day} ELSE lessons)
                     \subseteq (IF q.learn THEN lessons' \cup {q.day} ELSE lessons')
          BY <3>11
        <4>4. QED
          BY <1>4, <4>2, <4>3, CoversMore
      <3>14. Streak!BeatIsSound(q)'
        BY <3>9, <3>10, <3>12, <3>13 DEF Streak!BeatIsSound
      <3>15. QED
        BY <3>4, <3>8, <3>14
    <2>3. QED
      BY <2>1, <2>2
  <1>7. beats' \in [Requests -> Streak!Beat]
    <2>1. beats' = [Streak!Late EXCEPT ![b] = Streak!Still] /\ DOMAIN Streak!Late = Requests
      BY DEF Streak!Write, Streak!Late
    <2>2. DOMAIN beats' = Requests /\ beats' = [c \in Requests |-> beats'[c]]
      BY <2>1 DEF Streak!Late
    <2>3. QED
      BY <1>6, <2>2
  <1>8. Streak!TypeOK'
    <2>1. visits' \subseteq 1..today' /\ lessons' \subseteq visits'
      BY <1>1, <1>4, <1>5
    <2>2. overlaid' \in BOOLEAN
      BY <1>1, <1>3, <1>4
    <2>3. QED
      BY <1>1, <1>3, <1>4, <1>7, <2>1, <2>2 DEF Streak!TypeOK
  <1>9. ~overlaid' => Streak!Exact(login', visits') /\ Streak!Exact(learning', lessons')
    <2>1. SUFFICES ASSUME ~overlaid' PROVE Streak!Exact(login', visits') /\ Streak!Exact(learning', lessons')
      OBVIOUS
    <2>2. ~overlaid /\ ~o.late
      BY <1>1, <1>3, <1>4, <2>1
    <2>3. /\ Streak!Exact(login, visits) /\ Streak!Exact(learning, lessons)
          /\ Streak!Covers(login, visits) /\ Streak!Covers(learning, lessons)
          /\ Streak!Sound(login) /\ Streak!Sound(learning)
      BY <2>2 DEF Streak!StreaksInv, Streak!StreaksAreDays
    <2>4. /\ o.login = Streak!Counted(login, o.day)
          /\ o.learning = (IF o.learn THEN Streak!Counted(learning, o.day) ELSE learning)
          /\ \A d \in visits : d <= o.day
      BY <1>3, <2>2 DEF Streak!BeatIsSound
    <2>5. o.day \in 1..Days /\ visits \in SUBSET Nat /\ lessons \in SUBSET Nat
      BY <1>1, <1>5
    <2>6. ASSUME NEW s \in Streak!Streak, NEW days \in SUBSET visits, Streak!Sound(s), Streak!Covers(s, days)
          PROVE  s.last <= o.day
      <3>1. s.last \in Nat /\ s.length \in Nat
        BY <2>6, StreakIs
      <3>2. CASE s.length = 0
        BY <2>5, <2>6, <3>2 DEF Streak!Sound, Streak!Never
      <3>3. CASE s.length > 0
        <4>1. 0 \in 0..(s.length - 1) /\ s.last - 0 = s.last
          BY <3>1, <3>3
        <4>2. s.last \in days
          BY <2>6, <4>1 DEF Streak!Covers
        <4>3. QED
          BY <2>4, <2>6, <4>2
      <3>4. QED
        BY <3>1, <3>2, <3>3
    <2>7. login.last <= o.day /\ learning.last <= o.day
      BY <1>1, <2>3, <2>6
    <2>8. Streak!Exact(login', visits')
      BY <1>1, <1>4, <2>3, <2>4, <2>5, <2>7, CountedExact
    <2>9. Streak!Exact(learning', lessons')
      <3>1. CASE o.learn
        <4>1. \A d \in lessons : d <= o.day
          BY <1>1, <2>4
        <4>2. learning' = Streak!Counted(learning, o.day) /\ lessons' = lessons \cup {o.day}
          BY <1>4, <2>4, <3>1
        <4>3. QED
          BY <1>1, <2>3, <2>5, <2>7, <4>1, <4>2, CountedExact
      <3>2. CASE ~o.learn
        BY <1>4, <2>3, <2>4, <3>2
      <3>3. QED
        BY <3>1, <3>2
    <2>10. QED
      BY <2>8, <2>9
  <1>10. Streak!StreaksAreDays'
    BY <1>4, <1>5, <1>9 DEF Streak!StreaksAreDays
  <1>11. login'.last <= today' /\ learning'.last <= today' /\ Streak!Sound(login') /\ Streak!Sound(learning')
    BY <1>4, <1>5
  <1>12. QED
    BY <1>6, <1>8, <1>10, <1>11, StreaksThen

LEMMA StreaksAtFirst == Streak!Init => Streak!StreaksInv
  <1> SUFFICES ASSUME Streak!Init PROVE Streak!StreaksInv
    OBVIOUS
  <1>1. /\ today = 1 /\ login = Streak!Unseen /\ learning = Streak!Unseen /\ visits = {} /\ lessons = {} /\ overlaid = FALSE
        /\ beats = [b \in Requests |-> Streak!Still]
    BY DEF Streak!Init
  <1>2. 1 \in 1..Days /\ FALSE \in BOOLEAN
    BY DaysAssumption
  <1>3. Streak!TypeOK
    BY <1>1, <1>2, StillIs DEF Streak!TypeOK
  <1>4. Streak!Sound(login) /\ Streak!Sound(learning) /\ login.last <= today /\ learning.last <= today
    BY <1>1, StillIs
  <1>5. PICK q : q = Streak!Still
    OBVIOUS
  <1>6. Streak!BeatIsSound(q)
    <2>1. q.pc = "idle" /\ Streak!Sound(q.login) /\ Streak!Sound(q.learning) /\ q.login.last = 0 /\ q.learning.last = 0
      BY <1>5, StillIs
    <2>2. QED
      BY <1>1, <2>1 DEF Streak!BeatIsSound
  <1>7. \A b \in Requests : Streak!BeatIsSound(beats[b])
    BY <1>1, <1>5, <1>6
  <1>8. Streak!StreaksAreDays
    <2>1. PICK s : s = Streak!Unseen
      OBVIOUS
    <2>2. s.length = 0 /\ s.last = 0
      BY <2>1, StillIs
    <2>3. Streak!Covers(s, {}) /\ Streak!Exact(s, {})
      BY <2>2 DEF Streak!Covers, Streak!Exact
    <2>4. QED
      BY <1>1, <2>1, <2>3 DEF Streak!StreaksAreDays
  <1>9. QED
    BY <1>3, <1>4, <1>7, <1>8 DEF Streak!StreaksInv

LEMMA StreaksStep == Streak!StreaksInv /\ (Streak!Next \/ UNCHANGED streakVars) => Streak!StreaksInv'
  <1>1. ASSUME Streak!StreaksInv, UNCHANGED streakVars PROVE Streak!StreaksInv'
    BY <1>1 DEF streakVars, Streak!StreaksInv, Streak!TypeOK, Streak!BeatIsSound, Streak!StreaksAreDays
  <1>2. ASSUME Streak!StreaksInv, Streak!Next PROVE Streak!StreaksInv'
    BY <1>2, MidnightKept, ReadKept, CountKept, WriteKept, BeatFails DEF Streak!Next
  <1>3. QED
    BY <1>1, <1>2

LEMMA StreaksHold == AllSpec => []Streak!StreaksInv
  <1>1. AllInit => Streak!StreaksInv
    BY StreaksAtFirst DEF AllInit
  <1>2. Streak!StreaksInv /\ [AllNext]_allVars => Streak!StreaksInv'
    <2>1. [AllNext]_allVars => Streak!Next \/ UNCHANGED streakVars
      BY DEF AllNext, allVars
    <2>2. QED
      BY <2>1, StreaksStep
  <1>3. QED
    BY <1>1, <1>2, PTL DEF AllSpec

\* The streaks that heartbeat writes count days in a row on which the user was here, or
\* learned, however heartbeats overlap and whenever midnight comes; all of them, until
\* one is written over another's.
THEOREM StreaksAreAlwaysDays == AllSpec => []StreaksAreDays
  BY StreaksHold, PTL DEF Streak!StreaksInv, StreaksAreDays

(***************************************************************************)
(* The mail that brings users back                                         *)
(***************************************************************************)

\* What the invariant says of a run, with the numbers told, who is excused and who is firm.
RunSits(q, counts, excused, refusers) ==
  /\ q.pc = "tell" => \A u \in q.left : counts[u] = 0 \/ u \in q.known \cup excused
  /\ q.pc = "stamp" => /\ q.at \in People /\ counts[q.at] > 0
                       /\ \A u \in q.left : counts[u] = 0 \/ u \in q.known \cup excused
  /\ q.pc = "mail" => q.at \in People /\ q.at \notin refusers

\* Who is between the notification and the note of some run.
Noting(some) == {u \in People : \E r \in Requests : some[r].pc = "stamp" /\ some[r].at = u}

\* The rest of it: who was told is accounted for, and nobody is noted or spurned wrongly.
Accounted(counts, noted, excused, noting) ==
  \A u \in People : counts[u] >= 0 /\ (counts[u] > 0 => u \in noted \cup excused \cup noting)
Wanted(counts, noted, excused) ==
  /\ \A u \in People : counts[u] > 1 => u \in excused
  /\ \A u \in noted : counts[u] > 0

LEMMA OutreachIs ==
  Reach!OutreachInv <=>
      /\ Reach!TypeOK
      /\ \A r \in Requests : RunSits(runs[r], told, twice, firm)
      /\ Accounted(told, reminded, twice, Noting(runs))
      /\ firm \cap {u \in People : optIn[u]} = {}
      /\ Wanted(told, reminded, twice) /\ spurned = {}
  <1>1. (\A r \in Requests : RunSits(runs[r], told, twice, firm)) <=> \A r \in Requests : Reach!RunIsSound(runs[r])
    BY DEF RunSits, Reach!RunIsSound
  <1>2. Accounted(told, reminded, twice, Noting(runs))
        <=> \A u \in People : told[u] >= 0 /\ (told[u] > 0 => u \in reminded \cup twice \/ Reach!At("stamp", u) # {})
    BY DEF Accounted, Noting, Reach!At
  <1>3. Reach!MailIsWanted <=> Wanted(told, reminded, twice) /\ spurned = {}
    BY DEF Reach!MailIsWanted, Wanted
  <1>4. QED
    BY <1>1, <1>2, <1>3 DEF Reach!OutreachInv

LEMMA OutreachThen ==
  Reach!OutreachInv' <=>
      /\ Reach!TypeOK'
      /\ \A r \in Requests : RunSits(runs'[r], told', twice', firm')
      /\ Accounted(told', reminded', twice', Noting(runs'))
      /\ firm' \cap {u \in People : optIn'[u]} = {}
      /\ Wanted(told', reminded', twice') /\ spurned' = {}
  <1>1. (\A r \in Requests : RunSits(runs'[r], told', twice', firm')) <=> \A r \in Requests : Reach!RunIsSound(runs[r])'
    BY DEF RunSits, Reach!RunIsSound
  <1>2. Accounted(told', reminded', twice', Noting(runs'))
        <=> \A u \in People : told'[u] >= 0 /\ (told'[u] > 0 => u \in reminded' \cup twice' \/ Reach!At("stamp", u)' # {})
    BY DEF Accounted, Noting, Reach!At
  <1>3. Reach!MailIsWanted' <=> Wanted(told', reminded', twice') /\ spurned' = {}
    BY DEF Reach!MailIsWanted, Wanted
  <1>4. QED
    BY <1>1, <1>2, <1>3 DEF Reach!OutreachInv

LEMMA NoRunIs ==
  /\ Reach!NoRun \in Reach!Run /\ Reach!NoRun.pc = "idle" /\ Reach!NoRun.left = {} /\ Reach!NoRun.known = {}
  <1>1. Reach!NoRun.pc = "idle" /\ Reach!NoRun.left = {} /\ Reach!NoRun.known = {}
    BY DEF Reach!NoRun
  <1>2. Reach!NoUser \in People \cup {Reach!NoUser} /\ {} \in SUBSET People
    OBVIOUS
  <1>3. Reach!NoRun \in Reach!Run
    BY <1>2 DEF Reach!NoRun, Reach!Run
  <1>4. QED
    BY <1>1, <1>3

\* A run goes on, and nobody is told, noted or firm: it is enough that it fits, and leaves
\* nobody it was to note, or has him excused.
LEMMA RunGoesOn ==
  ASSUME Reach!OutreachInv, NEW r \in Requests, NEW q \in Reach!Run, runs' = [runs EXCEPT ![r] = q],
         NEW more \in SUBSET People, twice' = twice \cup more,
         UNCHANGED <<optIn, told, reminded, firm, spurned>>,
         RunSits(q, told, twice \cup more, firm),
         runs[r].pc = "stamp" => (q.pc = "stamp" /\ q.at = runs[r].at) \/ runs[r].at \in twice \cup more
  PROVE  Reach!OutreachInv'
  <1>1. /\ Reach!TypeOK /\ \A s \in Requests : RunSits(runs[s], told, twice, firm)
        /\ Accounted(told, reminded, twice, Noting(runs)) /\ firm \cap {u \in People : optIn[u]} = {}
        /\ Wanted(told, reminded, twice) /\ spurned = {}
    BY OutreachIs
  <1>2. runs \in [Requests -> Reach!Run] /\ twice \subseteq People
    BY <1>1 DEF Reach!TypeOK
  <1>3. Reach!TypeOK'
    BY <1>1, <1>2 DEF Reach!TypeOK
  <1>4. ASSUME NEW s \in Requests
        PROVE  RunSits(runs'[s], told', twice', firm')
    <2>1. CASE s = r
      BY <1>2, <2>1
    <2>2. CASE s # r
      <3>1. PICK p : p = runs[s]
        OBVIOUS
      <3>2. runs'[s] = p /\ RunSits(p, told, twice, firm)
        BY <1>1, <1>2, <2>2, <3>1
      <3>3. RunSits(p, told, twice \cup more, firm)
        BY <3>2 DEF RunSits
      <3>4. QED
        BY <3>2, <3>3
    <2>3. QED
      BY <2>1, <2>2
  <1>5. Noting(runs) \subseteq Noting(runs') \cup twice \cup more
    <2>1. ASSUME NEW u \in People, NEW s \in Requests, runs[s].pc = "stamp", runs[s].at = u
          PROVE  u \in Noting(runs') \cup twice \cup more
      <3>1. CASE s = r
        BY <1>2, <2>1, <3>1 DEF Noting
      <3>2. CASE s # r
        BY <1>2, <2>1, <3>2 DEF Noting
      <3>3. QED
        BY <3>1, <3>2
    <2>2. QED
      BY <2>1 DEF Noting
  <1>6. Accounted(told', reminded', twice', Noting(runs'))
    BY <1>1, <1>5 DEF Accounted
  <1>7. Wanted(told', reminded', twice')
    BY <1>1 DEF Wanted
  <1>8. QED
    BY <1>1, <1>3, <1>4, <1>6, <1>7, OutreachThen

\* Nothing is excused.
LEMMA RunGoesOnAlone ==
  ASSUME Reach!OutreachInv, NEW r \in Requests, NEW q \in Reach!Run, runs' = [runs EXCEPT ![r] = q],
         UNCHANGED <<optIn, told, reminded, twice, firm, spurned>>,
         RunSits(q, told, twice, firm), runs[r].pc # "stamp"
  PROVE  Reach!OutreachInv'
  <1>1. {} \in SUBSET People /\ twice' = twice \cup {} /\ twice \cup {} = twice
    OBVIOUS
  <1>2. QED
    BY <1>1, RunGoesOn

LEMMA TypesOfRuns ==
  ASSUME Reach!OutreachInv
  PROVE  /\ optIn \in [People -> BOOLEAN] /\ reminded \subseteq People /\ told \in [People -> Int]
         /\ runs \in [Requests -> Reach!Run] /\ twice \subseteq People /\ firm \subseteq People
         /\ \A r \in Requests : RunSits(runs[r], told, twice, firm)
         /\ Accounted(told, reminded, twice, Noting(runs)) /\ firm \cap {u \in People : optIn[u]} = {}
         /\ Wanted(told, reminded, twice) /\ spurned = {}
  BY OutreachIs DEF Reach!TypeOK

\* The profile is saved.
LEMMA AcceptKept ==
  ASSUME Reach!OutreachInv, NEW u \in People, Reach!Accept(u)
  PROVE  Reach!OutreachInv'
  <1>1. /\ optIn' = [optIn EXCEPT ![u] = TRUE] /\ firm' = firm \ {u}
        /\ UNCHANGED <<reminded, told, runs, twice, spurned>>
    BY DEF Reach!Accept
  <1>2. Reach!TypeOK' /\ firm' \cap {v \in People : optIn'[v]} = {}
    BY <1>1, TypesOfRuns DEF Reach!TypeOK
  <1>3. ASSUME NEW r \in Requests PROVE RunSits(runs'[r], told', twice', firm')
    <2>1. PICK p : p = runs[r]
      OBVIOUS
    <2>2. RunSits(p, told, twice, firm)
      BY <2>1, TypesOfRuns
    <2>3. RunSits(p, told, twice, firm \ {u})
      BY <2>2 DEF RunSits
    <2>4. QED
      BY <1>1, <2>1, <2>3
  <1>4. Accounted(told', reminded', twice', Noting(runs')) /\ Wanted(told', reminded', twice') /\ spurned' = {}
    BY <1>1, TypesOfRuns
  <1>5. QED
    BY <1>2, <1>3, <1>4, OutreachThen

LEMMA DeclineKept ==
  ASSUME Reach!OutreachInv, NEW u \in People, Reach!Decline(u)
  PROVE  Reach!OutreachInv'
  <1>1. /\ optIn' = [optIn EXCEPT ![u] = FALSE]
        /\ firm' = IF Reach!At("mail", u) = {} THEN firm \cup {u} ELSE firm
        /\ UNCHANGED <<reminded, told, runs, twice, spurned>>
    BY DEF Reach!Decline
  <1>2. Reach!TypeOK' /\ firm' \cap {v \in People : optIn'[v]} = {}
    BY <1>1, TypesOfRuns DEF Reach!TypeOK
  <1>3. ASSUME NEW r \in Requests PROVE RunSits(runs'[r], told', twice', firm')
    <2>1. PICK p : p = runs[r]
      OBVIOUS
    <2>2. RunSits(p, told, twice, firm)
      BY <2>1, TypesOfRuns
    <2>3. p.pc = "mail" /\ p.at = u => firm' = firm
      BY <1>1, <2>1 DEF Reach!At
    <2>4. p.pc = "mail" => p.at \notin firm'
      BY <1>1, <2>2, <2>3 DEF RunSits
    <2>5. RunSits(p, told, twice, firm')
      BY <2>2, <2>4 DEF RunSits
    <2>6. QED
      BY <1>1, <2>1, <2>5
  <1>4. Accounted(told', reminded', twice', Noting(runs')) /\ Wanted(told', reminded', twice') /\ spurned' = {}
    BY <1>1, TypesOfRuns
  <1>5. QED
    BY <1>2, <1>3, <1>4, OutreachThen

\* A run of reminders begins: those of its list who were told are known.
LEMMA RemindKept ==
  ASSUME Reach!OutreachInv, NEW r \in Requests, NEW list \in SUBSET People, Reach!Remind(r, list)
  PROVE  Reach!OutreachInv'
  <1>1. PICK known \in SUBSET People : known = {u \in list : Reach!At("stamp", u) # {}}
    OBVIOUS
  <1>2. PICK q : q = [Reach!NoRun EXCEPT !.pc = "tell", !.left = list, !.known = known]
    OBVIOUS
  <1>3. q \in Reach!Run /\ q.pc = "tell" /\ q.left = list /\ q.known = known
    BY <1>2, NoRunIs DEF Reach!Run
  <1>4. /\ runs[r].pc = "idle" /\ list \cap reminded = {} /\ runs' = [runs EXCEPT ![r] = q]
        /\ UNCHANGED <<optIn, reminded, told, twice, firm, spurned>>
    BY <1>1, <1>2 DEF Reach!Remind, Reach!Stale
  <1>5. \A u \in list : told[u] = 0 \/ u \in known \cup twice
    <2>1. ASSUME NEW u \in list, told[u] # 0, u \notin twice
          PROVE  u \in known
      <3>1. told[u] > 0
        BY <2>1, TypesOfRuns DEF Accounted
      <3>2. u \in Noting(runs)
        BY <1>4, <2>1, <3>1, TypesOfRuns DEF Accounted
      <3>3. QED
        BY <1>1, <3>2 DEF Noting, Reach!At
    <2>2. QED
      BY <2>1
  <1>6. RunSits(q, told, twice, firm)
    BY <1>3, <1>5 DEF RunSits
  <1>7. QED
    BY <1>3, <1>4, <1>6, RunGoesOnAlone

\* A user is told: who was told already was known, or is excused, and the others with him
\* on their list know it.
LEMMA TellKept ==
  ASSUME Reach!OutreachInv, NEW r \in Requests, NEW u \in People, Reach!Tell(r, u)
  PROVE  Reach!OutreachInv'
  <1>1. PICK o \in Reach!Run : o = runs[r]
    BY TypesOfRuns
  <1>2. /\ o.pc = "tell" /\ u \in o.left /\ told' = [told EXCEPT ![u] = @ + 1]
        /\ twice' = (IF u \in o.known THEN twice \cup {u} ELSE twice)
        /\ UNCHANGED <<optIn, reminded, firm, spurned>>
    BY <1>1 DEF Reach!Tell
  <1>3. told \in [People -> Int] /\ told[u] \in Int /\ told[u] >= 0 /\ told' \in [People -> Int]
        /\ told'[u] = told[u] + 1 /\ \A v \in People : v # u => told'[v] = told[v]
    BY <1>2, TypesOfRuns DEF Accounted
  <1>4. told[u] = 0 \/ u \in twice'
    BY <1>1, <1>2, TypesOfRuns DEF RunSits
  <1>5. twice \subseteq twice' /\ twice' \subseteq People
    BY <1>2, TypesOfRuns
  <1>6. ASSUME NEW s \in Requests
        PROVE  runs'[s] \in Reach!Run /\ RunSits(runs'[s], told', twice', firm')
               /\ (s # r => runs'[s].pc = runs[s].pc /\ runs'[s].at = runs[s].at)
               /\ (s = r => runs'[s].pc = "stamp" /\ runs'[s].at = u)
    <2>1. CASE s = r
      <3>1. Reach!Known(r, u)[r] = o /\ Reach!Known(r, u) = [t \in Requests |-> Reach!Known(r, u)[t]]
        BY <1>1 DEF Reach!Known
      <3>2. PICK left \in SUBSET People : left = o.left \ {u}
        BY DEF Reach!Run
      <3>3. PICK q : q = [o EXCEPT !.pc = "stamp", !.at = u, !.left = left]
        OBVIOUS
      <3>4. runs'[r] = q
        BY <3>1, <3>2, <3>3 DEF Reach!Tell
      <3>5. q \in Reach!Run /\ q.pc = "stamp" /\ q.at = u /\ q.left = left /\ q.known = o.known
        BY <3>3 DEF Reach!Run
      <3>6. told'[u] > 0
        BY <1>3
      <3>7. \A v \in left : told'[v] = 0 \/ v \in q.known \cup twice'
        <4>1. RunSits(o, told, twice, firm)
          BY <1>1, TypesOfRuns
        <4>2. ASSUME NEW v \in left PROVE told'[v] = 0 \/ v \in q.known \cup twice'
          <5>1. v \in People /\ v # u /\ v \in o.left
            BY <3>2
          <5>2. told'[v] = told[v]
            BY <1>3, <5>1
          <5>3. QED
            BY <1>2, <1>5, <3>5, <4>1, <5>1, <5>2 DEF RunSits
        <4>3. QED
          BY <4>2
      <3>8. RunSits(q, told', twice', firm')
        BY <3>5, <3>6, <3>7 DEF RunSits
      <3>9. QED
        BY <2>1, <3>4, <3>5, <3>8
    <2>2. CASE s # r
      <3>1. PICK p \in Reach!Run : p = runs[s]
        BY TypesOfRuns
      <3>2. RunSits(p, told, twice, firm)
        BY <3>1, TypesOfRuns
      <3>3. runs'[s] = IF u \in p.left THEN [p EXCEPT !.known = @ \cup {u}] ELSE p
        BY <2>2, <3>1 DEF Reach!Tell, Reach!Known
      <3>4. PICK q \in Reach!Run : q = runs'[s] /\ q.pc = p.pc /\ q.at = p.at /\ q.left = p.left
                                   /\ p.known \subseteq q.known /\ (u \in p.left => u \in q.known)
        <4>1. CASE u \in p.left
          <5>1. PICK known \in SUBSET People : known = p.known \cup {u}
            BY DEF Reach!Run
          <5>2. PICK q : q = [p EXCEPT !.known = known]
            OBVIOUS
          <5>3. q \in Reach!Run /\ q.pc = p.pc /\ q.at = p.at /\ q.left = p.left /\ q.known = known
            BY <5>2 DEF Reach!Run
          <5>4. QED
            BY <3>3, <4>1, <5>1, <5>2, <5>3
        <4>2. CASE u \notin p.left
          BY <3>3, <4>2
        <4>3. QED
          BY <4>1, <4>2
      <3>5. \A v \in q.left : told[v] = 0 \/ v \in p.known \cup twice => told'[v] = 0 \/ v \in q.known \cup twice'
        <4>1. ASSUME NEW v \in q.left, told[v] = 0 \/ v \in p.known \cup twice
              PROVE  told'[v] = 0 \/ v \in q.known \cup twice'
          <5>1. CASE v = u
            BY <3>4, <5>1
          <5>2. CASE v # u
            <6>1. v \in People
              BY DEF Reach!Run
            <6>2. told'[v] = told[v]
              BY <1>3, <5>2, <6>1
            <6>3. QED
              BY <1>5, <3>4, <4>1, <6>2
          <5>3. QED
            BY <5>1, <5>2
        <4>2. QED
          BY <4>1
      <3>6. q.pc = "stamp" => told'[q.at] > 0
        <4>1. SUFFICES ASSUME q.pc = "stamp" PROVE told'[q.at] > 0
          OBVIOUS
        <4>2. q.at \in People /\ told[q.at] > 0 /\ told[q.at] \in Int
          BY <1>3, <3>2, <3>4, <4>1 DEF RunSits
        <4>3. QED
          BY <1>3, <4>2
      <3>7. RunSits(q, told', twice', firm')
        BY <1>2, <3>2, <3>4, <3>5, <3>6 DEF RunSits
      <3>8. QED
        BY <2>2, <3>1, <3>4, <3>7
    <2>3. QED
      BY <2>1, <2>2
  <1>7. runs' \in [Requests -> Reach!Run]
    <2>1. DOMAIN runs' = Requests /\ runs' = [s \in Requests |-> runs'[s]]
      BY DEF Reach!Tell, Reach!Known
    <2>2. QED
      BY <1>6, <2>1
  <1>8. Reach!TypeOK'
    BY <1>2, <1>3, <1>5, <1>7, TypesOfRuns DEF Reach!TypeOK
  <1>9. Noting(runs) \subseteq Noting(runs') /\ u \in Noting(runs')
    <2>1. u \in Noting(runs')
      BY <1>6 DEF Noting
    <2>2. runs[r].pc # "stamp"
      BY <1>1, <1>2
    <2>3. QED
      BY <1>6, <2>1, <2>2 DEF Noting
  <1>10. Accounted(told', reminded', twice', Noting(runs'))
    <2>1. ASSUME NEW v \in People
          PROVE  told'[v] >= 0 /\ (told'[v] > 0 => v \in reminded' \cup twice' \cup Noting(runs'))
      <3>1. CASE v = u
        BY <1>3, <1>9, <3>1
      <3>2. CASE v # u
        <4>1. told'[v] = told[v]
          BY <1>3, <3>2
        <4>2. told[v] >= 0 /\ (told[v] > 0 => v \in reminded \cup twice \cup Noting(runs))
          BY TypesOfRuns DEF Accounted
        <4>3. QED
          BY <1>2, <1>5, <1>9, <4>1, <4>2
      <3>3. QED
        BY <3>1, <3>2
    <2>2. QED
      BY <2>1 DEF Accounted
  <1>11. Wanted(told', reminded', twice')
    <2>1. Wanted(told, reminded, twice) /\ reminded \subseteq People
      BY TypesOfRuns
    <2>2. ASSUME NEW v \in People, told'[v] > 1 PROVE v \in twice'
      <3>1. CASE v = u
        BY <1>3, <1>4, <2>2, <3>1
      <3>2. CASE v # u
        BY <1>3, <1>5, <2>1, <2>2, <3>2 DEF Wanted
      <3>3. QED
        BY <3>1, <3>2
    <2>3. ASSUME NEW v \in reminded PROVE told'[v] > 0
      <3>1. v \in People /\ told[v] > 0 /\ told[v] \in Int
        BY <1>3, <2>1 DEF Wanted
      <3>2. QED
        BY <1>3, <3>1
    <2>4. QED
      BY <1>2, <2>2, <2>3 DEF Wanted
  <1>12. firm' \cap {v \in People : optIn'[v]} = {} /\ spurned' = {}
    BY <1>2, TypesOfRuns
  <1>13. QED
    BY <1>6, <1>8, <1>10, <1>11, <1>12, OutreachThen

\* And noted.
LEMMA StampKept ==
  ASSUME Reach!OutreachInv, NEW r \in Requests, Reach!Stamp(r)
  PROVE  Reach!OutreachInv'
  <1>1. PICK o \in Reach!Run : o = runs[r]
    BY TypesOfRuns
  <1>2. PICK q : q = [o EXCEPT !.pc = "tell", !.at = Reach!NoUser]
    OBVIOUS
  <1>3. q \in Reach!Run /\ q.pc = "tell" /\ q.left = o.left /\ q.known = o.known
    BY <1>2 DEF Reach!Run
  <1>4. /\ o.pc = "stamp" /\ reminded' = reminded \cup {o.at} /\ runs' = [runs EXCEPT ![r] = q]
        /\ UNCHANGED <<optIn, told, twice, firm, spurned>>
    BY <1>1, <1>2 DEF Reach!Stamp
  <1>5. /\ o.at \in People /\ told[o.at] > 0
        /\ \A u \in o.left : told[u] = 0 \/ u \in o.known \cup twice
    BY <1>1, <1>4, TypesOfRuns DEF RunSits
  <1>6. ASSUME NEW s \in Requests PROVE RunSits(runs'[s], told', twice', firm')
    <2>1. CASE s = r
      <3>1. RunSits(q, told, twice, firm)
        BY <1>3, <1>5 DEF RunSits
      <3>2. QED
        BY <1>4, <2>1, <3>1, TypesOfRuns
    <2>2. CASE s # r
      BY <1>4, <2>2, TypesOfRuns
    <2>3. QED
      BY <2>1, <2>2
  <1>7. Reach!TypeOK'
    BY <1>3, <1>4, <1>5, TypesOfRuns DEF Reach!TypeOK
  <1>8. Noting(runs) \subseteq Noting(runs') \cup reminded'
    <2>1. ASSUME NEW u \in People, NEW s \in Requests, runs[s].pc = "stamp", runs[s].at = u
          PROVE  u \in Noting(runs') \cup reminded'
      <3>1. CASE s = r
        BY <1>1, <1>4, <2>1, <3>1
      <3>2. CASE s # r
        BY <1>4, <2>1, <3>2, TypesOfRuns DEF Noting
      <3>3. QED
        BY <3>1, <3>2
    <2>2. QED
      BY <2>1 DEF Noting
  <1>9. Accounted(told', reminded', twice', Noting(runs'))
    BY <1>4, <1>8, TypesOfRuns DEF Accounted
  <1>10. Wanted(told', reminded', twice')
    BY <1>4, <1>5, TypesOfRuns DEF Wanted
  <1>11. firm' \cap {v \in People : optIn'[v]} = {} /\ spurned' = {}
    BY <1>4, TypesOfRuns
  <1>12. QED
    BY <1>6, <1>7, <1>9, <1>10, <1>11, OutreachThen

\* A digest run begins, with a list or with one who asks for his own.
LEMMA DigestsKept ==
  ASSUME Reach!OutreachInv, NEW r \in Requests, NEW list \in SUBSET People, runs[r].pc = "idle",
         runs' = [runs EXCEPT ![r] = [Reach!NoRun EXCEPT !.pc = "look", !.left = list]],
         UNCHANGED <<optIn, reminded, told, twice, firm, spurned>>
  PROVE  Reach!OutreachInv'
  <1>1. PICK q : q = [Reach!NoRun EXCEPT !.pc = "look", !.left = list]
    OBVIOUS
  <1>2. q \in Reach!Run /\ q.pc = "look"
    BY <1>1, NoRunIs DEF Reach!Run
  <1>3. RunSits(q, told, twice, firm)
    BY <1>2 DEF RunSits
  <1>4. QED
    BY <1>1, <1>2, <1>3, RunGoesOnAlone

\* The user is read again.
LEMMA LookKept ==
  ASSUME Reach!OutreachInv, NEW r \in Requests, NEW u \in People, Reach!Look(r, u)
  PROVE  Reach!OutreachInv'
  <1>1. PICK o \in Reach!Run : o = runs[r]
    BY TypesOfRuns
  <1>2. PICK left \in SUBSET People : left = o.left \ {u}
    BY DEF Reach!Run
  <1>3. o.pc = "look" /\ UNCHANGED <<optIn, reminded, told, twice, firm, spurned>>
    BY <1>1 DEF Reach!Look
  <1>4. CASE optIn[u]
    <2>1. PICK q : q = [o EXCEPT !.left = left, !.pc = "mail", !.at = u]
      OBVIOUS
    <2>2. q \in Reach!Run /\ q.pc = "mail" /\ q.at = u
      BY <2>1 DEF Reach!Run
    <2>3. runs' = [runs EXCEPT ![r] = q]
      BY <1>1, <1>2, <1>4, <2>1, TypesOfRuns DEF Reach!Look
    <2>4. u \notin firm
      BY <1>4, TypesOfRuns
    <2>5. RunSits(q, told, twice, firm)
      BY <2>2, <2>4 DEF RunSits
    <2>6. QED
      BY <1>1, <1>3, <2>2, <2>3, <2>5, RunGoesOnAlone
  <1>5. CASE ~optIn[u]
    <2>1. PICK q : q = [o EXCEPT !.left = left]
      OBVIOUS
    <2>2. q \in Reach!Run /\ q.pc = "look"
      BY <1>3, <2>1 DEF Reach!Run
    <2>3. runs' = [runs EXCEPT ![r] = q]
      BY <1>1, <1>2, <1>5, <2>1, TypesOfRuns DEF Reach!Look
    <2>4. RunSits(q, told, twice, firm)
      BY <2>2 DEF RunSits
    <2>5. QED
      BY <1>1, <1>3, <2>2, <2>3, <2>4, RunGoesOnAlone
  <1>6. QED
    BY <1>4, <1>5

\* The digest is mailed.
LEMMA MailKept ==
  ASSUME Reach!OutreachInv, NEW r \in Requests, Reach!Mail(r)
  PROVE  Reach!OutreachInv'
  <1>1. PICK o \in Reach!Run : o = runs[r]
    BY TypesOfRuns
  <1>2. PICK q : q = [o EXCEPT !.pc = "look", !.at = Reach!NoUser]
    OBVIOUS
  <1>3. q \in Reach!Run /\ q.pc = "look"
    BY <1>2 DEF Reach!Run
  <1>4. /\ o.pc = "mail" /\ spurned' = spurned \cup ({o.at} \cap firm) /\ runs' = [runs EXCEPT ![r] = q]
        /\ UNCHANGED <<optIn, reminded, told, twice, firm>>
    BY <1>1, <1>2 DEF Reach!Mail
  <1>5. o.at \notin firm
    BY <1>1, <1>4, TypesOfRuns DEF RunSits
  <1>6. spurned' = spurned
    BY <1>4, <1>5
  <1>7. RunSits(q, told, twice, firm)
    BY <1>3 DEF RunSits
  <1>8. QED
    BY <1>1, <1>3, <1>4, <1>6, <1>7, RunGoesOnAlone

\* A list is done, or left: whom the run had told and not noted is excused.
LEMMA RunEnds ==
  ASSUME Reach!OutreachInv, NEW r \in Requests, Reach!Done(r) \/ Reach!Fail(r)
  PROVE  Reach!OutreachInv'
  <1>1. PICK o \in Reach!Run : o = runs[r]
    BY TypesOfRuns
  <1>2. PICK q \in Reach!Run : q = Reach!NoRun /\ q.pc = "idle"
    BY NoRunIs
  <1>3. RunSits(q, told, twice, firm)
    BY <1>2 DEF RunSits
  <1>4. CASE Reach!Done(r)
    BY <1>2, <1>3, <1>4, RunGoesOnAlone DEF Reach!Done
  <1>5. CASE Reach!Fail(r)
    <2>1. PICK more \in SUBSET People : more = IF o.pc = "stamp" THEN {o.at} ELSE {}
      BY <1>1, TypesOfRuns DEF RunSits
    <2>2. /\ twice' = twice \cup more /\ runs' = [runs EXCEPT ![r] = q]
          /\ UNCHANGED <<optIn, reminded, told, firm, spurned>>
      BY <1>1, <1>2, <1>5, <2>1 DEF Reach!Fail
    <2>3. RunSits(q, told, twice \cup more, firm)
      BY <1>2 DEF RunSits
    <2>4. QED
      BY <1>1, <2>1, <2>2, <2>3, RunGoesOn
  <1>6. QED
    BY <1>4, <1>5

LEMMA OutreachAtFirst == Reach!Init => Reach!OutreachInv
  <1> SUFFICES ASSUME Reach!Init PROVE Reach!OutreachInv
    OBVIOUS
  <1>1. /\ optIn = [u \in People |-> TRUE] /\ reminded = {} /\ told = [u \in People |-> 0]
        /\ runs = [r \in Requests |-> Reach!NoRun] /\ twice = {} /\ firm = {} /\ spurned = {}
    BY DEF Reach!Init
  <1>2. Reach!TypeOK
    BY <1>1, NoRunIs DEF Reach!TypeOK
  <1>3. \A r \in Requests : RunSits(runs[r], told, twice, firm)
    BY <1>1, NoRunIs DEF RunSits
  <1>4. Accounted(told, reminded, twice, Noting(runs)) /\ Wanted(told, reminded, twice)
    BY <1>1 DEF Accounted, Wanted
  <1>5. QED
    BY <1>1, <1>2, <1>3, <1>4, OutreachIs

LEMMA OutreachStep == Reach!OutreachInv /\ (Reach!Next \/ UNCHANGED reachVars) => Reach!OutreachInv'
  <1>1. ASSUME Reach!OutreachInv, UNCHANGED reachVars PROVE Reach!OutreachInv'
    <2>1. UNCHANGED <<optIn, reminded, told, runs, twice, firm, spurned>>
      BY <1>1 DEF reachVars
    <2>2. Reach!TypeOK'
      BY <1>1, <2>1, OutreachIs DEF Reach!TypeOK
    <2>3. QED
      BY <1>1, <2>1, <2>2, OutreachIs, OutreachThen
  <1>2. ASSUME Reach!OutreachInv, Reach!Next PROVE Reach!OutreachInv'
    <2>1. ASSUME NEW u \in People, Reach!Accept(u) \/ Reach!Decline(u) PROVE Reach!OutreachInv'
      BY <1>2, <2>1, AcceptKept, DeclineKept
    <2>2. ASSUME NEW r \in Requests, NEW list \in SUBSET People, Reach!Remind(r, list) \/ Reach!RunDigests(r, list)
          PROVE  Reach!OutreachInv'
      BY <1>2, <2>2, RemindKept, DigestsKept DEF Reach!RunDigests
    <2>3. ASSUME NEW r \in Requests, NEW u \in People, Reach!DigestMe(r, u) PROVE Reach!OutreachInv'
      <3>1. {u} \in SUBSET People
        OBVIOUS
      <3>2. QED
        BY <1>2, <2>3, <3>1, DigestsKept DEF Reach!DigestMe
    <2>4. ASSUME NEW r \in Requests, NEW u \in People, Reach!Tell(r, u) \/ Reach!Look(r, u) PROVE Reach!OutreachInv'
      BY <1>2, <2>4, TellKept, LookKept
    <2>5. ASSUME NEW r \in Requests, Reach!Stamp(r) \/ Reach!Mail(r) \/ Reach!Done(r) \/ Reach!Fail(r)
          PROVE  Reach!OutreachInv'
      BY <1>2, <2>5, StampKept, MailKept, RunEnds
    <2>6. QED
      BY <1>2, <2>1, <2>2, <2>3, <2>4, <2>5 DEF Reach!Next
  <1>3. QED
    BY <1>1, <1>2

LEMMA OutreachHolds == AllSpec => []Reach!OutreachInv
  <1>1. AllInit => Reach!OutreachInv
    BY OutreachAtFirst DEF AllInit
  <1>2. Reach!OutreachInv /\ [AllNext]_allVars => Reach!OutreachInv'
    <2>1. [AllNext]_allVars => Reach!Next \/ UNCHANGED reachVars
      BY DEF AllNext, allVars
    <2>2. QED
      BY <2>1, OutreachStep
  <1>3. QED
    BY <1>1, <1>2, PTL DEF AllSpec

\* A user is reminded of a course once, however runs of sendReminders overlap, but for
\* two at once and one that failed before its note; and whoever saved the profile without
\* the digest is mailed none by runDigests or sendMyDigest, until he saves it with.
THEOREM MailIsAlwaysWanted == AllSpec => []MailIsWanted
  BY OutreachHolds, PTL DEF Reach!OutreachInv, MailIsWanted

USE SessionsAssumption

(***************************************************************************)
(* The tables                                                              *)
(***************************************************************************)

\* A revocation changes nothing of a row but that it may not be live any more.
LEMMA RevokedRows ==
  ASSUME rows \in Seq(Row), NEW gone
  PROVE  /\ Revoked(gone) \in Seq(Row)
         /\ Len(Revoked(gone)) = Len(rows)
         /\ DOMAIN Revoked(gone) = DOMAIN rows
         /\ \A n \in DOMAIN rows :
                /\ Revoked(gone)[n].live => rows[n].live /\ n \notin gone
                /\ Revoked(gone)[n].parent = rows[n].parent
                /\ Revoked(gone)[n].password = rows[n].password
                /\ Revoked(gone)[n].late = rows[n].late
                /\ Revoked(gone)[n].token = rows[n].token
  <1>1. DOMAIN rows = 1..Len(rows) /\ Len(rows) \in Nat
    BY LenProperties
  <1>2. \A n \in DOMAIN rows : rows[n] \in Row
    BY <1>1, ElementOfSeq
  <1>3. \A n \in DOMAIN rows : [rows[n] EXCEPT !.live = @ /\ n \notin gone] \in Row
    BY <1>2 DEF Row
  <1>4. Revoked(gone) \in [1..Len(rows) -> Row]
    BY <1>1, <1>3 DEF Revoked
  <1>5. Revoked(gone) \in Seq(Row)
    BY <1>1, <1>4
  <1>6. Len(Revoked(gone)) = Len(rows) /\ DOMAIN Revoked(gone) = DOMAIN rows
    BY <1>1, <1>4, <1>5, LenProperties
  <1>7. \A n \in DOMAIN rows : Revoked(gone)[n] = [rows[n] EXCEPT !.live = @ /\ n \notin gone]
    BY DEF Revoked
  <1>8. QED
    BY <1>2, <1>5, <1>6, <1>7 DEF Row

\* Links sent before are marked used, those of another kind stay.
LEMMA MarkedLinks ==
  ASSUME links \in Seq(Link), NEW kind
  PROVE  /\ LinksUsed(kind) \in Seq(Link)
         /\ DOMAIN LinksUsed(kind) = DOMAIN links
         /\ \A n \in DOMAIN links :
                /\ LinksUsed(kind)[n].live => links[n].live /\ links[n].kind # kind
                /\ LinksUsed(kind)[n].kind = links[n].kind
                /\ LinksUsed(kind)[n].uses = links[n].uses
  <1>1. DOMAIN links = 1..Len(links) /\ Len(links) \in Nat
    BY LenProperties
  <1>2. \A n \in DOMAIN links : links[n] \in Link
    BY <1>1, ElementOfSeq
  <1>3. \A n \in DOMAIN links : [links[n] EXCEPT !.live = FALSE] \in Link
    BY <1>2 DEF Link
  <1>4. LinksUsed(kind) \in [1..Len(links) -> Link]
    BY <1>1, <1>2, <1>3 DEF LinksUsed
  <1>5. LinksUsed(kind) \in Seq(Link)
    BY <1>1, <1>4
  <1>6. DOMAIN LinksUsed(kind) = DOMAIN links
    BY <1>1, <1>4
  <1>7. \A n \in DOMAIN links :
           LinksUsed(kind)[n] = IF links[n].kind = kind THEN [links[n] EXCEPT !.live = FALSE]
                                ELSE links[n]
    BY DEF LinksUsed
  <1>8. QED
    BY <1>2, <1>5, <1>6, <1>7 DEF Link

\* What a row stored by a request says.
LEMMA StoredRow ==
  ASSUME ShapeInv, NEW r \in Requests, Persist(r)
  PROVE  /\ rows' \in Seq(Row) /\ Len(rows') = Len(rows) + 1 /\ Len(rows) \in Nat
         /\ DOMAIN rows = 1..Len(rows) /\ DOMAIN rows' = 1..Len(rows) + 1
         /\ \A n \in DOMAIN rows : rows'[n] = rows[n]
         /\ rows'[Len(rows) + 1] = NewRow(r)
         /\ NewRow(r).parent = req[r].at
         /\ NewRow(r).password = req[r].password /\ NewRow(r).late = req[r].late
  <1>1. NewRow(r) \in Row
    <2>1. req[r].at \in 0..MaxRows
      BY LenProperties DEF ShapeInv, Proper, TypeOK, Persist
    <2>2. QED
      BY <2>1 DEF ShapeInv, TypeOK, NewRow, Row, Request
  <1>2. rows' = Append(rows, NewRow(r))
    BY DEF Persist
  <1>3. rows \in Seq(Row)
    BY DEF ShapeInv, TypeOK
  <1>4. QED
    BY <1>1, <1>2, <1>3, AppendProperties, LenProperties DEF NewRow

(***************************************************************************)
(* Shapes                                                                  *)
(***************************************************************************)

\* What a request goes on as fits the tables that the step leaves.
ProperThen(x) ==
  /\ x.pc \in {"grant", "consumed"} => x.at = 0
  /\ x.pc \in {"rotate", "successor"} => x.at \in DOMAIN rows'
  /\ x.pc = "follow" => x.at \in DOMAIN links'
  /\ x.pc = "revoke" => x.password <= account'.password
  /\ x.pc # "idle" => account'.exists

\* A request goes on as one that fits the tables, which lose nothing.
LEMMA GoesOn ==
  ASSUME ShapeInv, NEW r \in Requests, NEW x \in Request, Go(r, x), ProperThen(x),
         DOMAIN rows \subseteq DOMAIN rows', DOMAIN links \subseteq DOMAIN links',
         account'.password \in Nat, account.password <= account'.password,
         account.exists => account'.exists
  PROVE  /\ req' \in [Requests -> Request]
         /\ \A q \in Requests : req'[q] = IF q = r THEN x ELSE req[q]
         /\ \A q \in Requests : Proper(req[q])'
  <1>1. req \in [Requests -> Request]
    BY DEF ShapeInv
  <1>2. /\ req' \in [Requests -> Request]
        /\ \A q \in Requests : req'[q] = IF q = r THEN x ELSE req[q]
    BY <1>1 DEF Go
  <1>3. ASSUME NEW q \in Requests PROVE Proper(req[q])'
    <2>1. CASE q = r
      BY <1>2, <2>1 DEF Proper, ProperThen
    <2>2. CASE q # r
      <3>1. req'[q] = req[q] /\ req[q] \in Request /\ Proper(req[q])
        BY <1>1, <1>2, <2>2 DEF ShapeInv
      <3>2. account.password \in Nat /\ req[q].password \in Nat
        BY <3>1 DEF ShapeInv, TypeOK, Request
      <3>3. QED
        BY <3>1, <3>2 DEF Proper
    <2>3. QED
      BY <2>1, <2>2
  <1>4. QED
    BY <1>2, <1>3

\* A step of a request that leaves the tables alone keeps the shapes.
LEMMA GoesOnAlone ==
  ASSUME ShapeInv, NEW r \in Requests, NEW x \in Request, Go(r, x), Proper(x),
         UNCHANGED <<second, tables, ghosts>>
  PROVE  ShapeInv'
  <1>1. /\ second' = second /\ account' = account /\ rows' = rows /\ links' = links
        /\ ended' = ended /\ barred' = barred
    BY DEF tables, ghosts
  <1>2. ProperThen(x)
    BY <1>1 DEF Proper, ProperThen
  <1>3. account.password \in Nat
    BY DEF ShapeInv, TypeOK
  <1>4. req' \in [Requests -> Request] /\ \A q \in Requests : Proper(req[q])'
    BY <1>1, <1>2, <1>3, GoesOn
  <1>5. QED
    BY <1>1, <1>4 DEF ShapeInv, TypeOK, At, Proper, Request

\* The row at a place in the table, and the place.
LEMMA RowAt ==
  ASSUME ShapeInv, NEW n \in DOMAIN rows
  PROVE  /\ n \in Nat /\ n <= Len(rows) /\ Len(rows) \in Nat
         /\ rows[n] \in Row /\ rows[n].token \in Nat /\ rows[n].parent \in Nat
         /\ rows[n].password \in 0..MaxPasswords /\ rows[n].late \in BOOLEAN
  <1>1. rows \in Seq(Row)
    BY DEF ShapeInv, TypeOK
  <1>2. DOMAIN rows = 1..Len(rows) /\ Len(rows) \in Nat /\ rows[n] \in Row
    BY <1>1, LenProperties, ElementOfSeq
  <1>3. QED
    BY <1>2 DEF Row

\* What a request is.
LEMMA RequestOf ==
  ASSUME ShapeInv, NEW r \in Requests
  PROVE  /\ req[r] \in Request /\ Proper(req[r])
         /\ account.password \in 0..MaxPasswords
         /\ account.suspended \in BOOLEAN
  BY DEF ShapeInv, TypeOK

\* The account before it is registered and after it is deleted.
LEMMA MissingIs ==
  /\ Missing \in [exists : BOOLEAN, verified : BOOLEAN, suspended : BOOLEAN,
                  password : 0..MaxPasswords]
  /\ ~Missing.exists /\ ~Missing.suspended /\ ~Missing.verified /\ Missing.password = 0
  <1>1. /\ Registered \in [exists : BOOLEAN, verified : BOOLEAN, suspended : BOOLEAN,
                           password : 0..MaxPasswords]
        /\ Registered.exists /\ ~Registered.suspended /\ ~Registered.verified
        /\ Registered.password = 0
    BY DEF Registered
  <1>2. QED
    BY <1>1 DEF Missing

\* A request can be over at any time, and a new one begins with nothing.
LEMMA IdleFits ==
  /\ Idle \in Request /\ Proper(Idle) /\ ProperThen(Idle)
  /\ Idle.pc = "idle" /\ Idle.at = 0 /\ Idle.password = 0 /\ Idle.late = FALSE
  BY DEF Idle, Request, Pcs, Kinds, MailKinds, Proper, ProperThen

\* A request that goes on with the account as it is.
LEMMA HoldingIs ==
  ASSUME ShapeInv, NEW pc \in Pcs
  PROVE  /\ Holding(pc) \in Request
         /\ Holding(pc).pc = pc /\ Holding(pc).at = 0
         /\ Holding(pc).password = account.password /\ Holding(pc).late = FALSE
  <1>1. account.password \in 0..MaxPasswords
    BY DEF ShapeInv, TypeOK
  <1>2. Holding(pc) = [Idle EXCEPT !.pc = pc, !.password = account.password]
    BY DEF Holding
  <1>3. QED
    BY <1>1, <1>2, IdleFits DEF Request

\* The ways in that only go on keep the shapes ...
LEMMA LoginShape ==
  ASSUME ShapeInv, NEW r \in Requests, Login(r)
  PROVE  ShapeInv'
  <1>1. "grant" \in Pcs /\ account.exists
    BY DEF Pcs, Login
  <1>2. Holding("grant") \in Request /\ Proper(Holding("grant"))
    BY <1>1, HoldingIs DEF Proper
  <1>3. QED
    BY <1>2, GoesOnAlone DEF Login

\* A session signed with an old access token takes over the row it was signed with.
LEMMA BecomeCreatorShape ==
  ASSUME ShapeInv, NEW r \in Requests, NEW n \in DOMAIN rows, BecomeCreator(r, n)
  PROVE  ShapeInv'
  <1> DEFINE late == rows[n].late \/ rows[n].password < ended \/ account.suspended
             x == [Holding("grant") EXCEPT !.password = rows[n].password, !.late = late]
  <1>1. late \in BOOLEAN /\ "grant" \in Pcs /\ account.exists
    BY DEF Pcs, BecomeCreator
  <1>2. Go(r, x) /\ UNCHANGED <<second, tables, ghosts>>
    BY DEF BecomeCreator
  <1> HIDE DEF late
  <1>3. x \in Request /\ x.pc = "grant" /\ x.at = 0
    BY <1>1, RowAt, HoldingIs DEF Request
  <1>4. Proper(x)
    BY <1>1, <1>3 DEF Proper
  <1> HIDE DEF x
  <1>5. QED
    BY <1>2, <1>3, <1>4, GoesOnAlone

\* A refresh remembers the token of the cookie.
LEMMA RefreshShape ==
  ASSUME ShapeInv, NEW r \in Requests, NEW n \in DOMAIN rows, Refresh(r, n)
  PROVE  ShapeInv'
  <1> DEFINE x == [Idle EXCEPT !.pc = "find", !.at = rows[n].token]
  <1>1. x \in Request /\ x.pc = "find"
    BY RowAt, IdleFits DEF Request, Pcs
  <1>2. Proper(x)
    BY <1>1 DEF Proper, Refresh
  <1> HIDE DEF x
  <1>3. QED
    BY <1>1, <1>2, GoesOnAlone DEF Refresh, x

\* The row found is one of the table.
LEMMA FindRowShape ==
  ASSUME ShapeInv, NEW r \in Requests, NEW n \in DOMAIN rows, FindRow(r, n)
  PROVE  ShapeInv'
  <1> DEFINE x == [req[r] EXCEPT !.pc = "rotate", !.at = n,
                                 !.password = rows[n].password, !.late = rows[n].late]
  <1>1. x \in Request /\ Proper(x)
    BY RequestOf, RowAt DEF FindRow, At, Proper, Request, Pcs
  <1>2. Go(r, x) /\ UNCHANGED <<second, tables, ghosts>>
    BY DEF FindRow
  <1> HIDE DEF x
  <1>3. QED
    BY <1>1, <1>2, GoesOnAlone

\* ... and so do those that write.
LEMMA RegisterShape ==
  ASSUME ShapeInv, NEW r \in Requests, Register(r)
  PROVE  ShapeInv'
  <1> DEFINE x == [Idle EXCEPT !.pc = "issue", !.kind = "VERIFY"]
  <1>1. /\ account' = Registered /\ rows' = rows /\ links' = links /\ second' = second
        /\ ended' = ended /\ barred' = barred /\ Go(r, x) /\ ~account.exists
    BY DEF Register, ghosts
  <1>2. x \in Request /\ x.pc = "issue"
    BY IdleFits DEF Request, Pcs, Kinds, MailKinds
  <1>3. /\ account'.password = 0 /\ account'.exists
        /\ account' \in [exists : BOOLEAN, verified : BOOLEAN, suspended : BOOLEAN,
                         password : 0..MaxPasswords]
    BY <1>1 DEF Registered
  <1>4. account.password = 0 /\ ~account.suspended
    BY <1>1 DEF ShapeInv, Missing, Registered
  <1>5. ProperThen(x)
    BY <1>2, <1>3 DEF ProperThen
  <1> HIDE DEF x
  <1>6. req' \in [Requests -> Request] /\ \A q \in Requests : Proper(req[q])'
    BY <1>1, <1>2, <1>3, <1>4, <1>5, GoesOn
  <1>7. ended' \in 0..account'.password /\ ~barred'
    BY <1>1, <1>3, <1>4 DEF ShapeInv, TypeOK
  <1>8. QED
    BY <1>1, <1>3, <1>6, <1>7 DEF ShapeInv, TypeOK, At, Proper, Request

\* The account may be created here.
LEMMA GoogleLoginShape ==
  ASSUME ShapeInv, NEW r \in Requests, GoogleLogin(r)
  PROVE  ShapeInv'
  <1> DEFINE x == [Holding("grant") EXCEPT !.late = account.suspended]
  <1>1. /\ rows' = rows /\ links' = links /\ second' = second
        /\ ended' = ended /\ barred' = barred /\ Go(r, x)
    BY DEF GoogleLogin, ghosts
  <1>2. /\ account' \in [exists : BOOLEAN, verified : BOOLEAN, suspended : BOOLEAN,
                         password : 0..MaxPasswords]
        /\ account'.exists /\ account'.password = account.password
        /\ account.exists => account'.suspended = account.suspended
    BY DEF GoogleLogin, ShapeInv, TypeOK, Registered, Missing
  <1>3. x \in Request /\ x.pc = "grant" /\ x.at = 0
    BY HoldingIs, RequestOf DEF Request, Pcs
  <1>4. ProperThen(x)
    BY <1>2, <1>3 DEF ProperThen
  <1>5. account.password \in Nat
    BY RequestOf
  <1> HIDE DEF x
  <1>6. req' \in [Requests -> Request] /\ \A q \in Requests : Proper(req[q])'
    BY <1>1, <1>2, <1>3, <1>4, <1>5, GoesOn
  <1>7. barred => account.exists
    BY DEF ShapeInv, TypeOK, Missing, Registered
  <1>8. QED
    BY <1>1, <1>2, <1>6, <1>7 DEF ShapeInv, TypeOK, At, Proper, Request

\* The table grows by one row, whose parent is an older one.
LEMMA PersistShape ==
  ASSUME ShapeInv, NEW r \in Requests, Persist(r)
  PROVE  ShapeInv'
  <1>1. /\ account' = account /\ links' = links /\ second' = second
        /\ ended' = ended /\ barred' = barred /\ Go(r, Idle) /\ Len(rows) < MaxRows
        /\ req[r].pc \in {"grant", "successor"}
    BY DEF Persist, ghosts, End
  <1>2. /\ rows' \in Seq(Row) /\ Len(rows') = Len(rows) + 1 /\ Len(rows) \in Nat
        /\ DOMAIN rows = 1..Len(rows) /\ DOMAIN rows' = 1..Len(rows) + 1
        /\ \A n \in DOMAIN rows : rows'[n] = rows[n]
        /\ rows'[Len(rows) + 1].parent = req[r].at
    BY StoredRow
  <1>3. DOMAIN rows \subseteq DOMAIN rows' /\ account.password \in Nat
    BY <1>2, RequestOf
  <1>4. req' \in [Requests -> Request] /\ \A q \in Requests : Proper(req[q])'
    BY <1>1, <1>3, IdleFits, GoesOn
  <1>5. req[r].at \in Nat /\ req[r].at <= Len(rows) /\ account.exists
    BY <1>1, <1>2, RequestOf DEF Proper, Request
  <1>6. ASSUME NEW n \in DOMAIN rows' PROVE rows'[n].parent <= Len(rows')
    <2>1. CASE n \in DOMAIN rows
      <3>1. rows[n].parent <= Len(rows) /\ rows[n].parent \in Nat
        BY <2>1, RowAt DEF ShapeInv
      <3>2. QED
        BY <1>2, <2>1, <3>1
    <2>2. CASE n = Len(rows) + 1
      BY <1>2, <1>5, <2>2
    <2>3. QED
      BY <1>2, <2>1, <2>2
  <1>7. Len(rows') <= MaxRows
    BY <1>1, <1>2
  <1>8. QED
    BY <1>1, <1>2, <1>4, <1>5, <1>6, <1>7 DEF ShapeInv, TypeOK, At, Proper, Request

\* One row is not live any more, and nothing else changes in the table.
LEMMA RotateShape ==
  ASSUME ShapeInv, NEW r \in Requests, Rotate(r)
  PROVE  /\ ShapeInv'
         /\ DOMAIN rows' = DOMAIN rows /\ req[r].at \in DOMAIN rows
         /\ \A n \in DOMAIN rows : rows'[n] = [rows[n] EXCEPT !.live = @ /\ n # req[r].at]
  <1> DEFINE x == [req[r] EXCEPT !.pc = "successor"]
             row == [rows[req[r].at] EXCEPT !.live = FALSE]
  <1>1. req[r].at \in DOMAIN rows /\ account.exists
    BY RequestOf DEF Rotate, At, Proper
  <1>2. row \in Row /\ row.parent = rows[req[r].at].parent
    BY <1>1, RowAt DEF Row
  <1>3. /\ rows' = [rows EXCEPT ![req[r].at] = row] /\ Go(r, x)
        /\ account' = account /\ links' = links /\ second' = second
        /\ ended' = ended /\ barred' = barred
    BY DEF Rotate, ghosts
  <1>4. ASSUME NEW n \in DOMAIN rows
        PROVE  rows'[n] = [rows[n] EXCEPT !.live = @ /\ n # req[r].at]
    <2>1. rows[n] \in Row
      BY RowAt
    <2>2. rows'[n] = IF n = req[r].at THEN row ELSE rows[n]
      BY <1>3
    <2>3. QED
      BY <2>1, <2>2 DEF Row
  <1> HIDE DEF row
  <1>5. /\ rows' \in Seq(Row) /\ Len(rows') = Len(rows) /\ DOMAIN rows' = DOMAIN rows
        /\ \A n \in DOMAIN rows : rows'[n].parent = rows[n].parent
    <2>1. rows \in Seq(Row) /\ DOMAIN rows = 1..Len(rows)
      BY LenProperties DEF ShapeInv, TypeOK
    <2>2. QED
      BY <1>1, <1>2, <1>3, <2>1, ExceptSeq, LenProperties
  <1>6. x \in Request /\ x.pc = "successor" /\ x.at = req[r].at
    BY RequestOf DEF Request, Pcs
  <1>7. ProperThen(x)
    BY <1>1, <1>3, <1>5, <1>6 DEF ProperThen
  <1>8. account.password \in Nat
    BY RequestOf
  <1> HIDE DEF x
  <1>9. req' \in [Requests -> Request] /\ \A q \in Requests : Proper(req[q])'
    BY <1>3, <1>5, <1>6, <1>7, <1>8, GoesOn
  <1>10. QED
    BY <1>1, <1>3, <1>4, <1>5, <1>9 DEF ShapeInv, TypeOK, At, Proper, Request

\* The ways out keep the shapes.
LEMMA LogoutShape ==
  ASSUME ShapeInv, NEW r \in Requests, NEW n \in DOMAIN rows, Logout(r, n)
  PROVE  ShapeInv'
  <1> DEFINE gone == {m \in DOMAIN rows : rows[m].token = rows[n].token}
             x == [Idle EXCEPT !.pc = "logout"]
  <1>1. /\ rows' = Revoked(gone) /\ second' = second /\ account' = account /\ links' = links
        /\ ended' = ended /\ barred' = barred /\ Free(r)
        /\ req' = req \/ Go(r, x)
    BY DEF Logout, ghosts, Go
  <1> HIDE DEF gone
  <1>2. rows \in Seq(Row) /\ account.password \in Nat
    BY DEF ShapeInv, TypeOK
  <1>3. /\ rows' \in Seq(Row) /\ Len(rows') = Len(rows) /\ DOMAIN rows' = DOMAIN rows
        /\ \A m \in DOMAIN rows : rows'[m].parent = rows[m].parent
    BY <1>1, <1>2, RevokedRows
  <1>4. account.exists
    <2>1. CASE account.exists
      BY <2>1
    <2>2. CASE ~account.exists
      <3>1. rows = <<>>
        BY <2>2 DEF ShapeInv
      <3>2. QED
        BY <3>1
    <2>3. QED
      BY <2>1, <2>2
  <1>5. req' \in [Requests -> Request] /\ \A q \in Requests : Proper(req[q])'
    <2>1. CASE req' = req
      BY <2>1, <1>1, <1>3 DEF ShapeInv, Proper
    <2>2. CASE Go(r, x)
      <3>1. x \in Request /\ x.pc = "logout"
        BY IdleFits DEF Request, Pcs
      <3>2. ProperThen(x)
        BY <1>1, <1>4, <3>1 DEF ProperThen
      <3> HIDE DEF x
      <3>3. QED
        BY <1>1, <1>2, <1>3, <2>2, <3>1, <3>2, GoesOn
    <2>3. QED
      BY <1>1, <2>1, <2>2
  <1>6. QED
    BY <1>1, <1>3, <1>4, <1>5 DEF ShapeInv, TypeOK, At, Proper, Request

\* The comparison with the current password writes nothing.
LEMMA ChangePasswordShape ==
  ASSUME ShapeInv, NEW r \in Requests, NEW n \in DOMAIN rows, ChangePassword(r, n)
  PROVE  ShapeInv'
  <1> DEFINE x == [Idle EXCEPT !.pc = "change"]
  <1>1. x \in Request /\ x.pc = "change"
    BY IdleFits DEF Request, Pcs
  <1>2. Proper(x)
    BY <1>1 DEF Proper, ChangePassword
  <1>3. Go(r, x) /\ UNCHANGED <<second, tables, ghosts>>
    BY DEF ChangePassword
  <1> HIDE DEF x
  <1>4. QED
    BY <1>1, <1>2, <1>3, GoesOnAlone

\* The new password is one more than the old.
LEMMA SetPasswordShape ==
  ASSUME ShapeInv, NEW r \in Requests, SetPassword(r)
  PROVE  ShapeInv'
  <1> DEFINE x == [Idle EXCEPT !.pc = "revoke", !.password = account.password + 1]
  <1>1. /\ account' = [account EXCEPT !.password = @ + 1] /\ account.password < MaxPasswords
        /\ rows' = rows /\ links' = links /\ second' = second /\ ended' = ended
        /\ barred' = barred /\ Go(r, x) /\ account.exists
    BY RequestOf DEF SetPassword, ghosts, Proper
  <1>2. account.password \in 0..MaxPasswords /\ account.password + 1 \in 0..MaxPasswords
    BY <1>1, RequestOf
  <1>3. /\ account' \in [exists : BOOLEAN, verified : BOOLEAN, suspended : BOOLEAN,
                         password : 0..MaxPasswords]
        /\ account'.exists /\ account'.password = account.password + 1
        /\ account'.suspended = account.suspended
    BY <1>1, <1>2 DEF ShapeInv, TypeOK
  <1>4. x \in Request /\ x.pc = "revoke" /\ x.password = account.password + 1
    BY <1>2, IdleFits DEF Request, Pcs
  <1>5. ProperThen(x)
    BY <1>2, <1>3, <1>4 DEF ProperThen
  <1> HIDE DEF x
  <1>6. req' \in [Requests -> Request] /\ \A q \in Requests : Proper(req[q])'
    BY <1>1, <1>2, <1>3, <1>4, <1>5, GoesOn
  <1>7. ended' \in 0..account'.password
    BY <1>1, <1>2, <1>3 DEF ShapeInv, TypeOK
  <1>8. QED
    BY <1>1, <1>3, <1>6, <1>7 DEF ShapeInv, TypeOK, At, Proper, Request

\* A suspension leaves the rest of the account.
LEMMA SuspendShape ==
  ASSUME ShapeInv, NEW r \in Requests, Suspend(r)
  PROVE  ShapeInv'
  <1> DEFINE x == [Idle EXCEPT !.pc = "suspend"]
  <1>1. /\ account' = [account EXCEPT !.suspended = TRUE] /\ account.exists
        /\ rows' = rows /\ links' = links /\ second' = second /\ ended' = ended
        /\ barred' = barred /\ Go(r, x)
    BY DEF Suspend, ghosts
  <1>2. /\ account' \in [exists : BOOLEAN, verified : BOOLEAN, suspended : BOOLEAN,
                         password : 0..MaxPasswords]
        /\ account'.exists /\ account'.password = account.password
        /\ account'.suspended
    <2>1. account \in [exists : BOOLEAN, verified : BOOLEAN, suspended : BOOLEAN,
                       password : 0..MaxPasswords]
      BY DEF ShapeInv, TypeOK
    <2>2. QED
      BY <1>1, <2>1
  <1>3. x \in Request /\ x.pc = "suspend"
    BY IdleFits DEF Request, Pcs
  <1>4. ProperThen(x)
    BY <1>2, <1>3 DEF ProperThen
  <1> HIDE DEF x
  <1>5. req' \in [Requests -> Request] /\ \A q \in Requests : Proper(req[q])'
    BY <1>1, <1>2, <1>3, <1>4, RequestOf, GoesOn
  <1>6. QED
    BY <1>1, <1>2, <1>5 DEF ShapeInv, TypeOK, At, Proper, Request

\* A revocation marks the requests it overtakes, and keeps their places.
LEMMA OvertakenRequests ==
  ASSUME ShapeInv, NEW r \in Requests
  PROVE  /\ Overtaken(r) \in [Requests -> Request] /\ Overtaken(r)[r] = Idle
         /\ \A q \in Requests : q # r =>
                /\ Overtaken(r)[q].pc = req[q].pc /\ Overtaken(r)[q].at = req[q].at
                /\ Overtaken(r)[q].kind = req[q].kind
                /\ Overtaken(r)[q].password = req[q].password
                /\ req[q].pc \in {"grant", "rotate", "successor", "consumed"} => Overtaken(r)[q].late
  <1>1. ASSUME NEW q \in Requests PROVE req[q] \in Request
    BY DEF ShapeInv
  <1>2. ASSUME NEW q \in Requests
        PROVE  [req[q] EXCEPT !.late = TRUE] \in Request
    BY <1>1 DEF Request
  <1>3. QED
    BY <1>1, <1>2, IdleFits DEF Overtaken, Request

\* What is promised of passwords is at most the newest.
LEMMA RevokeAllShape ==
  ASSUME ShapeInv, NEW r \in Requests, RevokeAll(r)
  PROVE  ShapeInv'
  <1>1. /\ rows' = Revoked(DOMAIN rows) /\ req' = Overtaken(r) /\ second' = second
        /\ account' = account /\ links' = links /\ account.exists
    BY RequestOf DEF RevokeAll, Proper
  <1>2. rows \in Seq(Row)
    BY DEF ShapeInv, TypeOK
  <1>3. /\ rows' \in Seq(Row) /\ Len(rows') = Len(rows) /\ DOMAIN rows' = DOMAIN rows
        /\ \A m \in DOMAIN rows : rows'[m].parent = rows[m].parent
    BY <1>1, <1>2, RevokedRows
  <1>4. req' \in [Requests -> Request]
    BY <1>1, OvertakenRequests
  <1>5. ASSUME NEW q \in Requests PROVE Proper(req[q])'
    <2>1. CASE q = r
      <3>1. req'[q] = Idle
        BY <1>1, <2>1, OvertakenRequests
      <3>2. QED
        BY <3>1, IdleFits DEF Proper
    <2>2. CASE q # r
      <3>1. /\ req'[q].pc = req[q].pc /\ req'[q].at = req[q].at
            /\ req'[q].password = req[q].password
        BY <1>1, <2>2, OvertakenRequests
      <3>2. Proper(req[q])
        BY RequestOf
      <3>3. QED
        BY <1>1, <1>3, <3>1, <3>2 DEF Proper
    <2>3. QED
      BY <2>1, <2>2
  <1>6. ended' \in 0..account'.password
    <2>1. ended \in 0..account.password /\ req[r].password \in Nat
          /\ (At(r, "revoke") => req[r].password <= account.password)
          /\ account.password \in Nat
      BY RequestOf DEF ShapeInv, TypeOK, At, Proper, Request
    <2>2. ended' = ended \/ (At(r, "revoke") /\ ended' = req[r].password)
      BY DEF RevokeAll, Promised
    <2>3. QED
      BY <1>1, <2>1, <2>2
  <1>7. barred' => account'.suspended
    BY <1>1 DEF RevokeAll, Promised, ShapeInv, TypeOK
  <1>8. QED
    BY <1>1, <1>3, <1>4, <1>5, <1>6, <1>7 DEF ShapeInv, TypeOK, At, Proper, Request

\* What is about links keeps the shapes.
LEMMA AskLinkShape ==
  ASSUME ShapeInv, NEW r \in Requests, NEW kind \in MailKinds, AskLink(r, kind)
  PROVE  ShapeInv'
  <1> DEFINE x == [Idle EXCEPT !.pc = "issue", !.kind = kind]
  <1>1. /\ links' = LinksUsed(kind) /\ rows' = rows /\ second' = second /\ account' = account
        /\ ended' = ended /\ barred' = barred /\ Go(r, x) /\ account.exists
    BY DEF AskLink, ghosts
  <1>2. links \in Seq(Link) /\ account.password \in Nat
    BY DEF ShapeInv, TypeOK
  <1>3. links' \in Seq(Link) /\ DOMAIN links' = DOMAIN links
    BY <1>1, <1>2, MarkedLinks
  <1>4. x \in Request /\ x.pc = "issue"
    BY IdleFits DEF Request, Pcs, Kinds
  <1>5. ProperThen(x)
    BY <1>1, <1>4 DEF ProperThen
  <1> HIDE DEF x
  <1>6. req' \in [Requests -> Request] /\ \A q \in Requests : Proper(req[q])'
    BY <1>1, <1>2, <1>3, <1>4, <1>5, GoesOn
  <1>7. QED
    BY <1>1, <1>3, <1>6 DEF ShapeInv, TypeOK, At, Proper, Request

\* Asking for a download writes nothing yet.
LEMMA AskDownloadShape ==
  ASSUME ShapeInv, NEW r \in Requests, AskDownload(r)
  PROVE  ShapeInv'
  <1> DEFINE x == [Idle EXCEPT !.pc = "issue", !.kind = "DOWNLOAD"]
  <1>1. x \in Request /\ x.pc = "issue"
    BY IdleFits DEF Request, Pcs, Kinds
  <1>2. Proper(x)
    BY <1>1 DEF Proper, AskDownload
  <1>3. Go(r, x) /\ UNCHANGED <<second, tables, ghosts>>
    BY DEF AskDownload
  <1> HIDE DEF x
  <1>4. QED
    BY <1>1, <1>2, <1>3, GoesOnAlone

\* The link that is sent is open and unused.
LEMMA SentLink ==
  ASSUME ShapeInv, NEW r \in Requests, SendLink(r)
  PROVE  /\ links' \in Seq(Link) /\ Len(links) \in Nat
         /\ DOMAIN links = 1..Len(links) /\ DOMAIN links' = 1..Len(links) + 1
         /\ \A n \in DOMAIN links : links'[n] = links[n]
         /\ links'[Len(links) + 1] = [kind |-> req[r].kind, live |-> TRUE, uses |-> 0]
  <1> DEFINE link == [kind |-> req[r].kind, live |-> TRUE, uses |-> 0]
  <1>1. link \in Link
    BY RequestOf DEF Link, Request
  <1>2. links' = Append(links, link)
    BY DEF SendLink
  <1>3. links \in Seq(Link)
    BY DEF ShapeInv, TypeOK
  <1> HIDE DEF link
  <1>4. QED
    BY <1>1, <1>2, <1>3, AppendProperties, LenProperties DEF link

\* The links grow by one.
LEMMA SendLinkShape ==
  ASSUME ShapeInv, NEW r \in Requests, SendLink(r)
  PROVE  ShapeInv'
  <1>1. /\ rows' = rows /\ second' = second /\ account' = account
        /\ ended' = ended /\ barred' = barred /\ Go(r, Idle) /\ account.exists
        /\ account.password \in Nat
    BY RequestOf DEF SendLink, ghosts, End, At, Proper
  <1>2. links' \in Seq(Link) /\ DOMAIN links \subseteq DOMAIN links'
    <2>1. /\ links' \in Seq(Link) /\ Len(links) \in Nat
          /\ DOMAIN links = 1..Len(links) /\ DOMAIN links' = 1..Len(links) + 1
      BY SentLink
    <2>2. QED
      BY <2>1
  <1>3. req' \in [Requests -> Request] /\ \A q \in Requests : Proper(req[q])'
    BY <1>1, <1>2, IdleFits, GoesOn
  <1>4. QED
    BY <1>1, <1>2, <1>3 DEF ShapeInv, TypeOK, At, Proper, Request

\* The link followed is one of the table.
LEMMA FollowLinkShape ==
  ASSUME ShapeInv, NEW r \in Requests, NEW n \in DOMAIN links, FollowLink(r, n)
  PROVE  ShapeInv'
  <1> DEFINE x == [Idle EXCEPT !.pc = "follow", !.at = n]
  <1>1. links \in Seq(Link)
    BY DEF ShapeInv, TypeOK
  <1>2. n \in Nat /\ account.exists
    <2>1. n \in 1..Len(links) /\ Len(links) \in Nat
      BY <1>1, LenProperties
    <2>2. links # <<>>
      BY <2>1
    <2>3. QED
      BY <2>1, <2>2 DEF ShapeInv
  <1>3. x \in Request /\ x.pc = "follow" /\ x.at = n
    BY <1>2, IdleFits DEF Request, Pcs
  <1>4. Proper(x)
    BY <1>2, <1>3 DEF Proper
  <1>5. Go(r, x) /\ UNCHANGED <<second, tables, ghosts>>
    BY DEF FollowLink
  <1> HIDE DEF x
  <1>6. QED
    BY <1>3, <1>4, <1>5, GoesOnAlone

\* What a request does with its link: it is used once more, and not open any more.
LEMMA UsedLink ==
  ASSUME ShapeInv, NEW r \in Requests, UseLink(r)
  PROVE  /\ req[r].at \in DOMAIN links /\ account.exists
         /\ links' \in Seq(Link) /\ DOMAIN links' = DOMAIN links
         /\ \A n \in DOMAIN links :
                /\ links'[n].kind = links[n].kind
                /\ links'[n].live => links[n].live /\ n # req[r].at
                /\ links'[n].uses = IF n = req[r].at THEN links[n].uses + 1 ELSE links[n].uses
         /\ \E x \in Request : /\ Go(r, x) /\ x.at = 0 /\ x.pc \in {"idle", "reset", "consumed"}
                               /\ x.password \in {0, account.password}
                               /\ x.pc = "consumed" => x.password = account.password
  <1> DEFINE at == req[r].at
             link == [kind |-> links[at].kind, live |-> FALSE, uses |-> links[at].uses + 1]
  <1>1. at \in DOMAIN links /\ account.exists
    BY RequestOf DEF UseLink, At, Proper
  <1>2. links \in Seq(Link) /\ DOMAIN links = 1..Len(links)
    BY LenProperties DEF ShapeInv, TypeOK
  <1>3. \A n \in DOMAIN links : links[n] \in Link
    BY <1>2, ElementOfSeq
  <1>4. link \in Link /\ ~link.live /\ link.uses = links[at].uses + 1 /\ link.kind = links[at].kind
    BY <1>1, <1>3 DEF Link
  <1>5. links' = [links EXCEPT ![at] = link]
    <2>1. links' = [links EXCEPT ![at].live = FALSE, ![at].uses = @ + 1]
      BY DEF UseLink
    <2>2. DOMAIN links' = DOMAIN links
      BY <2>1
    <2>3. ASSUME NEW n \in DOMAIN links PROVE links'[n] = IF n = at THEN link ELSE links[n]
      <3>1. CASE n # at
        BY <1>1, <2>1, <3>1
      <3>2. CASE n = at
        <4>1. links[at] \in [kind : Kinds, live : BOOLEAN, uses : Nat]
          BY <1>1, <1>3 DEF Link
        <4> DEFINE closed == [links[at] EXCEPT !.live = FALSE]
        <4>2. closed \in [kind : Kinds, live : BOOLEAN, uses : Nat]
              /\ closed.kind = links[at].kind /\ ~closed.live /\ closed.uses = links[at].uses
          BY <4>1
        <4>3. links'[at] = [closed EXCEPT !.uses = links[at].uses + 1]
          BY <1>1, <2>1, <4>2
        <4> HIDE DEF closed
        <4>4. QED
          BY <3>2, <4>1, <4>2, <4>3
      <3>3. QED
        BY <3>1, <3>2
    <2>4. QED
      BY <1>1, <2>1, <2>2, <2>3
  <1> HIDE DEF link
  <1>6. /\ links' \in Seq(Link) /\ DOMAIN links' = DOMAIN links
        /\ \A n \in DOMAIN links : links'[n] = IF n = at THEN link ELSE links[n]
    BY <1>1, <1>2, <1>4, <1>5, ExceptSeq, LenProperties
  <1>7. \E x \in Request : /\ Go(r, x) /\ x.at = 0 /\ x.pc \in {"idle", "reset", "consumed"}
                           /\ x.password \in {0, account.password}
                           /\ x.pc = "consumed" => x.password = account.password
    <2>1. Go(r, AfterLink(links[at].kind))
      BY DEF UseLink
    <2>2. AfterLink(links[at].kind) \in {Idle, Holding("reset"), Holding("consumed")}
      BY DEF AfterLink
    <2>3. "reset" \in Pcs /\ "consumed" \in Pcs
      BY DEF Pcs
    <2>4. QED
      BY <2>1, <2>2, <2>3, IdleFits, HoldingIs
  <1>8. QED
    BY <1>1, <1>3, <1>4, <1>6, <1>7

\* The request goes on with the account as it is, or is over.
LEMMA UseLinkShape ==
  ASSUME ShapeInv, NEW r \in Requests, UseLink(r)
  PROVE  ShapeInv'
  <1>1. /\ rows' = rows /\ second' = second /\ account' = account
        /\ ended' = ended /\ barred' = barred /\ account.password \in Nat
    BY RequestOf DEF UseLink, ghosts
  <1>2. links' \in Seq(Link) /\ DOMAIN links' = DOMAIN links /\ account.exists
    BY UsedLink
  <1>3. PICK x \in Request : Go(r, x) /\ x.at = 0 /\ x.pc \in {"idle", "reset", "consumed"}
    BY UsedLink
  <1>4. ProperThen(x)
    BY <1>1, <1>2, <1>3 DEF ProperThen
  <1>5. req' \in [Requests -> Request] /\ \A q \in Requests : Proper(req[q])'
    BY <1>1, <1>2, <1>3, <1>4, GoesOn
  <1>6. QED
    BY <1>1, <1>2, <1>5 DEF ShapeInv, TypeOK, At, Proper, Request

\* A verified address signs in.
LEMMA VerifyShape ==
  ASSUME ShapeInv, NEW r \in Requests, Verify(r)
  PROVE  ShapeInv'
  <1> DEFINE late == req[r].late \/ account.suspended
             x == [req[r] EXCEPT !.pc = "grant", !.late = late]
  <1>1. /\ account' = [account EXCEPT !.verified = TRUE]
        /\ rows' = rows /\ links' = links /\ second' = second /\ ended' = ended
        /\ barred' = barred /\ account.exists /\ req[r].at = 0 /\ req[r].pc = "consumed"
    BY RequestOf DEF Verify, ghosts, At, Proper
  <1>2. account \in [exists : BOOLEAN, verified : BOOLEAN, suspended : BOOLEAN,
                     password : 0..MaxPasswords]
    BY DEF ShapeInv, TypeOK
  <1>3. /\ account' \in [exists : BOOLEAN, verified : BOOLEAN, suspended : BOOLEAN,
                         password : 0..MaxPasswords]
        /\ account'.exists /\ account'.password = account.password
        /\ account'.suspended = account.suspended
    BY <1>1, <1>2
  <1>4. Go(r, x)
    BY RequestOf DEF Verify, Request
  <1>5. late \in BOOLEAN
    OBVIOUS
  <1> HIDE DEF late
  <1>6. x \in Request /\ x.pc = "grant" /\ x.at = 0
    BY <1>1, <1>5, RequestOf DEF Request, Pcs
  <1>7. ProperThen(x)
    BY <1>3, <1>6 DEF ProperThen
  <1> HIDE DEF x
  <1>8. req' \in [Requests -> Request] /\ \A q \in Requests : Proper(req[q])'
    BY <1>1, <1>3, <1>4, <1>6, <1>7, RequestOf, GoesOn
  <1>9. QED
    BY <1>1, <1>3, <1>8 DEF ShapeInv, TypeOK, At, Proper, Request

\* A request that fails is over.
LEMMA FailShape ==
  ASSUME ShapeInv, NEW r \in Requests, Fail(r)
  PROVE  ShapeInv'
  BY IdleFits, GoesOnAlone DEF Fail, End

\* The clock, the bulk handlers and a deletion keep the shapes.
LEMMA OthersShape ==
  ASSUME ShapeInv, Tick \/ BulkSuspend \/ Activate \/ Delete
  PROVE  ShapeInv'
  <1>0. /\ account \in [exists : BOOLEAN, verified : BOOLEAN, suspended : BOOLEAN,
                        password : 0..MaxPasswords]
        /\ req \in [Requests -> Request] /\ \A q \in Requests : Proper(req[q])
    BY DEF ShapeInv, TypeOK
  <1>1. CASE Tick
    BY <1>1 DEF Tick, tables, ghosts, ShapeInv, TypeOK, At, Proper, Request
  <1>2. CASE BulkSuspend
    <2>1. /\ account' = [account EXCEPT !.suspended = TRUE] /\ account.exists
          /\ UNCHANGED <<second, rows, links, req, ended, barred>>
      BY <1>2 DEF BulkSuspend, ghosts
    <2>2. /\ account' \in [exists : BOOLEAN, verified : BOOLEAN, suspended : BOOLEAN,
                           password : 0..MaxPasswords]
          /\ account'.exists /\ account'.password = account.password /\ account'.suspended
      BY <1>0, <2>1
    <2>3. \A q \in Requests : Proper(req[q])'
      BY <1>0, <2>1, <2>2 DEF Proper
    <2>4. QED
      BY <2>1, <2>2, <2>3 DEF ShapeInv, TypeOK, At
  <1>3. CASE Activate
    <2>1. /\ account' = [account EXCEPT !.suspended = FALSE] /\ account.exists /\ barred' = FALSE
          /\ UNCHANGED <<second, rows, links, req, ended>>
      BY <1>3 DEF Activate
    <2>2. /\ account' \in [exists : BOOLEAN, verified : BOOLEAN, suspended : BOOLEAN,
                           password : 0..MaxPasswords]
          /\ account'.exists /\ account'.password = account.password
      BY <1>0, <2>1
    <2>3. \A q \in Requests : Proper(req[q])'
      BY <1>0, <2>1, <2>2 DEF Proper
    <2>4. QED
      BY <2>1, <2>2, <2>3 DEF ShapeInv, TypeOK, At
  <1>4. CASE Delete
    <2>1. /\ account' = Missing /\ rows' = <<>> /\ links' = <<>> /\ second' = second
          /\ req' = [q \in Requests |-> Idle] /\ ended' = 0 /\ barred' = FALSE
      BY <1>4 DEF Delete
    <2>2. /\ account' \in [exists : BOOLEAN, verified : BOOLEAN, suspended : BOOLEAN,
                           password : 0..MaxPasswords]
          /\ account'.password = 0
      BY <2>1, MissingIs
    <2>3. \A q \in Requests : req'[q] = Idle
      BY <2>1
    <2>4. req' \in [Requests -> Request] /\ \A q \in Requests : Proper(req[q])'
      BY <2>1, <2>3, IdleFits DEF Proper
    <2>5. /\ rows' \in Seq(Row) /\ links' \in Seq(Link) /\ Len(rows') <= MaxRows
          /\ DOMAIN rows' = {}
      BY <2>1
    <2>6. \A q \in Requests :
             /\ req'[q].pc \in Pcs /\ req'[q].kind \in Kinds
             /\ req'[q].password \in 0..MaxPasswords /\ req'[q].late \in BOOLEAN
             /\ req'[q].pc = "idle"
      BY <2>3, IdleFits DEF Request
    <2>7. ShapeInv!1'
      BY <2>1, <2>2, <2>5, <2>6 DEF ShapeInv, TypeOK, At
    <2>8. QED
      BY <2>1, <2>2, <2>4, <2>5, <2>7 DEF ShapeInv
  <1>5. QED
    BY <1>1, <1>2, <1>3, <1>4

\* Every step keeps the shapes.
LEMMA ShapeStep ==
  ASSUME ShapeInv, [Next]_vars
  PROVE  ShapeInv'
  <1>1. CASE UNCHANGED vars
    BY <1>1 DEF vars, tables, ghosts, ShapeInv, TypeOK, At, Proper, Request
  <1>2. ASSUME NEW r \in Requests, WaysIn(r) PROVE ShapeInv'
    BY <1>2, RegisterShape, LoginShape, GoogleLoginShape, PersistShape, BecomeCreatorShape,
       RefreshShape, FindRowShape, RotateShape DEF WaysIn
  <1>3. ASSUME NEW r \in Requests, WaysOut(r) PROVE ShapeInv'
    BY <1>3, LogoutShape, ChangePasswordShape, SetPasswordShape, SuspendShape, RevokeAllShape
       DEF WaysOut
  <1>4. ASSUME NEW r \in Requests, ByLink(r) PROVE ShapeInv'
    BY <1>4, AskLinkShape, AskDownloadShape, SendLinkShape, FollowLinkShape, UseLinkShape,
       VerifyShape DEF ByLink
  <1>5. QED
    BY <1>1, <1>2, <1>3, <1>4, FailShape, OthersShape DEF Next

\* Nothing is there at the start.
LEMMA ShapeAtFirst == Init => ShapeInv
  <1> SUFFICES ASSUME Init PROVE ShapeInv
    OBVIOUS
  <1>1. /\ second = 0 /\ account = Missing /\ rows = <<>> /\ links = <<>> /\ ended = 0
        /\ barred = FALSE /\ req \in [Requests -> Request]
    BY IdleFits DEF Init
  <1>2. \A r \in Requests : req[r] = Idle
    BY DEF Init
  <1>3. \A r \in Requests : Proper(req[r])
    BY <1>2, IdleFits
  <1>4. \A r \in Requests :
           /\ req[r].pc \in Pcs /\ req[r].kind \in Kinds
           /\ req[r].password \in 0..MaxPasswords /\ req[r].late \in BOOLEAN
           /\ req[r].pc = "idle"
    BY <1>2, IdleFits DEF Request
  <1>5. TypeOK
    BY <1>1, <1>4, MissingIs DEF TypeOK, At
  <1>6. QED
    BY <1>1, <1>3, <1>5 DEF ShapeInv

(***************************************************************************)
(* Old sessions, suspensions and verified addresses                        *)
(***************************************************************************)

\* What a request goes on as keeps the promises after the step.
KeepingThen(x) ==
  /\ x.pc \in {"grant", "rotate", "successor", "consumed"} => x.password >= ended' \/ x.late
  /\ barred' /\ x.pc \in {"grant", "rotate", "successor"} => x.late
  /\ x.pc = "grant" => account'.verified

\* The requests keep the promises when no new one is made.
LEMMA RequestsKeep ==
  ASSUME ShapeInv, PromiseInv, NEW r \in Requests, NEW x \in Request, Go(r, x), KeepingThen(x),
         ended' = ended, barred' => barred, account.verified => account'.verified
  PROVE  \A q \in Requests : Keeping(req[q])'
  <1>1. req \in [Requests -> Request]
    BY DEF ShapeInv
  <1>2. \A q \in Requests : req'[q] = IF q = r THEN x ELSE req[q]
    BY <1>1 DEF Go
  <1>3. ASSUME NEW q \in Requests PROVE Keeping(req[q])'
    <2>1. CASE q = r
      BY <1>2, <2>1 DEF Keeping, KeepingThen, Current
    <2>2. CASE q # r
      <3>1. req'[q] = req[q] /\ Keeping(req[q])
        BY <1>2, <2>2 DEF PromiseInv
      <3>2. QED
        BY <3>1 DEF Keeping, Current
    <2>3. QED
      BY <2>1, <2>2
  <1>4. QED
    BY <1>3

\* A request that goes on, the sessions as they are.
LEMMA PromiseGoesOn ==
  ASSUME ShapeInv, PromiseInv, NEW r \in Requests, NEW x \in Request, Go(r, x), KeepingThen(x),
         rows' = rows, ended' = ended, barred' => barred,
         account.verified => account'.verified
  PROVE  PromiseInv'
  <1>1. \A q \in Requests : Keeping(req[q])'
    BY RequestsKeep
  <1>2. OldSessionsEnd' /\ SuspendedIsOut' /\ SessionsAreVerified'
    BY DEF PromiseInv, OldSessionsEnd, SuspendedIsOut, SessionsAreVerified
  <1>3. QED
    BY <1>1, <1>2 DEF PromiseInv

\* A request that does not end in a session.
LEMMA PromiseElsewhere ==
  ASSUME ShapeInv, PromiseInv, NEW r \in Requests, NEW x \in Request, Go(r, x),
         x.pc \notin {"grant", "rotate", "successor", "consumed"},
         rows' = rows, ended' = ended, barred' => barred,
         account.verified => account'.verified
  PROVE  PromiseInv'
  BY PromiseGoesOn DEF KeepingThen

\* No table changes.
LEMMA Unchanged ==
  ASSUME UNCHANGED <<second, tables, ghosts>>
  PROVE  /\ rows' = rows /\ links' = links /\ account' = account /\ ended' = ended
         /\ barred' = barred
  BY DEF tables, ghosts

\* The ways in: a new session is of the password in force, or is marked late.
LEMMA PromiseIn ==
  ASSUME ShapeInv, PromiseInv, NEW r \in Requests, WaysIn(r)
  PROVE  PromiseInv'
  <1>0. /\ account.password \in Nat /\ ended \in Nat /\ ended <= account.password
        /\ (barred => account.suspended) /\ "grant" \in Pcs
        /\ \A q \in Requests : req[q] \in Request
    BY DEF ShapeInv, TypeOK, Pcs
  <1>1. CASE Register(r)
    <2> DEFINE x == [Idle EXCEPT !.pc = "issue", !.kind = "VERIFY"]
    <2>1. x \in Request /\ x.pc = "issue"
      BY IdleFits DEF Request, Pcs, Kinds, MailKinds
    <2>2. Go(r, x) /\ rows' = rows /\ ended' = ended /\ barred' = barred
      BY <1>1 DEF Register, ghosts
    <2>3. ~account.verified
      BY <1>1, MissingIs DEF Register, ShapeInv
    <2> HIDE DEF x
    <2>4. QED
      BY <2>1, <2>2, <2>3, PromiseElsewhere
  <1>2. CASE Login(r)
    <2>1. /\ Go(r, Holding("grant")) /\ UNCHANGED <<second, tables, ghosts>>
          /\ account.verified /\ ~account.suspended
      BY <1>2 DEF Login
    <2>2. /\ Holding("grant") \in Request /\ Holding("grant").pc = "grant"
          /\ Holding("grant").password = account.password
      BY <1>0, HoldingIs
    <2>3. KeepingThen(Holding("grant"))
      BY <1>0, <2>1, <2>2, Unchanged DEF KeepingThen
    <2>4. QED
      BY <2>1, <2>2, <2>3, Unchanged, PromiseGoesOn
  <1>3. CASE GoogleLogin(r)
    <2> DEFINE x == [Holding("grant") EXCEPT !.late = account.suspended]
    <2>1. Go(r, x) /\ rows' = rows /\ ended' = ended /\ barred' = barred
      BY <1>3 DEF GoogleLogin, ghosts
    <2>2. /\ x \in Request /\ x.pc = "grant" /\ x.password = account.password
          /\ x.late = account.suspended
      BY <1>0, HoldingIs, RequestOf DEF Request
    <2>3. account'.verified
      <3>1. account \in [exists : BOOLEAN, verified : BOOLEAN, suspended : BOOLEAN,
                         password : 0..MaxPasswords]
        BY DEF ShapeInv, TypeOK
      <3>2. QED
        BY <1>3, <3>1 DEF GoogleLogin, Registered
    <2> HIDE DEF x
    <2>4. KeepingThen(x)
      BY <1>0, <2>1, <2>2, <2>3 DEF KeepingThen
    <2>5. QED
      BY <2>1, <2>2, <2>3, <2>4, PromiseGoesOn
  <1>4. CASE Persist(r)
    <2>1. /\ account' = account /\ ended' = ended /\ barred' = barred /\ Go(r, Idle)
          /\ req[r].pc \in {"grant", "successor"}
      BY <1>4 DEF Persist, ghosts, End
    <2>2. /\ DOMAIN rows = 1..Len(rows) /\ DOMAIN rows' = 1..Len(rows) + 1 /\ Len(rows) \in Nat
          /\ \A n \in DOMAIN rows : rows'[n] = rows[n]
          /\ rows'[Len(rows) + 1].password = req[r].password
          /\ rows'[Len(rows) + 1].late = req[r].late
      BY <1>4, StoredRow
    <2>3. DOMAIN rows' = DOMAIN rows \cup {Len(rows) + 1}
      BY <2>2
    <2>4. Current(req[r]) /\ (barred => req[r].late)
      BY <2>1 DEF PromiseInv, Keeping
    <2>5. OldSessionsEnd'
      BY <2>1, <2>2, <2>3, <2>4 DEF PromiseInv, OldSessionsEnd, Current
    <2>6. SuspendedIsOut'
      BY <2>1, <2>2, <2>3, <2>4 DEF PromiseInv, SuspendedIsOut
    <2>7. account.verified
      <3>1. CASE req[r].pc = "grant"
        BY <3>1 DEF PromiseInv, Keeping
      <3>2. CASE req[r].pc = "successor"
        <4>1. req[r].at \in DOMAIN rows
          BY <3>2, RequestOf DEF Proper
        <4>2. rows # <<>>
          BY <4>1
        <4>3. QED
          BY <4>2 DEF PromiseInv, SessionsAreVerified
      <3>3. QED
        BY <2>1, <3>1, <3>2
    <2>8. KeepingThen(Idle)
      BY IdleFits DEF KeepingThen
    <2>9. \A q \in Requests : Keeping(req[q])'
      BY <2>1, <2>8, IdleFits, RequestsKeep
    <2>10. QED
      BY <2>1, <2>5, <2>6, <2>7, <2>9 DEF PromiseInv, SessionsAreVerified
  <1>5. ASSUME NEW n \in DOMAIN rows, BecomeCreator(r, n) PROVE PromiseInv'
    <2> DEFINE late == rows[n].late \/ rows[n].password < ended \/ account.suspended
               x == [Holding("grant") EXCEPT !.password = rows[n].password, !.late = late]
    <2>1. late \in BOOLEAN
      OBVIOUS
    <2>2. Go(r, x) /\ UNCHANGED <<second, tables, ghosts>>
      BY <1>5 DEF BecomeCreator
    <2>3. rows[n].password \in Nat /\ (late \/ rows[n].password >= ended)
          /\ (barred => late)
      BY <1>0, RowAt
    <2> HIDE DEF late
    <2>4. x \in Request /\ x.pc = "grant" /\ x.password = rows[n].password /\ x.late = late
      BY <1>0, <2>1, HoldingIs, RowAt DEF Request
    <2>5. account.verified
      <3>1. rows # <<>>
        OBVIOUS
      <3>2. QED
        BY <3>1 DEF PromiseInv, SessionsAreVerified
    <2> HIDE DEF x
    <2>6. KeepingThen(x)
      BY <2>2, <2>3, <2>4, <2>5, Unchanged DEF KeepingThen
    <2>7. QED
      BY <2>2, <2>4, <2>6, Unchanged, PromiseGoesOn
  <1>6. ASSUME NEW n \in DOMAIN rows, Refresh(r, n) PROVE PromiseInv'
    <2> DEFINE x == [Idle EXCEPT !.pc = "find", !.at = rows[n].token]
    <2>1. x \in Request /\ x.pc = "find"
      BY RowAt, IdleFits DEF Request, Pcs
    <2>2. Go(r, x) /\ UNCHANGED <<second, tables, ghosts>>
      BY <1>6 DEF Refresh
    <2> HIDE DEF x
    <2>3. QED
      BY <2>1, <2>2, Unchanged, PromiseElsewhere
  <1>7. ASSUME NEW n \in DOMAIN rows, FindRow(r, n) PROVE PromiseInv'
    <2> DEFINE x == [req[r] EXCEPT !.pc = "rotate", !.at = n,
                                   !.password = rows[n].password, !.late = rows[n].late]
    <2>1. /\ x \in Request /\ x.pc = "rotate" /\ x.password = rows[n].password
          /\ x.late = rows[n].late
      BY <1>0, RowAt DEF Request, Pcs
    <2>2. Go(r, x) /\ UNCHANGED <<second, tables, ghosts>> /\ rows[n].live
      BY <1>7 DEF FindRow
    <2>3. (rows[n].password >= ended \/ rows[n].late) /\ (barred => rows[n].late)
      BY <2>2 DEF PromiseInv, OldSessionsEnd, SuspendedIsOut
    <2> HIDE DEF x
    <2>4. KeepingThen(x)
      BY <2>1, <2>2, <2>3, Unchanged DEF KeepingThen
    <2>5. QED
      BY <2>1, <2>2, <2>4, Unchanged, PromiseGoesOn
  <1>8. CASE Rotate(r)
    <2> DEFINE x == [req[r] EXCEPT !.pc = "successor"]
    <2>1. /\ Go(r, x) /\ account' = account /\ ended' = ended /\ barred' = barred
          /\ req[r].pc = "rotate"
      BY <1>8 DEF Rotate, ghosts, At
    <2>2. /\ x \in Request /\ x.pc = "successor" /\ x.password = req[r].password
          /\ x.late = req[r].late
      BY <1>0 DEF Request, Pcs
    <2>3. Keeping(req[r])
      BY DEF PromiseInv
    <2> HIDE DEF x
    <2>4. KeepingThen(x)
      BY <2>1, <2>2, <2>3 DEF Keeping, KeepingThen, Current
    <2>5. \A q \in Requests : Keeping(req[q])'
      BY <2>1, <2>2, <2>4, RequestsKeep
    <2>6. /\ DOMAIN rows' = DOMAIN rows
          /\ \A n \in DOMAIN rows : /\ rows'[n].live => rows[n].live
                                    /\ rows'[n].password = rows[n].password
                                    /\ rows'[n].late = rows[n].late
      <3>1. /\ DOMAIN rows' = DOMAIN rows
            /\ \A n \in DOMAIN rows : rows'[n] = [rows[n] EXCEPT !.live = @ /\ n # req[r].at]
        BY <1>8, RotateShape
      <3>2. \A n \in DOMAIN rows : rows[n] \in Row
        BY RowAt
      <3>3. QED
        BY <3>1, <3>2 DEF Row
    <2>7. OldSessionsEnd' /\ SuspendedIsOut'
      BY <2>1, <2>6 DEF PromiseInv, OldSessionsEnd, SuspendedIsOut
    <2>8. account.verified
      <3>1. rows # <<>>
        BY <1>8, RotateShape
      <3>2. QED
        BY <3>1 DEF PromiseInv, SessionsAreVerified
    <2>9. QED
      BY <2>1, <2>5, <2>7, <2>8 DEF PromiseInv, SessionsAreVerified
  <1>9. QED
    BY <1>1, <1>2, <1>3, <1>4, <1>5, <1>6, <1>7, <1>8 DEF WaysIn

\* The ways out: a revocation makes the promise, and marks what it cannot reach.
LEMMA PromiseOut ==
  ASSUME ShapeInv, PromiseInv, NEW r \in Requests, WaysOut(r)
  PROVE  PromiseInv'
  <1>1. ASSUME NEW n \in DOMAIN rows, Logout(r, n) PROVE PromiseInv'
    <2> DEFINE gone == {m \in DOMAIN rows : rows[m].token = rows[n].token}
               x == [Idle EXCEPT !.pc = "logout"]
    <2>1. /\ rows' = Revoked(gone) /\ account' = account /\ ended' = ended /\ barred' = barred
          /\ req' = req \/ Go(r, x)
      BY <1>1 DEF Logout, ghosts, Go
    <2> HIDE DEF gone
    <2>2. rows \in Seq(Row)
      BY DEF ShapeInv, TypeOK
    <2>3. /\ DOMAIN rows' = DOMAIN rows
          /\ \A m \in DOMAIN rows : /\ rows'[m].live => rows[m].live
                                    /\ rows'[m].password = rows[m].password
                                    /\ rows'[m].late = rows[m].late
      BY <2>1, <2>2, RevokedRows
    <2>4. OldSessionsEnd' /\ SuspendedIsOut'
      BY <2>1, <2>3 DEF PromiseInv, OldSessionsEnd, SuspendedIsOut
    <2>5. SessionsAreVerified'
      <3>1. rows # <<>>
        OBVIOUS
      <3>2. QED
        BY <2>1, <3>1 DEF PromiseInv, SessionsAreVerified
    <2>6. \A q \in Requests : Keeping(req[q])'
      <3>1. CASE req' = req
        BY <2>1, <3>1 DEF PromiseInv, Keeping, Current
      <3>2. CASE Go(r, x)
        <4>1. x \in Request /\ x.pc = "logout"
          BY IdleFits DEF Request, Pcs
        <4> HIDE DEF x
        <4>2. KeepingThen(x)
          BY <4>1 DEF KeepingThen
        <4>3. QED
          BY <2>1, <3>2, <4>1, <4>2, RequestsKeep
      <3>3. QED
        BY <2>1, <3>1, <3>2
    <2>7. QED
      BY <2>4, <2>5, <2>6 DEF PromiseInv
  <1>2. ASSUME NEW n \in DOMAIN rows, ChangePassword(r, n) PROVE PromiseInv'
    <2> DEFINE x == [Idle EXCEPT !.pc = "change"]
    <2>1. x \in Request /\ x.pc = "change"
      BY IdleFits DEF Request, Pcs
    <2>2. Go(r, x) /\ UNCHANGED <<second, tables, ghosts>>
      BY <1>2 DEF ChangePassword
    <2> HIDE DEF x
    <2>3. QED
      BY <2>1, <2>2, Unchanged, PromiseElsewhere
  <1>3. CASE SetPassword(r)
    <2> DEFINE x == [Idle EXCEPT !.pc = "revoke", !.password = account.password + 1]
    <2>1. /\ account' = [account EXCEPT !.password = @ + 1] /\ account.password < MaxPasswords
          /\ rows' = rows /\ ended' = ended /\ barred' = barred /\ Go(r, x)
      BY <1>3 DEF SetPassword, ghosts
    <2>2. account.password + 1 \in 0..MaxPasswords
      BY <2>1, RequestOf
    <2>3. x \in Request /\ x.pc = "revoke"
      BY <2>2, IdleFits DEF Request, Pcs
    <2>4. account'.verified = account.verified
      BY <2>1 DEF ShapeInv, TypeOK
    <2> HIDE DEF x
    <2>5. QED
      BY <2>1, <2>3, <2>4, PromiseElsewhere
  <1>4. CASE Suspend(r)
    <2> DEFINE x == [Idle EXCEPT !.pc = "suspend"]
    <2>1. /\ account' = [account EXCEPT !.suspended = TRUE]
          /\ rows' = rows /\ ended' = ended /\ barred' = barred /\ Go(r, x)
      BY <1>4 DEF Suspend, ghosts
    <2>2. x \in Request /\ x.pc = "suspend"
      BY IdleFits DEF Request, Pcs
    <2>3. account'.verified = account.verified
      BY <2>1 DEF ShapeInv, TypeOK
    <2> HIDE DEF x
    <2>4. QED
      BY <2>1, <2>2, <2>3, PromiseElsewhere
  <1>5. CASE RevokeAll(r)
    <2>1. /\ rows' = Revoked(DOMAIN rows) /\ req' = Overtaken(r) /\ account' = account
      BY <1>5 DEF RevokeAll
    <2>2. rows \in Seq(Row)
      BY DEF ShapeInv, TypeOK
    <2>3. DOMAIN rows' = DOMAIN rows /\ \A n \in DOMAIN rows : ~rows'[n].live
      BY <2>1, <2>2, RevokedRows
    <2>4. OldSessionsEnd' /\ SuspendedIsOut'
      BY <2>3 DEF OldSessionsEnd, SuspendedIsOut
    <2>5. SessionsAreVerified'
      <3>1. CASE rows = <<>>
        <4>1. Len(rows') = 0 /\ rows' \in Seq(Row)
          BY <2>1, <2>2, <3>1, RevokedRows
        <4>2. rows' = <<>>
          BY <4>1, EmptySeq
        <4>3. QED
          BY <4>2 DEF SessionsAreVerified
      <3>2. CASE rows # <<>>
        BY <2>1, <3>2 DEF PromiseInv, SessionsAreVerified
      <3>3. QED
        BY <3>1, <3>2
    <2>6. ASSUME NEW q \in Requests PROVE Keeping(req[q])'
      <3>1. CASE q = r
        <4>1. req'[q] = Idle
          BY <2>1, <3>1, OvertakenRequests
        <4>2. QED
          BY <4>1, IdleFits DEF Keeping
      <3>2. CASE q # r
        <4>1. req'[q].pc = req[q].pc
              /\ (req[q].pc \in {"grant", "rotate", "successor", "consumed"} => req'[q].late)
          BY <2>1, <3>2, OvertakenRequests
        <4>2. req[q].pc = "grant" => account'.verified
          BY <2>1 DEF PromiseInv, Keeping
        <4>3. QED
          BY <4>1, <4>2 DEF Keeping, Current
      <3>3. QED
        BY <3>1, <3>2
    <2>7. QED
      BY <2>4, <2>5, <2>6 DEF PromiseInv
  <1>6. QED
    BY <1>1, <1>2, <1>3, <1>4, <1>5 DEF WaysOut

\* The links: only a verified address, or a reset, goes on.
LEMMA PromiseByLink ==
  ASSUME ShapeInv, PromiseInv, NEW r \in Requests, ByLink(r)
  PROVE  PromiseInv'
  <1>1. ASSUME NEW kind \in MailKinds, AskLink(r, kind) PROVE PromiseInv'
    <2> DEFINE x == [Idle EXCEPT !.pc = "issue", !.kind = kind]
    <2>1. x \in Request /\ x.pc = "issue"
      BY IdleFits DEF Request, Pcs, Kinds
    <2>2. Go(r, x) /\ rows' = rows /\ account' = account /\ ended' = ended /\ barred' = barred
      BY <1>1 DEF AskLink, ghosts
    <2> HIDE DEF x
    <2>3. QED
      BY <2>1, <2>2, PromiseElsewhere
  <1>2. CASE AskDownload(r)
    <2> DEFINE x == [Idle EXCEPT !.pc = "issue", !.kind = "DOWNLOAD"]
    <2>1. x \in Request /\ x.pc = "issue"
      BY IdleFits DEF Request, Pcs, Kinds
    <2>2. Go(r, x) /\ UNCHANGED <<second, tables, ghosts>>
      BY <1>2 DEF AskDownload
    <2> HIDE DEF x
    <2>3. QED
      BY <2>1, <2>2, Unchanged, PromiseElsewhere
  <1>3. CASE SendLink(r)
    <2>1. Go(r, Idle) /\ rows' = rows /\ account' = account /\ ended' = ended /\ barred' = barred
      BY <1>3 DEF SendLink, ghosts, End
    <2>2. QED
      BY <2>1, IdleFits, PromiseElsewhere
  <1>4. ASSUME NEW n \in DOMAIN links, FollowLink(r, n) PROVE PromiseInv'
    <2> DEFINE x == [Idle EXCEPT !.pc = "follow", !.at = n]
    <2>1. n \in Nat
      <3>1. links \in Seq(Link)
        BY DEF ShapeInv, TypeOK
      <3>2. QED
        BY <3>1, LenProperties
    <2>2. x \in Request /\ x.pc = "follow"
      BY <2>1, IdleFits DEF Request, Pcs
    <2>3. Go(r, x) /\ UNCHANGED <<second, tables, ghosts>>
      BY <1>4 DEF FollowLink
    <2> HIDE DEF x
    <2>4. QED
      BY <2>2, <2>3, Unchanged, PromiseElsewhere
  <1>5. CASE UseLink(r)
    <2>1. PICK x \in Request : /\ Go(r, x) /\ x.pc \in {"idle", "reset", "consumed"}
                               /\ x.pc = "consumed" => x.password = account.password
      BY <1>5, UsedLink
    <2>2. rows' = rows /\ account' = account /\ ended' = ended /\ barred' = barred
      BY <1>5 DEF UseLink, ghosts
    <2>3. account.password >= ended
      BY DEF ShapeInv, TypeOK
    <2>4. KeepingThen(x)
      BY <2>1, <2>2, <2>3 DEF KeepingThen
    <2>5. QED
      BY <2>1, <2>2, <2>4, PromiseGoesOn
  <1>6. CASE Verify(r)
    <2> DEFINE late == req[r].late \/ account.suspended
               x == [req[r] EXCEPT !.pc = "grant", !.late = late]
    <2>1. /\ account' = [account EXCEPT !.verified = TRUE] /\ rows' = rows
          /\ ended' = ended /\ barred' = barred /\ req[r].pc = "consumed"
      BY <1>6 DEF Verify, ghosts, At
    <2>2. account'.verified
      BY <2>1 DEF ShapeInv, TypeOK
    <2>3. Go(r, x)
      BY <1>6, RequestOf DEF Verify, Request
    <2>4. late \in BOOLEAN /\ (barred => late) /\ Current(req[r]) /\ (req[r].late => late)
      BY <2>1 DEF PromiseInv, Keeping, ShapeInv, TypeOK
    <2> HIDE DEF late
    <2>5. x \in Request /\ x.pc = "grant" /\ x.late = late /\ x.password = req[r].password
      BY <2>4, RequestOf DEF Request, Pcs
    <2> HIDE DEF x
    <2>6. KeepingThen(x)
      BY <2>1, <2>2, <2>4, <2>5 DEF KeepingThen, Current
    <2>7. QED
      BY <2>1, <2>2, <2>3, <2>5, <2>6, PromiseGoesOn
  <1>7. QED
    BY <1>1, <1>2, <1>3, <1>4, <1>5, <1>6 DEF ByLink

\* Every step keeps the promises.
LEMMA PromiseStep ==
  ASSUME ShapeInv, PromiseInv, [Next]_vars
  PROVE  PromiseInv'
  <1> USE DEF PromiseInv, OldSessionsEnd, SuspendedIsOut, SessionsAreVerified, Keeping, Current
  <1>1. CASE UNCHANGED vars
    BY <1>1 DEF vars, tables, ghosts
  <1>2. ASSUME NEW r \in Requests, Fail(r) PROVE PromiseInv'
    <2> USE <1>2
    <2>1. QED
      BY IdleFits, Unchanged, PromiseElsewhere DEF Fail, End
  <1>3. CASE Tick
    BY <1>3 DEF Tick, tables, ghosts
  <1>4. CASE BulkSuspend
    <2>1. account' = [account EXCEPT !.suspended = TRUE] /\ UNCHANGED <<rows, req, ended, barred>>
      BY <1>4 DEF BulkSuspend, ghosts
    <2>2. account'.verified = account.verified
      BY <2>1 DEF ShapeInv, TypeOK
    <2>3. QED
      BY <2>1, <2>2
  <1>5. CASE Activate
    <2>1. account' = [account EXCEPT !.suspended = FALSE] /\ UNCHANGED <<rows, req, ended>>
          /\ barred' = FALSE
      BY <1>5 DEF Activate
    <2>2. account'.verified = account.verified
      BY <2>1 DEF ShapeInv, TypeOK
    <2>3. QED
      BY <2>1, <2>2
  <1>6. CASE Delete
    <2>1. rows' = <<>> /\ barred' = FALSE /\ \A q \in Requests : req'[q] = Idle
      BY <1>6 DEF Delete
    <2>2. QED
      BY <2>1, IdleFits
  <1>7. QED
    BY <1>1, <1>2, <1>3, <1>4, <1>5, <1>6, PromiseIn, PromiseOut, PromiseByLink DEF Next

\* Without a row there is no promise to break.
LEMMA PromiseAtFirst == Init => PromiseInv
  <1> SUFFICES ASSUME Init PROVE PromiseInv
    OBVIOUS
  <1>1. rows = <<>> /\ barred = FALSE /\ \A q \in Requests : req[q] = Idle
    BY DEF Init
  <1>2. QED
    BY <1>1, IdleFits DEF PromiseInv, OldSessionsEnd, SuspendedIsOut, SessionsAreVerified, Keeping

(***************************************************************************)
(* Successors of a token                                                   *)
(***************************************************************************)

\* A step that rotates nothing: no row is new or live again, and no request is newly
\* about a row; and one that has nothing to do with links.
RowsQuiet ==
  /\ DOMAIN rows' = DOMAIN rows
  /\ \A n \in DOMAIN rows : rows'[n].parent = rows[n].parent /\ (rows'[n].live => rows[n].live)
  /\ \A q \in Requests : req'[q].pc \in {"rotate", "successor"} =>
         req[q].pc \in {"rotate", "successor"} /\ req[q].pc = req'[q].pc /\ req[q].at = req'[q].at

LinksQuiet ==
  /\ links' = links
  /\ \A q \in Requests :
         /\ req'[q].pc = "follow" => req[q].pc = "follow" /\ req[q].at = req'[q].at
         /\ req'[q].pc = "issue" /\ req'[q].kind # "DOWNLOAD" =>
                req[q].pc = "issue" /\ req[q].kind = req'[q].kind

\* A request goes on elsewhere, the others stay.
LEMMA GoesElsewhere ==
  ASSUME ShapeInv, NEW r \in Requests, NEW x, Go(r, x)
  PROVE  /\ x.pc \notin {"rotate", "successor"} /\ rows' = rows => RowsQuiet
         /\ x.pc # "follow" /\ (x.pc = "issue" => x.kind = "DOWNLOAD") /\ links' = links
                => LinksQuiet
  <1>1. \A q \in Requests : req'[q] = IF q = r THEN x ELSE req[q]
    BY DEF Go, ShapeInv
  <1>2. QED
    BY <1>1 DEF RowsQuiet, LinksQuiet

\* Of the ways in only a refresh rotates, and only a registration sends a link.
LEMMA QuietIn ==
  ASSUME ShapeInv, NEW r \in Requests, WaysIn(r)
  PROVE  /\ RowsQuiet \/ Persist(r) \/ Rotate(r) \/ \E n \in DOMAIN rows : FindRow(r, n)
         /\ LinksQuiet \/ Register(r)
  <1>0. "grant" \in Pcs
    BY DEF Pcs
  <1>1. CASE Register(r)
    <2> DEFINE x == [Idle EXCEPT !.pc = "issue", !.kind = "VERIFY"]
    <2>1. x.pc = "issue" /\ Go(r, x) /\ rows' = rows
      BY <1>1, IdleFits DEF Register, Request
    <2> HIDE DEF x
    <2>2. QED
      BY <1>1, <2>1, GoesElsewhere
  <1>2. CASE Login(r)
    <2>1. Go(r, Holding("grant")) /\ rows' = rows /\ links' = links
      BY <1>2, Unchanged DEF Login
    <2>2. QED
      BY <1>0, <2>1, HoldingIs, GoesElsewhere
  <1>3. CASE GoogleLogin(r)
    <2> DEFINE x == [Holding("grant") EXCEPT !.late = account.suspended]
    <2>1. Go(r, x) /\ rows' = rows /\ links' = links
      BY <1>3 DEF GoogleLogin
    <2>2. x.pc = "grant"
      BY <1>0, HoldingIs DEF Request
    <2> HIDE DEF x
    <2>3. QED
      BY <2>1, <2>2, GoesElsewhere
  <1>4. CASE Persist(r)
    <2>1. Go(r, Idle) /\ links' = links
      BY <1>4 DEF Persist, End
    <2>2. QED
      BY <1>4, <2>1, IdleFits, GoesElsewhere
  <1>5. ASSUME NEW n \in DOMAIN rows, BecomeCreator(r, n)
        PROVE  RowsQuiet /\ LinksQuiet
    <2> DEFINE late == rows[n].late \/ rows[n].password < ended \/ account.suspended
               x == [Holding("grant") EXCEPT !.password = rows[n].password, !.late = late]
    <2>1. Go(r, x) /\ rows' = rows /\ links' = links
      BY <1>5, Unchanged DEF BecomeCreator
    <2> HIDE DEF late
    <2>2. x.pc = "grant"
      BY <1>0, HoldingIs DEF Request
    <2> HIDE DEF x
    <2>3. QED
      BY <2>1, <2>2, GoesElsewhere
  <1>6. ASSUME NEW n \in DOMAIN rows, Refresh(r, n)
        PROVE  RowsQuiet /\ LinksQuiet
    <2> DEFINE x == [Idle EXCEPT !.pc = "find", !.at = rows[n].token]
    <2>1. Go(r, x) /\ rows' = rows /\ links' = links
      BY <1>6, Unchanged DEF Refresh
    <2>2. x.pc = "find"
      BY IdleFits DEF Request
    <2> HIDE DEF x
    <2>3. QED
      BY <2>1, <2>2, GoesElsewhere
  <1>7. ASSUME NEW n \in DOMAIN rows, FindRow(r, n)
        PROVE  LinksQuiet
    <2> DEFINE x == [req[r] EXCEPT !.pc = "rotate", !.at = n,
                                   !.password = rows[n].password, !.late = rows[n].late]
    <2>1. Go(r, x) /\ rows' = rows /\ links' = links
      BY <1>7, Unchanged DEF FindRow
    <2>2. x.pc = "rotate"
      BY RequestOf DEF Request
    <2> HIDE DEF x
    <2>3. QED
      BY <2>1, <2>2, GoesElsewhere
  <1>8. CASE Rotate(r)
    <2> DEFINE x == [req[r] EXCEPT !.pc = "successor"]
    <2>1. Go(r, x) /\ links' = links
      BY <1>8 DEF Rotate
    <2>2. x.pc = "successor"
      BY RequestOf DEF Request
    <2> HIDE DEF x
    <2>3. QED
      BY <1>8, <2>1, <2>2, GoesElsewhere
  <1>9. QED
    BY <1>1, <1>2, <1>3, <1>4, <1>5, <1>6, <1>7, <1>8 DEF WaysIn

\* A way out gives no token a successor and sends no link.
LEMMA QuietOut ==
  ASSUME ShapeInv, NEW r \in Requests, WaysOut(r)
  PROVE  RowsQuiet /\ LinksQuiet
  <1>0. rows \in Seq(Row)
    BY DEF ShapeInv, TypeOK
  <1>1. ASSUME NEW n \in DOMAIN rows, Logout(r, n) PROVE RowsQuiet /\ LinksQuiet
    <2> DEFINE gone == {m \in DOMAIN rows : rows[m].token = rows[n].token}
               x == [Idle EXCEPT !.pc = "logout"]
    <2>1. rows' = Revoked(gone) /\ links' = links /\ (req' = req \/ Go(r, x))
      BY <1>1 DEF Logout, Go
    <2> HIDE DEF gone
    <2>2. /\ DOMAIN rows' = DOMAIN rows
          /\ \A m \in DOMAIN rows : /\ rows'[m].live => rows[m].live
                                    /\ rows'[m].parent = rows[m].parent
      BY <1>0, <2>1, RevokedRows
    <2>3. x.pc = "logout"
      BY IdleFits DEF Request
    <2> HIDE DEF x
    <2>4. \A q \in Requests : req'[q] = req[q] \/ req'[q] = x
      BY <2>1 DEF Go, ShapeInv
    <2>5. QED
      BY <2>1, <2>2, <2>3, <2>4 DEF RowsQuiet, LinksQuiet
  <1>2. ASSUME NEW n \in DOMAIN rows, ChangePassword(r, n) PROVE RowsQuiet /\ LinksQuiet
    <2> DEFINE x == [Idle EXCEPT !.pc = "change"]
    <2>1. Go(r, x) /\ rows' = rows /\ links' = links
      BY <1>2, Unchanged DEF ChangePassword
    <2>2. x.pc = "change"
      BY IdleFits DEF Request
    <2> HIDE DEF x
    <2>3. QED
      BY <2>1, <2>2, GoesElsewhere
  <1>3. CASE SetPassword(r)
    <2> DEFINE x == [Idle EXCEPT !.pc = "revoke", !.password = account.password + 1]
    <2>1. Go(r, x) /\ rows' = rows /\ links' = links
      BY <1>3 DEF SetPassword
    <2>2. x.pc = "revoke"
      BY IdleFits DEF Request
    <2> HIDE DEF x
    <2>3. QED
      BY <2>1, <2>2, GoesElsewhere
  <1>4. CASE Suspend(r)
    <2> DEFINE x == [Idle EXCEPT !.pc = "suspend"]
    <2>1. Go(r, x) /\ rows' = rows /\ links' = links
      BY <1>4 DEF Suspend
    <2>2. x.pc = "suspend"
      BY IdleFits DEF Request
    <2> HIDE DEF x
    <2>3. QED
      BY <2>1, <2>2, GoesElsewhere
  <1>5. CASE RevokeAll(r)
    <2>1. rows' = Revoked(DOMAIN rows) /\ req' = Overtaken(r) /\ links' = links
      BY <1>5 DEF RevokeAll
    <2>2. /\ DOMAIN rows' = DOMAIN rows
          /\ \A m \in DOMAIN rows : /\ rows'[m].live => rows[m].live
                                    /\ rows'[m].parent = rows[m].parent
      BY <1>0, <2>1, RevokedRows
    <2>3. /\ req'[r] = Idle
          /\ \A q \in Requests : q # r => /\ req'[q].pc = req[q].pc /\ req'[q].at = req[q].at
                                          /\ req'[q].kind = req[q].kind
      BY <2>1, OvertakenRequests
    <2>4. QED
      BY <2>1, <2>2, <2>3, IdleFits DEF RowsQuiet, LinksQuiet
  <1>6. QED
    BY <1>1, <1>2, <1>3, <1>4, <1>5 DEF WaysOut

\* What is done with links rotates nothing.
LEMMA QuietByLink ==
  ASSUME ShapeInv, NEW r \in Requests, ByLink(r)
  PROVE  /\ RowsQuiet
         /\ LinksQuiet \/ SendLink(r) \/ UseLink(r) \/ (\E kind \in MailKinds : AskLink(r, kind))
                       \/ \E n \in DOMAIN links : FollowLink(r, n)
  <1>1. ASSUME NEW kind \in MailKinds, AskLink(r, kind) PROVE RowsQuiet
    <2> DEFINE x == [Idle EXCEPT !.pc = "issue", !.kind = kind]
    <2>1. Go(r, x) /\ rows' = rows
      BY <1>1 DEF AskLink
    <2>2. x.pc = "issue"
      BY IdleFits DEF Request
    <2> HIDE DEF x
    <2>3. QED
      BY <2>1, <2>2, GoesElsewhere
  <1>2. CASE AskDownload(r)
    <2> DEFINE x == [Idle EXCEPT !.pc = "issue", !.kind = "DOWNLOAD"]
    <2>1. Go(r, x) /\ rows' = rows /\ links' = links
      BY <1>2, Unchanged DEF AskDownload
    <2>2. x.pc = "issue" /\ x.kind = "DOWNLOAD"
      BY IdleFits DEF Request
    <2> HIDE DEF x
    <2>3. QED
      BY <2>1, <2>2, GoesElsewhere
  <1>3. CASE SendLink(r)
    <2>1. Go(r, Idle) /\ rows' = rows
      BY <1>3 DEF SendLink, End
    <2>2. QED
      BY <1>3, <2>1, IdleFits, GoesElsewhere
  <1>4. ASSUME NEW n \in DOMAIN links, FollowLink(r, n) PROVE RowsQuiet
    <2> DEFINE x == [Idle EXCEPT !.pc = "follow", !.at = n]
    <2>1. Go(r, x) /\ rows' = rows
      BY <1>4, Unchanged DEF FollowLink
    <2>2. x.pc = "follow"
      BY IdleFits DEF Request
    <2> HIDE DEF x
    <2>3. QED
      BY <2>1, <2>2, GoesElsewhere
  <1>5. CASE UseLink(r)
    <2>1. PICK x \in Request : Go(r, x) /\ x.pc \in {"idle", "reset", "consumed"}
      BY <1>5, UsedLink
    <2>2. rows' = rows
      BY <1>5 DEF UseLink
    <2>3. QED
      BY <1>5, <2>1, <2>2, GoesElsewhere
  <1>6. CASE Verify(r)
    <2> DEFINE late == req[r].late \/ account.suspended
               x == [req[r] EXCEPT !.pc = "grant", !.late = late]
    <2>1. Go(r, x)
      BY <1>6, RequestOf DEF Verify, Request
    <2>2. rows' = rows /\ links' = links
      BY <1>6 DEF Verify
    <2> HIDE DEF late
    <2>3. x.pc = "grant"
      BY RequestOf DEF Request
    <2> HIDE DEF x
    <2>4. QED
      BY <2>1, <2>2, <2>3, GoesElsewhere
  <1>7. QED
    BY <1>1, <1>2, <1>3, <1>4, <1>5, <1>6 DEF ByLink

\* Most steps have nothing to do with rotation, or with links.
LEMMA Quiet ==
  ASSUME ShapeInv, [Next]_vars
  PROVE  /\ \/ RowsQuiet \/ Delete
            \/ \E r \in Requests : Persist(r) \/ Rotate(r) \/ \E n \in DOMAIN rows : FindRow(r, n)
         /\ \/ LinksQuiet \/ Delete
            \/ \E r \in Requests :
                   \/ Register(r) \/ SendLink(r) \/ UseLink(r)
                   \/ (\E kind \in MailKinds : AskLink(r, kind))
                   \/ (\E n \in DOMAIN links : FollowLink(r, n))
  <1>1. CASE rows' = rows /\ links' = links /\ req' = req
    BY <1>1 DEF RowsQuiet, LinksQuiet
  <1>2. CASE UNCHANGED vars \/ Tick \/ BulkSuspend \/ Activate
    BY <1>1, <1>2 DEF vars, tables, Tick, BulkSuspend, Activate
  <1>3. ASSUME NEW r \in Requests, Fail(r) PROVE RowsQuiet /\ LinksQuiet
    <2>1. Go(r, Idle) /\ rows' = rows /\ links' = links
      BY <1>3, Unchanged DEF Fail, End
    <2>2. QED
      BY <2>1, IdleFits, GoesElsewhere
  <1>4. QED
    BY <1>2, <1>3, QuietIn, QuietOut, QuietByLink DEF Next

\* Two finite sets that lose elements keep a bound on their sizes together.
LEMMA SizesKept ==
  ASSUME NEW A, NEW B, IsFiniteSet(A), IsFiniteSet(B), NEW C \in SUBSET A, NEW D \in SUBSET B,
         NEW N \in Nat, Cardinality(A) + Cardinality(B) <= N
  PROVE  Cardinality(C) + Cardinality(D) <= N
  <1>1. /\ IsFiniteSet(C) /\ Cardinality(C) <= Cardinality(A)
        /\ IsFiniteSet(D) /\ Cardinality(D) <= Cardinality(B)
    BY FS_Subset
  <1>2. /\ Cardinality(A) \in Nat /\ Cardinality(B) \in Nat
        /\ Cardinality(C) \in Nat /\ Cardinality(D) \in Nat
    BY <1>1, FS_CardinalityType
  <1>3. QED
    BY <1>1, <1>2

\* One set loses an element for the one that the other gains.
LEMMA SizesMoved ==
  ASSUME NEW A, NEW B, IsFiniteSet(A), IsFiniteSet(B), NEW a, NEW b \in B,
         NEW C \in SUBSET (A \cup {a}), NEW D \in SUBSET (B \ {b}),
         NEW N \in Nat, Cardinality(A) + Cardinality(B) <= N
  PROVE  Cardinality(C) + Cardinality(D) <= N
  <1>1. /\ IsFiniteSet(A \cup {a})
        /\ Cardinality(A \cup {a}) = IF a \in A THEN Cardinality(A) ELSE Cardinality(A) + 1
    BY FS_AddElement
  <1>2. IsFiniteSet(B \ {b}) /\ Cardinality(B \ {b}) = Cardinality(B) - 1
    BY FS_RemoveElement
  <1>3. Cardinality(A) \in Nat /\ Cardinality(B) \in Nat
    BY FS_CardinalityType
  <1>4. Cardinality(A \cup {a}) + Cardinality(B \ {b}) <= N
    BY <1>1, <1>2, <1>3
  <1>5. QED
    BY <1>1, <1>2, <1>4, SizesKept

\* The sets counted are finite.
LEMMA Counted ==
  ASSUME ShapeInv
  PROVE  /\ IsFiniteSet(DOMAIN rows) /\ IsFiniteSet(DOMAIN links)
         /\ \A n : IsFiniteSet({m \in DOMAIN rows : rows[m].parent = n})
         /\ \A pcs, n : IsFiniteSet(Busy(pcs, n))
         /\ Cardinality(Requests) \in Nat
  <1>1. rows \in Seq(Row) /\ links \in Seq(Link)
    BY DEF ShapeInv, TypeOK
  <1>2. DOMAIN rows = 1..Len(rows) /\ DOMAIN links = 1..Len(links) /\ Len(rows) \in Nat
        /\ Len(links) \in Nat
    BY <1>1, LenProperties
  <1>3. IsFiniteSet(DOMAIN rows) /\ IsFiniteSet(DOMAIN links)
    BY <1>2, FS_Interval
  <1>4. ASSUME NEW n PROVE IsFiniteSet({m \in DOMAIN rows : rows[m].parent = n})
    BY <1>3, FS_Subset
  <1>5. ASSUME NEW pcs, NEW n PROVE IsFiniteSet(Busy(pcs, n))
    <2>1. Busy(pcs, n) \in SUBSET Requests
      BY DEF Busy
    <2>2. QED
      BY <2>1, FS_Subset
  <1>6. QED
    BY <1>3, <1>4, <1>5, FS_CardinalityType

\* The requests that are about row n and may give it a successor.
Rotating(n) == Busy({"rotate", "successor"}, n)
Successors(n) == {m \in DOMAIN rows : rows[m].parent = n}

\* A step that rotates nothing keeps the bound on successors.
LEMMA RotationQuiet ==
  ASSUME ShapeInv, RotationInv, RowsQuiet
  PROVE  RotationInv'
  <1>1. ASSUME NEW n \in DOMAIN rows'
        PROVE  Cardinality(Successors(n)') + Cardinality(Rotating(n)') <= Cardinality(Requests)
    <2>1. Successors(n)' \in SUBSET Successors(n) /\ Rotating(n)' \in SUBSET Rotating(n)
      BY DEF RowsQuiet, Successors, Rotating, Busy
    <2>2. Cardinality(Successors(n)) + Cardinality(Rotating(n)) <= Cardinality(Requests)
      BY <1>1 DEF RowsQuiet, RotationInv, SuccessorsBounded, Successors, Rotating
    <2>3. IsFiniteSet(Successors(n)) /\ IsFiniteSet(Rotating(n))
      BY Counted DEF Successors, Rotating
    <2>4. QED
      BY <2>1, <2>2, <2>3, Counted, SizesKept
  <1>2. SuccessorsBounded'
    BY <1>1 DEF SuccessorsBounded, Successors, Rotating
  <1>3. ASSUME NEW n \in DOMAIN rows', rows'[n].live
        PROVE  /\ \A m \in DOMAIN rows' : rows'[m].parent # n
               /\ \A r \in Requests : ~(req'[r].pc = "successor" /\ req'[r].at = n)
    <2>1. /\ n \in DOMAIN rows /\ rows[n].live
          /\ DOMAIN rows' = DOMAIN rows
          /\ \A m \in DOMAIN rows : rows'[m].parent = rows[m].parent
          /\ \A q \in Requests : req'[q].pc = "successor" =>
                 req[q].pc = "successor" /\ req[q].at = req'[q].at
      BY <1>3 DEF RowsQuiet
    <2>2. /\ \A m \in DOMAIN rows : rows[m].parent # n
          /\ \A r \in Requests : ~(req[r].pc = "successor" /\ req[r].at = n)
      BY <2>1 DEF RotationInv, At
    <2>3. QED
      BY <2>1, <2>2
  <1>4. QED
    BY <1>2, <1>3 DEF RotationInv, At

\* A token found live has no successor: one more request about it is within the bound.
LEMMA RotationFindRow ==
  ASSUME ShapeInv, RotationInv, NEW r \in Requests, NEW k \in DOMAIN rows, FindRow(r, k)
  PROVE  RotationInv'
  <1> DEFINE x == [req[r] EXCEPT !.pc = "rotate", !.at = k,
                                 !.password = rows[k].password, !.late = rows[k].late]
  <1>1. Go(r, x) /\ rows' = rows /\ rows[k].live
    BY Unchanged DEF FindRow
  <1>2. x.pc = "rotate" /\ x.at = k
    BY RequestOf DEF Request
  <1> HIDE DEF x
  <1>3. \A q \in Requests : req'[q] = IF q = r THEN x ELSE req[q]
    BY <1>1 DEF Go, ShapeInv
  <1>4. ASSUME NEW n \in DOMAIN rows
        PROVE  Cardinality(Successors(n)) + Cardinality(Rotating(n)') <= Cardinality(Requests)
    <2>1. CASE n = k
      <3>1. Successors(n) = {}
        BY <1>1, <2>1 DEF RotationInv, Successors
      <3>2. Cardinality(Successors(n)) = 0
        BY <3>1, FS_EmptySet
      <3>3. Rotating(n)' \in SUBSET Requests
        BY DEF Rotating, Busy
      <3>4. Cardinality(Rotating(n)') <= Cardinality(Requests)
        BY <3>3, FS_Subset
      <3>5. Cardinality(Rotating(n)') \in Nat
        BY <3>3, FS_Subset, FS_CardinalityType
      <3>6. QED
        BY <3>2, <3>4, <3>5, Counted
    <2>2. CASE n # k
      <3>1. Rotating(n)' \in SUBSET Rotating(n)
        BY <1>2, <1>3, <2>2 DEF Rotating, Busy
      <3>2. Cardinality(Successors(n)) + Cardinality(Rotating(n)) <= Cardinality(Requests)
        BY DEF RotationInv, SuccessorsBounded, Successors, Rotating
      <3>3. IsFiniteSet(Successors(n)) /\ IsFiniteSet(Rotating(n))
        BY Counted DEF Successors, Rotating
      <3>4. QED
        BY <3>1, <3>2, <3>3, Counted, SizesKept
    <2>3. QED
      BY <2>1, <2>2
  <1>5. SuccessorsBounded'
    BY <1>1, <1>4 DEF SuccessorsBounded, Successors, Rotating
  <1>6. \A q \in Requests : req'[q].pc = "successor" =>
            req[q].pc = "successor" /\ req'[q].at = req[q].at
    BY <1>2, <1>3
  <1>7. QED
    BY <1>1, <1>5, <1>6 DEF RotationInv, At

\* The token that is rotated is not live any more.
LEMMA RotationRotate ==
  ASSUME ShapeInv, RotationInv, NEW r \in Requests, Rotate(r)
  PROVE  RotationInv'
  <1> DEFINE x == [req[r] EXCEPT !.pc = "successor"]
             k == req[r].at
  <1>1. Go(r, x) /\ req[r].pc = "rotate"
    BY DEF Rotate, At
  <1>2. x.pc = "successor" /\ x.at = k
    BY RequestOf DEF Request
  <1>3. /\ DOMAIN rows' = DOMAIN rows /\ k \in DOMAIN rows
        /\ \A n \in DOMAIN rows : rows'[n] = [rows[n] EXCEPT !.live = @ /\ n # k]
    BY RotateShape
  <1> HIDE DEF x, k
  <1>4. \A n \in DOMAIN rows : /\ rows'[n].parent = rows[n].parent
                               /\ rows'[n].live => rows[n].live /\ n # k
    BY <1>3, RowAt DEF Row
  <1>5. \A q \in Requests : req'[q] = IF q = r THEN x ELSE req[q]
    BY <1>1 DEF Go, ShapeInv
  <1>6. ASSUME NEW n \in DOMAIN rows
        PROVE  Cardinality(Successors(n)') + Cardinality(Rotating(n)') <= Cardinality(Requests)
    <2>1. Successors(n)' \in SUBSET Successors(n)
      BY <1>3, <1>4 DEF Successors
    <2>2. Rotating(n)' \in SUBSET Rotating(n)
      BY <1>1, <1>2, <1>5 DEF Rotating, Busy, k
    <2>3. Cardinality(Successors(n)) + Cardinality(Rotating(n)) <= Cardinality(Requests)
      BY DEF RotationInv, SuccessorsBounded, Successors, Rotating
    <2>4. IsFiniteSet(Successors(n)) /\ IsFiniteSet(Rotating(n))
      BY Counted DEF Successors, Rotating
    <2>5. QED
      BY <2>1, <2>2, <2>3, <2>4, Counted, SizesKept
  <1>7. SuccessorsBounded'
    BY <1>3, <1>6 DEF SuccessorsBounded, Successors, Rotating
  <1>8. ASSUME NEW n \in DOMAIN rows', rows'[n].live
        PROVE  /\ \A m \in DOMAIN rows' : rows'[m].parent # n
               /\ \A q \in Requests : ~(req'[q].pc = "successor" /\ req'[q].at = n)
    <2>1. n \in DOMAIN rows /\ rows[n].live /\ n # k
      BY <1>3, <1>4, <1>8
    <2>2. /\ \A m \in DOMAIN rows : rows[m].parent # n
          /\ \A q \in Requests : ~(req[q].pc = "successor" /\ req[q].at = n)
      BY <2>1 DEF RotationInv, At
    <2>3. QED
      BY <1>2, <1>3, <1>4, <1>5, <2>1, <2>2
  <1>9. QED
    BY <1>7, <1>8 DEF RotationInv, At

\* A row stored is a successor, or the first of its session.
LEMMA RotationPersist ==
  ASSUME ShapeInv, RotationInv, NEW r \in Requests, Persist(r)
  PROVE  RotationInv'
  <1> DEFINE k == req[r].at
             new == Len(rows) + 1
  <1>1. Go(r, Idle) /\ req[r].pc \in {"grant", "successor"}
    BY DEF Persist, End
  <1>2. /\ Len(rows) \in Nat /\ DOMAIN rows = 1..Len(rows) /\ DOMAIN rows' = 1..new
        /\ \A n \in DOMAIN rows : rows'[n] = rows[n]
        /\ rows'[new].parent = k
    BY StoredRow
  <1>3. /\ req[r].pc = "grant" => k = 0
        /\ req[r].pc = "successor" => k \in DOMAIN rows
        /\ k \in Nat
    BY RequestOf DEF Proper, Request
  <1>4. new \notin DOMAIN rows /\ k <= Len(rows)
    BY <1>1, <1>2, <1>3
  <1> HIDE DEF k
  <1>5. \A q \in Requests : req'[q] = IF q = r THEN Idle ELSE req[q]
    BY <1>1 DEF Go, ShapeInv
  <1>6. \A q \in Requests : req'[q].pc \in {"rotate", "successor"} => q # r /\ req'[q] = req[q]
    BY <1>5, IdleFits
  <1>7. \A n \in DOMAIN rows : rows[n].parent <= Len(rows) /\ rows[n].parent \in Nat
    BY RowAt DEF ShapeInv
  <1>8. ASSUME NEW n \in DOMAIN rows'
        PROVE  Cardinality(Successors(n)') + Cardinality(Rotating(n)') <= Cardinality(Requests)
    <2>1. CASE n = new
      <3>1. Successors(n)' \in SUBSET {} /\ Rotating(n)' \in SUBSET Requests
        <4>1. ASSUME NEW m \in DOMAIN rows' PROVE rows'[m].parent # n
          <5>1. CASE m \in DOMAIN rows
            BY <1>2, <1>7, <2>1, <5>1
          <5>2. CASE m = new
            BY <1>2, <1>3, <1>4, <2>1, <5>2
          <5>3. QED
            BY <1>2, <5>1, <5>2
        <4>2. QED
          BY <4>1 DEF Successors, Rotating, Busy
      <3>2. Cardinality({}) + Cardinality(Requests) <= Cardinality(Requests)
        BY Counted, FS_EmptySet
      <3>3. QED
        BY <3>1, <3>2, Counted, FS_EmptySet, SizesKept
    <2>2. CASE n \in DOMAIN rows
      <3>1. Cardinality(Successors(n)) + Cardinality(Rotating(n)) <= Cardinality(Requests)
        BY <2>2 DEF RotationInv, SuccessorsBounded, Successors, Rotating
      <3>2. IsFiniteSet(Successors(n)) /\ IsFiniteSet(Rotating(n))
        BY Counted DEF Successors, Rotating
      <3>3. CASE n # k
        <4>1. Successors(n)' \in SUBSET Successors(n)
          <5>1. ASSUME NEW m \in Successors(n)' PROVE m \in Successors(n)
            <6>1. m \in DOMAIN rows' /\ rows'[m].parent = n
              BY <5>1 DEF Successors
            <6>2. m # new
              BY <1>2, <3>3, <6>1
            <6>3. m \in DOMAIN rows
              BY <1>2, <6>1, <6>2
            <6>4. QED
              BY <1>2, <6>1, <6>3 DEF Successors
          <5>2. QED
            BY <5>1
        <4>2. Rotating(n)' \in SUBSET Rotating(n)
          BY <1>6 DEF Rotating, Busy
        <4>3. QED
          BY <3>1, <3>2, <4>1, <4>2, Counted, SizesKept
      <3>4. CASE n = k
        <4>1. r \in Rotating(n)
          <5>1. req[r].pc = "successor" /\ req[r].at = n
            BY <1>1, <1>2, <1>3, <2>2, <3>4 DEF k
          <5>2. QED
            BY <5>1 DEF Rotating, Busy
        <4>2. Successors(n)' \in SUBSET (Successors(n) \cup {new})
          <5>1. ASSUME NEW m \in Successors(n)', m # new PROVE m \in Successors(n)
            <6>1. m \in DOMAIN rows' /\ rows'[m].parent = n
              BY <5>1 DEF Successors
            <6>2. m \in DOMAIN rows
              BY <1>2, <5>1, <6>1
            <6>3. QED
              BY <1>2, <6>1, <6>2 DEF Successors
          <5>2. QED
            BY <5>1
        <4>3. Rotating(n)' \in SUBSET (Rotating(n) \ {r})
          BY <1>6 DEF Rotating, Busy
        <4> HIDE DEF new
        <4>4. QED
          BY <3>1, <3>2, <4>1, <4>2, <4>3, Counted, SizesMoved
      <3>5. QED
        BY <3>3, <3>4
    <2>3. QED
      BY <1>2, <2>1, <2>2
  <1>9. SuccessorsBounded'
    BY <1>8 DEF SuccessorsBounded, Successors, Rotating
  <1>10. ASSUME NEW n \in DOMAIN rows', rows'[n].live
         PROVE  /\ \A m \in DOMAIN rows' : rows'[m].parent # n
                /\ \A q \in Requests : ~(req'[q].pc = "successor" /\ req'[q].at = n)
    <2>1. CASE n = new
      <3>1. ASSUME NEW m \in DOMAIN rows' PROVE rows'[m].parent # n
        <4>1. CASE m \in DOMAIN rows
          BY <1>2, <1>7, <2>1, <4>1
        <4>2. CASE m = new
          BY <1>2, <1>3, <1>4, <2>1, <4>2
        <4>3. QED
          BY <1>2, <4>1, <4>2
      <3>2. ASSUME NEW q \in Requests, req'[q].pc = "successor" PROVE req'[q].at # n
        <4>1. req'[q] = req[q]
          BY <1>6, <3>2
        <4>2. req[q].at \in DOMAIN rows
          BY <3>2, <4>1, RequestOf DEF Proper
        <4>3. QED
          BY <1>4, <2>1, <4>1, <4>2
      <3>3. QED
        BY <3>1, <3>2
    <2>2. CASE n \in DOMAIN rows
      <3>1. rows[n].live
        BY <1>2, <1>10, <2>2
      <3>2. /\ \A m \in DOMAIN rows : rows[m].parent # n
            /\ \A q \in Requests : ~(req[q].pc = "successor" /\ req[q].at = n)
        BY <2>2, <3>1 DEF RotationInv, At
      <3>3. k # n
        <4>1. CASE req[r].pc = "grant"
          BY <1>2, <1>3, <2>2, <4>1
        <4>2. CASE req[r].pc = "successor"
          BY <3>2, <4>2 DEF k
        <4>3. QED
          BY <1>1, <4>1, <4>2
      <3>4. ASSUME NEW m \in DOMAIN rows' PROVE rows'[m].parent # n
        <4>1. CASE m \in DOMAIN rows
          BY <1>2, <3>2, <4>1
        <4>2. CASE m = new
          BY <1>2, <3>3, <4>2
        <4>3. QED
          BY <1>2, <4>1, <4>2
      <3>5. QED
        BY <1>6, <3>2, <3>4
    <2>3. QED
      BY <1>2, <2>1, <2>2
  <1>11. QED
    BY <1>9, <1>10 DEF RotationInv, At

\* Every step keeps the successors within their bound.
LEMMA RotationStep ==
  ASSUME ShapeInv, RotationInv, [Next]_vars
  PROVE  RotationInv'
  <1>1. CASE Delete
    <2>1. rows' = <<>>
      BY <1>1 DEF Delete
    <2>2. DOMAIN rows' = {}
      BY <2>1
    <2>3. QED
      BY <2>2 DEF RotationInv, SuccessorsBounded
  <1>2. QED
    BY <1>1, Quiet, RotationQuiet, RotationFindRow, RotationRotate, RotationPersist

(***************************************************************************)
(* Uses of a link                                                          *)
(***************************************************************************)

\* The requests that found link n open and may mark it used.
Using(n) == Busy({"follow"}, n)

\* Fewer requests about a link used no more often are within the bound.
LEMMA UsesKept ==
  ASSUME ShapeInv, NEW n \in DOMAIN links,
         links[n].uses + Cardinality(Using(n)) <= Cardinality(Requests),
         NEW U \in SUBSET Using(n)
  PROVE  links[n].uses + Cardinality(U) <= Cardinality(Requests)
  <1>1. IsFiniteSet(Using(n))
    BY Counted DEF Using
  <1>2. IsFiniteSet(U) /\ Cardinality(U) <= Cardinality(Using(n))
    BY <1>1, FS_Subset
  <1>3. Cardinality(U) \in Nat /\ Cardinality(Using(n)) \in Nat
    BY <1>1, <1>2, FS_CardinalityType
  <1>4. links[n] \in Link
    BY ElementOfSeq, LenProperties DEF ShapeInv, TypeOK
  <1>5. QED
    BY <1>2, <1>3, <1>4, Counted DEF Link

\* A step that leaves the uses of the links, and has no request follow one.
LEMMA LinkQuiet ==
  ASSUME ShapeInv, LinkInv, DOMAIN links' = DOMAIN links,
         \A n \in DOMAIN links : /\ links'[n].uses = links[n].uses
                                 /\ links'[n].live => links[n].live,
         \A q \in Requests : req'[q].pc = "follow" => req[q].pc = "follow" /\ req[q].at = req'[q].at
  PROVE  LinkInv'
  <1>1. ASSUME NEW n \in DOMAIN links
        PROVE  links'[n].uses + Cardinality(Using(n)') <= Cardinality(Requests)
    <2>1. Using(n)' \in SUBSET Using(n)
      BY DEF Using, Busy
    <2>2. links[n].uses + Cardinality(Using(n)) <= Cardinality(Requests)
      BY DEF LinkInv, LinkUsesBounded, Using
    <2>3. QED
      BY <2>1, <2>2, UsesKept
  <1>2. LinkUsesBounded'
    BY <1>1 DEF LinkUsesBounded, Using
  <1>3. QED
    BY <1>2 DEF LinkInv

\* A link found open has had no effect: one more request about it is within the bound.
LEMMA LinkFollow ==
  ASSUME ShapeInv, LinkInv, NEW r \in Requests, NEW k \in DOMAIN links, FollowLink(r, k)
  PROVE  LinkInv'
  <1> DEFINE x == [Idle EXCEPT !.pc = "follow", !.at = k]
  <1>1. Go(r, x) /\ links' = links /\ links[k].live
    BY Unchanged DEF FollowLink
  <1>2. x.pc = "follow" /\ x.at = k
    BY IdleFits DEF Request
  <1> HIDE DEF x
  <1>3. \A q \in Requests : req'[q] = IF q = r THEN x ELSE req[q]
    BY <1>1 DEF Go, ShapeInv
  <1>4. ASSUME NEW n \in DOMAIN links
        PROVE  links[n].uses + Cardinality(Using(n)') <= Cardinality(Requests)
    <2>1. CASE n = k
      <3>1. links[n].uses = 0
        BY <1>1, <2>1 DEF LinkInv
      <3>2. Using(n)' \in SUBSET Requests
        BY DEF Using, Busy
      <3>3. Cardinality(Using(n)') <= Cardinality(Requests)
        BY <3>2, FS_Subset
      <3>4. Cardinality(Using(n)') \in Nat
        BY <3>2, FS_Subset, FS_CardinalityType
      <3>5. QED
        BY <3>1, <3>3, <3>4, Counted
    <2>2. CASE n # k
      <3>1. Using(n)' \in SUBSET Using(n)
        BY <1>2, <1>3, <2>2 DEF Using, Busy
      <3>2. links[n].uses + Cardinality(Using(n)) <= Cardinality(Requests)
        BY DEF LinkInv, LinkUsesBounded, Using
      <3>3. QED
        BY <3>1, <3>2, UsesKept
    <2>3. QED
      BY <2>1, <2>2
  <1>5. LinkUsesBounded'
    BY <1>1, <1>4 DEF LinkUsesBounded, Using
  <1>6. QED
    BY <1>1, <1>5 DEF LinkInv

\* The use of a link takes the place of the request that was about to use it.
LEMMA LinkUse ==
  ASSUME ShapeInv, LinkInv, NEW r \in Requests, UseLink(r)
  PROVE  LinkInv'
  <1> DEFINE k == req[r].at
  <1>1. /\ k \in DOMAIN links /\ DOMAIN links' = DOMAIN links
        /\ \A n \in DOMAIN links :
               /\ links'[n].live => links[n].live /\ n # k
               /\ links'[n].uses = IF n = k THEN links[n].uses + 1 ELSE links[n].uses
        /\ \E x \in Request : Go(r, x) /\ x.pc \in {"idle", "reset", "consumed"}
    BY UsedLink
  <1>2. req[r].pc = "follow"
    BY DEF UseLink, At
  <1>3. PICK x \in Request : Go(r, x) /\ x.pc \in {"idle", "reset", "consumed"}
    BY <1>1
  <1>4. \A q \in Requests : req'[q].pc = "follow" => q # r /\ req'[q] = req[q]
    BY <1>3 DEF Go, ShapeInv
  <1>5. ASSUME NEW n \in DOMAIN links
        PROVE  links'[n].uses + Cardinality(Using(n)') <= Cardinality(Requests)
    <2>1. links[n].uses + Cardinality(Using(n)) <= Cardinality(Requests)
      BY DEF LinkInv, LinkUsesBounded, Using
    <2>2. CASE n # k
      <3>1. Using(n)' \in SUBSET Using(n)
        BY <1>4 DEF Using, Busy
      <3>2. links[n].uses + Cardinality(Using(n)') <= Cardinality(Requests)
        BY <2>1, <3>1, UsesKept
      <3>3. QED
        BY <1>1, <2>2, <3>2
    <2>3. CASE n = k
      <3>1. Using(n)' \in SUBSET (Using(n) \ {r}) /\ r \in Using(n)
        BY <1>2, <1>4, <2>3 DEF Using, Busy
      <3>2. IsFiniteSet(Using(n))
        BY Counted DEF Using
      <3>3. IsFiniteSet(Using(n) \ {r}) /\ Cardinality(Using(n) \ {r}) = Cardinality(Using(n)) - 1
        BY <3>1, <3>2, FS_RemoveElement
      <3>4. IsFiniteSet(Using(n)') /\ Cardinality(Using(n)') <= Cardinality(Using(n) \ {r})
        BY <3>1, <3>3, FS_Subset
      <3>5. Cardinality(Using(n)') \in Nat /\ Cardinality(Using(n)) \in Nat
        BY <3>2, <3>4, FS_CardinalityType
      <3>6. links'[n].uses = links[n].uses + 1
        BY <1>1, <2>3
      <3>7. links[n] \in Link
        BY ElementOfSeq, LenProperties DEF ShapeInv, TypeOK
      <3>8. QED
        BY <2>1, <3>3, <3>4, <3>5, <3>6, <3>7, Counted DEF Link
    <2>4. QED
      BY <2>2, <2>3
  <1>6. LinkUsesBounded'
    BY <1>1, <1>5 DEF LinkUsesBounded, Using
  <1>7. \A n \in DOMAIN links' : links'[n].live => links'[n].uses = 0
    BY <1>1 DEF LinkInv
  <1>8. QED
    BY <1>6, <1>7 DEF LinkInv

\* A new link has had no effect, and no request is about it.
LEMMA LinkSend ==
  ASSUME ShapeInv, LinkInv, NEW r \in Requests, SendLink(r)
  PROVE  LinkInv'
  <1> DEFINE new == Len(links) + 1
  <1>0. /\ Len(links) \in Nat /\ DOMAIN links = 1..Len(links) /\ DOMAIN links' = 1..new
        /\ \A n \in DOMAIN links : links'[n] = links[n]
        /\ links'[new] = [kind |-> req[r].kind, live |-> TRUE, uses |-> 0]
    BY SentLink
  <1>1. /\ Len(links) \in Nat /\ DOMAIN links = 1..Len(links) /\ DOMAIN links' = 1..new
        /\ \A n \in DOMAIN links : links'[n] = links[n]
        /\ links'[new].uses = 0
    BY <1>0
  <1>2. Go(r, Idle)
    BY DEF SendLink, End
  <1>3. \A q \in Requests : req'[q].pc = "follow" => q # r /\ req'[q] = req[q]
    BY <1>2, IdleFits DEF Go, ShapeInv
  <1>4. ASSUME NEW n \in DOMAIN links'
        PROVE  links'[n].uses + Cardinality(Using(n)') <= Cardinality(Requests)
    <2>1. CASE n \in DOMAIN links
      <3>1. Using(n)' \in SUBSET Using(n)
        BY <1>3 DEF Using, Busy
      <3>2. links[n].uses + Cardinality(Using(n)) <= Cardinality(Requests)
        BY <2>1 DEF LinkInv, LinkUsesBounded, Using
      <3>3. QED
        BY <1>1, <2>1, <3>1, <3>2, UsesKept
    <2>2. CASE n = new
      <3>1. Using(n)' \in SUBSET Requests
        BY DEF Using, Busy
      <3>2. Cardinality(Using(n)') <= Cardinality(Requests)
        BY <3>1, FS_Subset
      <3>3. Cardinality(Using(n)') \in Nat
        BY <3>1, FS_Subset, FS_CardinalityType
      <3>4. QED
        BY <1>1, <2>2, <3>2, <3>3, Counted
    <2>3. QED
      BY <1>1, <2>1, <2>2
  <1>5. LinkUsesBounded'
    BY <1>4 DEF LinkUsesBounded, Using
  <1>6. \A n \in DOMAIN links' : links'[n].live => links'[n].uses = 0
    <2>1. \A n \in DOMAIN links' : n \in DOMAIN links \/ n = new
      BY <1>1
    <2>2. QED
      BY <1>1, <2>1 DEF LinkInv
  <1>7. QED
    BY <1>5, <1>6 DEF LinkInv

\* Asking for a link leaves the uses of those sent before.
LEMMA LinkAsk ==
  ASSUME ShapeInv, LinkInv, NEW r \in Requests, NEW kind \in MailKinds, AskLink(r, kind)
  PROVE  LinkInv'
  <1> DEFINE x == [Idle EXCEPT !.pc = "issue", !.kind = kind]
  <1>1. Go(r, x) /\ links' = LinksUsed(kind)
    BY DEF AskLink
  <1>2. x.pc = "issue"
    BY IdleFits DEF Request
  <1> HIDE DEF x
  <1>3. \A q \in Requests : req'[q].pc = "follow" => req'[q] = req[q]
    BY <1>1, <1>2 DEF Go, ShapeInv
  <1>4. links \in Seq(Link)
    BY DEF ShapeInv, TypeOK
  <1>5. /\ DOMAIN links' = DOMAIN links
        /\ \A n \in DOMAIN links : /\ links'[n].uses = links[n].uses
                                   /\ links'[n].live => links[n].live
    BY <1>1, <1>4, MarkedLinks
  <1>6. QED
    BY <1>3, <1>5, LinkQuiet

\* A registration has no link yet.
LEMMA LinkRegister ==
  ASSUME ShapeInv, LinkInv, NEW r \in Requests, Register(r)
  PROVE  LinkInv'
  <1>1. links' = <<>>
    BY DEF Register, ShapeInv
  <1>2. DOMAIN links' = {}
    BY <1>1
  <1>3. QED
    BY <1>2 DEF LinkInv, LinkUsesBounded

\* Every step keeps the uses of a link within their bound.
LEMMA LinkStep ==
  ASSUME ShapeInv, LinkInv, [Next]_vars
  PROVE  LinkInv'
  <1>1. CASE Delete
    <2>1. links' = <<>>
      BY <1>1 DEF Delete
    <2>2. DOMAIN links' = {}
      BY <2>1
    <2>3. QED
      BY <2>2 DEF LinkInv, LinkUsesBounded
  <1>2. CASE LinksQuiet
    BY <1>2, LinkQuiet DEF LinksQuiet
  <1>3. QED
    BY <1>1, <1>2, Quiet, LinkRegister, LinkSend, LinkUse, LinkAsk, LinkFollow

(***************************************************************************)
(* Links of one kind                                                       *)
(***************************************************************************)

Open(kind)   == {n \in DOMAIN links : links[n].live /\ links[n].kind = kind}
OnTheWay(kind) == {r \in Requests : At(r, "issue") /\ req[r].kind = kind}

\* Both are finite, and within the bound.
LEMMA OpenCounted ==
  ASSUME ShapeInv, OpenLinksBounded, NEW kind \in MailKinds
  PROVE  /\ IsFiniteSet(Open(kind)) /\ IsFiniteSet(OnTheWay(kind))
         /\ Cardinality(Open(kind)) + Cardinality(OnTheWay(kind)) <= Cardinality(Requests)
         /\ Cardinality(Requests) \in Nat
  <1>1. Open(kind) \in SUBSET DOMAIN links /\ OnTheWay(kind) \in SUBSET Requests
    BY DEF Open, OnTheWay
  <1>2. IsFiniteSet(Open(kind)) /\ IsFiniteSet(OnTheWay(kind))
    BY <1>1, Counted, FS_Subset
  <1>3. QED
    BY <1>2, Counted DEF OpenLinksBounded, Open, OnTheWay

\* A step that opens no link and has no request send one.
LEMMA OpenQuiet ==
  ASSUME ShapeInv, OpenLinksBounded, NEW kind \in MailKinds,
         Open(kind)' \subseteq Open(kind), OnTheWay(kind)' \subseteq OnTheWay(kind)
  PROVE  Cardinality(Open(kind)') + Cardinality(OnTheWay(kind)') <= Cardinality(Requests)
  <1>1. Open(kind)' \in SUBSET Open(kind) /\ OnTheWay(kind)' \in SUBSET OnTheWay(kind)
    OBVIOUS
  <1>2. QED
    BY <1>1, OpenCounted, SizesKept

\* Where no link of the kind is open, the requests themselves are the bound.
LEMMA OpenNone ==
  ASSUME ShapeInv, NEW kind, Open(kind)' = {}
  PROVE  Cardinality(Open(kind)') + Cardinality(OnTheWay(kind)') <= Cardinality(Requests)
  <1>1. OnTheWay(kind)' \in SUBSET Requests
    BY DEF OnTheWay
  <1>2. Cardinality({}) + Cardinality(Requests) <= Cardinality(Requests)
    BY Counted, FS_EmptySet
  <1>3. QED
    BY <1>1, <1>2, Counted, FS_EmptySet, SizesKept

\* What the sets are after a step is what the invariant counts.
LEMMA OpenThen ==
  ASSUME \A kind \in MailKinds :
             Cardinality(Open(kind)') + Cardinality(OnTheWay(kind)') <= Cardinality(Requests)
  PROVE  OpenLinksBounded'
  BY DEF OpenLinksBounded, Open, OnTheWay

\* A step that has nothing to do with links keeps the bound on the open ones.
LEMMA OpenLinksQuiet ==
  ASSUME ShapeInv, OpenLinksBounded, LinksQuiet
  PROVE  OpenLinksBounded'
  <1>1. ASSUME NEW kind \in MailKinds
        PROVE  Cardinality(Open(kind)') + Cardinality(OnTheWay(kind)') <= Cardinality(Requests)
    <2>1. kind # "DOWNLOAD"
      BY DEF MailKinds
    <2>2. Open(kind)' \subseteq Open(kind) /\ OnTheWay(kind)' \subseteq OnTheWay(kind)
      BY <2>1 DEF Open, OnTheWay, LinksQuiet, At
    <2>3. QED
      BY <2>2, OpenQuiet
  <1>2. QED
    BY <1>1, OpenThen

\* Following a link sends none.
LEMMA OpenFollow ==
  ASSUME ShapeInv, OpenLinksBounded, NEW r \in Requests, NEW k \in DOMAIN links, FollowLink(r, k)
  PROVE  OpenLinksBounded'
  <1> DEFINE x == [Idle EXCEPT !.pc = "follow", !.at = k]
  <1>1. Go(r, x) /\ links' = links
    BY Unchanged DEF FollowLink
  <1>2. x.pc = "follow"
    BY IdleFits DEF Request
  <1> HIDE DEF x
  <1>3. \A q \in Requests : req'[q].pc = "issue" => req'[q] = req[q]
    BY <1>1, <1>2 DEF Go, ShapeInv
  <1>4. ASSUME NEW kind \in MailKinds
        PROVE  Cardinality(Open(kind)') + Cardinality(OnTheWay(kind)') <= Cardinality(Requests)
    <2>1. Open(kind)' \subseteq Open(kind) /\ OnTheWay(kind)' \subseteq OnTheWay(kind)
      BY <1>1, <1>3 DEF Open, OnTheWay, At
    <2>2. QED
      BY <2>1, OpenQuiet
  <1>5. QED
    BY <1>4, OpenThen

\* Using a link opens none.
LEMMA OpenUse ==
  ASSUME ShapeInv, OpenLinksBounded, NEW r \in Requests, UseLink(r)
  PROVE  OpenLinksBounded'
  <1>1. /\ DOMAIN links' = DOMAIN links
        /\ \A n \in DOMAIN links : /\ links'[n].kind = links[n].kind
                                   /\ links'[n].live => links[n].live
        /\ \E x \in Request : Go(r, x) /\ x.pc \in {"idle", "reset", "consumed"}
    BY UsedLink
  <1>2. PICK x \in Request : Go(r, x) /\ x.pc \in {"idle", "reset", "consumed"}
    BY <1>1
  <1>3. \A q \in Requests : req'[q].pc = "issue" => req'[q] = req[q]
    BY <1>2 DEF Go, ShapeInv
  <1>4. ASSUME NEW kind \in MailKinds
        PROVE  Cardinality(Open(kind)') + Cardinality(OnTheWay(kind)') <= Cardinality(Requests)
    <2>1. Open(kind)' \subseteq Open(kind) /\ OnTheWay(kind)' \subseteq OnTheWay(kind)
      BY <1>1, <1>3 DEF Open, OnTheWay, At
    <2>2. QED
      BY <2>1, OpenQuiet
  <1>5. QED
    BY <1>4, OpenThen

\* A link sent takes the place of the request that was about to send it.
LEMMA OpenSend ==
  ASSUME ShapeInv, OpenLinksBounded, NEW r \in Requests, SendLink(r)
  PROVE  OpenLinksBounded'
  <1> DEFINE new == Len(links) + 1
             k   == req[r].kind
  <1>1. /\ Len(links) \in Nat /\ DOMAIN links = 1..Len(links) /\ DOMAIN links' = 1..new
        /\ \A n \in DOMAIN links : links'[n] = links[n]
        /\ links'[new] = [kind |-> k, live |-> TRUE, uses |-> 0]
    BY SentLink
  <1>2. Go(r, Idle) /\ req[r].pc = "issue"
    BY DEF SendLink, End, At
  <1>3. \A q \in Requests : req'[q].pc = "issue" => q # r /\ req'[q] = req[q]
    BY <1>2, IdleFits DEF Go, ShapeInv
  <1>4. links'[new].kind = k
    BY <1>1
  <1>5. \A n \in DOMAIN links' : n \in DOMAIN links \/ n = new
    BY <1>1
  <1> HIDE DEF new
  <1>6. ASSUME NEW kind \in MailKinds
        PROVE  Cardinality(Open(kind)') + Cardinality(OnTheWay(kind)') <= Cardinality(Requests)
    <2>1. CASE kind # k
      <3>1. Open(kind)' \subseteq Open(kind)
        BY <1>1, <1>4, <1>5, <2>1 DEF Open
      <3>2. OnTheWay(kind)' \subseteq OnTheWay(kind)
        BY <1>3 DEF OnTheWay, At
      <3>3. QED
        BY <3>1, <3>2, OpenQuiet
    <2>2. CASE kind = k
      <3>1. Open(kind)' \in SUBSET (Open(kind) \cup {new})
        BY <1>1, <1>5 DEF Open
      <3>2. OnTheWay(kind)' \in SUBSET (OnTheWay(kind) \ {r})
        BY <1>3 DEF OnTheWay, At
      <3>3. r \in OnTheWay(kind)
        BY <1>2, <2>2 DEF OnTheWay, At
      <3>4. QED
        BY <3>1, <3>2, <3>3, OpenCounted, SizesMoved
    <2>3. QED
      BY <2>1, <2>2
  <1>7. QED
    BY <1>6, OpenThen

\* Asking again marks those of the kind used.
LEMMA OpenAsk ==
  ASSUME ShapeInv, OpenLinksBounded, NEW r \in Requests, NEW k \in MailKinds, AskLink(r, k)
  PROVE  OpenLinksBounded'
  <1> DEFINE x == [Idle EXCEPT !.pc = "issue", !.kind = k]
  <1>1. Go(r, x) /\ links' = LinksUsed(k)
    BY DEF AskLink
  <1>2. x.pc = "issue" /\ x.kind = k
    BY IdleFits DEF Request, MailKinds, Kinds
  <1> HIDE DEF x
  <1>3. \A q \in Requests : req'[q] = IF q = r THEN x ELSE req[q]
    BY <1>1 DEF Go, ShapeInv
  <1>4. links \in Seq(Link)
    BY DEF ShapeInv, TypeOK
  <1>5. /\ DOMAIN links' = DOMAIN links
        /\ \A n \in DOMAIN links : /\ links'[n].live => links[n].live /\ links[n].kind # k
                                   /\ links'[n].kind = links[n].kind
    BY <1>1, <1>4, MarkedLinks
  <1>6. ASSUME NEW kind \in MailKinds
        PROVE  Cardinality(Open(kind)') + Cardinality(OnTheWay(kind)') <= Cardinality(Requests)
    <2>1. CASE kind = k
      <3>1. Open(kind)' = {}
        BY <1>5, <2>1 DEF Open
      <3>2. QED
        BY <3>1, OpenNone
    <2>2. CASE kind # k
      <3>1. Open(kind)' \subseteq Open(kind)
        BY <1>5 DEF Open
      <3>2. OnTheWay(kind)' \subseteq OnTheWay(kind)
        BY <1>2, <1>3, <2>2 DEF OnTheWay, At
      <3>3. QED
        BY <3>1, <3>2, OpenQuiet
    <2>3. QED
      BY <2>1, <2>2
  <1>7. QED
    BY <1>6, OpenThen

\* Every step keeps the open links within their bound.
LEMMA OpenLinksStep ==
  ASSUME ShapeInv, OpenLinksBounded, [Next]_vars
  PROVE  OpenLinksBounded'
  <1>1. CASE links' = <<>>
    <2>1. DOMAIN links' = {}
      BY <1>1
    <2>2. \A kind \in MailKinds : Open(kind)' = {}
      BY <2>1 DEF Open
    <2>3. QED
      BY <2>2, OpenNone, OpenThen
  <1>2. CASE Delete
    BY <1>1, <1>2 DEF Delete
  <1>3. ASSUME NEW r \in Requests, Register(r) PROVE OpenLinksBounded'
    BY <1>1, <1>3 DEF Register, ShapeInv
  <1>4. QED
    BY <1>2, <1>3, Quiet, OpenLinksQuiet, OpenSend, OpenUse, OpenAsk, OpenFollow

(***************************************************************************)
(* What Sessions promises                                                  *)
(***************************************************************************)

\* At the start there is no row and no link.
LEMMA EmptyAtFirst ==
  ASSUME Init
  PROVE  RotationInv /\ LinkInv /\ OpenLinksBounded
  <1>1. rows = <<>> /\ links = <<>> /\ \A r \in Requests : req[r] = Idle
    BY DEF Init
  <1>2. DOMAIN rows = {} /\ DOMAIN links = {}
    BY <1>1
  <1>3. RotationInv /\ LinkInv
    BY <1>2 DEF RotationInv, LinkInv, SuccessorsBounded, LinkUsesBounded
  <1>4. ASSUME NEW kind \in MailKinds
        PROVE  Cardinality({n \in DOMAIN links : links[n].live /\ links[n].kind = kind})
                   + Cardinality({r \in Requests : At(r, "issue") /\ req[r].kind = kind})
                   <= Cardinality(Requests)
    <2>1. {n \in DOMAIN links : links[n].live /\ links[n].kind = kind} = {}
      BY <1>2
    <2>2. {r \in Requests : At(r, "issue") /\ req[r].kind = kind} = {}
      BY <1>1, IdleFits DEF At
    <2>3. Cardinality(Requests) \in Nat
      BY FS_CardinalityType
    <2>4. QED
      BY <2>1, <2>2, <2>3, FS_EmptySet
  <1>5. QED
    BY <1>3, <1>4 DEF OpenLinksBounded

\* The inductive invariant: the shapes, what requests in progress will make of the
\* promises, and that what is still open has not been used.
THEOREM SessionsInvHolds == Spec => []SessionsInv
  <1>1. Init => SessionsInv
    BY ShapeAtFirst, PromiseAtFirst, EmptyAtFirst DEF SessionsInv
  <1>2. SessionsInv /\ [Next]_vars => SessionsInv'
    BY ShapeStep, PromiseStep, RotationStep, LinkStep, OpenLinksStep DEF SessionsInv
  <1>3. QED
    BY <1>1, <1>2, PTL DEF Spec

\* The tables of sessions and links keep the types that the schema gives them, and a
\* request is about rows that exist.
THEOREM SessionsTypes == Spec => []TypeOK
  BY SessionsInvHolds, PTL DEF SessionsInv, ShapeInv

\* Once a change of password is answered, no session begun under an older one is
\* live, except for requests that the revocation overtook.
THEOREM OldSessionsAlwaysEnd == Spec => []OldSessionsEnd
  BY SessionsInvHolds, PTL DEF SessionsInv, PromiseInv

\* Once a suspension is answered the account has no session, with the same exception.
THEOREM SuspendedIsAlwaysOut == Spec => []SuspendedIsOut
  BY SessionsInvHolds, PTL DEF SessionsInv, PromiseInv

\* What should end every session of an account leaves only those on their way.
THEOREM AccessAlwaysEnds == Spec => []AccessEnds
  BY OldSessionsAlwaysEnd, SuspendedIsAlwaysOut, PTL DEF AccessEnds

\* However many requests race, a token has at most as many successors as requests.
THEOREM SuccessorsAlwaysBounded == Spec => []SuccessorsBounded
  BY SessionsInvHolds, PTL DEF SessionsInv, RotationInv

\* However many requests race, a link takes effect at most once for each.
THEOREM LinkUsesAlwaysBounded == Spec => []LinkUsesBounded
  BY SessionsInvHolds, PTL DEF SessionsInv, LinkInv

\* However many requests race, tokens and links serve each of them at most once.
THEOREM UsesAlwaysBounded == Spec => []UsesBounded
  BY SuccessorsAlwaysBounded, LinkUsesAlwaysBounded, PTL DEF UsesBounded

\* However many requests race, at most one link of a kind for each is open.
THEOREM OpenLinksAlwaysBounded == Spec => []OpenLinksBounded
  BY SessionsInvHolds, PTL DEF SessionsInv

\* No session without a verified address, also where verification, a new password and
\* a deletion race with a login.
THEOREM SessionsAlwaysVerified == Spec => []SessionsAreVerified
  BY SessionsInvHolds, PTL DEF SessionsInv, PromiseInv
=============================================================================
