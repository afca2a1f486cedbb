----------------------------- MODULE Publishing -----------------------------
(***************************************************************************)
(* How one template gets its file, its preview, and the spreadsheet shown  *)
(* as its demo: createTemplate and updateTemplate with persistUploads      *)
(* (controllers/templateController.ts), services/storageService.ts,        *)
(* previewService.ts and googleSheetsService.ts, addVersion in             *)
(* services/communityService.ts; and the pages that send them, the         *)
(* creator's dashboard and its form (TemplateUploadForm.tsx).              *)
(*                                                                         *)
(* An upload is a number, and so is the preview drawn from it and the      *)
(* spreadsheet made of it.  A tab of the dashboard sends one request at a  *)
(* time; the awaits of its handler are its steps.  A handler reads the     *)
(* row, stores files and talks to Google, and then writes the row whole,   *)
(* with what it read where the request brought nothing.  The form brings   *)
(* no preview of its own and no typed link, and nothing is deleted.        *)
(***************************************************************************)
EXTENDS Integers

CONSTANTS
    Tabs,         \* dashboards of the creator and of administrators
    Storage,      \* env.storageProvider: "local", "cloudinary" or "s3"
    Workbooks,    \* the uploads of which a preview can be drawn
    MaxUploads    \* bound on the uploads and versions

VARIABLES
    listing,    \* the Template row
    newest,     \* file, preview and demo as last made for the template
    astray,     \* which of them were written back from an older row or page
    uploads,    \* the number of uploads and versions so far
    stored,     \* the uploads that storage holds
    versions,   \* TemplateVersion rows
    sheets,     \* spreadsheets that Google was asked to fill, and to open to readers
    form,       \* what each tab has of the template: in its list, or in its form
    ask         \* the request of each tab

pubVars == <<listing, newest, astray, uploads, stored, versions, sheets, form, ask>>

Fields == {"file", "preview", "demo"}
Links   == 0..MaxUploads      \* 0: none
Nothing == [f \in Fields |-> 0]
NoRow   == [file |-> 0, key |-> 0, preview |-> 0, demo |-> 0]
NoForm  == [mode |-> "new", demo |-> 0, late |-> FALSE]
Quiet   == [pc |-> "idle", sheet |-> FALSE, chosen |-> FALSE, link |-> 0, linkLate |-> FALSE,
            old |-> NoRow, late |-> FALSE, brings |-> Nothing]

Init ==
    /\ listing = NoRow /\ newest = Nothing /\ astray = {}
    /\ uploads = 0 /\ stored = {} /\ versions = {}
    /\ sheets = [filled |-> {}, open |-> {}]
    /\ form = [t \in Tabs |-> NoForm]
    /\ ask = [t \in Tabs |-> Quiet]

rowVars  == <<listing, newest, astray>>
fileVars == <<uploads, stored, versions, sheets>>

At(t, pc)  == ask[t].pc = pc
To(t, pc)  == ask' = [ask EXCEPT ![t].pc = pc]

-----------------------------------------------------------------------------
(* The pages.  Only one new template is followed. *)

\* load: the list of the tab shows the template.
Load(t) ==
    /\ listing # NoRow /\ form[t].mode # "edit"
    /\ form' = [form EXCEPT ![t] = [mode |-> "listed", demo |-> listing.demo, late |-> FALSE]]
    /\ UNCHANGED <<rowVars, fileVars, ask>>

\* The button Edit: the form copies what the list shows, however old that is.
Edit(t) ==
    /\ form[t].mode = "listed"
    /\ form' = [form EXCEPT ![t].mode = "edit"]
    /\ UNCHANGED <<rowVars, fileVars, ask>>

\* onCancelEdit, by the button or after the answer of Submit.
Shut(f) == IF f.mode = "edit" THEN [f EXCEPT !.mode = "listed"] ELSE f

Cancel(t) ==
    /\ form[t].mode = "edit"
    /\ form' = [form EXCEPT ![t] = Shut(form[t])]
    /\ UNCHANGED <<rowVars, fileVars, ask>>

\* The inputs of the form: a file, which a new template must have; the box for a
\* spreadsheet, which waits for a file; and the link, which is left or emptied, and
\* not used beside a spreadsheet.
Inputs(t) ==
    {i \in [chosen : BOOLEAN, sheet : BOOLEAN, link : {form[t].demo, 0}] :
        /\ form[t].mode # "edit" => i.chosen /\ i.link = 0
        /\ i.sheet => i.chosen /\ i.link = 0}

\* onSubmit; the button is disabled while a request is pending.
Submit(t, i) ==
    /\ At(t, "idle")
    /\ form[t].mode = "edit" \/ (listing = NoRow /\ \A u \in Tabs : At(u, "idle"))
    /\ ask' = [ask EXCEPT ![t] =
           [Quiet EXCEPT !.pc = IF form[t].mode = "edit" THEN "read" ELSE "upload",
                         !.sheet = i.sheet, !.chosen = i.chosen, !.link = i.link,
                         !.linkLate = i.link # 0 /\ form[t].late]]
    /\ UNCHANGED <<rowVars, fileVars, form>>

\* The answer: the list is loaded again, and the form closed at once.
Answered(t) ==
    /\ At(t, "answer")
    /\ form' = [form EXCEPT ![t] = Shut(form[t])]
    /\ ask' = [ask EXCEPT ![t] = Quiet]
    /\ UNCHANGED <<rowVars, fileVars>>

\* A statement fails, a call is refused, or the answer is lost: the form stays.
Fail(t) ==
    /\ ~At(t, "idle")
    /\ ask' = [ask EXCEPT ![t] = Quiet]
    /\ UNCHANGED <<rowVars, fileVars, form>>

File(t) == ask[t].brings.file

-----------------------------------------------------------------------------
(* createTemplate and updateTemplate *)

\* assertCanManageTemplate.
Read(t) ==
    /\ At(t, "read")
    /\ ask' = [ask EXCEPT ![t].pc = IF ask[t].chosen THEN "upload" ELSE "write", ![t].old = listing]
    /\ UNCHANGED <<rowVars, fileVars, form>>

\* storeTemplateFile: writeFile, the upload stream, or nothing where S3 is a stub.
StoreFile(t) ==
    /\ At(t, "upload")
    /\ uploads < MaxUploads
    /\ uploads' = uploads + 1
    /\ stored' = IF Storage = "s3" THEN stored ELSE stored \cup {uploads'}
    /\ ask' = [ask EXCEPT ![t].pc = "preview", ![t].brings.file = uploads']
    /\ UNCHANGED <<rowVars, form, versions, sheets>>

\* generateSheetPreview, null for what is no workbook, and the preview is stored.
DrawPreview(t) ==
    /\ At(t, "preview")
    /\ ask' = [ask EXCEPT ![t].pc = IF ask[t].sheet THEN "sheet" ELSE "write",
                          ![t].brings.preview = IF File(t) \in Workbooks THEN File(t) ELSE 0]
    /\ UNCHANGED <<rowVars, fileVars, form>>

\* getAccessToken: by the refresh token, or else as the service account.
Authorize(t) ==
    /\ At(t, "sheet")
    /\ To(t, "make")
    /\ UNCHANGED <<rowVars, fileVars, form>>

\* workbookToMatrices and createSpreadsheetFile.
MakeSheet(t) ==
    /\ At(t, "make")
    /\ To(t, "fill")
    /\ UNCHANGED <<rowVars, fileVars, form>>

\* Mutant: makePublic is not awaited.
FillSheet_NotAwaited(t) ==
    /\ At(t, "fill")
    /\ sheets' = [sheets EXCEPT !.filled = @ \cup {File(t)}]
    /\ ask' = [ask EXCEPT ![t].pc = "write", ![t].brings.demo = File(t)]
    /\ UNCHANGED <<rowVars, form, uploads, stored, versions>>

\* values:batchUpdate; an answer that is not ok is logged, no more.
FillSheet(t) ==
    /\ At(t, "fill")
    /\ sheets' = [sheets EXCEPT !.filled = @ \cup {File(t)}]
    /\ To(t, "open")
    /\ UNCHANGED <<rowVars, form, uploads, stored, versions>>

\* makePublic, and the link is returned; an answer that is not ok is logged, no more.
OpenSheet(t) ==
    /\ At(t, "open")
    /\ sheets' = [sheets EXCEPT !.open = @ \cup {File(t)}]
    /\ ask' = [ask EXCEPT ![t].pc = "write", ![t].brings.demo = File(t)]
    /\ UNCHANGED <<rowVars, form, uploads, stored, versions>>

Kept(new, old) == IF new # 0 THEN new ELSE old

\* Mutant: an update writes what the request brought only.
Written_OnlyBrought(q) ==
    [file    |-> q.brings.file,
     key     |-> q.brings.file,
     preview |-> q.brings.preview,
     demo    |-> Kept(q.brings.demo, q.link)]

\* template.create, or template.update with what was read; a link comes from the
\* sheet made, from the form, or from the row.
Written(q) ==
    [file    |-> Kept(q.brings.file, q.old.file),
     key     |-> Kept(q.brings.file, q.old.key),
     preview |-> Kept(q.brings.preview, q.old.preview),
     demo    |-> Kept(q.brings.demo, Kept(q.link, q.old.demo))]

\* A field that the request did not bring is written back as it was.
WrittenLate(q, field) == IF field = "demo" /\ q.link # 0 THEN q.linkLate ELSE q.late

\* After request t has changed the row, what the others have copied of it is late.
Overtake(t, next) ==
    /\ form' = [u \in Tabs |-> [form[u] EXCEPT !.late = form[u].mode # "new"]]
    /\ ask' = [u \in Tabs |->
           IF u = t THEN next
           ELSE [ask[u] EXCEPT !.late = ask[u].old # NoRow, !.linkLate = ask[u].link # 0]]

Write(t) ==
    LET q == ask[t] IN
    /\ At(t, "write")
    /\ listing' = Written(q)
    /\ newest' = [f \in Fields |-> Kept(q.brings[f], newest[f])]
    /\ astray' = {f \in Fields : q.brings[f] = 0 /\ (f \in astray \/ WrittenLate(q, f))}
    /\ Overtake(t, [Quiet EXCEPT !.pc = "answer"])
    /\ UNCHANGED fileVars

-----------------------------------------------------------------------------
(* addVersion: the version is a row of its own, and then the template's file *)

AddVersion(t) ==
    /\ At(t, "idle")
    /\ listing # NoRow
    /\ uploads < MaxUploads
    /\ uploads' = uploads + 1
    /\ versions' = versions \cup {uploads'}
    /\ ask' = [ask EXCEPT ![t] = [Quiet EXCEPT !.pc = "version", !.brings.file = uploads']]
    /\ UNCHANGED <<rowVars, form, stored, sheets>>

\* The key of the file that was there stays.
OfferVersion(t) ==
    /\ At(t, "version")
    /\ listing' = [listing EXCEPT !.file = File(t)]
    /\ newest' = [newest EXCEPT !["file"] = File(t)]
    /\ astray' = IF Storage = "local" /\ listing.key # 0 THEN astray \cup {"file"} ELSE astray \ {"file"}
    /\ Overtake(t, Quiet)
    /\ UNCHANGED fileVars

Next == \E t \in Tabs :
    \/ Load(t) \/ Edit(t) \/ Cancel(t) \/ (\E i \in Inputs(t) : Submit(t, i)) \/ Answered(t) \/ Fail(t)
    \/ Read(t) \/ StoreFile(t) \/ DrawPreview(t) \/ Authorize(t) \/ MakeSheet(t) \/ FillSheet(t)
    \/ OpenSheet(t) \/ Write(t) \/ AddVersion(t) \/ OfferVersion(t)

Spec == Init /\ [][Next]_pubVars

-----------------------------------------------------------------------------
(* What the code keeps true *)

\* consumeDownload: resolveLocalFile goes by the key, the redirect by the file.
Served == IF Storage = "local" /\ listing.key # 0 THEN listing.key ELSE listing.file

Shown(field) == IF field = "file" THEN Served ELSE listing[field]

\* However saves, versions and reloads of several tabs interleave, buyers get the
\* file, preview and demo made last, unless one was written back from a row or a
\* list that had changed, or a version left the key of a local file.
LatestStands == \A f \in Fields \ astray : Shown(f) = newest[f]

\* What is offered is there: the file is in storage, or is a version that the
\* history lists; a demo made by the server was filled and opened first, as far as
\* Google did that.  A request that fails half-way leaves unused files, no broken link.
OffersAreWhole ==
    /\ listing # NoRow /\ Storage # "s3" => Served \in stored \cup versions
    /\ listing.demo # 0 => listing.demo \in sheets.filled \cap sheets.open

-----------------------------------------------------------------------------
(* Why *)

Rows  == [file : Links, key : Links, preview : Links, demo : Links]
Steps == {"upload", "preview", "sheet", "make", "fill", "open", "write"}
Form  == [mode : {"new", "listed", "edit"}, demo : Links, late : BOOLEAN]
Request == [pc : Steps \cup {"idle", "read", "answer", "version"}, sheet : BOOLEAN, chosen : BOOLEAN,
            link : Links, linkLate : BOOLEAN, old : Rows, late : BOOLEAN, brings : [Fields -> Links]]

TypeOK ==
    /\ listing \in Rows
    /\ newest \in [Fields -> Links]
    /\ astray \in SUBSET Fields
    /\ uploads \in Links
    /\ stored \in SUBSET Links
    /\ versions \in SUBSET Links
    /\ sheets \in [filled : SUBSET Links, open : SUBSET Links]
    /\ form \in [Tabs -> Form]
    /\ ask \in [Tabs -> Request]

\* Files that exist, and a link that leads to a finished sheet.
There(n) == Storage # "s3" => n \in stored \cup versions
Held(row) == row # NoRow => row.file # 0 /\ row.key # 0 /\ There(row.file) /\ There(row.key)
Ready(link) == link # 0 => link \in sheets.filled /\ link \in sheets.open

\* What a tab shows is the row's link, unless the row has changed since.
FormInv(f) ==
    /\ f.mode = "new" => f.demo = 0
    /\ f.mode # "new" => listing # NoRow /\ (~f.late => f.demo = listing.demo)
    /\ Ready(f.demo)

\* A request has read the row as it is, unless that has changed since; it brings what
\* is stored; and once the template exists, no request is creating it.
AskInv(q) ==
    /\ q.old # NoRow /\ ~q.late => q.old = listing
    /\ q.link # 0 /\ ~q.linkLate => q.link = listing.demo
    /\ Held(q.old) /\ Ready(q.old.demo) /\ Ready(q.link) /\ Ready(q.brings["demo"])
    /\ q.brings["file"] # 0 => There(q.brings["file"])
    /\ q.pc \in Steps => (q.old = NoRow <=> listing = NoRow)
    /\ q.pc \in {"read", "answer", "version"} => listing # NoRow
    /\ q.pc = "upload" \/ (q.pc = "write" /\ q.old # NoRow) \/ q.pc \in {"idle", "read", "answer"} \/ q.brings["file"] # 0
    /\ q.pc = "open" => q.brings["file"] \in sheets.filled

\* The template is created by one request.
Creation ==
    listing = NoRow =>
        /\ newest = Nothing
        /\ \A t, u \in Tabs : ~At(t, "idle") /\ ~At(u, "idle") => t = u
        /\ \A t \in Tabs : ask[t].link = 0

PubInv ==
    /\ TypeOK
    /\ Held(listing) /\ Ready(listing.demo)
    /\ \A t \in Tabs : FormInv(form[t])
    /\ \A t \in Tabs : AskInv(ask[t])
    /\ Creation
    /\ LatestStands
=============================================================================
