------------------------------ MODULE Sessions ------------------------------
(***************************************************************************)
(* Signing in, staying signed in, and the links sent by e-mail:            *)
(* services/tokenService.ts and authTokenService.ts, and the handlers that *)
(* use them in authController, googleAuth, userController,                 *)
(* adminController and adminDashboardController.                           *)
(*                                                                         *)
(* One account and the requests about it.  Every await of a handler is a   *)
(* step, so that other requests, a suspension or a new password come in    *)
(* between.  A refresh token is the user and the second it was signed in:  *)
(* two tokens of one second are the same string.  A password is a version  *)
(* number.                                                                 *)
(***************************************************************************)
EXTENDS Integers, Sequences, FiniteSets

CONSTANTS
    Requests,     \* requests in progress at once (a bound)
    AccessLife,   \* seconds an access token is accepted
    MaxSeconds,   \* bound on time
    MaxRows,      \* bound on the refresh tokens stored
    MaxLinks,     \* bound on the links issued
    MaxPasswords  \* bound on the passwords set

ASSUME SessionsAssumption ==
    /\ IsFiniteSet(Requests)
    /\ AccessLife \in Nat
    /\ MaxSeconds \in Nat
    /\ MaxRows \in Nat
    /\ MaxLinks \in Nat
    /\ MaxPasswords \in Nat

VARIABLES
    second,   \* the clock
    account,  \* the User row
    rows,     \* RefreshToken, in the order of creation
    links,    \* AuthToken, in the order of creation
    req,      \* the requests
    ended,    \* newest password whose change was answered with success
    barred    \* a suspension was answered with success and still holds

tables == <<account, rows, links>>
ghosts == <<ended, barred>>
vars   == <<second, tables, req, ghosts>>

MailKinds == {"VERIFY", "RESET"}
Kinds     == MailKinds \cup {"DOWNLOAD"}

(* A row's parent is the row it succeeds, 0 for a new session; password is  *)
(* the password in force when its session began.  A session is late when    *)
(* no revocation could reach it: its request was in progress at one, or it  *)
(* was let in while the account was suspended.                              *)
Row  == [token : 0..MaxSeconds, live : BOOLEAN, parent : 0..MaxRows,
         password : 0..MaxPasswords, late : BOOLEAN]
Link == [kind : Kinds, live : BOOLEAN, uses : Nat]

Registered == [exists |-> TRUE, verified |-> FALSE, suspended |-> FALSE, password |-> 0]
Missing    == [Registered EXCEPT !.exists = FALSE]

Idle == [pc |-> "idle", at |-> 0, kind |-> "RESET", password |-> 0, late |-> FALSE]

Init ==
    /\ second = 0
    /\ account = Missing
    /\ rows = <<>>
    /\ links = <<>>
    /\ req = [r \in Requests |-> Idle]
    /\ ended = 0
    /\ barred = FALSE

Free(r)     == req[r].pc = "idle"
At(r, pc)   == req[r].pc = pc
Go(r, next) == req' = [req EXCEPT ![r] = next]
End(r)      == Go(r, Idle)

\* A request that goes on with the account as it is now.
Holding(pc) == [Idle EXCEPT !.pc = pc, !.password = account.password]

Tick ==
    /\ second < MaxSeconds
    /\ second' = second + 1
    /\ UNCHANGED <<tables, req, ghosts>>

-----------------------------------------------------------------------------
(* Ways in: each ends in persistRefreshToken *)

\* register
Register(r) ==
    /\ Free(r)
    /\ ~account.exists
    /\ account' = Registered
    /\ Go(r, [Idle EXCEPT !.pc = "issue", !.kind = "VERIFY"])
    /\ UNCHANGED <<second, rows, links, ghosts>>

\* Mutant: an address that is not verified may log in.
Login_Unverified(r) ==
    /\ Free(r)
    /\ account.exists
    /\ ~account.suspended
    /\ Go(r, Holding("grant"))
    /\ UNCHANGED <<second, tables, ghosts>>

\* login, up to its checks.
Login(r) ==
    /\ Free(r)
    /\ account.exists
    /\ account.verified
    /\ ~account.suspended
    /\ Go(r, Holding("grant"))
    /\ UNCHANGED <<second, tables, ghosts>>

\* upsertGoogleUser: creates or verifies the account; suspension is not looked at.
GoogleLogin(r) ==
    /\ Free(r)
    /\ account' = IF account.exists THEN [account EXCEPT !.verified = TRUE]
                  ELSE [Registered EXCEPT !.verified = TRUE]
    /\ Go(r, [Holding("grant") EXCEPT !.late = account.suspended])
    /\ UNCHANGED <<second, rows, links, ghosts>>

\* becomeCreator asks for an access token, signed with row n and still accepted,
\* whatever has become of the row.
BecomeCreator(r, n) ==
    /\ Free(r)
    /\ account.exists
    /\ second - rows[n].token <= AccessLife
    /\ Go(r, [Holding("grant") EXCEPT !.password = rows[n].password,
              !.late = rows[n].late \/ rows[n].password < ended \/ account.suspended])
    /\ UNCHANGED <<second, tables, ghosts>>

NewRow(r) ==
    [token |-> second, live |-> TRUE, parent |-> req[r].at,
     password |-> req[r].password, late |-> req[r].late]

\* persistRefreshToken, the last step of every way in and of a refresh.
Persist(r) ==
    /\ req[r].pc \in {"grant", "successor"}
    /\ Len(rows) < MaxRows
    /\ rows' = Append(rows, NewRow(r))
    /\ End(r)
    /\ UNCHANGED <<second, account, links, ghosts>>

-----------------------------------------------------------------------------
(* refresh and rotateRefreshToken *)

\* The account is read for the token of the cookie, which may be any that was
\* ever set: an answer may be lost, and tabs share the cookie.
Refresh(r, n) ==
    /\ Free(r)
    /\ account.exists
    /\ ~account.suspended
    /\ Go(r, [Idle EXCEPT !.pc = "find", !.at = rows[n].token])
    /\ UNCHANGED <<second, tables, ghosts>>

\* Mutant: the look-up forgets that a token may have been revoked.
FindRow_Revoked(r, n) ==
    /\ At(r, "find")
    /\ rows[n].token = req[r].at
    /\ Go(r, [req[r] EXCEPT !.pc = "rotate", !.at = n,
                            !.password = rows[n].password, !.late = rows[n].late])
    /\ UNCHANGED <<second, tables, ghosts>>

\* findFirst: some row of that token not revoked.
FindRow(r, n) ==
    /\ At(r, "find")
    /\ rows[n].token = req[r].at
    /\ rows[n].live
    /\ Go(r, [req[r] EXCEPT !.pc = "rotate", !.at = n,
                            !.password = rows[n].password, !.late = rows[n].late])
    /\ UNCHANGED <<second, tables, ghosts>>

\* Mutant: the old token is left as it is.
Rotate_Keeps(r) ==
    /\ At(r, "rotate")
    /\ Go(r, [req[r] EXCEPT !.pc = "successor"])
    /\ UNCHANGED <<second, tables, ghosts>>

\* The update that revokes the row; its successor is stored by Persist.
Rotate(r) ==
    /\ At(r, "rotate")
    /\ rows' = [rows EXCEPT ![req[r].at].live = FALSE]
    /\ Go(r, [req[r] EXCEPT !.pc = "successor"])
    /\ UNCHANGED <<second, account, links, ghosts>>

-----------------------------------------------------------------------------
(* Ways out: each ends in revokeAllRefreshTokens *)

Revoked(gone) == [n \in DOMAIN rows |-> [rows[n] EXCEPT !.live = @ /\ n \notin gone]]

\* logout revokes the token of the cookie, then, with an access token that is
\* still accepted, all of the user.
Logout(r, n) ==
    /\ Free(r)
    /\ rows' = Revoked({m \in DOMAIN rows : rows[m].token = rows[n].token})
    /\ req' \in {req, [req EXCEPT ![r] = [Idle EXCEPT !.pc = "logout"]]}
    /\ UNCHANGED <<second, account, links, ghosts>>

\* changePassword, up to the comparison with the current password.
ChangePassword(r, n) ==
    /\ Free(r)
    /\ account.exists
    /\ second - rows[n].token <= AccessLife
    /\ Go(r, [Idle EXCEPT !.pc = "change"])
    /\ UNCHANGED <<second, tables, ghosts>>

\* The new password is written, by changePassword or resetPassword.
SetPassword(r) ==
    /\ req[r].pc \in {"change", "reset"}
    /\ account.password < MaxPasswords
    /\ account' = [account EXCEPT !.password = @ + 1]
    /\ Go(r, [Idle EXCEPT !.pc = "revoke", !.password = account.password + 1])
    /\ UNCHANGED <<second, rows, links, ghosts>>

\* setSuspended, its update of the account.
Suspend(r) ==
    /\ Free(r)
    /\ account.exists
    /\ account' = [account EXCEPT !.suspended = TRUE]
    /\ Go(r, [Idle EXCEPT !.pc = "suspend"])
    /\ UNCHANGED <<second, rows, links, ghosts>>

\* bulkUsers suspends without revoking.
BulkSuspend ==
    /\ account.exists
    /\ account' = [account EXCEPT !.suspended = TRUE]
    /\ UNCHANGED <<second, rows, links, req, ghosts>>

\* setSuspended and bulkUsers, lifting a suspension.
Activate ==
    /\ account.exists
    /\ account' = [account EXCEPT !.suspended = FALSE]
    /\ barred' = FALSE
    /\ UNCHANGED <<second, rows, links, req, ended>>

\* What a revocation cannot reach: tokens that requests will store after it.
Overtaken(r) ==
    [q \in Requests |->
        IF q = r THEN Idle
        ELSE IF req[q].pc \in {"grant", "rotate", "successor", "consumed"}
        THEN [req[q] EXCEPT !.late = TRUE] ELSE req[q]]

\* What its answer promises.
Promised(r) ==
    /\ ended' = IF At(r, "revoke") /\ req[r].password > ended THEN req[r].password ELSE ended
    /\ barred' = IF At(r, "suspend") THEN account.suspended ELSE barred

\* Mutant: a suspension leaves the sessions alone.
RevokeAll_KeepsOnSuspend(r) ==
    /\ req[r].pc \in {"logout", "revoke", "suspend"}
    /\ rows' = IF At(r, "suspend") THEN rows ELSE Revoked(DOMAIN rows)
    /\ req' = Overtaken(r)
    /\ Promised(r)
    /\ UNCHANGED <<second, account, links>>

\* revokeAllRefreshTokens, and the answer.
RevokeAll(r) ==
    /\ req[r].pc \in {"logout", "revoke", "suspend"}
    /\ rows' = Revoked(DOMAIN rows)
    /\ req' = Overtaken(r)
    /\ Promised(r)
    /\ UNCHANGED <<second, account, links>>

\* deleteUser, of a user without templates and courses.  The tokens it revokes
\* first go with the account, and what other requests had left to do fails.
Delete ==
    /\ account.exists
    /\ account' = Missing
    /\ rows' = <<>>
    /\ links' = <<>>
    /\ req' = [q \in Requests |-> Idle]
    /\ ended' = 0
    /\ barred' = FALSE
    /\ UNCHANGED second

-----------------------------------------------------------------------------
(* issueAuthToken and consumeAuthToken, and the links of downloads *)

LinksUsed(kind) ==
    [n \in DOMAIN links |-> IF links[n].kind = kind THEN [links[n] EXCEPT !.live = FALSE]
                            ELSE links[n]]

\* Mutant: the links sent before stay as they are.
AskLink_Keeps(r, kind) ==
    /\ Free(r)
    /\ account.exists
    /\ kind = "VERIFY" => ~account.verified
    /\ Go(r, [Idle EXCEPT !.pc = "issue", !.kind = kind])
    /\ UNCHANGED <<second, tables, ghosts>>

\* forgotPassword and resendVerification: links sent before are marked used.
AskLink(r, kind) ==
    /\ Free(r)
    /\ account.exists
    /\ kind = "VERIFY" => ~account.verified
    /\ links' = LinksUsed(kind)
    /\ Go(r, [Idle EXCEPT !.pc = "issue", !.kind = kind])
    /\ UNCHANGED <<second, account, rows, ghosts>>

\* initiateDownload: links issued before stay open.
AskDownload(r) ==
    /\ Free(r)
    /\ account.exists
    /\ Go(r, [Idle EXCEPT !.pc = "issue", !.kind = "DOWNLOAD"])
    /\ UNCHANGED <<second, tables, ghosts>>

SendLink(r) ==
    /\ At(r, "issue")
    /\ Len(links) < MaxLinks
    /\ links' = Append(links, [kind |-> req[r].kind, live |-> TRUE, uses |-> 0])
    /\ End(r)
    /\ UNCHANGED <<second, account, rows, ghosts>>

\* verifyEmail, resetPassword and consumeDownload find the link unused.
FollowLink(r, n) ==
    /\ Free(r)
    /\ links[n].live
    /\ Go(r, [Idle EXCEPT !.pc = "follow", !.at = n])
    /\ UNCHANGED <<second, tables, ghosts>>

AfterLink(kind) ==
    IF kind = "DOWNLOAD" THEN Idle
    ELSE Holding(IF kind = "RESET" THEN "reset" ELSE "consumed")

\* Mutant: the link is not marked used.
UseLink_Unmarked(r) ==
    /\ At(r, "follow")
    /\ links' = [links EXCEPT ![req[r].at].uses = @ + 1]
    /\ Go(r, AfterLink(links[req[r].at].kind))
    /\ UNCHANGED <<second, account, rows, ghosts>>

\* ... and mark it used, whether or not another request has done so meanwhile.
UseLink(r) ==
    /\ At(r, "follow")
    /\ links' = [links EXCEPT ![req[r].at].live = FALSE, ![req[r].at].uses = @ + 1]
    /\ Go(r, AfterLink(links[req[r].at].kind))
    /\ UNCHANGED <<second, account, rows, ghosts>>

\* verifyEmail goes on to verify the address and, suspended or not, to sign in.
Verify(r) ==
    /\ At(r, "consumed")
    /\ account' = [account EXCEPT !.verified = TRUE]
    /\ Go(r, [req[r] EXCEPT !.pc = "grant", !.late = @ \/ account.suspended])
    /\ UNCHANGED <<second, rows, links, ghosts>>

-----------------------------------------------------------------------------
\* A statement fails, the process dies, a row is not found: the request ends
\* where it is.
Fail(r) ==
    /\ ~Free(r)
    /\ End(r)
    /\ UNCHANGED <<second, tables, ghosts>>

WaysIn(r) ==
    \/ Register(r) \/ Login(r) \/ GoogleLogin(r) \/ Persist(r)
    \/ \E n \in DOMAIN rows : BecomeCreator(r, n) \/ Refresh(r, n) \/ FindRow(r, n)
    \/ Rotate(r)

WaysOut(r) ==
    \/ \E n \in DOMAIN rows : Logout(r, n) \/ ChangePassword(r, n)
    \/ SetPassword(r) \/ Suspend(r) \/ RevokeAll(r)

ByLink(r) ==
    \/ \E kind \in MailKinds : AskLink(r, kind)
    \/ AskDownload(r) \/ SendLink(r)
    \/ \E n \in DOMAIN links : FollowLink(r, n)
    \/ UseLink(r) \/ Verify(r)

Next ==
    \/ \E r \in Requests : WaysIn(r) \/ WaysOut(r) \/ ByLink(r) \/ Fail(r)
    \/ Tick \/ BulkSuspend \/ Activate \/ Delete

Spec == Init /\ [][Next]_vars

-----------------------------------------------------------------------------
(* What the code keeps true *)

Pcs == {"idle", "issue", "grant", "find", "rotate", "successor", "logout", "change",
        "reset", "revoke", "suspend", "follow", "consumed"}

\* The tables hold what the handlers put there, and a request knows only rows
\* that exist.
TypeOK ==
    /\ second \in 0..MaxSeconds
    /\ account \in [exists : BOOLEAN, verified : BOOLEAN, suspended : BOOLEAN,
                    password : 0..MaxPasswords]
    /\ rows \in Seq(Row)
    /\ links \in Seq(Link)
    /\ \A r \in Requests :
           /\ req[r].pc \in Pcs
           /\ req[r].kind \in Kinds
           /\ req[r].password \in 0..MaxPasswords
           /\ req[r].late \in BOOLEAN
           /\ At(r, "rotate") => req[r].at \in DOMAIN rows
           /\ At(r, "follow") => req[r].at \in DOMAIN links
    /\ ended \in 0..account.password
    /\ barred => account.suspended

\* "Password changed. Please log in again.": once the change is answered, every
\* session begun under an older password is over, but for those whose request
\* was in progress when the tokens were revoked, and their successors.
OldSessionsEnd ==
    \A n \in DOMAIN rows : rows[n].live => rows[n].password >= ended \/ rows[n].late

\* Once setSuspended is answered, and until the suspension is lifted, the account
\* has no session, but for requests in progress at the revocation and the ways in
\* that do not look at the suspension.
SuspendedIsOut ==
    barred => \A n \in DOMAIN rows : rows[n].live => rows[n].late

\* Both: what should end every session of an account leaves only those that were on
\* their way.
AccessEnds == OldSessionsEnd /\ SuspendedIsOut

Busy(pcs, n) == {r \in Requests : req[r].pc \in pcs /\ req[r].at = n}

\* Two refreshes may both find one token; what rotation still bounds is how many
\* successors it has or is about to have: one for each request in progress at once.
SuccessorsBounded ==
    \A n \in DOMAIN rows :
        Cardinality({m \in DOMAIN rows : rows[m].parent = n})
            + Cardinality(Busy({"rotate", "successor"}, n)) <= Cardinality(Requests)

\* A link, sent by e-mail or for a download, takes effect, or is about to, at most
\* once for each request in progress at once.
LinkUsesBounded ==
    \A n \in DOMAIN links :
        links[n].uses + Cardinality(Busy({"follow"}, n)) <= Cardinality(Requests)

\* A token or a link read by several requests at once serves each of them at most once.
UsesBounded == SuccessorsBounded /\ LinkUsesBounded

\* Asking again replaces the links sent before: of one kind, no more are open or
\* on their way than requests could be in progress at once.
OpenLinksBounded ==
    \A kind \in MailKinds :
        Cardinality({n \in DOMAIN links : links[n].live /\ links[n].kind = kind})
            + Cardinality({r \in Requests : At(r, "issue") /\ req[r].kind = kind})
            <= Cardinality(Requests)

\* Whoever holds a session has an address that was verified.
SessionsAreVerified == rows # <<>> => account.verified

-----------------------------------------------------------------------------
(* The inductive invariants of SessionsProofs *)

Request == [pc : Pcs, at : Nat, kind : Kinds, password : 0..MaxPasswords, late : BOOLEAN]

\* A way in starts a chain of rows, a refresh continues one; what a request is about
\* is there, and it is about an account that is there.
Proper(x) ==
    /\ x.pc \in {"grant", "consumed"} => x.at = 0
    /\ x.pc \in {"rotate", "successor"} => x.at \in DOMAIN rows
    /\ x.pc = "follow" => x.at \in DOMAIN links
    /\ x.pc = "revoke" => x.password <= account.password
    /\ x.pc # "idle" => account.exists

\* Nothing is left of an account that is gone.
ShapeInv ==
    /\ TypeOK
    /\ req \in [Requests -> Request]
    /\ \A r \in Requests : Proper(req[r])
    /\ Len(rows) <= MaxRows
    /\ \A n \in DOMAIN rows : rows[n].parent <= Len(rows)
    /\ ~account.exists => account = Missing /\ rows = <<>> /\ links = <<>>

\* Of the password in force at the last change, or overtaken by it.
Current(x) == x.password >= ended \/ x.late

\* What is about to become a session keeps the promises that sessions keep.
Keeping(x) ==
    /\ x.pc \in {"grant", "rotate", "successor", "consumed"} => Current(x)
    /\ barred /\ x.pc \in {"grant", "rotate", "successor"} => x.late
    /\ x.pc = "grant" => account.verified

PromiseInv ==
    /\ OldSessionsEnd /\ SuspendedIsOut /\ SessionsAreVerified
    /\ \A r \in Requests : Keeping(req[r])

\* A live token has no successor yet.
RotationInv ==
    /\ SuccessorsBounded
    /\ \A n \in DOMAIN rows : rows[n].live =>
           /\ \A m \in DOMAIN rows : rows[m].parent # n
           /\ \A r \in Requests : ~(At(r, "successor") /\ req[r].at = n)

\* An open link has not taken effect yet.
LinkInv ==
    /\ LinkUsesBounded
    /\ \A n \in DOMAIN links : links[n].live => links[n].uses = 0

SessionsInv == ShapeInv /\ PromiseInv /\ RotationInv /\ LinkInv /\ OpenLinksBounded
=============================================================================
