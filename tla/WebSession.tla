----------------------------- MODULE WebSession -----------------------------
(***************************************************************************)
(* The session as the web client keeps it: api() and the stored access     *)
(* token of lib/api.ts, AuthProvider, the pages that sign in, and the      *)
(* handlers refresh, login and logout of authController with               *)
(* rotateRefreshToken of tokenService.                                     *)
(*                                                                         *)
(* Every call carries the token and the cookie of the moment it is sent.   *)
(* A refused call refreshes the session on its own and is sent once more:  *)
(* calls refused together refresh together.  An access token may expire at *)
(* any time, so the server may refuse any.  Sessions has the server's side *)
(* in full.                                                                *)
(***************************************************************************)
EXTENDS Integers, Sequences

CONSTANTS
    People,        \* accounts used in this browser
    Calls,         \* calls in flight at once (a bound)
    Nobody,
    MaxSessions    \* bound on the refresh tokens issued

VARIABLES
    token,         \* localStorage: whose access token
    cookie,        \* the refresh cookie: its row, 0 for none
    user,          \* AuthProvider's user
    booted,        \* AuthProvider has started
    sessions,      \* refresh_tokens: whose, and not revoked
    outbox,        \* a sign-out waits in the offline queue
    call,          \* the calls in flight
    leftover,      \* history: a call older than the last sign-in or sign-out set token or
                   \* user, or a sign-in by Google ended between the two
    broken         \* history: an answer was lost, the database failed, or a queued sign-out was sent

page    == <<token, cookie, user, booted, outbox>>
webVars == <<page, sessions, call, leftover, broken>>

NoCall == [pc |-> "idle", for |-> "data", as |-> Nobody, cookie |-> 0, old |-> FALSE]

Init ==
    /\ token = Nobody
    /\ cookie = 0
    /\ user = Nobody
    /\ booted = FALSE
    /\ sessions = <<>>
    /\ outbox = FALSE
    /\ call = [c \in Calls |-> NoCall]
    /\ leftover = FALSE
    /\ broken = FALSE

Free(c)     == call[c] = NoCall
At(c, pc)   == call[c].pc = pc
Goto(c, pc) == call' = [call EXCEPT ![c].pc = pc]
End(c)      == call' = [call EXCEPT ![c] = NoCall]

Sent(c, pc, for) ==
    [call[c] EXCEPT !.pc = pc, !.for = for, !.as = token, !.cookie = cookie]

Issue(u) ==
    /\ Len(sessions) < MaxSessions
    /\ sessions' = Append(sessions, [user |-> u, live |-> TRUE])

\* Signing in or out: the calls in flight are older than that.
Settle(c, next) ==
    /\ call' = [d \in Calls |-> IF d = c THEN next ELSE [call[d] EXCEPT !.old = ~Free(d)]]
    /\ leftover' = call[c].old

\* What an old call sets may be another user's.
Mark(c) == leftover' = (leftover \/ call[c].old)

\* A call fails: boot's catch comes next, the other callers show an error.
Throw(c) ==
    /\ IF call[c].for \in {"boot", "start"} THEN Goto(c, "unbooted") ELSE End(c)
    /\ leftover' = (leftover \/ call[c].for = "google")

-----------------------------------------------------------------------------
(* Calls of the pages *)

Fetch(c) ==
    /\ Free(c)
    /\ user # Nobody
    /\ call' = [call EXCEPT ![c] = Sent(c, "sent", "data")]
    /\ UNCHANGED <<page, sessions, leftover, broken>>

\* With a token the profile is asked for, without one a refresh.
Boot(c) ==
    /\ ~booted
    /\ Free(c)
    /\ booted' = TRUE
    /\ call' = [call EXCEPT ![c] = IF token = Nobody THEN Sent(c, "refresh", "start")
                                          ELSE Sent(c, "sent", "boot")]
    /\ UNCHANGED <<token, cookie, user, outbox, sessions, leftover, broken>>

\* The page is loaded anew, and the answers of its calls are lost.
Reload ==
    /\ booted
    /\ booted' = FALSE
    /\ user' = Nobody
    /\ broken' = (broken \/ \E c \in Calls : call[c].pc \in {"rotate", "persist", "renewed", "signedin", "signedout"})
    /\ call' = [c \in Calls |-> NoCall]
    /\ UNCHANGED <<token, cookie, outbox, sessions, leftover>>

\* An endpoint accepts the token ...
Accept(c) ==
    /\ call[c].pc \in {"sent", "again"}
    /\ call[c].as # Nobody
    /\ IF call[c].for = "data" THEN End(c) ELSE Goto(c, "profile")
    /\ UNCHANGED <<page, sessions, leftover, broken>>

\* ... or refuses it, and the session is refreshed.
Refuse(c) ==
    /\ At(c, "sent")
    /\ call' = [call EXCEPT ![c].pc = "refresh", ![c].cookie = cookie]
    /\ UNCHANGED <<page, sessions, leftover, broken>>

\* The second refusal is the caller's error.
RefuseAgain(c) ==
    /\ At(c, "again")
    /\ Throw(c)
    /\ UNCHANGED <<page, sessions, broken>>

\* setUser(data.user), at the start or after a token was stored.
ShowProfile(c) ==
    /\ At(c, "profile")
    /\ user' = call[c].as
    /\ Mark(c)
    /\ End(c)
    /\ UNCHANGED <<token, cookie, booted, outbox, sessions, broken>>

\* boot's catch.
Unboot(c) ==
    /\ At(c, "unbooted")
    /\ token' = Nobody
    /\ user' = Nobody
    /\ Mark(c)
    /\ End(c)
    /\ UNCHANGED <<cookie, booted, outbox, sessions, broken>>

-----------------------------------------------------------------------------
(* refresh, on the server and back *)

FindToken(c) ==
    /\ At(c, "refresh")
    /\ IF call[c].cookie # 0 /\ sessions[call[c].cookie].live
       THEN Goto(c, "rotate") ELSE Goto(c, "denied")
    /\ UNCHANGED <<page, sessions, leftover, broken>>

Rotate(c) ==
    /\ At(c, "rotate")
    /\ sessions' = [sessions EXCEPT ![call[c].cookie].live = FALSE]
    /\ Goto(c, "persist")
    /\ UNCHANGED <<page, leftover, broken>>

Persist(c) ==
    /\ At(c, "persist")
    /\ Issue(sessions[call[c].cookie].user)
    /\ call' = [call EXCEPT ![c].pc = "renewed", ![c].cookie = Len(sessions) + 1,
                            ![c].as = sessions[call[c].cookie].user]
    /\ UNCHANGED <<page, leftover, broken>>

\* Mutant: a refusal clears the cookie.
RefreshFails_Clears(c) ==
    /\ At(c, "denied")
    /\ cookie' = 0
    /\ token' = Nobody
    /\ Throw(c)
    /\ UNCHANGED <<user, booted, outbox, sessions, broken>>

\* The stored token is dropped, the cookie left as it is, and the call refused.
RefreshFails(c) ==
    /\ At(c, "denied")
    /\ token' = Nobody
    /\ Throw(c)
    /\ UNCHANGED <<cookie, user, booted, outbox, sessions, broken>>

\* The answer's cookie and token are stored and the call sent once more; the
\* refresh of a start has the user in its answer.
Renew(c) ==
    /\ At(c, "renewed")
    /\ cookie' = call[c].cookie
    /\ token' = call[c].as
    /\ Mark(c)
    /\ IF call[c].for = "start" THEN user' = call[c].as /\ End(c)
       ELSE Goto(c, "again") /\ UNCHANGED user
    /\ UNCHANGED <<booted, outbox, sessions, broken>>

-----------------------------------------------------------------------------
(* Signing in *)

SignIn(c, u, for) ==
    /\ Free(c)
    /\ booted
    /\ call' = [call EXCEPT ![c] = [NoCall EXCEPT !.pc = "signin", !.for = for, !.as = u]]
    /\ UNCHANGED <<page, sessions, leftover, broken>>

LogIn(c, u)  == SignIn(c, u, "login")
\* The credential of Google's button, or the link of an e-mail.
finish(c, u) == SignIn(c, u, "google")

attachSession(c) ==
    /\ At(c, "signin")
    /\ Issue(call[c].as)
    /\ call' = [call EXCEPT ![c].pc = "signedin", ![c].cookie = Len(sessions) + 1]
    /\ UNCHANGED <<page, leftover, broken>>

login(c)              == call[c].for = "login" /\ attachSession(c)
googleIdTokenLogin(c) == call[c].for = "google" /\ attachSession(c)

StoreAnswer(c, next) ==
    /\ At(c, "signedin")
    /\ cookie' = call[c].cookie
    /\ token' = call[c].as
    /\ Settle(c, next)
    /\ UNCHANGED <<booted, outbox, sessions, broken>>

\* login has the user in its answer.
LoggedIn(c) ==
    /\ call[c].for = "login"
    /\ user' = call[c].as
    /\ StoreAnswer(c, NoCall)

\* The others store the token and ask for the profile.
Finished(c) ==
    /\ call[c].for = "google"
    /\ user' = user
    /\ StoreAnswer(c, [call[c] EXCEPT !.pc = "sent"])

-----------------------------------------------------------------------------
(* Signing out *)

\* Offline the call is queued and the page signs out at once.
SignOut(c) ==
    /\ Free(c)
    /\ user # Nobody
    /\ call' = [call EXCEPT ![c] = Sent(c, "signout", "logout")]
    /\ UNCHANGED <<page, sessions, leftover, broken>>

\* Mutant: the user is no longer shown, and the token stays.
SignedOut_KeepToken(c, kept) ==
    /\ user' = Nobody
    /\ cookie' = IF kept THEN cookie ELSE 0
    /\ Settle(c, NoCall)
    /\ UNCHANGED <<token, booted>>

\* Whatever has come of the call; a failed one keeps the cookie.
SignedOut(c, kept) ==
    /\ token' = Nobody
    /\ user' = Nobody
    /\ cookie' = IF kept THEN cookie ELSE 0
    /\ Settle(c, NoCall)
    /\ UNCHANGED booted

\* logout: the cookie's row, and all rows of a token that is still accepted.
Revoked(c, all) ==
    [i \in DOMAIN sessions |->
        IF i = call[c].cookie \/ (all /\ sessions[i].user = call[c].as)
        THEN [sessions[i] EXCEPT !.live = FALSE] ELSE sessions[i]]

Revoke(c) ==
    /\ At(c, "signout")
    /\ \E all \in BOOLEAN : sessions' = Revoked(c, all)
    /\ Goto(c, "signedout")
    /\ UNCHANGED <<page, leftover, broken>>

LeavePage(c) ==
    /\ At(c, "signedout")
    /\ IF call[c].for = "logout" THEN SignedOut(c, FALSE)
       ELSE cookie' = 0 /\ End(c) /\ UNCHANGED <<token, user, booted, leftover>>
    /\ UNCHANGED <<outbox, sessions, broken>>

SignOutFails(c) ==
    /\ At(c, "signout")
    /\ call[c].for = "logout"
    /\ outbox' \in {outbox, TRUE}
    /\ SignedOut(c, TRUE)
    /\ UNCHANGED <<sessions, broken>>

\* The queue sends the sign-out with the token and the cookie of now, whoever is in.
Flush(c) ==
    /\ outbox
    /\ Free(c)
    /\ outbox' = FALSE
    /\ broken' = TRUE
    /\ call' = [call EXCEPT ![c] = Sent(c, "signout", "flush")]
    /\ UNCHANGED <<token, cookie, user, booted, sessions, leftover>>

-----------------------------------------------------------------------------
\* The call or its answer is lost.
Lost(c) ==
    /\ ~Free(c)
    /\ ~(call[c].for = "logout" /\ call[c].pc \in {"signout", "signedout"})
    /\ broken' = (broken \/ call[c].pc \in {"rotate", "persist", "renewed", "signedin"})
    /\ Throw(c)
    /\ UNCHANGED <<page, sessions>>

\* A statement of refresh fails: the answer is a refusal.
Fail(c) ==
    /\ call[c].pc \in {"rotate", "persist"}
    /\ broken' = TRUE
    /\ Goto(c, "denied")
    /\ UNCHANGED <<page, sessions, leftover>>

Next ==
    \/ Reload
    \/ \E c \in Calls :
           \/ Fetch(c) \/ Boot(c) \/ Accept(c) \/ Refuse(c) \/ RefuseAgain(c)
           \/ ShowProfile(c) \/ Unboot(c)
           \/ FindToken(c) \/ Rotate(c) \/ Persist(c) \/ RefreshFails(c) \/ Renew(c)
           \/ \E u \in People : LogIn(c, u) \/ finish(c, u)
           \/ login(c) \/ googleIdTokenLogin(c) \/ LoggedIn(c) \/ Finished(c)
           \/ SignOut(c) \/ Revoke(c) \/ LeavePage(c) \/ SignOutFails(c) \/ Flush(c)
           \/ Lost(c) \/ Fail(c)

Spec == Init /\ [][Next]_webVars

-----------------------------------------------------------------------------
(* What the code keeps true *)

Live(i) == i # 0 /\ sessions[i].live

\* Calls that are refused together and refresh with one cookie do not sign the user
\* out: whoever is shown as signed in holds a cookie that will be accepted, or a call
\* on its way brings one, unless a sign-out is on its way, an answer was lost, the
\* database failed in a refresh, or a queued sign-out was sent.
SessionKept ==
    \/ user = Nobody \/ broken \/ leftover
    \/ Live(cookie)
    \/ \E c \in Calls : call[c].pc \in {"persist", "renewed", "signedin", "signout", "signedout"}

\* The stored token is that of the user shown, and there is none when nobody is shown,
\* whatever fails and however signing in and out follow each other; but a call sent
\* before the last of them may still bring the token or the profile of the session it
\* was sent in, and a page that starts or signs in by Google shows the user later.
TokenFollowsUser ==
    \/ token \in {Nobody, user} \/ leftover \/ ~booted
    \/ \E c \in Calls : call[c].for \in {"boot", "start", "google"} \/ call[c].old
-----------------------------------------------------------------------------
(* The inductive invariant of SessionsProofs *)

Pcs == {"idle", "sent", "refresh", "rotate", "persist", "denied", "renewed", "again", "profile",
        "unbooted", "signin", "signedin", "signout", "signedout"}
Whose == People \cup {Nobody}

\* The browser's state and the calls have the fields they are declared with.
TypeOK ==
    /\ token \in Whose /\ user \in Whose
    /\ booted \in BOOLEAN /\ outbox \in BOOLEAN /\ leftover \in BOOLEAN /\ broken \in BOOLEAN
    /\ sessions \in Seq([user : Whose, live : BOOLEAN])
    /\ cookie \in 0..Len(sessions)
    /\ call \in [Calls -> [pc : Pcs, as : Whose, cookie : Nat, old : BOOLEAN,
                           for : {"data", "boot", "start", "login", "google", "logout", "flush"}]]
    /\ \A c \in Calls : call[c].cookie <= Len(sessions) /\ (At(c, "idle") => Free(c))

\* Which calls come where.
Paths ==
    \A c \in Calls :
        /\ call[c].pc \in {"signin", "signedin"} => call[c].for \in {"login", "google"}
        /\ call[c].for = "login" => call[c].pc \in {"signin", "signedin"}
        /\ ~Free(c) => (call[c].pc \in {"signout", "signedout"} <=> call[c].for \in {"logout", "flush"})
        /\ call[c].pc \in {"sent", "again", "profile"} => call[c].for # "start"
        /\ At(c, "profile") => call[c].for # "data" /\ call[c].as # Nobody
        /\ At(c, "unbooted") => call[c].for \in {"boot", "start"}
        /\ call[c].for = "flush" => broken
        /\ call[c].pc \in {"rotate", "persist"} => call[c].cookie # 0

\* A row that is on its way to the browser is known to nobody else, and of the right user.
Fresh ==
    \A c \in Calls :
        call[c].pc \in {"renewed", "signedin"} =>
            /\ call[c].cookie \notin {0, cookie}
            /\ \A d \in Calls \ {c} : call[d].cookie # call[c].cookie
            /\ sessions[call[c].cookie].user = call[c].as
            /\ \/ call[c].old \/ broken \/ Live(call[c].cookie)
               \/ \E d \in Calls : At(d, "signedout")

\* A cookie that will be accepted, or one on its way, or nothing is promised.
Kept ==
    \/ broken \/ leftover \/ Live(cookie)
    \/ \E c \in Calls : call[c].pc \in {"persist", "renewed", "signedout"}

\* Calls that begin a session, or begin with one, and may yet show its user.
Stage(c) ==
    /\ ~Free(c) /\ ~call[c].old
    /\ \/ call[c].for \in {"boot", "start"}
       \/ call[c].for = "google" /\ call[c].pc \notin {"signin", "signedin"}

\* Who is signed in, or will be, can go on with the session.
Going ==
    /\ user # Nobody \/ token # Nobody => Kept
    /\ \A c \in Calls : Stage(c) /\ call[c].for # "start" => Kept

\* A row is u's, or there is none.
IsOf(i, u) == i = 0 \/ sessions[i].user = u

\* The session is u's: so are the token, the cookie and what data is asked with.
All(u) ==
    /\ token \in {Nobody, u}
    /\ IsOf(cookie, u)
    /\ \A c \in Calls : call[c].for = "data" /\ ~Free(c) /\ ~call[c].old => IsOf(call[c].cookie, u)

\* One session at a time: the user's, or that of the only call that begins one.
OneSession ==
    /\ token # Nobody => IsOf(cookie, token)
    /\ ~booted => user = Nobody /\ \A c \in Calls : Free(c) \/ call[c].for = "flush"
    /\ \A c, d \in Calls : Stage(c) /\ Stage(d) => c = d
    /\ leftover
       \/ /\ (\A c \in Calls : ~Stage(c)) /\ booted =>
                 IF user = Nobody THEN token = Nobody /\ \A c \in Calls : call[c].for # "data" \/ Free(c) \/ call[c].old
                 ELSE All(user)
          /\ \A c \in Calls :
                 Stage(c) =>
                     IF call[c].for = "start" THEN token = Nobody ELSE All(call[c].as) /\ IsOf(call[c].cookie, call[c].as)
          /\ \A c \in Calls :
                 Stage(c) /\ call[c].for # "google" =>
                     user = Nobody /\ \A d \in Calls : call[d].for # "data" \/ Free(d) \/ call[d].old

WebInv == TypeOK /\ Paths /\ Fresh /\ Going /\ OneSession
=============================================================================
