------------------------------ MODULE Outreach ------------------------------
(***************************************************************************)
(* The mail that brings users back: sendReminders of                       *)
(* services/courseService.ts, for enrollments that are not finished, and   *)
(* runDigests and sendMyDigest of services/communityService.ts, for those  *)
(* who have not declined it on pages/ProfilePage.tsx.  An administrator    *)
(* starts either, as often as he likes; each reads a list and then works   *)
(* through it, one user at a time.                                         *)
(***************************************************************************)
EXTENDS Integers

CONSTANTS
    Users,     \* with one enrollment each
    Runs,      \* runs in progress at once (a bound)
    MaxTold    \* reminders of one user (a bound)

VARIABLES
    optIn,     \* User.digestOptIn
    reminded,  \* CourseEnrollment.reminderSentAt is set
    told,      \* REMINDER notifications of a user
    runs,      \* the runs in progress
    twice,     \* history: reminded by a run that failed then, or by two at once
    firm,      \* history: declined the digest when none was being mailed to them
    spurned    \* history: mailed one all the same

reachVars == <<optIn, reminded, told, runs, twice, firm, spurned>>

NoUser == "nobody"

\* A run: what it does, the users of its list, the one it is at, and those whom another
\* run has reminded since.
NoRun == [pc |-> "idle", left |-> {}, at |-> NoUser, known |-> {}]
At(pc, u) == {r \in Runs : runs[r].pc = pc /\ runs[r].at = u}

Init ==
    /\ optIn = [u \in Users |-> TRUE]
    /\ reminded = {}
    /\ told = [u \in Users |-> 0]
    /\ runs = [r \in Runs |-> NoRun]
    /\ twice = {} /\ firm = {} /\ spurned = {}

-----------------------------------------------------------------------------
(* The profile *)

\* onSave, and updateProfile: the digest box is saved with the rest, and is ticked
\* whenever the form opens, whatever was saved.
Accept(u) ==
    /\ optIn' = [optIn EXCEPT ![u] = TRUE]
    /\ firm' = firm \ {u}
    /\ UNCHANGED <<reminded, told, runs, twice, spurned>>

Decline(u) ==
    /\ optIn' = [optIn EXCEPT ![u] = FALSE]
    /\ firm' = IF At("mail", u) = {} THEN firm \cup {u} ELSE firm
    /\ UNCHANGED <<reminded, told, runs, twice, spurned>>

-----------------------------------------------------------------------------
(* Reminders *)

\* Mutant: those who were reminded are not left out.
Stale_Again == Users

\* The enrollments to remind of: any that was not, as it may be three days old and
\* unfinished.
Stale == Users \ reminded

\* A run takes some of them, fifty at most.
Remind(r, list) ==
    /\ runs[r].pc = "idle"
    /\ list \subseteq Stale
    /\ runs' = [runs EXCEPT ![r] = [NoRun EXCEPT !.pc = "tell", !.left = list,
                                                 !.known = {u \in list : At("stamp", u) # {}}]]
    /\ UNCHANGED <<optIn, reminded, told, twice, firm, spurned>>

\* The other runs that have this user on their list.
Known(r, u) ==
    [s \in Runs |-> IF s # r /\ u \in runs[s].left THEN [runs[s] EXCEPT !.known = @ \cup {u}] ELSE runs[s]]

\* notify stores the notification; a push or a mail that fails is passed over.
Tell(r, u) ==
    /\ runs[r].pc = "tell" /\ u \in runs[r].left
    /\ told[u] < MaxTold
    /\ told' = [told EXCEPT ![u] = @ + 1]
    /\ twice' = IF u \in runs[r].known THEN twice \cup {u} ELSE twice
    /\ runs' = [Known(r, u) EXCEPT ![r].pc = "stamp", ![r].at = u, ![r].left = @ \ {u}]
    /\ UNCHANGED <<optIn, reminded, firm, spurned>>

Stamp(r) ==
    /\ runs[r].pc = "stamp"
    /\ reminded' = reminded \cup {runs[r].at}
    /\ runs' = [runs EXCEPT ![r].pc = "tell", ![r].at = NoUser]
    /\ UNCHANGED <<optIn, told, twice, firm, spurned>>

-----------------------------------------------------------------------------
(* Digests *)

\* runDigests takes some of those who have not declined, two hundred at most.
RunDigests(r, list) ==
    /\ runs[r].pc = "idle"
    /\ list \subseteq {u \in Users : optIn[u]}
    /\ runs' = [runs EXCEPT ![r] = [NoRun EXCEPT !.pc = "look", !.left = list]]
    /\ UNCHANGED <<optIn, reminded, told, twice, firm, spurned>>

\* A user asks for his own.
DigestMe(r, u) ==
    /\ runs[r].pc = "idle"
    /\ runs' = [runs EXCEPT ![r] = [NoRun EXCEPT !.pc = "look", !.left = {u}]]
    /\ UNCHANGED <<optIn, reminded, told, twice, firm, spurned>>

\* Mutant: the list of the run is taken at its word.
Look_Not(r, u) ==
    /\ runs[r].pc = "look" /\ u \in runs[r].left
    /\ runs' = [runs EXCEPT ![r].left = @ \ {u}, ![r].pc = "mail", ![r].at = u]
    /\ UNCHANGED <<optIn, reminded, told, twice, firm, spurned>>

\* sendMyDigest reads the user again.
Look(r, u) ==
    /\ runs[r].pc = "look" /\ u \in runs[r].left
    /\ runs' = IF optIn[u] THEN [runs EXCEPT ![r].left = @ \ {u}, ![r].pc = "mail", ![r].at = u]
                           ELSE [runs EXCEPT ![r].left = @ \ {u}]
    /\ UNCHANGED <<optIn, reminded, told, twice, firm, spurned>>

Mail(r) ==
    /\ runs[r].pc = "mail"
    /\ spurned' = spurned \cup ({runs[r].at} \cap firm)
    /\ runs' = [runs EXCEPT ![r].pc = "look", ![r].at = NoUser]
    /\ UNCHANGED <<optIn, reminded, told, twice, firm>>

\* The list is done.
Done(r) ==
    /\ runs[r].pc \in {"tell", "look"} /\ runs[r].left = {}
    /\ runs' = [runs EXCEPT ![r] = NoRun]
    /\ UNCHANGED <<optIn, reminded, told, twice, firm, spurned>>

\* A statement fails, or the mail of a digest, or the process ends: the rest of the
\* list is left, and who was reminded and not stamped is stale for the next run.
Fail(r) ==
    /\ runs[r].pc # "idle"
    /\ twice' = IF runs[r].pc = "stamp" THEN twice \cup {runs[r].at} ELSE twice
    /\ runs' = [runs EXCEPT ![r] = NoRun]
    /\ UNCHANGED <<optIn, reminded, told, firm, spurned>>

-----------------------------------------------------------------------------
Next ==
    \/ \E u \in Users : Accept(u) \/ Decline(u)
    \/ \E r \in Runs :
           \/ \E list \in SUBSET Users : Remind(r, list) \/ RunDigests(r, list)
           \/ \E u \in Users : DigestMe(r, u) \/ Tell(r, u) \/ Look(r, u)
           \/ Stamp(r) \/ Mail(r) \/ Done(r) \/ Fail(r)

Spec == Init /\ [][Next]_reachVars

-----------------------------------------------------------------------------
(* What the code keeps true *)

\* A user is reminded of a course once, but for two runs at once and one that failed
\* before it noted it; nobody is noted who was not; and who has saved the profile
\* without the digest, while none was being mailed, is mailed none until he saves it
\* with the digest.
MailIsWanted ==
    /\ \A u \in Users : told[u] > 1 => u \in twice
    /\ \A u \in reminded : told[u] > 0
    /\ spurned = {}

-----------------------------------------------------------------------------
(* The inductive invariant of SessionsProofs *)

Run == [pc : {"idle", "tell", "stamp", "look", "mail"}, left : SUBSET Users, at : Users \cup {NoUser},
        known : SUBSET Users]

TypeOK ==
    /\ optIn \in [Users -> BOOLEAN]
    /\ reminded \subseteq Users
    /\ told \in [Users -> Int]
    /\ runs \in [Runs -> Run]
    /\ twice \subseteq Users /\ firm \subseteq Users

\* Who was told is noted, or is about to be, or his run failed; those on the list of a
\* run have not been told, but by another that is known; a digest is mailed to who has
\* not declined it by then, or was mailed as he did.
RunIsSound(q) ==
    /\ q.pc = "tell" => \A u \in q.left : told[u] = 0 \/ u \in q.known \cup twice
    /\ q.pc = "stamp" => /\ q.at \in Users /\ told[q.at] > 0
                         /\ \A u \in q.left : told[u] = 0 \/ u \in q.known \cup twice
    /\ q.pc = "mail" => q.at \in Users /\ q.at \notin firm

OutreachInv ==
    /\ TypeOK
    /\ \A r \in Runs : RunIsSound(runs[r])
    /\ \A u \in Users : told[u] >= 0 /\ (told[u] > 0 => u \in reminded \cup twice \/ At("stamp", u) # {})
    /\ firm \cap {u \in Users : optIn[u]} = {}
    /\ MailIsWanted
=============================================================================
